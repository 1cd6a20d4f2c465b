---------------------------- MODULE TwoPassProofs ----------------------------
(* Theorems about TwoPass, for every statement, table, verdict and budget:  *)
(* what is judged, how much of it, what --explain says of that, and, of the *)
(* statements of which every row is a line, that the rows are Postgres'.    *)
EXTENDS TwoPass, FiniteSetTheorems, WellFoundedInduction, TLAPS

\* The well-ordering of the numbers, and induction as a fact about their sets.
LEMMA LeastOne ==
  ASSUME NEW T \in SUBSET Nat, T # {}
  PROVE  \E x \in T : \A y \in T : x <= y
<1> DEFINE R == {ss \in Nat \X Nat : ss[1] < ss[2]}
<1>1. IsWellFoundedOn(R, Nat)
  BY NatLessThanWellFounded DEF OpToRel
<1>2. PICK x \in T : \A y \in T : ~(<<y, x>> \in R)
  <2>1. T \subseteq Nat
    OBVIOUS
  <2> HIDE DEF R
  <2> QED BY <1>1, <2>1, WFMin
<1>3. ASSUME NEW y \in T PROVE x <= y
  <2>1. y < x => <<y, x>> \in R
    OBVIOUS
  <2> QED BY <1>2, <2>1
<1> QED BY <1>3

LEMMA Induct ==
  ASSUME NEW P \in SUBSET Nat, 0 \in P, \A n \in P : n + 1 \in P
  PROVE  P = Nat
<1> SUFFICES ASSUME Nat \ P # {} PROVE FALSE
  OBVIOUS
<1>1. PICK x \in Nat \ P : \A y \in Nat \ P : x <= y
  <2>1. Nat \ P \in SUBSET Nat
    OBVIOUS
  <2> QED BY <2>1, LeastOne
<1>2. x - 1 \in Nat
  OBVIOUS
<1>3. x - 1 \in P
  BY <1>1, <1>2
<1>4. (x - 1) + 1 \in P
  BY <1>3
<1> QED BY <1>4

\* The function FlattenSeq is defined by exists.
IsFlatten(f, ss, n) ==
  f = [i \in 1 .. n |-> IF i = 1 THEN ss[i] ELSE f[i - 1] \o ss[i]]

LEMMA FlattenExists ==
  ASSUME NEW ss, NEW n \in Nat
  PROVE  \E f : IsFlatten(f, ss, n)
<1> DEFINE P == {m \in Nat : \E f : IsFlatten(f, ss, m)}
<1>1. 0 \in P
  <2>1. IsFlatten([i \in 1 .. 0 |-> {}], ss, 0)
    BY DEF IsFlatten
  <2> QED BY <2>1
<1>2. ASSUME NEW m \in P PROVE m + 1 \in P
  <2>1. PICK f : IsFlatten(f, ss, m)
    OBVIOUS
  <2> DEFINE g == [i \in 1 .. m + 1 |-> IF i = 1 THEN ss[i] ELSE f[i - 1] \o ss[i]]
  <2>2. m \in Nat
    OBVIOUS
  <2>3. ASSUME NEW i \in 1 .. m + 1, i # 1 PROVE g[i - 1] = f[i - 1]
    <3>1. i - 1 \in 1 .. m /\ i - 1 \in 1 .. m + 1
      BY <2>2, <2>3
    <3>2. f[i - 1] = IF i - 1 = 1 THEN ss[i - 1] ELSE f[(i - 1) - 1] \o ss[i - 1]
      BY <2>1, <3>1 DEF IsFlatten
    <3> QED BY <3>1, <3>2
  <2>5. g = [i \in 1 .. m + 1 |-> IF i = 1 THEN ss[i] ELSE g[i - 1] \o ss[i]]
    BY <2>3
  <2>4. IsFlatten(g, ss, m + 1)
    BY <2>5 DEF IsFlatten
  <2> QED BY <2>4
<1>3. P = Nat
  <2> HIDE DEF P
  <2>1. P \in SUBSET Nat
    BY DEF P
  <2> QED BY <1>1, <1>2, <2>1, Induct
<1> QED BY <1>3

LEMMA FlattenDef ==
  ASSUME NEW ss, NEW n \in Nat \ {0}, Len(ss) = n
  PROVE  \E f : IsFlatten(f, ss, n) /\ FlattenSeq(ss) = f[n]
<1> DEFINE F == CHOOSE f : IsFlatten(f, ss, n)
<1>1. IsFlatten(F, ss, n)
  BY FlattenExists
<1>2. FlattenSeq(ss) = F[n]
  BY DEF FlattenSeq, IsFlatten
<1> QED BY <1>1, <1>2

\* Where the pieces begin: at[i] elements come before piece i.
Places(at, ss, n) ==
  /\ at \in [1 .. n + 1 -> Nat] /\ at[1] = 0
  /\ \A i \in 1 .. n : at[i + 1] = at[i] + Len(ss[i])

Laid(whole, at, ss, n) ==
  /\ Len(whole) = at[n + 1]
  /\ \A i \in 1 .. n : \A c \in 1 .. Len(ss[i]) :
       at[i] + c \in 1 .. Len(whole) /\ whole[at[i] + c] = ss[i][c]

\* One more piece.
LEMMA LaidOneMore ==
  ASSUME NEW S, NEW n \in Nat, NEW m \in Nat, m + 1 <= n, NEW ss \in [1 .. n -> Seq(S)], NEW at,
         Places(at, ss, n), NEW whole \in Seq(S), Laid(whole, at, ss, m)
  PROVE  whole \o ss[m + 1] \in Seq(S) /\ Laid(whole \o ss[m + 1], at, ss, m + 1)
<1> DEFINE w == whole \o ss[m + 1]
<1>1. m + 1 \in 1 .. n /\ ss[m + 1] \in Seq(S)
  OBVIOUS
<1>2. /\ w \in Seq(S) /\ Len(w) = Len(whole) + Len(ss[m + 1])
      /\ \A c \in 1 .. Len(whole) : w[c] = whole[c]
      /\ \A c \in 1 .. Len(ss[m + 1]) : w[Len(whole) + c] = ss[m + 1][c]
  BY <1>1
<1>3. at[(m + 1) + 1] = at[m + 1] + Len(ss[m + 1]) /\ Len(whole) = at[m + 1]
  BY <1>1 DEF Places, Laid
<1>4. Len(whole) \in Nat /\ Len(ss[m + 1]) \in Nat
  BY <1>1
<1> HIDE DEF w
<1>5. ASSUME NEW i \in 1 .. m + 1, NEW c \in 1 .. Len(ss[i])
      PROVE  at[i] + c \in 1 .. Len(w) /\ w[at[i] + c] = ss[i][c]
  <2>1. CASE i = m + 1
    BY SMTT(30), <1>2, <1>3, <1>4, <2>1
  <2>2. CASE i \in 1 .. m
    <3>1. at[i] + c \in 1 .. Len(whole) /\ whole[at[i] + c] = ss[i][c]
      BY <2>2 DEF Laid
    <3> QED BY SMTT(30), <1>2, <1>4, <3>1
  <2> QED BY <2>1, <2>2
<1>6. Laid(w, at, ss, m + 1)
  BY <1>2, <1>3, <1>5 DEF Laid
<1> QED BY <1>2, <1>6 DEF w

\* The concatenations of the first pieces.
Joins(f, ss, n, S) ==
  /\ FlattenSeq(ss) = f[n] /\ f[1] = ss[1]
  /\ \A m \in 1 .. n - 1 : f[m + 1] = f[m] \o ss[m + 1]
  /\ \A m \in 1 .. n : f[m] \in Seq(S)

LEMMA FlattenSteps ==
  ASSUME NEW S, NEW n \in Nat, n # 0, NEW ss \in [1 .. n -> Seq(S)]
  PROVE  \E f : Joins(f, ss, n, S)
<1>5. n \in Nat \ {0} /\ Len(ss) = n
  OBVIOUS
<1>1. PICK f : IsFlatten(f, ss, n) /\ FlattenSeq(ss) = f[n]
  BY <1>5, FlattenDef
<1>2. f[1] = ss[1] /\ \A m \in 1 .. n - 1 : f[m + 1] = f[m] \o ss[m + 1]
  <2>1. 1 \in 1 .. n
    OBVIOUS
  <2>2. \A m \in 1 .. n - 1 : m + 1 \in 1 .. n /\ m + 1 # 1 /\ (m + 1) - 1 = m
    OBVIOUS
  <2> QED BY <1>1, <2>1, <2>2 DEF IsFlatten
<1>3. \A m \in 1 .. n : f[m] \in Seq(S)
  <2> DEFINE P == {m \in Nat : m + 1 <= n => f[m + 1] \in Seq(S)}
  <2>1. 0 \in P
    BY <1>2
  <2>2. ASSUME NEW m \in P PROVE m + 1 \in P
    <3>1. SUFFICES ASSUME (m + 1) + 1 <= n PROVE f[(m + 1) + 1] \in Seq(S)
      OBVIOUS
    <3>2. m + 1 \in 1 .. n - 1 /\ f[m + 1] \in Seq(S) /\ ss[(m + 1) + 1] \in Seq(S)
      BY <3>1
    <3>3. f[(m + 1) + 1] = f[m + 1] \o ss[(m + 1) + 1]
      BY <1>2, <3>2
    <3> QED BY <3>2, <3>3
  <2>3. P = Nat
    <3>1. P \in SUBSET Nat
      OBVIOUS
    <3> HIDE DEF P
    <3> QED BY <2>1, <2>2, <3>1, Induct
  <2>4. ASSUME NEW m \in 1 .. n PROVE f[m] \in Seq(S)
    <3>1. \A k \in Nat : k + 1 <= n => f[k + 1] \in Seq(S)
      BY <2>3
    <3>2. m - 1 \in Nat /\ (m - 1) + 1 = m
      OBVIOUS
    <3>3. (m - 1) + 1 <= n => f[(m - 1) + 1] \in Seq(S)
      BY <3>1, <3>2, Zenon
    <3> QED BY <3>2, <3>3
  <2> QED BY <2>4
<1> QED BY <1>1, <1>2, <1>3 DEF Joins

LEMMA FlattenLaid ==
  ASSUME NEW S, NEW n \in Nat, NEW ss \in [1 .. n -> Seq(S)]
  PROVE  /\ FlattenSeq(ss) \in Seq(S)
         /\ \E at : Places(at, ss, n) /\ Laid(FlattenSeq(ss), at, ss, n)
<1>1. ss \in Seq(Seq(S)) /\ Len(ss) = n
  OBVIOUS
<1>2. CASE n = 0
  <2>1. FlattenSeq(ss) = ss /\ ss = <<>>
    BY <1>1, <1>2 DEF FlattenSeq
  <2>2. PICK at : at = [i \in 1 .. 1 |-> 0]
    OBVIOUS
  <2>3. at \in [1 .. n + 1 -> Nat] /\ at[1] = 0 /\ at[n + 1] = 0 /\ 1 .. n = {}
    BY <1>2, <2>2
  <2>4. Places(at, ss, n) /\ Laid(FlattenSeq(ss), at, ss, n)
    BY <2>1, <2>3 DEF Places, Laid
  <2> QED BY <2>1, <2>4
<1>3. CASE n # 0
  <2>1. PICK f : Joins(f, ss, n, S)
    BY <1>3, FlattenSteps
  <2>2. f[1] = ss[1] /\ \A m \in 1 .. n - 1 : f[m + 1] = f[m] \o ss[m + 1]
    BY <2>1 DEF Joins
  <2>3. FlattenSeq(ss) = f[n] /\ \A m \in 1 .. n : f[m] \in Seq(S)
    BY <2>1 DEF Joins
  <2>4. PICK at : at = [i \in 1 .. n + 1 |-> IF i = 1 THEN 0 ELSE Len(f[i - 1])]
    OBVIOUS
  <2>5. at[1] = 0 /\ \A i \in 1 .. n : at[i + 1] = Len(f[i]) /\ at[i + 1] \in Nat
    BY <2>3, <2>4
  <2>6. Places(at, ss, n)
    <3>1. at \in [1 .. n + 1 -> Nat]
      BY <2>3, <2>4
    <3>2. ASSUME NEW i \in 1 .. n PROVE at[i + 1] = at[i] + Len(ss[i])
      <4>1. CASE i = 1
        BY <2>2, <2>5, <4>1
      <4>2. CASE i # 1
        <5>1. i - 1 \in 1 .. n - 1 /\ (i - 1) + 1 = i /\ i - 1 \in 1 .. n
          BY <4>2
        <5>2. f[i] = f[i - 1] \o ss[i] /\ at[i] = Len(f[i - 1]) /\ at[i + 1] = Len(f[i])
          BY <2>2, <2>5, <5>1
        <5>3. f[i - 1] \in Seq(S) /\ ss[i] \in Seq(S)
          BY <2>3, <5>1
        <5> QED BY <5>2, <5>3
      <4> QED BY <4>1, <4>2
    <3> QED BY <2>5, <3>1, <3>2 DEF Places
  <2>7. Laid(f[n], at, ss, n)
    <3> DEFINE P == {m \in Nat : m + 1 <= n => Laid(f[m + 1], at, ss, m + 1)}
    <3>1. 0 \in P
      <4>1. 1 \in 1 .. n /\ f[1] = ss[1] /\ at[1] = 0 /\ at[2] = Len(ss[1]) /\ ss[1] \in Seq(S)
        BY <1>3, <2>2, <2>5
      <4>2. Laid(f[1], at, ss, 1)
        BY <4>1 DEF Laid
      <4> QED BY <4>2
    <3>2. ASSUME NEW m \in P PROVE m + 1 \in P
      <4>1. SUFFICES ASSUME (m + 1) + 1 <= n PROVE Laid(f[(m + 1) + 1], at, ss, (m + 1) + 1)
        OBVIOUS
      <4>2. m + 1 \in 1 .. n - 1 /\ m + 1 \in 1 .. n /\ m + 1 \in Nat /\ Laid(f[m + 1], at, ss, m + 1)
        BY <4>1
      <4>3. f[(m + 1) + 1] = f[m + 1] \o ss[(m + 1) + 1] /\ f[m + 1] \in Seq(S)
        BY <2>2, <2>3, <4>2
      <4>4. PICK k : k = m + 1
        OBVIOUS
      <4>5. PICK w : w = f[k]
        OBVIOUS
      <4>6. k \in Nat /\ k + 1 <= n /\ w \in Seq(S) /\ Laid(w, at, ss, k)
        BY <4>1, <4>2, <4>3, <4>4, <4>5
      <4>7. Laid(w \o ss[k + 1], at, ss, k + 1)
        BY <2>6, <4>6, LaidOneMore
      <4> QED BY <4>3, <4>4, <4>5, <4>7
    <3>3. P = Nat
      <4>1. P \in SUBSET Nat
        OBVIOUS
      <4> HIDE DEF P
      <4> QED BY <3>1, <3>2, <4>1, Induct
    <3>4. \A k \in Nat : k + 1 <= n => Laid(f[k + 1], at, ss, k + 1)
      BY <3>3
    <3>5. n - 1 \in Nat /\ (n - 1) + 1 = n
      BY <1>3
    <3>6. (n - 1) + 1 <= n => Laid(f[(n - 1) + 1], at, ss, (n - 1) + 1)
      BY <3>4, <3>5, Zenon
    <3> QED BY <3>5, <3>6
  <2>8. FlattenSeq(ss) \in Seq(S)
    BY <1>3, <2>3
  <2> QED BY <2>3, <2>6, <2>7, <2>8
<1> QED BY <1>2, <1>3

\* What a function makes of the elements of a sequence.
Mapped(s, v) == [c \in DOMAIN s |-> v[s[c]]]

MappedApart(v, a, b) == Mapped(a \o b, v) = Mapped(a, v) \o Mapped(b, v)

LEMMA MappedJoin ==
  ASSUME NEW S, NEW T, NEW v \in [S -> T], NEW a \in Seq(S), NEW b \in Seq(S)
  PROVE  MappedApart(v, a, b)
<1>1. PICK x \in Seq(T), y \in Seq(T) : x = Mapped(a, v) /\ y = Mapped(b, v)
  <2>1. \A s \in Seq(S) : Mapped(s, v) \in Seq(T)
    <3>1. ASSUME NEW s \in Seq(S) PROVE Mapped(s, v) \in Seq(T)
      <4>1. \A c \in 1 .. Len(s) : s[c] \in S
        OBVIOUS
      <4>2. DOMAIN s = 1 .. Len(s) /\ Len(s) \in Nat
        OBVIOUS
      <4>3. Mapped(s, v) = [c \in 1 .. Len(s) |-> v[s[c]]]
        BY <4>2 DEF Mapped
      <4>4. [c \in 1 .. Len(s) |-> v[s[c]]] \in [1 .. Len(s) -> T]
        BY <4>1
      <4> QED BY <4>2, <4>3, <4>4
    <3> QED BY <3>1
  <2> QED BY <2>1
<1>2. Len(x) = Len(a) /\ Len(y) = Len(b)
  BY <1>1 DEF Mapped
<1>3. /\ \A c \in 1 .. Len(a) : x[c] = v[a[c]]
      /\ \A c \in 1 .. Len(b) : y[c] = v[b[c]]
  BY <1>1 DEF Mapped
<1>4. PICK z \in Seq(S) : z = a \o b /\ Len(z) = Len(a) + Len(b)
  <2>1. a \o b \in Seq(S) /\ Len(a \o b) = Len(a) + Len(b)
    OBVIOUS
  <2> QED BY <2>1
<1>5. PICK w \in Seq(T) : w = x \o y /\ Len(w) = Len(a) + Len(b)
  <2>1. x \o y \in Seq(T) /\ Len(x \o y) = Len(x) + Len(y)
    OBVIOUS
  <2> QED BY <1>2, <2>1
<1>6. ASSUME NEW c \in 1 .. Len(a) + Len(b) PROVE w[c] = v[z[c]]
  <2>1. CASE c <= Len(a)
    <3>1. c \in 1 .. Len(a)
      BY <2>1
    <3>2. w[c] = x[c] /\ z[c] = a[c]
      BY <1>2, <1>4, <1>5, <3>1
    <3> QED BY <1>3, <3>1, <3>2
  <2>2. CASE c > Len(a)
    <3>1. PICK d \in 1 .. Len(b) : d = c - Len(a) /\ c = Len(a) + d
      <4>1. c - Len(a) \in 1 .. Len(b) /\ c = Len(a) + (c - Len(a))
        BY <2>2
      <4> QED BY <4>1
    <3>2. z[c] = b[d]
      BY <1>4, <2>2, <3>1
    <3>3. w[c] = y[d]
      BY <1>2, <1>5, <2>2, <3>1
    <3> QED BY <1>3, <3>2, <3>3
  <2>3. c <= Len(a) \/ c > Len(a)
    OBVIOUS
  <2> QED BY <2>1, <2>2, <2>3
<1>7. Mapped(z, v) = w
  <2>1. DOMAIN z = 1 .. Len(a) + Len(b) /\ DOMAIN w = 1 .. Len(a) + Len(b)
    BY <1>4, <1>5
  <2>2. w = [c \in DOMAIN z |-> w[c]]
    BY <2>1
  <2> QED BY <1>6, <2>1, <2>2 DEF Mapped
<1> QED BY <1>1, <1>4, <1>5, <1>7 DEF MappedApart

\* Concatenating and mapping may change places.
MapsEach(tt, T, ss, S, v, n) ==
  /\ v \in [S -> T] /\ ss \in [1 .. n -> Seq(S)] /\ tt \in [1 .. n -> Seq(T)]
  /\ \A i \in 1 .. n : tt[i] = Mapped(ss[i], v)

LEMMA FlattenMap ==
  ASSUME NEW S, NEW T, NEW v, NEW n \in Nat, NEW ss, NEW tt, MapsEach(tt, T, ss, S, v, n)
  PROVE  FlattenSeq(tt) = Mapped(FlattenSeq(ss), v)
<1> SUFFICES ASSUME v \in [S -> T], ss \in [1 .. n -> Seq(S)], tt \in [1 .. n -> Seq(T)],
                    \A i \in 1 .. n : tt[i] = Mapped(ss[i], v)
             PROVE  FlattenSeq(tt) = Mapped(FlattenSeq(ss), v)
  BY DEF MapsEach
<1>1. CASE n = 0
  <2>1. Len(ss) = 0 /\ Len(tt) = 0 /\ ss = <<>> /\ tt = <<>>
    BY <1>1
  <2>2. FlattenSeq(ss) = <<>> /\ FlattenSeq(tt) = <<>>
    BY <2>1 DEF FlattenSeq
  <2>3. Mapped(<<>>, v) = <<>>
    BY DEF Mapped
  <2> QED BY <2>2, <2>3
<1>2. CASE n # 0
  <2>1. PICK f : Joins(f, ss, n, S)
    BY <1>2, FlattenSteps
  <2>2. PICK g : Joins(g, tt, n, T)
    BY <1>2, FlattenSteps
  <2> DEFINE P == {m \in Nat : m + 1 <= n => g[m + 1] = Mapped(f[m + 1], v)}
  <2>3. 0 \in P
    <3>1. 1 \in 1 .. n
      BY <1>2
    <3> QED BY <2>1, <2>2, <3>1 DEF Joins
  <2>4. ASSUME NEW m \in P PROVE m + 1 \in P
    <3>1. SUFFICES ASSUME (m + 1) + 1 <= n PROVE g[(m + 1) + 1] = Mapped(f[(m + 1) + 1], v)
      OBVIOUS
    <3>2. PICK k \in Nat : k = m + 1
      OBVIOUS
    <3>3. k \in 1 .. n - 1 /\ k \in 1 .. n /\ k + 1 \in 1 .. n /\ g[k] = Mapped(f[k], v)
      BY <3>1, <3>2
    <3>4. f[k + 1] = f[k] \o ss[k + 1] /\ g[k + 1] = g[k] \o tt[k + 1]
      BY <2>1, <2>2, <3>3 DEF Joins
    <3>5. PICK a \in Seq(S), b \in Seq(S) : a = f[k] /\ b = ss[k + 1]
      BY <2>1, <3>3 DEF Joins
    <3>6. Mapped(a \o b, v) = Mapped(a, v) \o Mapped(b, v)
      <4>1. v \in [S -> T] /\ a \in Seq(S) /\ b \in Seq(S)
        OBVIOUS
      <4>2. MappedApart(v, a, b)
        BY <4>1, MappedJoin
      <4> QED BY <4>2 DEF MappedApart
    <3>7. g[k] = Mapped(a, v) /\ tt[k + 1] = Mapped(b, v)
      BY <3>3, <3>5
    <3>8. g[k + 1] = Mapped(f[k + 1], v)
      BY <3>4, <3>5, <3>6, <3>7
    <3> QED BY <3>2, <3>8
  <2>5. P = Nat
    <3>1. P \in SUBSET Nat
      OBVIOUS
    <3> HIDE DEF P
    <3> QED BY <2>3, <2>4, <3>1, Induct
  <2>6. PICK m \in Nat : m + 1 = n
    <3>1. n - 1 \in Nat /\ (n - 1) + 1 = n
      BY <1>2
    <3> QED BY <3>1
  <2>7. g[m + 1] = Mapped(f[m + 1], v)
    <3>1. \A k \in Nat : k + 1 <= n => g[k + 1] = Mapped(f[k + 1], v)
      BY <2>5
    <3>2. m + 1 <= n
      BY <2>6
    <3> QED BY <3>1, <3>2
  <2> QED BY <2>1, <2>2, <2>6, <2>7 DEF Joins
<1> QED BY <1>1, <1>2

\* The places of the first pieces do not depend on the others.
LEMMA SamePlaces ==
  ASSUME NEW n \in Nat, NEW m \in Nat, m <= n, NEW ss, NEW tt, NEW at, NEW bt,
         Places(at, ss, n), Places(bt, tt, m), \A i \in 1 .. m : tt[i] = ss[i]
  PROVE  bt[m + 1] = at[m + 1]
<1> DEFINE P == {k \in Nat : k <= m => bt[k + 1] = at[k + 1]}
<1>1. 0 \in P
  BY DEF Places
<1>2. ASSUME NEW k \in P PROVE k + 1 \in P
  <2>1. SUFFICES ASSUME k + 1 <= m PROVE bt[(k + 1) + 1] = at[(k + 1) + 1]
    OBVIOUS
  <2>2. k + 1 \in 1 .. m /\ k + 1 \in 1 .. n /\ bt[k + 1] = at[k + 1]
    BY <2>1
  <2> QED BY <2>2 DEF Places
<1>3. P = Nat
  <2>1. P \in SUBSET Nat
    OBVIOUS
  <2> HIDE DEF P
  <2> QED BY <1>1, <1>2, <2>1, Induct
<1> QED BY <1>3
-----------------------------------------------------------------------------
(* The sources of the calls and the columns collected for them.             *)

ArgNames == {"t", "a", "b"}

LEMMA SourcesOf ==
  ASSUME NEW n \in Nat, NEW calls, DOMAIN calls = 1 .. n,
         \A i \in 1 .. n : calls[i].arg \in ArgNames
  PROVE  /\ Sources(calls) \in Seq(ArgNames)
         /\ \A i \in 1 .. n : \E k \in 1 .. Len(Sources(calls)) : Sources(calls)[k] = calls[i].arg
<1> DEFINE ss == [i \in 1 .. n |->
             IF \E j \in 1 .. i - 1 : calls[j].arg = calls[i].arg THEN <<>> ELSE <<calls[i].arg>>]
<1>1. ss \in [1 .. n -> Seq(ArgNames)]
  OBVIOUS
<1>2. Sources(calls) = FlattenSeq(ss)
  BY DEF Sources
<1>3. ASSUME NEW i \in 1 .. n
      PROVE  \E j \in 1 .. n : ss[j] = <<calls[i].arg>>
  <2> DEFINE T == {j \in 1 .. n : calls[j].arg = calls[i].arg}
  <2>1. T \in SUBSET Nat /\ T # {}
    OBVIOUS
  <2>2. PICK j \in T : \A y \in T : j <= y
    <3> HIDE DEF T
    <3> QED BY <2>1, LeastOne
  <2>3. ~\E k \in 1 .. j - 1 : calls[k].arg = calls[j].arg
    BY <2>2
  <2> QED BY <2>2, <2>3
<1> HIDE DEF ss
<1>4. FlattenSeq(ss) \in Seq(ArgNames)
  BY <1>1, FlattenLaid
<1>5. PICK at : Places(at, ss, n) /\ Laid(FlattenSeq(ss), at, ss, n)
  BY <1>1, FlattenLaid
<1>6. ASSUME NEW i \in 1 .. n
      PROVE  \E k \in 1 .. Len(FlattenSeq(ss)) : FlattenSeq(ss)[k] = calls[i].arg
  <2>1. PICK j \in 1 .. n : ss[j] = <<calls[i].arg>>
    BY <1>3
  <2>2. 1 \in 1 .. Len(ss[j]) /\ ss[j][1] = calls[i].arg
    BY <2>1
  <2>3. at[j] + 1 \in 1 .. Len(FlattenSeq(ss)) /\ FlattenSeq(ss)[at[j] + 1] = ss[j][1]
    BY <1>5, <2>2 DEF Laid
  <2> QED BY <2>2, <2>3
<1> QED BY <1>2, <1>4, <1>6

AsNames == STRING \cup {""}
Targets == [x : Exprs, as : AsNames, hidden : BOOLEAN, kind : {"jev", "agg", "plain"}]

Names == {"a", "b", Sep} \cup {x.arg : x \in Exprs}

LEMMA SourceColumnsType ==
  \A src \in ArgNames : SourceColumns(src) \in Seq(Names)
<1> SUFFICES ASSUME NEW src \in ArgNames PROVE SourceColumns(src) \in Seq(Names)
  OBVIOUS
<1>1. <<"a", "b">> \in Seq(Names) /\ (src # "t" => src \in Names)
  BY DEF ArgNames, Names
<1>2. src # "t" => <<src>> \in Seq(Names)
  BY <1>1
<1> QED BY <1>1, <1>2 DEF SourceColumns, Columns

LEMMA TargetColumnsType == \A t \in Targets : TargetColumns(t) \in Seq(Names)
<1> SUFFICES ASSUME NEW t \in Targets PROVE TargetColumns(t) \in Seq(Names)
  OBVIOUS
<1>1. t.x.arg \in Names
  <2>1. t.x \in Exprs
    BY DEF Targets
  <2> QED BY <2>1 DEF Names
<1>2. <<t.x.arg>> \in Seq(Names) /\ <<>> \in Seq(Names)
  BY <1>1
<1>3. Append(<<"a", "b">>, Sep) \in Seq(Names)
  BY DEF Names
<1> QED BY <1>2, <1>3 DEF TargetColumns, Columns

\* The columns of the k-th source begin where SourceStart says.
LEMMA SourceFields ==
  ASSUME NEW srcs \in Seq(ArgNames), NEW ts \in Seq(Targets), NEW k \in 1 .. Len(srcs),
         NEW c \in 1 .. Len(SourceColumns(srcs[k]))
  PROVE  /\ SourceStart(srcs, k) \in Nat
         /\ SourceStart(srcs, k) + c - 1 \in DOMAIN Fields(ts, srcs)
         /\ Fields(ts, srcs)[SourceStart(srcs, k) + c - 1] = SourceColumns(srcs[k])[c]
<1> DEFINE n == Len(srcs)
           ss == [j \in 1 .. n |-> SourceColumns(srcs[j])]
           tt == [j \in 1 .. k - 1 |-> SourceColumns(srcs[j])]
           us == [i \in DOMAIN ts |-> TargetColumns(ts[i])]
<1>1. ss \in [1 .. n -> Seq(Names)] /\ n \in Nat
  BY SourceColumnsType
<1>2. tt \in [1 .. k - 1 -> Seq(Names)] /\ k - 1 \in Nat /\ k - 1 <= n
  BY SourceColumnsType
<1>3. \A j \in 1 .. k - 1 : tt[j] = ss[j]
  OBVIOUS
<1>4. us \in [1 .. Len(ts) -> Seq(Names)] /\ Len(ts) \in Nat
  BY TargetColumnsType
<1>5. Fields(ts, srcs) = FlattenSeq(ss) \o FlattenSeq(us) /\ SourceStart(srcs, k) = 1 + Len(FlattenSeq(tt))
  <2>1. DOMAIN srcs = 1 .. n
    OBVIOUS
  <2> QED BY <2>1 DEF Fields, SourceStart
<1>6. ss[k] = SourceColumns(srcs[k])
  OBVIOUS
<1> HIDE DEF n, ss, tt, us
<1>7. FlattenSeq(ss) \in Seq(Names) /\ FlattenSeq(us) \in Seq(Names)
  BY <1>1, <1>4, FlattenLaid
<1>8. PICK at : Places(at, ss, n) /\ Laid(FlattenSeq(ss), at, ss, n)
  BY <1>1, FlattenLaid
<1>9. PICK bt : Places(bt, tt, k - 1) /\ Laid(FlattenSeq(tt), bt, tt, k - 1)
  BY <1>2, FlattenLaid
<1>10. bt[(k - 1) + 1] = at[(k - 1) + 1]
  <2>1. PICK m \in Nat : m = k - 1
    BY <1>2
  <2>2. m <= n /\ Places(bt, tt, m) /\ \A j \in 1 .. m : tt[j] = ss[j]
    BY <1>2, <1>3, <1>9, <2>1
  <2>3. n \in Nat /\ Places(at, ss, n)
    BY <1>1, <1>8
  <2>4. bt[m + 1] = at[m + 1]
    <3> HIDE DEF Places
    <3> QED BY <2>2, <2>3, SamePlaces
  <2> QED BY <2>1, <2>4
<1>11. SourceStart(srcs, k) = 1 + at[k]
  BY <1>5, <1>9, <1>10 DEF Laid
<1>12. at[k] + c \in 1 .. Len(FlattenSeq(ss)) /\ FlattenSeq(ss)[at[k] + c] = SourceColumns(srcs[k])[c]
  BY <1>6, <1>8 DEF Laid, n
<1>13. at[k] \in Nat
  BY <1>8 DEF Places, n
<1>14. c \in Nat
  <2>1. SourceColumns(srcs[k]) \in Seq(Names)
    BY SourceColumnsType
  <2>2. Len(SourceColumns(srcs[k])) \in Nat
    BY <2>1
  <2> QED BY <2>2
<1>15. SourceStart(srcs, k) \in Nat /\ SourceStart(srcs, k) + c - 1 = at[k] + c
  <2>1. PICK p : p = at[k]
    OBVIOUS
  <2>2. PICK st : st = SourceStart(srcs, k)
    OBVIOUS
  <2>3. p \in Nat /\ st = 1 + p
    BY <1>11, <1>13, <2>1, <2>2
  <2>4. st \in Nat /\ st + c - 1 = p + c
    BY <1>14, <2>3
  <2> QED BY <2>1, <2>2, <2>4
<1>16. PICK q : q = SourceStart(srcs, k) + c - 1
  OBVIOUS
<1>17. q \in 1 .. Len(FlattenSeq(ss)) /\ FlattenSeq(ss)[q] = SourceColumns(srcs[k])[c]
  BY <1>12, <1>15, <1>16
<1>18. q \in DOMAIN Fields(ts, srcs) /\ Fields(ts, srcs)[q] = FlattenSeq(ss)[q]
  <2>1. PICK u : u = FlattenSeq(ss)
    OBVIOUS
  <2>2. PICK v : v = FlattenSeq(us)
    OBVIOUS
  <2>3. u \in Seq(Names) /\ v \in Seq(Names) /\ q \in 1 .. Len(u)
    BY <1>7, <1>17, <2>1, <2>2
  <2>4. q \in DOMAIN (u \o v) /\ (u \o v)[q] = u[q]
    BY <2>3
  <2> QED BY <1>5, <2>1, <2>2, <2>4
<1> QED BY <1>15, <1>16, <1>17, <1>18

\* What a plan has to do with its calls.
WellLaid ==
  /\ plan.targets \in Seq(Targets) /\ plan.srcs \in Seq(ArgNames)
  /\ plan.fields = Fields(plan.targets, plan.srcs)
  /\ DOMAIN plan.calls = 1 .. Len(plan.calls) /\ Len(plan.calls) \in Nat
  /\ \A i \in DOMAIN plan.calls :
       \E k \in 1 .. Len(plan.srcs) : plan.srcs[k] = plan.calls[i].arg

\* The object sent for a row and a call is the one the call is about.
LEMMA ObjectRight ==
  ASSUME WellLaid, NEW i \in DOMAIN plan.calls, NEW r
  PROVE  ObjectOf(Row(r), plan.calls[i]) = Object(plan.calls[i].arg, r)
<1> DEFINE x == plan.calls[i]
<1>1. PICK k : k = CHOOSE m \in DOMAIN plan.srcs : plan.srcs[m] = x.arg
  OBVIOUS
<1>2. k \in 1 .. Len(plan.srcs) /\ plan.srcs[k] = x.arg
  BY <1>1 DEF WellLaid
<1>3. PICK s : s = SourceStart(plan.srcs, k)
  OBVIOUS
<1>4. PICK cols : cols = SourceColumns(x.arg)
  OBVIOUS
<1>5. x.arg \in ArgNames
  BY <1>2 DEF WellLaid
<1>6. \A c \in DOMAIN cols : cols[c] # Sep
  BY <1>4, <1>5 DEF SourceColumns, Columns, ArgNames, Sep
<1>7. DOMAIN cols = 1 .. Len(cols)
  BY <1>4, <1>5, SourceColumnsType
<1>8. ASSUME NEW c \in DOMAIN cols
      PROVE  Row(r)[s + c - 1] = r[cols[c]]
  <2>1. s + c - 1 \in DOMAIN plan.fields /\ plan.fields[s + c - 1] = cols[c]
    <3>1. SourceColumns(plan.srcs[k]) = cols /\ c \in 1 .. Len(SourceColumns(plan.srcs[k]))
      BY <1>2, <1>4, <1>7
    <3>2. plan.targets \in Seq(Targets) /\ plan.srcs \in Seq(ArgNames)
      BY DEF WellLaid
    <3>3. /\ SourceStart(plan.srcs, k) + c - 1 \in DOMAIN Fields(plan.targets, plan.srcs)
          /\ Fields(plan.targets, plan.srcs)[SourceStart(plan.srcs, k) + c - 1]
               = SourceColumns(plan.srcs[k])[c]
      BY <1>2, <3>1, <3>2, SourceFields
    <3> QED BY <1>3, <3>1, <3>3 DEF WellLaid
  <2> QED BY <1>6, <2>1 DEF Row
<1>9. ObjectOf(Row(r), x) = [c \in DOMAIN cols |-> Row(r)[s + c - 1]]
  BY <1>1, <1>3, <1>4 DEF ObjectOf
<1>10. ObjectOf(Row(r), x) = [c \in DOMAIN cols |-> r[cols[c]]]
  BY <1>8, <1>9
<1>11. CASE x.arg = "t"
  <2>1. cols = <<"a", "b">>
    BY <1>4, <1>11 DEF SourceColumns, Columns
  <2>2. [c \in DOMAIN cols |-> r[cols[c]]] = <<r.a, r.b>>
    BY <2>1
  <2> QED BY <1>10, <1>11, <2>2 DEF Object
<1>12. CASE x.arg # "t"
  <2>1. cols = <<x.arg>>
    BY <1>4, <1>12 DEF SourceColumns
  <2>2. [c \in DOMAIN cols |-> r[cols[c]]] = <<r[x.arg]>>
    BY <2>1
  <2> QED BY <1>10, <1>12, <2>2 DEF Object
<1> QED BY <1>11, <1>12
-----------------------------------------------------------------------------
(* The analysis.                                                            *)

\* The function ResolveAll is defined by exists.
IsResolved(acc, ts, refs, grouped, grouping, n) ==
  acc = [k \in 0 .. n |->
          IF k = 0 THEN [ok |-> TRUE, is |-> <<>>, ts |-> ts]
          ELSE IF ~acc[k - 1].ok THEN acc[k - 1]
          ELSE LET r == Resolve(acc[k - 1].ts, refs[k], grouped, grouping)
               IN  [ok |-> r.ok, is |-> Append(acc[k - 1].is, r.i), ts |-> r.ts]]

LEMMA ResolvedExists ==
  ASSUME NEW ts, NEW refs, NEW grouped, NEW grouping, NEW n \in Nat
  PROVE  \E acc : IsResolved(acc, ts, refs, grouped, grouping, n)
<1> DEFINE Res(t, k) == Resolve(t, refs[k], grouped, grouping)
           Def(acc, k) == IF k = 0 THEN [ok |-> TRUE, is |-> <<>>, ts |-> ts]
                          ELSE IF ~acc[k - 1].ok THEN acc[k - 1]
                          ELSE [ok |-> Res(acc[k - 1].ts, k).ok,
                                is |-> Append(acc[k - 1].is, Res(acc[k - 1].ts, k).i),
                                ts |-> Res(acc[k - 1].ts, k).ts]
           P == {m \in Nat : \E f : f = [k \in 0 .. m |-> Def(f, k)]}
<1>1. 0 \in P
  <2>1. PICK f : f = [k \in 0 .. 0 |-> [ok |-> TRUE, is |-> <<>>, ts |-> ts]]
    OBVIOUS
  <2>2. f = [k \in 0 .. 0 |-> Def(f, k)]
    BY <2>1
  <2> QED BY <2>2
<1>2. ASSUME NEW m \in P PROVE m + 1 \in P
  <2>1. PICK f : f = [k \in 0 .. m |-> Def(f, k)]
    OBVIOUS
  <2>2. m \in Nat
    OBVIOUS
  <2>3. PICK g : g = [k \in 0 .. m + 1 |-> Def(f, k)]
    OBVIOUS
  <2> HIDE DEF Def
  <2>4. \A k \in 0 .. m : g[k] = f[k]
    BY <2>1, <2>2, <2>3
  <2>5. \A k \in 0 .. m + 1 : k # 0 => k - 1 \in 0 .. m
    BY <2>2
  <2>6. \A k \in 0 .. m + 1 : Def(f, k) = Def(g, k)
    BY <2>4, <2>5 DEF Def
  <2>7. g = [k \in 0 .. m + 1 |-> Def(g, k)]
    BY <2>3, <2>6
  <2> QED BY <2>2, <2>7
<1>3. P = Nat
  <2>1. P \in SUBSET Nat
    OBVIOUS
  <2> HIDE DEF P
  <2> QED BY <1>1, <1>2, <2>1, Induct
<1>4. PICK f : f = [k \in 0 .. n |-> Def(f, k)]
  BY <1>3
<1>5. IsResolved(f, ts, refs, grouped, grouping, n)
  BY <1>4 DEF IsResolved
<1> QED BY <1>5

LEMMA ResolveTargets ==
  ASSUME NEW ts \in Seq(Targets), NEW ref \in Keys, NEW grouped, NEW grouping
  PROVE  Resolve(ts, ref, grouped, grouping).ts \in Seq(Targets)
<1>1. Target(ref.x, "", TRUE) \in Targets
  <2>1. ref.x \in Exprs
    BY DEF Keys
  <2>2. "" \in AsNames
    BY DEF AsNames
  <2> QED BY <2>1, <2>2 DEF Target, Kind, Targets
<1>2. Append(ts, Target(ref.x, "", TRUE)) \in Seq(Targets)
  <2>1. ASSUME NEW t \in Targets PROVE Append(ts, t) \in Seq(Targets)
    OBVIOUS
  <2> QED BY <1>1, <2>1, Zenon
<1>3. \/ Resolve(ts, ref, grouped, grouping).ts = ts
      \/ Resolve(ts, ref, grouped, grouping).ts = Append(ts, Target(ref.x, "", TRUE))
  BY DEF Resolve
<1> QED BY <1>2, <1>3

LEMMA ResolveAllTargets ==
  ASSUME NEW ts \in Seq(Targets), NEW refs \in Seq(Keys), NEW grouped, NEW grouping
  PROVE  ResolveAll(ts, refs, grouped, grouping).ts \in Seq(Targets)
<1> DEFINE n == Len(refs)
           F == CHOOSE acc : IsResolved(acc, ts, refs, grouped, grouping, n)
<1>1. n \in Nat
  OBVIOUS
<1>2. IsResolved(F, ts, refs, grouped, grouping, n)
  BY <1>1, ResolvedExists
<1>3. ResolveAll(ts, refs, grouped, grouping) = F[n]
  BY DEF ResolveAll, IsResolved
<1> HIDE DEF F, n
<1> DEFINE P == {m \in Nat : m <= n => F[m].ts \in Seq(Targets)}
<1>4. 0 \in P
  BY <1>1, <1>2 DEF IsResolved
<1>5. ASSUME NEW m \in P PROVE m + 1 \in P
  <2>1. SUFFICES ASSUME m + 1 <= n PROVE F[m + 1].ts \in Seq(Targets)
    OBVIOUS
  <2>2. m + 1 \in 0 .. n /\ m + 1 # 0 /\ (m + 1) - 1 = m /\ F[m].ts \in Seq(Targets)
    BY <1>1, <2>1
  <2>3. refs[m + 1] \in Keys
    BY <2>2 DEF n
  <2>4. PICK t : t = Resolve(F[m].ts, refs[m + 1], grouped, grouping)
    OBVIOUS
  <2>5. t.ts \in Seq(Targets)
    BY <2>2, <2>3, <2>4, ResolveTargets
  <2>6. F[m + 1] = F[m] \/ F[m + 1] = [ok |-> t.ok, is |-> Append(F[m].is, t.i), ts |-> t.ts]
    BY <1>2, <2>2, <2>4 DEF IsResolved
  <2> QED BY <2>2, <2>5, <2>6
<1>6. P = Nat
  <2>1. P \in SUBSET Nat
    OBVIOUS
  <2> HIDE DEF P
  <2> QED BY <1>4, <1>5, <2>1, Induct
<1>7. F[n].ts \in Seq(Targets)
  BY <1>1, <1>6
<1> QED BY <1>3, <1>7

LEMMA TermsType == ASSUME NEW q \in Statements PROVE Terms(q) \in Seq(SimpleTerms)
<1> DEFINE ss == [i \in DOMAIN q.where |->
                   IF q.where[i].kind = "and" THEN q.where[i].terms ELSE <<q.where[i]>>]
<1>1. Len(q.where) \in Nat /\ DOMAIN q.where = 1 .. Len(q.where)
  BY DEF Statements
<1>2. ASSUME NEW i \in DOMAIN q.where PROVE ss[i] \in Seq(SimpleTerms)
  <2>1. \/ q.where[i] \in SimpleTerms
        \/ q.where[i] \in [kind : {"and"}, x : {Star}, terms : Seq(SimpleTerms)]
    BY DEF Statements
  <2>2. CASE q.where[i] \in SimpleTerms
    <3>1. q.where[i].kind # "and"
      BY <2>2 DEF SimpleTerms
    <3> QED BY <2>2, <3>1
  <2>3. CASE q.where[i] \in [kind : {"and"}, x : {Star}, terms : Seq(SimpleTerms)]
    BY <2>3
  <2> QED BY <2>1, <2>2, <2>3
<1>3. ss \in [1 .. Len(q.where) -> Seq(SimpleTerms)]
  BY <1>1, <1>2
<1>4. Terms(q) = FlattenSeq(ss)
  BY DEF Terms
<1> HIDE DEF ss
<1> QED BY <1>1, <1>3, <1>4, FlattenLaid

\* A selection of the elements of a sequence is a sequence of them.
LEMMA SelectType ==
  ASSUME NEW S, NEW n \in Nat, NEW s \in [1 .. n -> S], NEW ss,
         ss = [i \in 1 .. n |-> ss[i]], \A i \in 1 .. n : ss[i] = <<s[i]>> \/ ss[i] = <<>>
  PROVE  FlattenSeq(ss) \in Seq(S)
<1>1. ASSUME NEW i \in 1 .. n PROVE ss[i] \in Seq(S)
  <2>1. s[i] \in S
    OBVIOUS
  <2>2. <<s[i]>> \in Seq(S) /\ <<>> \in Seq(S)
    BY <2>1
  <2> QED BY <2>2
<1>2. ss \in [1 .. n -> Seq(S)]
  BY <1>1
<1> QED BY <1>2, FlattenLaid

LEMMA PredicatesType ==
  ASSUME NEW q \in Statements
  PROVE  \E n \in Nat : DOMAIN Predicates(q) = 1 .. n
<1> DEFINE T == Terms(q)
           ps == Select(T, LAMBDA t : t.kind \in {"jev", "not jev"})
           ss == [i \in DOMAIN T |-> IF T[i].kind \in {"jev", "not jev"} THEN <<T[i]>> ELSE <<>>]
<1>1. T \in [1 .. Len(T) -> SimpleTerms] /\ Len(T) \in Nat
  BY TermsType
<1>2. ps = FlattenSeq(ss)
  BY DEF Select
<1>3. ss = [i \in 1 .. Len(T) |-> ss[i]] /\ \A i \in 1 .. Len(T) : ss[i] = <<T[i]>> \/ ss[i] = <<>>
  BY <1>1
<1> HIDE DEF ss, T
<1>4. ps \in Seq(SimpleTerms)
  BY <1>1, <1>2, <1>3, SelectType
<1>5. Predicates(q) = [i \in DOMAIN ps |-> [x |-> ps[i].x, negate |-> ps[i].kind = "not jev"]]
  BY DEF Predicates, T
<1> HIDE DEF ps
<1>6. Len(ps) \in Nat /\ DOMAIN ps = 1 .. Len(ps)
  BY <1>4
<1> QED BY <1>5, <1>6

\* The calls of a statement are a sequence.
LEMMA CallsType ==
  ASSUME NEW q \in Statements, NEW ts \in Seq(Targets)
  PROVE  DOMAIN Calls(ts, q) = 1 .. Len(Calls(ts, q)) /\ Len(Calls(ts, q)) \in Nat
<1> DEFINE E == {ts[i].x : i \in Int} \cup {Predicates(q)[i].x : i \in Int}
           list == [i \in DOMAIN q.list |-> ts[i].x]
           kept == [i \in DOMAIN list |-> IF IsJev(list[i]) THEN <<list[i]>> ELSE <<>>]
           more == [i \in 1 .. Len(ts) - Len(q.list) |-> ts[Len(q.list) + i].x]
           added == [i \in DOMAIN more |-> IF IsJev(more[i]) THEN <<more[i]>> ELSE <<>>]
           of == [i \in DOMAIN Predicates(q) |-> Predicates(q)[i].x]
<1>1. Calls(ts, q) = FlattenSeq(kept) \o of \o FlattenSeq(added)
  BY DEF Calls, Select
<1>2. FlattenSeq(kept) \in Seq(E)
  <2>1. PICK n \in Nat : DOMAIN q.list = 1 .. n
    BY DEF Statements
  <2>2. list \in [1 .. n -> E]
    BY <2>1
  <2>3. kept = [i \in 1 .. n |-> kept[i]] /\ \A i \in 1 .. n : kept[i] = <<list[i]>> \/ kept[i] = <<>>
    BY <2>1
  <2> HIDE DEF E, list, kept
  <2> QED BY <2>2, <2>3, SelectType
<1>3. FlattenSeq(added) \in Seq(E)
  <2>1. PICK n \in Nat : DOMAIN more = 1 .. n /\ \A i \in 1 .. n : more[i] \in E
    <3>1. Len(q.list) \in Nat /\ Len(ts) \in Nat
      BY DEF Statements
    <3>2. \A i \in DOMAIN more : Len(q.list) + i \in Int
      BY <3>1
    <3>3. \A i \in DOMAIN more : more[i] \in E
      BY <3>2
    <3>4. PICK d : d = Len(ts) - Len(q.list)
      OBVIOUS
    <3>5. d \in Int /\ DOMAIN more = 1 .. d
      BY <3>1, <3>4
    <3> HIDE DEF more, E
    <3>6. CASE d < 0
      <4>1. 1 .. d = 1 .. 0
        BY <3>5, <3>6
      <4> QED BY <3>3, <3>5, <4>1
    <3>7. CASE d >= 0
      BY <3>3, <3>5, <3>7
    <3> QED BY <3>5, <3>6, <3>7
  <2>2. more \in [1 .. n -> E]
    BY <2>1
  <2>3. added = [i \in 1 .. n |-> added[i]] /\ \A i \in 1 .. n : added[i] = <<more[i]>> \/ added[i] = <<>>
    BY <2>1
  <2> HIDE DEF E, more, added
  <2> QED BY <2>2, <2>3, SelectType
<1>4. of \in Seq(E)
  <2>1. PICK n \in Nat : DOMAIN Predicates(q) = 1 .. n
    BY PredicatesType
  <2>2. of \in [1 .. n -> E]
    BY <2>1
  <2> HIDE DEF of, E
  <2> QED BY <2>2
<1> HIDE DEF kept, of, added, E
<1>5. FlattenSeq(kept) \o of \o FlattenSeq(added) \in Seq(E)
  BY <1>2, <1>3, <1>4
<1> QED BY <1>1, <1>5

\* What Analysis says of a statement.
LEMMA AnalysisType ==
  ASSUME NEW q \in Statements
  PROVE  /\ Analysis(q).targets \in Seq(Targets)
         /\ Analysis(q).rest = Rest(q)
         /\ DOMAIN Analysis(q).calls = 1 .. Len(Analysis(q).calls) /\ Len(Analysis(q).calls) \in Nat
         /\ Analysis(q).ok => \A i \in DOMAIN Analysis(q).calls : Analysis(q).calls[i].arg \in ArgNames
<1> DEFINE list == [i \in DOMAIN q.list |-> Target(q.list[i].x, q.list[i].as, FALSE)]
<1>1. list \in Seq(Targets)
  <2>1. PICK n \in Nat : DOMAIN q.list = 1 .. n
    BY DEF Statements
  <2>2. ASSUME NEW i \in DOMAIN q.list PROVE list[i] \in Targets
    <3>1. q.list[i].x \in Exprs /\ q.list[i].as \in AsNames
      <4> DEFINE L == [x : Exprs, as : STRING]
      <4>1. q.list[i] \in L
        <5>1. q.list \in Seq(L)
          BY DEF Statements
        <5> HIDE DEF L
        <5> QED BY <5>1
      <4> HIDE DEF list
      <4> QED BY <4>1 DEF AsNames
    <3> QED BY <3>1 DEF Target, Kind, Targets
  <2>3. list \in [1 .. n -> Targets]
    BY <2>1, <2>2
  <2> HIDE DEF list
  <2> QED BY <2>3
<1> HIDE DEF list
<1> DEFINE grouped == q.group # <<>> \/ \E i \in DOMAIN list : list[i].kind = "agg"
           g == ResolveAll(list, q.group, grouped, TRUE)
           o == ResolveAll(g.ts, q.order, grouped, FALSE)
<1>2. q.group \in Seq(Keys) /\ q.order \in Seq(Keys)
  BY DEF Statements
<1>3. g.ts \in Seq(Targets)
  BY <1>1, <1>2, ResolveAllTargets
<1> HIDE DEF grouped, g
<1>4. o.ts \in Seq(Targets)
  BY <1>2, <1>3, ResolveAllTargets
<1>5. /\ Analysis(q).targets = o.ts /\ Analysis(q).rest = Rest(q)
      /\ Analysis(q).calls = Calls(o.ts, q)
      /\ Analysis(q).ok => \A i \in DOMAIN Calls(o.ts, q) :
           Calls(o.ts, q)[i].arg \in {"t"} \cup Range(Columns)
  BY DEF Analysis, list, grouped, g, o
<1>6. {"t"} \cup Range(Columns) = ArgNames
  <2>1. Range(Columns) = {"a", "b"}
    BY DEF Range, Columns
  <2> QED BY <2>1 DEF ArgNames
<1> HIDE DEF o
<1> QED BY <1>4, <1>5, <1>6, CallsType
-----------------------------------------------------------------------------
(* The passes.                                                              *)

Planned == WellLaid /\ plan.rest = Rest(query)

Fed == /\ query \in Statements /\ table \in Seq(Rows) /\ maxRows \in Nat
       /\ pc \in {"analyze", "planned", "collected", "judged", "done"}
       /\ pc # "done" => out = NoResult

\* Without a plan nothing has happened.
PlanFirst == \/ /\ pc \in {"analyze", "done"}
                /\ collected = <<>> /\ asked = {} /\ estimate = -1
             \/ Planned

\* The rows collected are those the plain terms leave, within the budget.
CollectedRows ==
  /\ Len(collected) \in Nat /\ DOMAIN collected = 1 .. Len(collected)
  /\ \A i \in DOMAIN collected : \E j \in FilteredRows : collected[i] = Row(table[j])
  /\ pc \in {"analyze", "planned"} => collected = <<>>
  /\ maxRows > 0 => Len(collected) <= maxRows

\* Only the objects of collected rows are asked about, and only by Judge.
AskedOfCollected ==
  /\ asked \subseteq {ObjectOf(collected[i], plan.calls[c]) : i \in DOMAIN collected, c \in DOMAIN plan.calls}
  /\ pc \in {"analyze", "planned", "collected"} => asked = {}
  /\ out.err = "budget" => asked = {}

\* Every order Postgres may choose has as many rows as were estimated.
EstimateHolds ==
  estimate # -1 =>
    /\ estimate \in Nat /\ pc # "analyze" /\ ~ServerRefuses
    /\ \A rows \in CollectOrders : Len(rows) = estimate
    /\ collected # <<>> => Len(collected) = estimate

Inv == Fed /\ PlanFirst /\ CollectedRows /\ AskedOfCollected /\ EstimateHolds

\* The rows of a collect query are those at the positions CollectRows, and how
\* many they are does not depend on the order Postgres chooses.
LEMMA EnumerationOf ==
  ASSUME NEW S, IsFiniteSet(S)
  PROVE  /\ Cardinality(S) \in Nat
         /\ SetToSeq(S) \in [1 .. Cardinality(S) -> S]
<1>1. Cardinality(S) \in Nat /\ ExistsBijection(1 .. Cardinality(S), S)
  BY FS_CardinalityType
<1>2. PICK f \in [1 .. Cardinality(S) -> S] : IsInjective(f)
  BY <1>1 DEF ExistsBijection, Bijection, Injection, IsInjective
<1>3. SetToSeq(S) = CHOOSE g \in [1 .. Cardinality(S) -> S] : IsInjective(g)
  BY DEF SetToSeq
<1> QED BY <1>1, <1>2, <1>3

CutBefore(q, m) == IF q.offset = <<>> THEN m ELSE IF q.offset[1] >= m THEN 0 ELSE m - q.offset[1]

CutTo(q, m) == IF q.limit = <<>> \/ q.limit[1] >= CutBefore(q, m) THEN CutBefore(q, m) ELSE q.limit[1]

LEMMA SliceCounts ==
  ASSUME NEW q \in Statements, NEW S, NEW s \in Seq(S),
         \A n \in Range(q.limit) \cup Range(q.offset) : n >= 0
  PROVE  /\ Slice(s, q) \in Seq(S) /\ CutTo(q, Len(s)) \in Nat
         /\ Len(Slice(s, q)) = CutTo(q, Len(s))
<1>1. q.limit \in Seq(Int) /\ q.offset \in Seq(Int)
  BY DEF Statements
<1>2. q.limit # <<>> => q.limit[1] \in Nat
  <2>1. q.limit # <<>> => q.limit[1] \in Int /\ q.limit[1] \in Range(q.limit)
    BY <1>1 DEF Range
  <2> QED BY <2>1
<1>3. q.offset # <<>> => q.offset[1] \in Nat
  <2>1. q.offset # <<>> => q.offset[1] \in Int /\ q.offset[1] \in Range(q.offset)
    BY <1>1 DEF Range
  <2> QED BY <2>1
<1>4. Len(s) \in Nat
  OBVIOUS
<1> DEFINE t == IF q.offset = <<>> THEN s ELSE SubSeq(s, q.offset[1] + 1, Len(s))
<1>5. t \in Seq(S) /\ Len(t) = CutBefore(q, Len(s))
  BY <1>3, <1>4 DEF CutBefore
<1>6. Slice(s, q) = IF q.limit = <<>> \/ q.limit[1] >= Len(t) THEN t ELSE SubSeq(t, 1, q.limit[1])
  BY DEF Slice
<1>7. CutBefore(q, Len(s)) \in Nat
  BY <1>5
<1> HIDE DEF t
<1> QED BY <1>2, <1>5, <1>6, <1>7 DEF CutTo

LEMMA CollectOrdersCount ==
  ASSUME query \in Statements, table \in Seq(Rows), ~ServerRefuses
  PROVE  \E n \in Nat : \A rows \in CollectOrders :
           Len(rows) = n /\ rows \in Seq({table[j] : j \in CollectRows})
<1> DEFINE R == {table[j] : j \in CollectRows}
           N == Cardinality(CollectRows)
           at == SetToSeq(CollectRows)
           all == [k \in DOMAIN at |-> table[at[k]]]
<1>1. IsFiniteSet(CollectRows)
  <2>1. DOMAIN table = 1 .. Len(table) /\ Len(table) \in Nat
    OBVIOUS
  <2>2. IsFiniteSet(1 .. Len(table))
    BY <2>1, FS_Interval
  <2>3. CollectRows \in SUBSET (1 .. Len(table))
    BY <2>1 DEF CollectRows
  <2> QED BY <2>2, <2>3, FS_Subset
<1>2. N \in Nat /\ at \in [1 .. N -> CollectRows]
  BY <1>1, EnumerationOf
<1>3. all \in [1 .. N -> R]
  BY <1>2
<1> HIDE DEF R, N, at
<1>4. PICK n \in Nat : n = IF plan.serverOrder THEN CutTo(query, N) ELSE N
  <2>1. CASE plan.serverOrder
    <3>1. \A m \in Range(query.limit) \cup Range(query.offset) : ~(m < 0)
      BY <2>1 DEF ServerRefuses
    <3>2. \A m \in Range(query.limit) \cup Range(query.offset) : m \in Int
      BY DEF Statements, Range
    <3>3. \A m \in Range(query.limit) \cup Range(query.offset) : m >= 0
      BY <3>1, <3>2
    <3>4. all \in Seq(R) /\ Len(all) = N
      BY <1>2, <1>3
    <3> HIDE DEF all
    <3> QED BY <2>1, <3>3, <3>4, SliceCounts
  <2>2. CASE ~plan.serverOrder
    BY <1>2, <2>2
  <2> QED BY <2>1, <2>2
<1>5. ASSUME NEW rows \in CollectOrders
      PROVE  Len(rows) = n /\ rows \in Seq(R)
  <2>1. PICK f \in Injection(DOMAIN all, DOMAIN all) :
          rows = LET s == [i \in DOMAIN all |-> all[f[i]]]
                 IN  IF plan.serverOrder THEN Slice(s, query) ELSE s
    BY DEF CollectOrders, Arrangements, at, R
  <2>2. f \in [1 .. N -> 1 .. N]
    <3>1. PICK D : D = DOMAIN all
      OBVIOUS
    <3>2. f \in Injection(D, D)
      BY <2>1, <3>1
    <3>3. f \in [D -> D]
      BY <3>2 DEF Injection
    <3>4. D = 1 .. N
      BY <1>3, <3>1
    <3> QED BY <3>3, <3>4
  <2>3. PICK s : s = [i \in DOMAIN all |-> all[f[i]]]
    OBVIOUS
  <2>4. s \in [1 .. N -> R]
    BY <1>3, <2>2, <2>3
  <2>5. s \in Seq(R) /\ Len(s) = N
    BY <1>2, <2>4
  <2>6. CASE ~plan.serverOrder
    BY <1>4, <2>1, <2>3, <2>5, <2>6
  <2>7. CASE plan.serverOrder
    <3>1. rows = Slice(s, query)
      BY <2>1, <2>3, <2>7
    <3>2. \A m \in Range(query.limit) \cup Range(query.offset) : ~(m < 0)
      BY <2>7 DEF ServerRefuses
    <3>3. \A m \in Range(query.limit) \cup Range(query.offset) : m \in Int
      BY DEF Statements, Range
    <3>4. \A m \in Range(query.limit) \cup Range(query.offset) : m >= 0
      BY <3>2, <3>3
    <3> QED BY <1>4, <2>5, <2>7, <3>1, <3>4, SliceCounts
  <2> QED BY <2>6, <2>7
<1> QED BY <1>5 DEF R

LEMMA CollectFilters == Planned => CollectRows = FilteredRows
<1> SUFFICES ASSUME Planned PROVE CollectRows = FilteredRows
  OBVIOUS
<1>1. plan.rest = {t \in Range(Terms(query)) : t.kind = "plain"}
  BY DEF Planned, Rest
<1> QED BY <1>1 DEF CollectRows, FilteredRows, Filtered

\* What depends on the statement, the table and the plan only.
LEMMA SamePlan ==
  ASSUME UNCHANGED <<query, table, verdict, plan>>
  PROVE  /\ Planned => Planned'
         /\ CollectOrders' = CollectOrders /\ ServerRefuses' = ServerRefuses
         /\ FilteredRows' = FilteredRows
         /\ \A r : Row(r)' = Row(r)
         /\ \A row, x : ObjectOf(row, x)' = ObjectOf(row, x)
<1>1. CollectRows' = CollectRows
  BY DEF CollectRows
<1>2. CollectOrders' = CollectOrders
  BY <1>1 DEF CollectOrders
<1>3. Planned => Planned'
  BY DEF Planned, WellLaid
<1>4. \A r : Row(r)' = Row(r)
  BY DEF Row
<1>5. \A row, x : ObjectOf(row, x)' = ObjectOf(row, x)
  BY DEF ObjectOf
<1> QED BY <1>2, <1>3, <1>4, <1>5 DEF ServerRefuses, FilteredRows

LEMMA InitInv == Init => Inv
<1> SUFFICES ASSUME Init PROVE Inv
  OBVIOUS
<1>1. Fed
  BY QueriesAssumption, TablesAssumption, BudgetsAssumption DEF Init, Fed
<1>2. PlanFirst /\ CollectedRows /\ EstimateHolds
  BY <1>1 DEF Init, PlanFirst, CollectedRows, EstimateHolds, Fed
<1>3. AskedOfCollected
  BY DEF Init, AskedOfCollected, NoResult
<1> QED BY <1>1, <1>2, <1>3 DEF Inv

LEMMA AnalyzePreserves == Inv /\ Analyze => Inv'
<1> SUFFICES ASSUME Inv, Analyze PROVE Inv'
  OBVIOUS
<1>1. /\ pc = "analyze" /\ collected = <<>> /\ asked = {} /\ estimate = -1
      /\ query \in Statements /\ table \in Seq(Rows) /\ maxRows \in Nat /\ out = NoResult
  BY DEF Inv, Fed, CollectedRows, AskedOfCollected, EstimateHolds, Analyze
<1>2. UNCHANGED <<query, table, verdict, maxRows, collected, asked, estimate>>
  BY DEF Analyze
<1>3. Fed' /\ CollectedRows' /\ EstimateHolds'
  <2>1. \/ pc' = "done"
        \/ pc' = "planned" /\ out' = out
    BY DEF Analyze, Failed
  <2> QED BY <1>1, <1>2, <2>1 DEF Fed, CollectedRows, EstimateHolds
<1>4. AskedOfCollected'
  BY <1>1, <1>2 DEF AskedOfCollected
<1>5. PlanFirst'
  <2>1. CASE ~Analysis(query).ok
    BY <1>1, <1>2, <2>1 DEF Analyze, Failed, PlanFirst
  <2>2. CASE Analysis(query).ok
    <3>1. PICK a : a = Analysis(query)
      OBVIOUS
    <3>2. PICK n \in Nat : DOMAIN a.calls = 1 .. n /\ n = Len(a.calls)
      BY <1>1, <3>1, AnalysisType
    <3>3. a.targets \in Seq(Targets) /\ a.rest = Rest(query) /\ \A i \in 1 .. n : a.calls[i].arg \in ArgNames
      BY <1>1, <2>2, <3>1, <3>2, AnalysisType
    <3>4. PICK srcs : srcs = Sources(a.calls)
      OBVIOUS
    <3>5. /\ srcs \in Seq(ArgNames)
          /\ \A i \in 1 .. n : \E k \in 1 .. Len(srcs) : srcs[k] = a.calls[i].arg
      <4>1. PICK calls : calls = a.calls
        OBVIOUS
      <4>2. DOMAIN calls = 1 .. n /\ \A i \in 1 .. n : calls[i].arg \in ArgNames
        BY <3>2, <3>3, <4>1
      <4> QED BY <3>4, <4>1, <4>2, SourcesOf
    <3>6. /\ plan'.targets = a.targets /\ plan'.calls = a.calls /\ plan'.srcs = srcs
          /\ plan'.rest = a.rest /\ plan'.fields = Fields(a.targets, srcs)
      BY <2>2, <3>1, <3>4 DEF Analyze
    <3>7. WellLaid'
      BY <3>2, <3>3, <3>5, <3>6 DEF WellLaid
    <3>8. Planned'
      BY <1>2, <3>3, <3>6, <3>7 DEF Planned, Rest
    <3> QED BY <3>8 DEF PlanFirst
  <2> QED BY <2>1, <2>2
<1> QED BY <1>3, <1>4, <1>5 DEF Inv

LEMMA CollectPreserves == Inv /\ Collect => Inv'
<1> SUFFICES ASSUME Inv, Collect PROVE Inv'
  OBVIOUS
<1>1. /\ pc = "planned" /\ collected = <<>> /\ asked = {}
      /\ query \in Statements /\ table \in Seq(Rows) /\ maxRows \in Nat
  BY DEF Inv, Fed, CollectedRows, AskedOfCollected, Collect
<1>2. Planned
  BY <1>1 DEF Inv, PlanFirst
<1>3. UNCHANGED <<query, table, verdict, maxRows, plan, asked, estimate>>
  BY DEF Collect
<1>4. /\ Planned' /\ CollectOrders' = CollectOrders /\ ServerRefuses' = ServerRefuses
      /\ FilteredRows' = FilteredRows /\ \A r : Row(r)' = Row(r)
  BY <1>2, <1>3, SamePlan
<1>5. PlanFirst'
  BY <1>4 DEF PlanFirst
<1>6. AskedOfCollected'
  BY <1>1, <1>3 DEF AskedOfCollected
<1>7. CASE pc' = "done" /\ collected' = collected
  <2>1. Fed'
    BY <1>1, <1>3, <1>7 DEF Fed
  <2>2. CollectedRows'
    BY <1>1, <1>7, <1>3 DEF CollectedRows
  <2>3. EstimateHolds'
    BY <1>1, <1>3, <1>4, <1>7 DEF Inv, EstimateHolds
  <2> QED BY <1>5, <1>6, <2>1, <2>2, <2>3 DEF Inv
<1>8. CASE ~ServerRefuses /\ \E rows \in CollectOrders :
             /\ ~OverBudget(Len(rows))
             /\ collected' = [i \in DOMAIN rows |-> Row(rows[i])]
             /\ pc' = "collected" /\ out' = out
  <2>1. PICK rows \in CollectOrders :
             /\ ~OverBudget(Len(rows))
             /\ collected' = [i \in DOMAIN rows |-> Row(rows[i])]
             /\ pc' = "collected" /\ out' = out
    BY <1>8
  <2>2. rows \in Seq({table[j] : j \in CollectRows})
    BY <1>1, <1>8, CollectOrdersCount
  <2>3. Len(rows) \in Nat /\ DOMAIN rows = 1 .. Len(rows)
    BY <2>2
  <2>4. DOMAIN collected' = 1 .. Len(rows) /\ Len(collected') = Len(rows)
    BY <2>1, <2>3
  <2>5. ASSUME NEW i \in 1 .. Len(rows)
        PROVE  \E j \in FilteredRows : collected'[i] = Row(table[j])
    <3>1. PICK j \in CollectRows : rows[i] = table[j]
      BY <2>2
    <3>2. collected'[i] = Row(rows[i])
      BY <2>1, <2>3
    <3> QED BY <1>2, <3>1, <3>2, CollectFilters
  <2>6. CollectedRows'
    <3>1. maxRows > 0 => Len(rows) <= maxRows
      BY <1>1, <2>1, <2>3 DEF OverBudget
    <3>2. \A i \in DOMAIN collected' : \E j \in FilteredRows' : collected'[i] = Row(table[j])'
      BY <1>3, <1>4, <2>4, <2>5
    <3> QED BY <1>3, <2>1, <2>3, <2>4, <3>1, <3>2 DEF CollectedRows
  <2>7. Fed'
    BY <1>1, <1>3, <2>1 DEF Inv, Fed
  <2>8. EstimateHolds'
    <3>1. estimate # -1 => Len(rows) = estimate
      BY DEF Inv, EstimateHolds
    <3> QED BY <1>3, <1>4, <2>1, <2>4, <3>1 DEF Inv, EstimateHolds
  <2> QED BY <1>5, <1>6, <2>6, <2>7, <2>8 DEF Inv
<1> QED BY <1>7, <1>8 DEF Collect, Failed

LEMMA ExplainPreserves == Inv /\ ExplainQuery => Inv'
<1> SUFFICES ASSUME Inv, ExplainQuery PROVE Inv'
  OBVIOUS
<1>1. /\ pc = "planned" /\ collected = <<>>
      /\ query \in Statements /\ table \in Seq(Rows) /\ ~ServerRefuses
  BY DEF Inv, Fed, CollectedRows, ExplainQuery
<1>2. Planned
  BY <1>1 DEF Inv, PlanFirst
<1>3. UNCHANGED <<query, table, verdict, maxRows, pc, plan, collected, asked, out>>
  BY DEF ExplainQuery
<1>4. /\ Planned' /\ CollectOrders' = CollectOrders /\ ServerRefuses' = ServerRefuses
      /\ FilteredRows' = FilteredRows /\ \A r : Row(r)' = Row(r)
  BY <1>2, <1>3, SamePlan
<1>5. PICK n \in Nat : \A rows \in CollectOrders : Len(rows) = n
  BY <1>1, CollectOrdersCount
<1>6. estimate' = n
  BY <1>5 DEF ExplainQuery
<1>7. EstimateHolds'
  BY <1>1, <1>3, <1>4, <1>5, <1>6 DEF EstimateHolds
<1>8. Fed' /\ PlanFirst'
  BY <1>3, <1>4 DEF Inv, Fed, PlanFirst
<1>9. AskedOfCollected'
  <2>1. asked' = {}
    BY <1>1, <1>3 DEF Inv, AskedOfCollected
  <2> QED BY <2>1 DEF AskedOfCollected
<1>10. CollectedRows'
  BY <1>1, <1>3 DEF Inv, CollectedRows
<1> QED BY <1>7, <1>8, <1>9, <1>10 DEF Inv

LEMMA JudgePreserves == Inv /\ Judge => Inv'
<1> SUFFICES ASSUME Inv, Judge PROVE Inv'
  OBVIOUS
<1>1. pc = "collected" /\ pc' = "judged" /\ out = NoResult
  BY DEF Inv, Fed, Judge
<1>2. UNCHANGED <<query, table, verdict, maxRows, plan, collected, estimate, out>>
  BY DEF Judge
<1>3. /\ Planned => Planned'
      /\ CollectOrders' = CollectOrders /\ ServerRefuses' = ServerRefuses
      /\ FilteredRows' = FilteredRows /\ \A r : Row(r)' = Row(r)
      /\ \A row, x : ObjectOf(row, x)' = ObjectOf(row, x)
  BY <1>2, SamePlan
<1>4. Fed'
  BY <1>1, <1>2 DEF Inv, Fed
<1>5. PlanFirst'
  BY <1>1, <1>3 DEF Inv, PlanFirst
<1>6. CollectedRows'
  <2>1. \A i \in DOMAIN collected' : \E j \in FilteredRows' : collected'[i] = Row(table[j])'
    BY <1>2, <1>3 DEF Inv, CollectedRows
  <2> QED BY <1>1, <1>2, <2>1 DEF Inv, CollectedRows
<1>7. AskedOfCollected'
  <2>1. asked' = {ObjectOf(collected[i], plan.calls[c])' : i \in DOMAIN collected', c \in DOMAIN plan'.calls}
    BY <1>2, <1>3 DEF Judge
  <2>2. out'.err # "budget"
    BY <1>1, <1>2 DEF NoResult
  <2> QED BY <1>1, <2>1, <2>2 DEF AskedOfCollected
<1>8. EstimateHolds'
  BY <1>1, <1>2, <1>3 DEF Inv, EstimateHolds
<1> QED BY <1>4, <1>5, <1>6, <1>7, <1>8 DEF Inv

LEMMA ProjectPreserves == Inv /\ Project => Inv'
<1> SUFFICES ASSUME Inv, Project PROVE Inv'
  OBVIOUS
<1>1. pc = "judged" /\ pc' = "done" /\ out'.err # "budget"
  <2>1. \/ out' = [err |-> "panic", rows |-> <<>>] /\ pc' = "done"
        \/ (\E rs : out' = [err |-> "", rows |-> rs]) /\ pc' = "done"
    BY DEF Project, Failed
  <2>2. out'.err \in {"panic", ""}
    <3>1. ASSUME NEW rs, out' = [err |-> "", rows |-> rs] PROVE out'.err = ""
      BY <3>1
    <3>2. out' = [err |-> "panic", rows |-> <<>>] => out'.err = "panic"
      OBVIOUS
    <3> QED BY <2>1, <3>1, <3>2
  <2> QED BY <2>1, <2>2 DEF Project
<1>2. UNCHANGED <<query, table, verdict, maxRows, plan, collected, asked, estimate>>
  BY DEF Project
<1>3. /\ Planned => Planned'
      /\ CollectOrders' = CollectOrders /\ ServerRefuses' = ServerRefuses
      /\ FilteredRows' = FilteredRows /\ \A r : Row(r)' = Row(r)
      /\ \A row, x : ObjectOf(row, x)' = ObjectOf(row, x)
  BY <1>2, SamePlan
<1>4. Fed'
  BY <1>1, <1>2 DEF Inv, Fed
<1>5. PlanFirst'
  BY <1>1, <1>3 DEF Inv, PlanFirst
<1>6. CollectedRows'
  <2>1. \A i \in DOMAIN collected' : \E j \in FilteredRows' : collected'[i] = Row(table[j])'
    BY <1>2, <1>3 DEF Inv, CollectedRows
  <2> QED BY <1>1, <1>2, <2>1 DEF Inv, CollectedRows
<1>7. AskedOfCollected'
  <2>1. {ObjectOf(collected[i], plan.calls[c])' : i \in DOMAIN collected', c \in DOMAIN plan'.calls}
          = {ObjectOf(collected[i], plan.calls[c]) : i \in DOMAIN collected, c \in DOMAIN plan.calls}
    BY <1>2, <1>3
  <2>2. asked' \subseteq {ObjectOf(collected[i], plan.calls[c]) : i \in DOMAIN collected, c \in DOMAIN plan.calls}
    BY <1>2 DEF Inv, AskedOfCollected
  <2>3. asked' \subseteq {ObjectOf(collected[i], plan.calls[c])' : i \in DOMAIN collected', c \in DOMAIN plan'.calls}
    BY <2>1, <2>2
  <2> QED BY <1>1, <2>3 DEF AskedOfCollected
<1>8. EstimateHolds'
  BY <1>1, <1>2, <1>3 DEF Inv, EstimateHolds
<1> QED BY <1>4, <1>5, <1>6, <1>7, <1>8 DEF Inv

LEMMA StepPreserves == Inv /\ [Next]_vars => Inv'
<1> SUFFICES ASSUME Inv, [Next]_vars PROVE Inv'
  OBVIOUS
<1>1. CASE Analyze
  BY <1>1, AnalyzePreserves
<1>2. CASE Collect
  BY <1>2, CollectPreserves
<1>3. CASE ExplainQuery
  BY <1>3, ExplainPreserves
<1>4. CASE Judge
  BY <1>4, JudgePreserves
<1>5. CASE Project
  BY <1>5, ProjectPreserves
<1>6. CASE UNCHANGED vars
  <2>1. UNCHANGED <<query, table, verdict, maxRows, pc, plan, collected, asked, estimate, out>>
    BY <1>6 DEF vars
  <2>2. /\ Planned => Planned'
        /\ CollectOrders' = CollectOrders /\ ServerRefuses' = ServerRefuses
        /\ FilteredRows' = FilteredRows /\ \A r : Row(r)' = Row(r)
        /\ \A row, x : ObjectOf(row, x)' = ObjectOf(row, x)
    BY <2>1, SamePlan
  <2>3. Fed' /\ PlanFirst' /\ EstimateHolds'
    BY <2>1, <2>2 DEF Inv, Fed, PlanFirst, EstimateHolds
  <2>4. CollectedRows'
    <3>1. \A i \in DOMAIN collected' : \E j \in FilteredRows' : collected'[i] = Row(table[j])'
      BY <2>1, <2>2 DEF Inv, CollectedRows
    <3> QED BY <2>1, <3>1 DEF Inv, CollectedRows
  <2>5. AskedOfCollected'
    <3>1. {ObjectOf(collected[i], plan.calls[c])' : i \in DOMAIN collected', c \in DOMAIN plan'.calls}
            = {ObjectOf(collected[i], plan.calls[c]) : i \in DOMAIN collected, c \in DOMAIN plan.calls}
      BY <2>1, <2>2
    <3>2. asked' \subseteq {ObjectOf(collected[i], plan.calls[c])' : i \in DOMAIN collected', c \in DOMAIN plan'.calls}
      BY <2>1, <3>1 DEF Inv, AskedOfCollected
    <3> QED BY <2>1, <3>2 DEF Inv, AskedOfCollected
  <2> QED BY <2>3, <2>4, <2>5 DEF Inv
<1> QED BY <1>1, <1>2, <1>3, <1>4, <1>5, <1>6 DEF Next, Finished

LEMMA Invariant == Spec => []Inv
<1> QED BY InitInv, StepPreserves, PTL DEF Spec
-----------------------------------------------------------------------------
\* A statement over --max-rows (exec.go, Run) has asked the service nothing when
\* it fails, and one that goes on never holds more rows than the budget.
THEOREM NothingOverBudget == Spec => []BudgetBeforeCall
<1>1. Inv => BudgetBeforeCall
  BY DEF Inv, CollectedRows, AskedOfCollected, BudgetBeforeCall
<1> QED BY <1>1, Invariant, PTL

\* Whatever the statement: the objects judged are those of rows the plain terms
\* of WHERE leave, and each is the object its call is about, although the rows
\* come back as one flat list of columns (rewrite.go, Build; exec.go, objects).
THEOREM FilteredBeforeJudged == Spec => []OnlyFilteredJudged
<1>1. ASSUME Inv PROVE OnlyFilteredJudged
  <2>1. SUFFICES ASSUME asked # {} PROVE OnlyFilteredJudged
    BY DEF OnlyFilteredJudged
  <2>2. WellLaid
    BY <1>1, <2>1 DEF Inv, PlanFirst, Planned
  <2>3. ASSUME NEW o \in asked
        PROVE  \E c \in DOMAIN plan.calls, j \in FilteredRows : o = Object(plan.calls[c].arg, table[j])
    <3>1. PICK i \in DOMAIN collected, c \in DOMAIN plan.calls : o = ObjectOf(collected[i], plan.calls[c])
      BY <1>1 DEF Inv, AskedOfCollected
    <3>2. PICK j \in FilteredRows : collected[i] = Row(table[j])
      BY <1>1 DEF Inv, CollectedRows
    <3>3. ObjectOf(Row(table[j]), plan.calls[c]) = Object(plan.calls[c].arg, table[j])
      BY <2>2, ObjectRight
    <3> QED BY <3>1, <3>2, <3>3
  <2> QED BY <2>3 DEF OnlyFilteredJudged
<1> QED BY <1>1, Invariant, PTL

\* The number --explain announces is never exceeded: a run asks at most about
\* one object for each row of the collect query and each row source.
THEOREM ExplainIsBound == Spec => []ExplainCovers
<1>1. ASSUME Inv PROVE ExplainCovers
  <2>1. SUFFICES ASSUME estimate # -1 PROVE Cardinality(asked) <= estimate * Len(plan.srcs)
    BY DEF ExplainCovers
  <2>2. WellLaid /\ estimate \in Nat
    BY <1>1, <2>1 DEF Inv, PlanFirst, Planned, EstimateHolds
  <2>3. Len(plan.srcs) \in Nat
    BY <2>2 DEF WellLaid
  <2>4. CASE asked = {}
    <3>1. Cardinality(asked) = 0
      BY <2>4, FS_EmptySet
    <3> QED BY <2>2, <2>3, <3>1
  <2>5. CASE asked # {}
    <3> DEFINE n == Len(collected)
               m == Len(plan.srcs)
               A == (1 .. n) \X (1 .. m)
               G(p) == ObjectOf(collected[p[1]], [arg |-> plan.srcs[p[2]]])
               all == {G(p) : p \in A}
    <3>1. n \in Nat /\ DOMAIN collected = 1 .. n
      BY <1>1 DEF Inv, CollectedRows
    <3>2. asked \subseteq all
      <4>1. SUFFICES ASSUME NEW o \in asked PROVE o \in all
        OBVIOUS
      <4>2. PICK i \in DOMAIN collected, c \in DOMAIN plan.calls : o = ObjectOf(collected[i], plan.calls[c])
        BY <1>1 DEF Inv, AskedOfCollected
      <4>3. PICK k \in 1 .. m : plan.srcs[k] = plan.calls[c].arg
        BY <2>2 DEF WellLaid
      <4>4. PICK x : x = [arg |-> plan.srcs[k]]
        OBVIOUS
      <4>5. x.arg = plan.calls[c].arg
        BY <4>3, <4>4
      <4>6. ObjectOf(collected[i], x) = ObjectOf(collected[i], plan.calls[c])
        BY <4>5 DEF ObjectOf
      <4>7. <<i, k>> \in A /\ G(<<i, k>>) = o
        BY <3>1, <4>2, <4>4, <4>6
      <4> QED BY <4>7
    <3>3. IsFiniteSet(1 .. n) /\ Cardinality(1 .. n) = n /\ IsFiniteSet(1 .. m) /\ Cardinality(1 .. m) = m
      <4>1. ASSUME NEW b \in Nat PROVE IsFiniteSet(1 .. b) /\ Cardinality(1 .. b) = b
        <5>1. 1 \in Int /\ b \in Int /\ (IF 1 > b THEN 0 ELSE b - 1 + 1) = b
          OBVIOUS
        <5> QED BY <5>1, FS_Interval
      <4> QED BY <2>3, <3>1, <4>1
    <3>4. IsFiniteSet(A) /\ Cardinality(A) = n * m
      <4>1. PICK N : N = 1 .. n
        OBVIOUS
      <4>2. PICK M : M = 1 .. m
        OBVIOUS
      <4>3. IsFiniteSet(N \X M) /\ Cardinality(N \X M) = Cardinality(N) * Cardinality(M)
        BY <3>3, <4>1, <4>2, FS_Product
      <4> QED BY <3>3, <4>1, <4>2, <4>3
    <3>5. IsFiniteSet(all) /\ Cardinality(all) <= Cardinality(A)
      <4> DEFINE g == [p \in A |-> G(p)]
      <4>1. g \in Surjection(A, all)
        BY DEF Surjection
      <4> HIDE DEF A, all, g
      <4> QED BY <3>4, <4>1, FS_Surjection
    <3>6. IsFiniteSet(asked) /\ Cardinality(asked) <= Cardinality(all)
      <4> HIDE DEF all
      <4> QED BY <3>2, <3>5, FS_Subset
    <3>7. Cardinality(asked) \in Nat /\ Cardinality(all) \in Nat
      <4> HIDE DEF all
      <4> QED BY <3>5, <3>6, FS_CardinalityType
    <3>8. n = estimate
      <4>1. collected # <<>>
        <5>1. PICK i \in DOMAIN collected : TRUE
          BY <1>1, <2>5 DEF Inv, AskedOfCollected
        <5>2. DOMAIN collected # {}
          BY <5>1
        <5>3. DOMAIN <<>> = {}
          OBVIOUS
        <5> QED BY <5>2, <5>3
      <4> QED BY <1>1, <2>1, <4>1 DEF Inv, EstimateHolds
    <3> HIDE DEF all, A, n, m
    <3>9. Cardinality(asked) <= n * m /\ m = Len(plan.srcs)
      <4>1. m = Len(plan.srcs)
        BY DEF m
      <4>2. n * m \in Nat
        BY <2>3, <3>1, <4>1
      <4> QED BY <3>4, <3>5, <3>6, <3>7, <4>1, <4>2
    <3> QED BY <3>8, <3>9
  <2> QED BY <2>4, <2>5
<1> QED BY <1>1, Invariant, PTL
-----------------------------------------------------------------------------
(* What a key of ORDER BY refers to.                                        *)

\* whole is the first m elements of s.
Begins(whole, s, m) == Len(whole) = m /\ DOMAIN whole = 1 .. m /\ \A i \in 1 .. m : whole[i] = s[i]

\* The first m elements of a sequence, and nothing for the others.
LEMMA FlattenPrefix ==
  ASSUME NEW S, NEW n \in Nat, NEW m \in 0 .. n, NEW s \in [1 .. n -> S],
         NEW ss \in [1 .. n -> Seq(S)],
         \A i \in 1 .. m : ss[i] = <<s[i]>>, \A i \in m + 1 .. n : ss[i] = <<>>
  PROVE  FlattenSeq(ss) \in Seq(S) /\ Begins(FlattenSeq(ss), s, m)
<1>1. FlattenSeq(ss) \in Seq(S)
  BY FlattenLaid
<1>4. PICK at : Places(at, ss, n) /\ Laid(FlattenSeq(ss), at, ss, n)
  BY FlattenLaid
<1> DEFINE P == {k \in Nat : k <= n => at[k + 1] = IF k <= m THEN k ELSE m}
<1>5. 0 \in P
  BY <1>4 DEF Places
<1>6. ASSUME NEW k \in P PROVE k + 1 \in P
  <2>1. SUFFICES ASSUME k + 1 <= n PROVE at[(k + 1) + 1] = IF k + 1 <= m THEN k + 1 ELSE m
    OBVIOUS
  <2>2. k \in Nat /\ k + 1 \in 1 .. n /\ at[k + 1] = IF k <= m THEN k ELSE m
    BY <2>1
  <2>3. at[(k + 1) + 1] = at[k + 1] + Len(ss[k + 1])
    BY <1>4, <2>2 DEF Places
  <2>4. CASE k + 1 <= m
    <3>1. Len(ss[k + 1]) = 1
      <4>1. k + 1 \in 1 .. m
        BY <2>2, <2>4
      <4>2. ss[k + 1] = <<s[k + 1]>>
        BY <4>1
      <4> QED BY <4>2
    <3> QED BY <2>2, <2>3, <2>4, <3>1
  <2>5. CASE ~(k + 1 <= m)
    <3>1. k + 1 \in m + 1 .. n
      BY <2>2, <2>5
    <3>2. Len(ss[k + 1]) = 0
      BY <3>1
    <3> QED BY <2>2, <2>3, <2>5, <3>2
  <2> QED BY <2>4, <2>5
<1>7. P = Nat
  <2>1. P \in SUBSET Nat
    OBVIOUS
  <2> HIDE DEF P
  <2> QED BY <1>5, <1>6, <2>1, Induct
<1>8. at[n + 1] = m
  <2>1. at[n + 1] = IF n <= m THEN n ELSE m
    <3>1. PICK k \in Nat : k = n
      OBVIOUS
    <3>2. k \in P
      BY <1>7
    <3>3. at[k + 1] = IF k <= m THEN k ELSE m
      BY <3>1, <3>2
    <3> QED BY <3>1, <3>3
  <2>2. n <= m => n = m
    OBVIOUS
  <2> QED BY <2>1, <2>2
<1>9. Len(FlattenSeq(ss)) = m
  BY <1>4, <1>8 DEF Laid
<1>10. ASSUME NEW i \in 1 .. m PROVE FlattenSeq(ss)[i] = s[i]
  <2>1. i \in 1 .. n /\ ss[i] = <<s[i]>> /\ 1 \in 1 .. Len(ss[i]) /\ ss[i][1] = s[i]
    OBVIOUS
  <2>2. FlattenSeq(ss)[at[i] + 1] = s[i]
    BY <1>4, <2>1 DEF Laid
  <2>3. PICK k \in Nat : i = k + 1 /\ k <= n /\ k <= m
    <3>1. i - 1 \in Nat /\ i = (i - 1) + 1
      OBVIOUS
    <3> QED BY <3>1
  <2>4. at[i] = k
    BY <1>7, <2>3
  <2> QED BY <2>2, <2>3, <2>4
<1>11. DOMAIN FlattenSeq(ss) = 1 .. m
  BY <1>1, <1>9
<1> QED BY <1>1, <1>9, <1>10, <1>11 DEF Begins

\* A list of targets that begins with the select list; what follows is hidden.
Grown(ts, q) ==
  /\ ts \in Seq(Targets) /\ Len(q.list) \in Nat /\ DOMAIN q.list = 1 .. Len(q.list)
  /\ Len(q.list) <= Len(ts)
  /\ \A i \in 1 .. Len(q.list) :
       ts[i].x = q.list[i].x /\ ts[i].as = q.list[i].as /\ ts[i].hidden = FALSE
  /\ \A i \in Len(q.list) + 1 .. Len(ts) : ts[i].hidden = TRUE
  /\ \A i \in 1 .. Len(ts) : ts[i].kind = Kind(ts[i].x)

LEMMA VisibleIsList ==
  ASSUME NEW ts, NEW q, Grown(ts, q)
  PROVE  DOMAIN Visible(ts) = 1 .. Len(q.list) /\ \A i \in 1 .. Len(q.list) : Visible(ts)[i] = i
<1> DEFINE s == [i \in DOMAIN ts |-> i]
           ss == [i \in DOMAIN ts |-> IF ts[i].hidden THEN <<>> ELSE <<i>>]
<1>1. PICK n \in Nat : n = Len(ts) /\ DOMAIN ts = 1 .. n
  BY DEF Grown
<1>2. PICK m \in 0 .. n : m = Len(q.list)
  BY <1>1 DEF Grown
<1>3. s \in [1 .. n -> Nat] /\ \A i \in 1 .. n : s[i] = i
  BY <1>1
<1>4. Visible(ts) = FlattenSeq(ss)
  BY DEF Visible
<1>6. \A i \in 1 .. m : ss[i] = <<s[i]>>
  <2>1. ASSUME NEW i \in 1 .. m PROVE ss[i] = <<s[i]>>
    <3>1. i \in 1 .. n /\ ts[i].hidden = FALSE
      BY <1>1, <1>2 DEF Grown
    <3> QED BY <1>1, <1>3, <3>1
  <2> QED BY <2>1
<1>7. \A i \in m + 1 .. n : ss[i] = <<>>
  <2>1. ASSUME NEW i \in m + 1 .. n PROVE ss[i] = <<>>
    <3>1. i \in 1 .. n /\ ts[i].hidden = TRUE
      BY <1>1, <1>2 DEF Grown
    <3> QED BY <1>1, <3>1
  <2> QED BY <2>1
<1>5. ss \in [1 .. n -> Seq(Nat)]
  <2>1. ASSUME NEW i \in 1 .. n PROVE ss[i] \in Seq(Nat)
    <3>1. <<i>> \in Seq(Nat) /\ <<>> \in Seq(Nat)
      OBVIOUS
    <3> QED BY <1>1, <3>1
  <2> QED BY <1>1, <2>1
<1> HIDE DEF s, ss
<1>8. Begins(FlattenSeq(ss), s, m)
  <2>1. PICK N : N = Nat
    OBVIOUS
  <2>2. m \in 0 .. n /\ s \in [1 .. n -> N] /\ ss \in [1 .. n -> Seq(N)]
    BY <1>3, <1>5, <2>1
  <2> QED BY <1>6, <1>7, <2>2, FlattenPrefix
<1> QED BY <1>2, <1>3, <1>4, <1>8 DEF Begins

LEMMA ExpandedIsList ==
  ASSUME NEW q \in Statements, \A i \in DOMAIN q.list : q.list[i].x # Star
  PROVE  /\ DOMAIN Expanded(q) = DOMAIN q.list /\ Len(Expanded(q)) = Len(q.list)
         /\ \A i \in DOMAIN q.list : Expanded(q)[i] = q.list[i].x
<1> DEFINE ss == [i \in DOMAIN q.list |->
                   IF q.list[i].x = Star THEN [c \in DOMAIN Columns |-> Col(Columns[c])]
                                         ELSE <<q.list[i].x>>]
           s == [i \in DOMAIN q.list |-> q.list[i].x]
<1>1. PICK n \in Nat : DOMAIN q.list = 1 .. n /\ Len(q.list) = n
  BY DEF Statements
<1>2. PICK E : E = {s[i] : i \in 1 .. n}
  OBVIOUS
<1>3. s \in [1 .. n -> E] /\ \A i \in 1 .. n : s[i] = q.list[i].x
  BY <1>1, <1>2
<1>4. ss \in [1 .. n -> Seq(E)] /\ \A i \in 1 .. n : ss[i] = <<s[i]>>
  <2>1. \A i \in 1 .. n : ss[i] = <<s[i]>>
    BY <1>1
  <2>2. ASSUME NEW i \in 1 .. n PROVE ss[i] \in Seq(E)
    <3>1. s[i] \in E
      BY <1>3
    <3>2. <<s[i]>> \in Seq(E)
      BY <3>1
    <3> QED BY <2>1, <3>2
  <2> HIDE DEF s
  <2> QED BY <1>1, <2>1, <2>2
<1>5. Expanded(q) = FlattenSeq(ss)
  BY DEF Expanded
<1>6. \A i \in n + 1 .. n : ss[i] = <<>>
  OBVIOUS
<1>7. n \in 0 .. n
  OBVIOUS
<1> HIDE DEF s, ss
<1>8. Begins(FlattenSeq(ss), s, n)
  BY <1>3, <1>4, <1>6, <1>7, FlattenPrefix
<1> QED BY <1>1, <1>3, <1>5, <1>8 DEF Begins

\* A key of ORDER BY that means one expression: a position counts no star, and
\* the outputs of a name are the same expression (Postgres calls others ambiguous).
Clear(q, ref) ==
  IF ref.by = "position" THEN \A i \in DOMAIN q.list : q.list[i].x # Star
  ELSE \A i, j \in DOMAIN q.list :
         /\ ref.x.fn = "col" /\ q.list[i].as = ref.x.arg /\ q.list[j].as = ref.x.arg
         => q.list[i].x = q.list[j].x

LEMMA LeastIn == ASSUME NEW T \in SUBSET Nat, T # {} PROVE Least(T) \in T
<1>1. \E x \in T : \A y \in T : x <= y
  BY LeastOne
<1> QED BY <1>1 DEF Least

LEMMA LeastIs ==
  ASSUME NEW T \in SUBSET Nat, NEW m \in T, \A k \in T : m <= k
  PROVE  Least(T) = m
<1>1. Least(T) \in T /\ \A k \in T : Least(T) <= k
  BY LeastOne DEF Least
<1>2. PICK l \in Nat : l = Least(T)
  BY <1>1
<1>3. l <= m /\ m <= l
  BY <1>1, <1>2
<1> QED BY <1>2, <1>3

Resolved(r, ts, ref, grouped) == r = Resolve(ts, ref, grouped, FALSE)

\* What resolveRef answers is what the key means, and only adds to the targets.
Found(r, ts, q, ref) ==
  /\ Grown(r.ts, q) /\ Len(ts) <= Len(r.ts) /\ \A i \in 1 .. Len(ts) : r.ts[i] = ts[i]
  /\ r.i \in 1 .. Len(r.ts) /\ r.ts[r.i].x = KeyExpr(q, ref, FALSE)

LEMMA ResolveMeans ==
  ASSUME NEW q \in Statements, NEW ts, Grown(ts, q), NEW ref \in Keys, Clear(q, ref),
         NEW grouped, NEW r, Resolved(r, ts, ref, grouped), r.ok
  PROVE  Found(r, ts, q, ref)
<1> DEFINE named == {i \in DOMAIN q.list : ref.x.fn = "col" /\ q.list[i].as = ref.x.arg}
           m == Len(q.list)
<1>1. ts \in Seq(Targets) /\ Len(ts) \in Nat /\ DOMAIN ts = 1 .. Len(ts) /\ m \in Nat /\ m <= Len(ts)
      /\ DOMAIN q.list = 1 .. m
  BY DEF Grown
<1>2. CASE ref.by = "position"
  <2>1. ref.n \in 1 .. m /\ r.i = ref.n /\ r.ts = ts
    BY <1>2, VisibleIsList DEF Resolved, Resolve
  <2>2. ts[ref.n].x = q.list[ref.n].x
    BY <2>1 DEF Grown
  <2>3. KeyExpr(q, ref, FALSE) = q.list[ref.n].x
    BY <1>1, <1>2, <2>1, ExpandedIsList DEF KeyExpr, Clear
  <2>4. r.i \in 1 .. Len(r.ts)
    BY <1>1, <2>1
  <2>5. Grown(r.ts, q) /\ Len(ts) <= Len(r.ts) /\ \A i \in 1 .. Len(ts) : r.ts[i] = ts[i]
    BY <1>1, <2>1
  <2>6. r.ts[r.i].x = KeyExpr(q, ref, FALSE)
    BY <2>1, <2>2, <2>3
  <2> QED BY <2>4, <2>5, <2>6 DEF Found
<1>3. CASE ref.by # "position" /\ named # {}
  <2>1. {i \in DOMAIN ts : ref.x.fn = "col" /\ ~ts[i].hidden /\ ts[i].as = ref.x.arg} = named
    <3>1. \A i \in 1 .. m : ts[i].hidden = FALSE /\ ts[i].as = q.list[i].as
      BY DEF Grown
    <3>2. ASSUME NEW i \in DOMAIN ts, ts[i].hidden # TRUE PROVE i \in 1 .. m
      <4>1. i \notin m + 1 .. Len(ts)
        BY <3>2 DEF Grown
      <4> QED BY <1>1, <4>1
    <3>3. ASSUME NEW i \in DOMAIN ts PROVE ~ts[i].hidden <=> i \in 1 .. m
      BY <3>1, <3>2, <3>3, <1>1
    <3> QED BY <1>1, <3>1, <3>3
  <2>2. Matches(ts, ref) = named
    BY <1>3, <2>1 DEF Matches
  <2> HIDE DEF named
  <2>3. r.i = Least(named) /\ r.ts = ts
    BY <1>3, <2>2 DEF Resolved, Resolve
  <2>4. Least(named) \in named
    <3>1. named \in SUBSET Nat
      BY <1>1 DEF named
    <3> QED BY <1>3, <3>1, LeastIn
  <2>5. KeyExpr(q, ref, FALSE) = q.list[CHOOSE i \in named : TRUE].x
    BY <1>3 DEF KeyExpr, named
  <2>6. PICK j \in named : KeyExpr(q, ref, FALSE) = q.list[j].x
    BY <1>3, <2>5
  <2>7. PICK i \in named : r.i = i
    BY <2>3, <2>4
  <2>8. i \in 1 .. m /\ q.list[i].x = q.list[j].x
    BY <1>1, <1>3 DEF Clear, named
  <2>9. ts[i].x = q.list[i].x
    BY <2>8 DEF Grown
  <2>10. Grown(r.ts, q) /\ Len(ts) <= Len(r.ts) /\ \A n \in 1 .. Len(ts) : r.ts[n] = ts[n]
    BY <1>1, <2>3
  <2>11. r.i \in 1 .. Len(r.ts)
    BY <1>1, <2>3, <2>7, <2>8
  <2>12. r.ts[r.i].x = KeyExpr(q, ref, FALSE)
    BY <2>3, <2>6, <2>7, <2>8, <2>9
  <2> QED BY <2>10, <2>11, <2>12 DEF Found
<1>4. CASE ref.by # "position" /\ named = {}
  <2>1. {i \in DOMAIN ts : ref.x.fn = "col" /\ ~ts[i].hidden /\ ts[i].as = ref.x.arg} = {}
    <3>1. \A i \in 1 .. m : ts[i].as = q.list[i].as
      BY DEF Grown
    <3>2. ASSUME NEW i \in DOMAIN ts, ts[i].hidden # TRUE PROVE i \in 1 .. m
      <4>1. i \notin m + 1 .. Len(ts)
        BY <3>2 DEF Grown
      <4> QED BY <1>1, <4>1
    <3> QED BY <1>1, <1>4, <3>1, <3>2
  <2>2. PICK texts : texts = {i \in DOMAIN ts : ts[i].x = ref.x}
    OBVIOUS
  <2>3. Matches(ts, ref) = texts
    BY <2>1, <2>2 DEF Matches
  <2>4. KeyExpr(q, ref, FALSE) = ref.x
    BY <1>4 DEF KeyExpr
  <2>5. CASE texts # {}
    <3>1. r.i = Least(texts) /\ r.ts = ts
      BY <1>4, <2>3, <2>5 DEF Resolved, Resolve
    <3>2. Least(texts) \in texts
      <4>1. texts \in SUBSET Nat
        BY <1>1, <2>2
      <4> QED BY <2>5, <4>1, LeastIn
    <3>3. r.i \in 1 .. Len(ts) /\ ts[r.i].x = ref.x
      BY <1>1, <2>2, <3>1, <3>2
    <3>4. Grown(r.ts, q) /\ Len(ts) <= Len(r.ts) /\ \A i \in 1 .. Len(ts) : r.ts[i] = ts[i]
      BY <1>1, <3>1
    <3>5. r.i \in 1 .. Len(r.ts) /\ r.ts[r.i].x = KeyExpr(q, ref, FALSE)
      BY <2>4, <3>1, <3>3
    <3> QED BY <3>4, <3>5 DEF Found
  <2>6. CASE texts = {}
    <3>1. PICK t : t = Target(ref.x, "", TRUE)
      OBVIOUS
    <3>2. r.i = Len(ts) + 1 /\ r.ts = Append(ts, t)
      BY <1>4, <2>3, <2>6, <3>1 DEF Resolved, Resolve
    <3>3. r.ts \in Seq(Targets)
      BY <1>1, ResolveTargets DEF Resolved
    <3>4. /\ Len(r.ts) = Len(ts) + 1 /\ r.ts[Len(ts) + 1] = t
          /\ \A i \in 1 .. Len(ts) : r.ts[i] = ts[i]
      BY <1>1, <3>2
    <3>5. t.hidden = TRUE /\ t.x = ref.x /\ t.kind = Kind(t.x)
      BY <3>1 DEF Target
    <3>6. Grown(r.ts, q)
      <4>1. \A i \in m + 1 .. Len(r.ts) : r.ts[i].hidden = TRUE
        <5>1. \A i \in m + 1 .. Len(r.ts) : i \in m + 1 .. Len(ts) \/ i = Len(ts) + 1
          BY <1>1, <3>4
        <5> QED BY <1>1, <3>4, <3>5, <5>1, SMTT(30) DEF Grown
      <4>2. \A i \in 1 .. Len(r.ts) : r.ts[i].kind = Kind(r.ts[i].x)
        <5>1. \A i \in 1 .. Len(r.ts) : i \in 1 .. Len(ts) \/ i = Len(ts) + 1
          BY <1>1, <3>4
        <5>2. ASSUME NEW i \in 1 .. Len(ts) PROVE r.ts[i].kind = Kind(r.ts[i].x)
          BY <3>4 DEF Grown
        <5> QED BY <3>4, <3>5, <5>1, <5>2
      <4>3. \A i \in 1 .. m : r.ts[i] = ts[i] /\ i \in 1 .. Len(ts)
        BY <1>1, <3>4 DEF Grown
      <4> QED BY <1>1, <3>3, <3>4, <4>1, <4>2, <4>3 DEF Grown
    <3>7. Len(ts) <= Len(r.ts) /\ r.i \in 1 .. Len(r.ts)
      BY <1>1, <3>2, <3>4
    <3>8. r.ts[r.i].x = KeyExpr(q, ref, FALSE)
      BY <2>4, <3>2, <3>4, <3>5
    <3> QED BY <3>4, <3>6, <3>7, <3>8 DEF Found
  <2> QED BY <2>5, <2>6
<1> QED BY <1>2, <1>3, <1>4
\* What the keys so far mean.
Means(acc, q, refs, m) ==
  /\ Grown(acc.ts, q)
  /\ acc.is \in Seq(Nat) /\ Len(acc.is) = m
  /\ \A k \in 1 .. m : /\ acc.is[k] \in 1 .. Len(acc.ts)
                       /\ acc.ts[acc.is[k]].x = KeyExpr(q, refs[k], FALSE)

ResolvedAll(all, ts, refs, grouped) == all = ResolveAll(ts, refs, grouped, FALSE)

LEMMA ResolveAllMeans ==
  ASSUME NEW q \in Statements, NEW ts, Grown(ts, q), NEW refs \in Seq(Keys),
         \A k \in DOMAIN refs : Clear(q, refs[k]),
         NEW grouped, NEW all, ResolvedAll(all, ts, refs, grouped), all.ok
  PROVE  Means(all, q, refs, Len(refs))
<1> DEFINE n == Len(refs)
           F == CHOOSE acc : IsResolved(acc, ts, refs, grouped, FALSE, n)
<1>1. n \in Nat /\ DOMAIN refs = 1 .. n
  OBVIOUS
<1>2. IsResolved(F, ts, refs, grouped, FALSE, n)
  BY <1>1, ResolvedExists
<1>3. all = F[n]
  BY DEF ResolvedAll, ResolveAll, IsResolved
<1> HIDE DEF F, n
<1> DEFINE P == {m \in Nat : m <= n /\ F[m].ok => Means(F[m], q, refs, m)}
<1>4. 0 \in P
  <2>1. F[0] = [ok |-> TRUE, is |-> <<>>, ts |-> ts]
    BY <1>1, <1>2 DEF IsResolved
  <2>2. F[0].is \in Seq(Nat) /\ Len(F[0].is) = 0 /\ F[0].ts = ts
    BY <2>1
  <2>3. Grown(F[0].ts, q)
    BY <2>2
  <2>4. Means(F[0], q, refs, 0)
    BY <2>2, <2>3 DEF Means
  <2> QED BY <2>4
<1>5. ASSUME NEW m \in P PROVE m + 1 \in P
  <2>1. SUFFICES ASSUME m + 1 <= n, F[m + 1].ok PROVE Means(F[m + 1], q, refs, m + 1)
    OBVIOUS
  <2>2. m \in Nat /\ m + 1 \in 0 .. n /\ m + 1 # 0 /\ (m + 1) - 1 = m /\ m <= n
    BY <1>1, <2>1
  <2>3. m + 1 \in DOMAIN refs /\ refs[m + 1] \in Keys /\ Clear(q, refs[m + 1])
    BY <1>1, <2>2
  <2>4. PICK acc : acc = F[m]
    OBVIOUS
  <2>5. PICK t : t = Resolve(acc.ts, refs[m + 1], grouped, FALSE)
    OBVIOUS
  <2>6. F[m + 1] = IF ~acc.ok THEN acc ELSE [ok |-> t.ok, is |-> Append(acc.is, t.i), ts |-> t.ts]
    BY <1>2, <2>2, <2>4, <2>5 DEF IsResolved
  <2>7. acc.ok
    BY <2>1, <2>6
  <2>8. Means(acc, q, refs, m)
    BY <2>2, <2>4, <2>7
  <2>9. t.ok
    BY <2>1, <2>6, <2>7
  <2>10. PICK before : before = acc.ts
    OBVIOUS
  <2>11. /\ Grown(t.ts, q) /\ Len(before) <= Len(t.ts) /\ \A i \in 1 .. Len(before) : t.ts[i] = before[i]
         /\ t.i \in 1 .. Len(t.ts) /\ t.ts[t.i].x = KeyExpr(q, refs[m + 1], FALSE)
    <3>1. Grown(before, q)
      BY <2>8, <2>10 DEF Means
    <3>2. PICK ref \in Keys : ref = refs[m + 1]
      BY <2>3
    <3>3. Clear(q, ref)
      BY <2>3, <3>2
    <3>4. Resolved(t, before, ref, grouped)
      BY <2>5, <2>10, <3>2 DEF Resolved
    <3> HIDE DEF P
    <3>5. Found(t, before, q, ref)
      BY <2>9, <3>1, <3>3, <3>4, ResolveMeans
    <3> QED BY <3>2, <3>5 DEF Found
  <2>12. PICK is : is = Append(acc.is, t.i)
    OBVIOUS
  <2>13. F[m + 1].is = is /\ F[m + 1].ts = t.ts
    BY <2>6, <2>7, <2>12
  <2>14. PICK old : old = acc.is
    OBVIOUS
  <2>15. old \in Seq(Nat) /\ Len(old) = m
    BY <2>8, <2>14 DEF Means
  <2>16. t.i \in Nat /\ Len(t.ts) \in Nat
    BY <2>11 DEF Grown
  <2>17. /\ is \in Seq(Nat) /\ Len(is) = m + 1 /\ is[m + 1] = t.i
         /\ \A k \in 1 .. m : is[k] = old[k]
    BY <2>2, <2>12, <2>14, <2>15, <2>16
  <2>18. ASSUME NEW k \in 1 .. m + 1
         PROVE  is[k] \in 1 .. Len(t.ts) /\ t.ts[is[k]].x = KeyExpr(q, refs[k], FALSE)
    <3>1. CASE k = m + 1
      BY <2>11, <2>17, <3>1
    <3>2. CASE k \in 1 .. m
      <4>1. old[k] \in 1 .. Len(before) /\ before[old[k]].x = KeyExpr(q, refs[k], FALSE)
        BY <2>8, <2>10, <2>14, <3>2 DEF Means
      <4>2. Len(t.ts) \in Nat
        BY <2>11 DEF Grown
      <4>3. old[k] \in 1 .. Len(t.ts)
        BY <2>11, <4>1, <4>2
      <4> QED BY <2>11, <2>17, <3>2, <4>1, <4>3
    <3>3. k = m + 1 \/ k \in 1 .. m
      BY <2>2
    <3> QED BY <3>1, <3>2, <3>3
  <2> QED BY <2>11, <2>13, <2>17, <2>18 DEF Means
<1>6. P = Nat
  <2>1. P \in SUBSET Nat
    OBVIOUS
  <2> HIDE DEF P
  <2> QED BY <1>4, <1>5, <2>1, Induct
<1>7. Means(F[n], q, refs, n)
  BY <1>1, <1>3, <1>6
<1> QED BY <1>3, <1>7 DEF n

-----------------------------------------------------------------------------
(* The analysis of a statement without groups.                              *)

ListOf(q) == [i \in DOMAIN q.list |-> Target(q.list[i].x, q.list[i].as, FALSE)]

\* What the analysis of such a statement says, o being what became of its keys.
Parts(q, o, grouped) ==
  /\ Analysis(q).targets = o.ts /\ Analysis(q).orderKeys = o.is
  /\ Analysis(q).calls = Calls(o.ts, q) /\ Analysis(q).preds = Predicates(q)
  /\ Analysis(q).rest = Rest(q) /\ Analysis(q).grouped = FALSE
  /\ ~grouped /\ ResolvedAll(o, ListOf(q), q.order, grouped)
  /\ Grown(ListOf(q), q) /\ Len(ListOf(q)) = Len(q.list)

\* Why the analysis may accept it.
Accepts(q, o) ==
  /\ q.also = {}
  /\ \A i \in DOMAIN q.list : ~Refused(q.list[i].x)
  /\ ~SplitFails(q)
  /\ o.ok
  /\ Written(q) = Len(Calls(o.ts, q))
  /\ \A i \in DOMAIN Calls(o.ts, q) : Calls(o.ts, q)[i].arg \in ArgNames

LEMMA ListGrown ==
  ASSUME NEW q \in Statements
  PROVE  Grown(ListOf(q), q) /\ Len(ListOf(q)) = Len(q.list)
<1> DEFINE list == ListOf(q)
<1>1. PICK n \in Nat : DOMAIN q.list = 1 .. n /\ Len(q.list) = n /\ DOMAIN list = 1 .. n
  BY DEF Statements, ListOf
<1>2. ASSUME NEW i \in 1 .. n
      PROVE  /\ list[i].x = q.list[i].x /\ list[i].as = q.list[i].as /\ list[i].hidden = FALSE
             /\ list[i].kind = Kind(list[i].x)
  BY <1>1 DEF Target, ListOf
<1>3. list \in Seq(Targets)
  <2>1. ASSUME NEW i \in 1 .. n PROVE list[i] \in Targets
    <3>1. q.list[i].x \in Exprs /\ q.list[i].as \in STRING
      <4> DEFINE L == [x : Exprs, as : STRING]
      <4>1. q.list \in Seq(L)
        BY DEF Statements
      <4>2. q.list[i] \in L
        <5> HIDE DEF L
        <5> QED BY <1>1, <4>1
      <4> QED BY <4>2
    <3> QED BY <1>1, <3>1 DEF Target, Kind, Targets, AsNames, ListOf
  <2>2. list = [i \in 1 .. n |-> list[i]]
    BY <1>1 DEF ListOf
  <2>3. list \in [1 .. n -> Targets]
    BY <2>1, <2>2
  <2> HIDE DEF list
  <2> QED BY <2>3
<1>4. Len(list) = n
  <2> HIDE DEF list
  <2> QED BY <1>1, <1>3
<1> HIDE DEF list
<1>5. \A i \in n + 1 .. n : list[i].hidden = TRUE
  <2> \A i \in n + 1 .. n : FALSE
    OBVIOUS
  <2> QED OBVIOUS
<1>6. \A i \in 1 .. n : /\ list[i].x = q.list[i].x /\ list[i].as = q.list[i].as
                        /\ list[i].hidden = FALSE
  BY <1>2
<1>7. \A i \in 1 .. n : list[i].kind = Kind(list[i].x)
  BY <1>2
<1>8. Len(q.list) = n /\ Len(list) = n /\ DOMAIN q.list = 1 .. n /\ n <= n
  BY <1>1, <1>4
<1>9. Grown(list, q)
  BY <1>3, <1>5, <1>6, <1>7, <1>8 DEF Grown
<1> QED BY <1>8, <1>9 DEF list

LEMMA AnalysisParts ==
  ASSUME NEW q \in Statements, ~IsGrouped(q)
  PROVE  \E o, grouped : /\ Parts(q, o, grouped)
                         /\ Analysis(q).ok => Accepts(q, o)
                         /\ Accepts(q, o) => Analysis(q).ok
<1> DEFINE list == [i \in DOMAIN q.list |-> Target(q.list[i].x, q.list[i].as, FALSE)]
           grouped == q.group # <<>> \/ \E i \in DOMAIN list : list[i].kind = "agg"
           g == ResolveAll(list, q.group, grouped, TRUE)
           o == ResolveAll(g.ts, q.order, grouped, FALSE)
<1>1. list = ListOf(q)
  BY DEF ListOf
<1>2. PICK n \in Nat : DOMAIN q.list = 1 .. n /\ DOMAIN list = 1 .. n
  BY DEF Statements
<1>3. ~grouped
  <2>1. \A i \in 1 .. n : ~IsAgg(q.list[i].x)
    BY <1>2 DEF IsGrouped
  <2>2. ASSUME NEW i \in 1 .. n PROVE list[i].kind # "agg"
    <3>1. PICK x : x = q.list[i].x
      OBVIOUS
    <3>2. ~IsAgg(x) /\ list[i].kind = Kind(x)
      BY <1>2, <2>1, <3>1 DEF Target
    <3> HIDE DEF list
    <3> QED BY <3>2 DEF Kind
  <2>3. q.group = <<>>
    BY DEF IsGrouped
  <2> QED BY <1>2, <2>2, <2>3
<1>4. g.ts = list /\ g.is = <<>> /\ g.ok = TRUE
  <2>1. q.group = <<>>
    BY DEF IsGrouped
  <2>2. PICK none : none = q.group
    OBVIOUS
  <2>3. Len(none) = 0
    BY <2>1, <2>2
  <2>4. PICK F : IsResolved(F, list, none, grouped, TRUE, 0) /\ g = F[0]
    <3> HIDE DEF list, grouped
    <3>1. PICK F : F = CHOOSE acc : IsResolved(acc, list, none, grouped, TRUE, 0)
      OBVIOUS
    <3>2. IsResolved(F, list, none, grouped, TRUE, 0)
      BY <3>1, ResolvedExists
    <3>3. g = F[0]
      BY <2>2, <2>3, <3>1 DEF ResolveAll, IsResolved
    <3> QED BY <3>2, <3>3
  <2>5. F[0] = [ok |-> TRUE, is |-> <<>>, ts |-> list]
    <3> HIDE DEF list, grouped, g
    <3> QED BY <2>4 DEF IsResolved
  <2> HIDE DEF list, grouped, g
  <2> QED BY <2>4, <2>5
<1>5. /\ Analysis(q).targets = o.ts /\ Analysis(q).orderKeys = o.is
      /\ Analysis(q).calls = Calls(o.ts, q) /\ Analysis(q).preds = Predicates(q)
      /\ Analysis(q).rest = Rest(q)
  BY DEF Analysis
<1>6. Analysis(q).grouped = FALSE
  <2>1. PICK b \in BOOLEAN : b = grouped
    OBVIOUS
  <2>2. Analysis(q).grouped = b
    BY <2>1 DEF Analysis
  <2> QED BY <1>3, <2>1, <2>2
<1>7. ASSUME Analysis(q).ok
      PROVE  /\ q.also = {}
             /\ \A i \in DOMAIN list : ~Refused(list[i].x)
             /\ ~SplitFails(q)
             /\ o.ok
             /\ Written(q) = Len(Calls(o.ts, q))
             /\ \A i \in DOMAIN Calls(o.ts, q) : Calls(o.ts, q)[i].arg \in {"t"} \cup Range(Columns)
  BY <1>7 DEF Analysis
<1>8. ASSUME /\ q.also = {}
             /\ \A i \in DOMAIN list : ~Refused(list[i].x)
             /\ ~SplitFails(q)
             /\ o.ok
             /\ Written(q) = Len(Calls(o.ts, q))
             /\ \A i \in DOMAIN Calls(o.ts, q) : Calls(o.ts, q)[i].arg \in {"t"} \cup Range(Columns)
      PROVE  Analysis(q).ok
  <2>1. /\ grouped => \A i \in DOMAIN list : list[i].x # Star
        /\ g.ok
        /\ \A i \in Range(g.is) : g.ts[i].kind # "agg"
        /\ grouped => \A i \in DOMAIN list : list[i].kind = "plain" => i \in Range(g.is)
    <3>1. Range(g.is) = {}
      <4>1. PICK e : e = g.is
        OBVIOUS
      <4>2. DOMAIN e = {}
        <5>1. e = <<>>
          BY <1>4, <4>1
        <5> QED BY <5>1
      <4>3. Range(e) = {}
        BY <4>2 DEF Range
      <4> QED BY <4>1, <4>3
    <3> QED BY <1>3, <1>4, <3>1
  <2> QED BY <1>8, <2>1 DEF Analysis
<1>9. \A i \in DOMAIN q.list : list[i].x = q.list[i].x
  BY DEF Target
<1>10. DOMAIN list = DOMAIN q.list
  OBVIOUS
<1>11. {"t"} \cup Range(Columns) = ArgNames
  <2>1. DOMAIN Columns = 1 .. 2 /\ Columns[1] = "a" /\ Columns[2] = "b"
    BY DEF Columns
  <2>2. Range(Columns) = {"a", "b"}
    <3>1. Range(Columns) = {Columns[i] : i \in 1 .. 2}
      BY <2>1 DEF Range
    <3> QED BY <2>1, <3>1
  <2> QED BY <2>2 DEF ArgNames
<1>12. ResolvedAll(o, ListOf(q), q.order, grouped)
  BY <1>1, <1>4 DEF ResolvedAll
<1> HIDE DEF list, grouped, g, o
<1>13. Parts(q, o, grouped)
  BY <1>3, <1>5, <1>6, <1>12, ListGrown DEF Parts
<1>14. Analysis(q).ok => Accepts(q, o)
  BY <1>7, <1>9, <1>10, <1>11 DEF Accepts
<1>15. Accepts(q, o) => Analysis(q).ok
  BY <1>8, <1>9, <1>10, <1>11 DEF Accepts
<1> QED BY <1>13, <1>14, <1>15

-----------------------------------------------------------------------------
(* LIMIT that stays with Postgres.                                          *)

\* Keys of ORDER BY that mean one expression each, and no aggregate but in
\* groups (Postgres refuses it; here it has no value in a row and sorts nothing).
KeysClear(q) ==
  /\ \A k \in DOMAIN q.order : Clear(q, q.order[k])
  /\ ~IsGrouped(q) => \A x \in OrderExprs(q) : ~IsAgg(x)

\* A statement of which nothing but plain values is filtered or sorted by.
AllPlain(q) ==
  /\ ~IsGrouped(q)
  /\ \A t \in Range(Terms(q)) : t.kind = "plain"
  /\ \A x \in OrderExprs(q) : ~IsJev(x)

LEMMA NoPredicates ==
  ASSUME NEW q \in Statements, \A t \in Range(Terms(q)) : t.kind = "plain"
  PROVE  Predicates(q) = <<>>
<1> DEFINE T == Terms(q)
           ss == [i \in DOMAIN T |-> IF T[i].kind \in {"jev", "not jev"} THEN <<T[i]>> ELSE <<>>]
           ps == Select(T, LAMBDA t : t.kind \in {"jev", "not jev"})
<1>1. PICK n \in Nat : T \in [1 .. n -> SimpleTerms]
  BY TermsType
<1>2. ASSUME NEW i \in 1 .. n PROVE T[i].kind = "plain"
  <2>1. T[i] \in Range(T)
    BY <1>1 DEF Range
  <2> QED BY <2>1
<1>3. ss \in [1 .. n -> Seq(SimpleTerms)] /\ \A i \in 1 .. n : ss[i] = <<>>
  <2>1. ASSUME NEW i \in 1 .. n PROVE ss[i] = <<>>
    BY <1>1, <1>2
  <2>2. <<>> \in Seq(SimpleTerms)
    OBVIOUS
  <2> QED BY <1>1, <2>1, <2>2
<1>4. ps = FlattenSeq(ss)
  BY DEF Select
<1>5. Predicates(q) = [i \in DOMAIN ps |-> [x |-> ps[i].x, negate |-> ps[i].kind = "not jev"]]
  BY DEF Predicates
<1> HIDE DEF ss, T, ps
<1>6. FlattenSeq(ss) \in Seq(SimpleTerms) /\ Begins(FlattenSeq(ss), T, 0)
  <2>1. \A i \in 1 .. 0 : ss[i] = <<T[i]>>
    OBVIOUS
  <2>2. \A i \in 0 + 1 .. n : ss[i] = <<>>
    BY <1>3
  <2>3. 0 \in 0 .. n
    OBVIOUS
  <2> QED BY <1>1, <1>3, <2>1, <2>2, <2>3, FlattenPrefix
<1>7. DOMAIN ps = {}
  BY <1>4, <1>6 DEF Begins
<1> QED BY <1>5, <1>7

\* rewrite.go leaves ORDER BY, LIMIT and OFFSET of such a statement to Postgres.
LEMMA PushedDown ==
  ASSUME NEW q \in Statements, Analysis(q).ok, AllPlain(q), KeysClear(q)
  PROVE  /\ ServerOrder(Analysis(q)) /\ Analysis(q).preds = <<>> /\ ~Analysis(q).grouped
<1>1. ~IsGrouped(q)
  BY DEF AllPlain
<1>2. PICK o, grouped : Parts(q, o, grouped) /\ o.ok
  BY <1>1, AnalysisParts DEF Accepts
<1>3. /\ Analysis(q).targets = o.ts /\ Analysis(q).orderKeys = o.is
      /\ Analysis(q).grouped = FALSE /\ Analysis(q).preds = Predicates(q)
      /\ Grown(ListOf(q), q) /\ ResolvedAll(o, ListOf(q), q.order, grouped)
  BY <1>2 DEF Parts
<1>4. Means(o, q, q.order, Len(q.order))
  <2>1. q.order \in Seq(Keys) /\ \A k \in DOMAIN q.order : Clear(q, q.order[k])
    BY DEF Statements, KeysClear
  <2>2. PICK refs, list : refs = q.order /\ list = ListOf(q)
    OBVIOUS
  <2>3. Means(o, q, refs, Len(refs))
    BY <1>2, <1>3, <2>1, <2>2, ResolveAllMeans
  <2> QED BY <2>2, <2>3
<1>5. Predicates(q) = <<>>
  BY NoPredicates DEF AllPlain
<1>6. ASSUME NEW i \in Range(o.is) PROVE o.ts[i].kind = "plain"
  <2>1. PICK m \in Nat : m = Len(q.order) /\ DOMAIN q.order = 1 .. m
    BY DEF Statements
  <2>2. PICK k \in 1 .. m : i = o.is[k]
    BY <1>4, <2>1 DEF Means, Range
  <2>3. i \in 1 .. Len(o.ts) /\ o.ts[i].x = KeyExpr(q, q.order[k], FALSE)
    BY <1>4, <2>1, <2>2 DEF Means
  <2>4. KeyExpr(q, q.order[k], FALSE) \in OrderExprs(q)
    BY <2>1 DEF OrderExprs
  <2>5. ~IsJev(o.ts[i].x) /\ ~IsAgg(o.ts[i].x)
    BY <2>3, <2>4 DEF AllPlain, KeysClear
  <2>6. o.ts[i].kind = Kind(o.ts[i].x)
    BY <1>4, <2>3 DEF Means, Grown
  <2> QED BY <2>5, <2>6 DEF Kind
<1>7. ServerOrder(Analysis(q))
  BY <1>3, <1>5, <1>6 DEF ServerOrder
<1> QED BY <1>3, <1>5, <1>7
\* The plan is that of the statement.
PlanHeld ==
  \/ pc = "analyze"
  \/ pc = "done" /\ out.err # ""
  \/ /\ Analysis(query).ok
     /\ ServerOrder(Analysis(query)) => plan.serverOrder
     /\ plan.preds = Analysis(query).preds
     /\ plan.grouped => Analysis(query).grouped

PushedPlan == plan.serverOrder /\ plan.preds = <<>> /\ ~plan.grouped

\* Of a statement that was pushed down, every collected row is shown.
ShownAll == pc = "done" /\ out.err = "" /\ PushedPlan => Len(out.rows) = Len(collected)

LimitInv == Inv /\ PlanHeld /\ ShownAll

LEMMA KeptAll ==
  ASSUME plan.preds = <<>>, NEW n \in Nat, DOMAIN collected = 1 .. n
  PROVE  DOMAIN Kept = 1 .. n /\ \A i \in 1 .. n : Kept[i] = collected[i]
<1> DEFINE ss == [i \in DOMAIN collected |-> <<collected[i]>>]
           S == {collected[i] : i \in 1 .. n}
<1>1. PICK c : c = [i \in 1 .. n |-> collected[i]]
  OBVIOUS
<1>2. Kept = FlattenSeq(ss)
  <2>1. \A row : \A k \in DOMAIN plan.preds :
          LET x == plan.preds[k].x
              pass == Holds(x, verdict[ObjectOf(row, x)])
          IN  IF plan.preds[k].negate THEN ~pass ELSE pass
    OBVIOUS
  <2> QED BY <2>1 DEF Kept, Select
<1>3. c \in [1 .. n -> S] /\ ss \in [1 .. n -> Seq(S)] /\ \A i \in 1 .. n : ss[i] = <<c[i]>>
  <2>1. ASSUME NEW i \in 1 .. n PROVE c[i] \in S /\ ss[i] = <<c[i]>>
    BY <1>1
  <2> HIDE DEF S
  <2>2. ASSUME NEW i \in 1 .. n PROVE ss[i] \in Seq(S)
    <3>1. c[i] \in S /\ ss[i] = <<c[i]>>
      BY <2>1
    <3> HIDE DEF ss
    <3> QED BY <3>1
  <2> QED BY <1>1, <2>1, <2>2
<1> HIDE DEF ss, S
<1>4. Begins(FlattenSeq(ss), c, n)
  <2>1. \A i \in n + 1 .. n : ss[i] = <<>>
    <3> \A i \in n + 1 .. n : FALSE
      OBVIOUS
    <3> QED OBVIOUS
  <2>2. n \in 0 .. n
    OBVIOUS
  <2> QED BY <1>3, <2>1, <2>2, FlattenPrefix
<1>5. \A i \in 1 .. n : c[i] = collected[i]
  BY <1>1
<1> QED BY <1>2, <1>4, <1>5 DEF Begins

LEMMA AnalyzeHolds == LimitInv /\ Analyze => PlanHeld' /\ ShownAll'
<1> SUFFICES ASSUME LimitInv, Analyze PROVE PlanHeld' /\ ShownAll'
  OBVIOUS
<1>1. CASE ~Analysis(query).ok
  <2>1. out' = [err |-> "sql", rows |-> <<>>] /\ pc' = "done"
    BY <1>1 DEF Analyze, Failed
  <2>2. out'.err = "sql"
    BY <2>1
  <2> QED BY <2>1, <2>2 DEF PlanHeld, ShownAll
<1>2. CASE Analysis(query).ok
  <2>1. PICK a : a = Analysis(query)
    OBVIOUS
  <2>2. /\ plan'.serverOrder = ServerOrder(a) /\ plan'.preds = a.preds /\ plan'.grouped = a.grouped
        /\ query' = query /\ pc' = "planned"
    BY <1>2, <2>1 DEF Analyze
  <2>3. PlanHeld'
    BY <1>2, <2>1, <2>2 DEF PlanHeld
  <2>4. ShownAll'
    BY <2>2 DEF ShownAll
  <2> QED BY <2>3, <2>4
<1> QED BY <1>1, <1>2

LEMMA CollectHolds == LimitInv /\ Collect => PlanHeld' /\ ShownAll'
<1> SUFFICES ASSUME LimitInv, Collect PROVE PlanHeld' /\ ShownAll'
  OBVIOUS
<1>1. pc = "planned" /\ query' = query /\ plan' = plan
  BY DEF Collect
<1>2. PlanHeld'
  BY <1>1 DEF LimitInv, PlanHeld
<1>3. \/ pc' = "done" /\ \E why \in {"sql", "budget"} : out' = [err |-> why, rows |-> <<>>]
      \/ pc' = "collected"
  BY DEF Collect, Failed
<1>4. pc' = "done" => out'.err # ""
  <2>1. ASSUME NEW why \in {"sql", "budget"}, out' = [err |-> why, rows |-> <<>>] PROVE out'.err # ""
    BY <2>1
  <2> QED BY <1>3, <2>1
<1>5. ShownAll'
  BY <1>4 DEF ShownAll
<1> QED BY <1>2, <1>5

LEMMA ProjectHolds == LimitInv /\ Project => PlanHeld' /\ ShownAll'
<1> SUFFICES ASSUME LimitInv, Project PROVE PlanHeld' /\ ShownAll'
  OBVIOUS
<1>1. pc = "judged" /\ pc' = "done" /\ query' = query /\ plan' = plan /\ collected' = collected
  BY DEF Project, Failed
<1>2. PlanHeld'
  BY <1>1 DEF LimitInv, PlanHeld
<1>3. ShownAll'
  <2>1. SUFFICES ASSUME PushedPlan, out'.err = "" PROVE Len(out'.rows) = Len(collected)
    BY <1>1 DEF ShownAll, PushedPlan
  <2>2. PICK n \in Nat : DOMAIN collected = 1 .. n /\ Len(collected) = n
    BY DEF LimitInv, Inv, CollectedRows
  <2>3. DOMAIN Kept = 1 .. n
    BY <2>1, <2>2, KeptAll DEF PushedPlan
  <2>4. PICK rows : rows = [i \in DOMAIN Kept |-> PlainLine(Kept[i])]
    OBVIOUS
  <2>5. out' = [err |-> "", rows |-> [i \in DOMAIN rows |-> rows[i].cells]]
    BY <2>1, <2>4 DEF Project, PushedPlan
  <2>6. DOMAIN rows = 1 .. n
    BY <2>3, <2>4
  <2>7. PICK shown : shown = [i \in 1 .. n |-> rows[i].cells]
    OBVIOUS
  <2>8. out'.rows = shown
    BY <2>5, <2>6, <2>7
  <2>9. Len(shown) = n
    BY <2>2, <2>7
  <2> QED BY <2>2, <2>8, <2>9
<1> QED BY <1>2, <1>3

LEMMA LimitInvariant == Spec => []LimitInv
<1>1. Init => LimitInv
  BY InitInv DEF LimitInv, Init, PlanHeld, ShownAll
<1>2. LimitInv /\ [Next]_vars => LimitInv'
  <2> SUFFICES ASSUME LimitInv, [Next]_vars PROVE PlanHeld' /\ ShownAll'
    BY StepPreserves DEF LimitInv
  <2>1. CASE Analyze
    BY <2>1, AnalyzeHolds
  <2>2. CASE Collect
    BY <2>2, CollectHolds
  <2>3. CASE ExplainQuery
    BY <2>3 DEF ExplainQuery, LimitInv, PlanHeld, ShownAll
  <2>4. CASE Judge
    BY <2>4 DEF Judge, LimitInv, PlanHeld, ShownAll
  <2>5. CASE Project
    BY <2>5, ProjectHolds
  <2>6. CASE UNCHANGED vars
    BY <2>6 DEF vars, LimitInv, PlanHeld, ShownAll, PushedPlan
  <2> QED BY <2>1, <2>2, <2>3, <2>4, <2>5, <2>6 DEF Next, Finished
<1> QED BY <1>1, <1>2, PTL DEF Spec

\* "Then LIMIT 10 judges ten rows" (docs/sql.mdx): a statement without judged
\* filters, judged sort keys and groups judges exactly the rows it shows, because
\* resolveRef (analyze.go) finds nothing judged in its keys and Build (rewrite.go)
\* leaves ORDER BY, LIMIT and OFFSET to Postgres.  KeysClear says for which keys:
\* the others mean something else to Postgres, or nothing.
THEOREM LimitPushed == Spec => [](KeysClear(query) => LimitJudged)
<1>1. ASSUME LimitInv, KeysClear(query) PROVE LimitJudged
  <2>1. SUFFICES ASSUME pc = "done", out.err = "", AllPlain(query)
                 PROVE  Len(collected) = Len(out.rows)
    BY DEF LimitJudged, AllPlain
  <2>2. query \in Statements
    BY <1>1 DEF LimitInv, Inv, Fed
  <2>3. /\ Analysis(query).ok
        /\ ServerOrder(Analysis(query)) => plan.serverOrder
        /\ plan.preds = Analysis(query).preds
        /\ plan.grouped => Analysis(query).grouped
    BY <1>1, <2>1 DEF LimitInv, PlanHeld
  <2>4. ServerOrder(Analysis(query)) /\ Analysis(query).preds = <<>> /\ ~Analysis(query).grouped
    BY <1>1, <2>1, <2>2, <2>3, PushedDown
  <2>5. PushedPlan
    BY <2>3, <2>4 DEF PushedPlan
  <2> QED BY <1>1, <2>1, <2>5 DEF LimitInv, ShownAll
<1> QED BY <1>1, LimitInvariant, PTL

LEMMA PrecedesOrder ==
  ASSUME NEW key \in Keys, NEW u \in Int, NEW v \in Int, NEW w \in Int
  PROVE  ~Precedes(u, u, key) /\ (Precedes(u, v, key) /\ Precedes(v, w, key) => Precedes(u, w, key))
<1>1. key.desc \in BOOLEAN /\ key.nullsFirst \in BOOLEAN
  BY DEF Keys
<1> QED BY <1>1 DEF Precedes, Null

\* A list of sort keys comes neither before itself nor before one it comes after.
LEMMA BeforeOrder ==
  ASSUME NEW order \in Seq(Keys), NEW m \in Nat, m = Len(order),
         NEW ks \in [1 .. m -> Int], NEW ls \in [1 .. m -> Int], NEW ms \in [1 .. m -> Int]
  PROVE  ~Before(ks, ks, order) /\ (Before(ks, ls, order) /\ Before(ls, ms, order) => Before(ks, ms, order))
<1>1. DOMAIN order = 1 .. m /\ \A k \in 1 .. m : order[k] \in Keys
  OBVIOUS
<1>2. ~Before(ks, ks, order)
  <2>1. ASSUME NEW k \in 1 .. m PROVE ~Precedes(ks[k], ks[k], order[k])
    BY <1>1, PrecedesOrder
  <2> QED BY <1>1, <2>1 DEF Before
<1>3. ASSUME Before(ks, ls, order), Before(ls, ms, order) PROVE Before(ks, ms, order)
  <2>1. PICK i \in 1 .. m : /\ Precedes(ks[i], ls[i], order[i])
                            /\ \A j \in 1 .. i - 1 : ks[j] = ls[j]
    BY <1>1, <1>3 DEF Before
  <2>2. PICK k \in 1 .. m : /\ Precedes(ls[k], ms[k], order[k])
                            /\ \A j \in 1 .. k - 1 : ls[j] = ms[j]
    BY <1>1, <1>3 DEF Before
  <2>3. CASE i < k
    <3>1. ls[i] = ms[i] /\ \A j \in 1 .. i - 1 : ls[j] = ms[j]
      BY <2>2, <2>3
    <3> QED BY <1>1, <2>1, <3>1 DEF Before
  <2>4. CASE k < i
    <3>1. ks[k] = ls[k] /\ \A j \in 1 .. k - 1 : ks[j] = ls[j]
      BY <2>1, <2>4
    <3> QED BY <1>1, <2>2, <3>1 DEF Before
  <2>5. CASE i = k
    <3>1. Precedes(ks[i], ms[i], order[i])
      <4>1. order[i] \in Keys /\ ks[i] \in Int /\ ls[i] \in Int /\ ms[i] \in Int
        BY <1>1
      <4> QED BY <2>1, <2>2, <2>5, <4>1, PrecedesOrder
    <3>2. \A j \in 1 .. i - 1 : ks[j] = ms[j]
      BY <2>1, <2>2, <2>5
    <3> QED BY <1>1, <3>1, <3>2 DEF Before
  <2> QED BY <2>3, <2>4, <2>5
<1> QED BY <1>2, <1>3

\* sortRows compares as Postgres does.
LEMMA LessIsBefore ==
  ASSUME NEW x, NEW y
  PROVE  Less(x, y) <=> Before(x.keys, y.keys, query.order)
<1>1. ASSUME NEW k \in DOMAIN query.order
      PROVE  (LET v == x.keys[k]  w == y.keys[k]
              IN  IF v = Null THEN w # Null /\ query.order[k].nullsFirst
                  ELSE IF w = Null THEN ~query.order[k].nullsFirst
                  ELSE IF query.order[k].desc THEN v > w ELSE v < w)
             <=> Precedes(x.keys[k], y.keys[k], query.order[k])
  BY DEF Precedes
<1> QED BY <1>1 DEF Less, Before
-----------------------------------------------------------------------------
(* The sort.                                                                *)

\* What sorting has after each row.
Sorts(f, rows, n) ==
  f = [k \in 0 .. n |-> IF k = 0 THEN <<>> ELSE Inserted(f[k - 1], rows[k])]

LEMMA InductTo ==
  ASSUME NEW n \in Nat, NEW P \in SUBSET (0 .. n), 0 \in P, \A k \in 0 .. n - 1 : k \in P => k + 1 \in P
  PROVE  P = 0 .. n
<1> DEFINE Q == {k \in Nat : k <= n => k \in P}
<1>1. ASSUME NEW k \in Q PROVE k + 1 \in Q
  <2>1. k + 1 <= n => k \in 0 .. n - 1
    OBVIOUS
  <2> QED BY <2>1
<1>2. Q = Nat
  <2>1. 0 \in Q /\ Q \in SUBSET Nat
    OBVIOUS
  <2> HIDE DEF Q
  <2> QED BY <1>1, <2>1, Induct
<1>3. \A k \in 0 .. n : k \in Nat /\ k <= n
  OBVIOUS
<1>4. \A k \in 0 .. n : k \in P
  BY <1>2, <1>3
<1> QED BY <1>4

LEMMA SortsExists ==
  ASSUME NEW rows, NEW n \in Nat
  PROVE  \E f : Sorts(f, rows, n)
<1> DEFINE P == {m \in 0 .. n : \E f : Sorts(f, rows, m)}
<1>1. 0 \in P
  <2>1. Sorts([k \in 0 .. 0 |-> <<>>], rows, 0)
    BY DEF Sorts
  <2> QED BY <2>1
<1>2. ASSUME NEW m \in 0 .. n - 1, m \in P PROVE m + 1 \in P
  <2>1. PICK f : Sorts(f, rows, m)
    BY <1>2
  <2> DEFINE g == [k \in 0 .. m + 1 |-> IF k = 0 THEN <<>> ELSE Inserted(f[k - 1], rows[k])]
  <2>2. ASSUME NEW k \in 0 .. m PROVE g[k] = f[k]
    BY <2>1 DEF Sorts
  <2>3. ASSUME NEW k \in 0 .. m + 1, k # 0 PROVE g[k - 1] = f[k - 1]
    <3>1. k - 1 \in 0 .. m
      BY <2>3
    <3> QED BY <2>2, <3>1
  <2>4. g = [k \in 0 .. m + 1 |-> IF k = 0 THEN <<>> ELSE Inserted(g[k - 1], rows[k])]
    BY <2>3
  <2>5. Sorts(g, rows, m + 1)
    BY <2>4 DEF Sorts
  <2>6. m + 1 \in 0 .. n
    OBVIOUS
  <2> QED BY <2>5, <2>6
<1>3. P = 0 .. n
  <2>1. P \in SUBSET (0 .. n)
    OBVIOUS
  <2> HIDE DEF P
  <2> QED BY <1>1, <1>2, <2>1, InductTo
<1> QED BY <1>3

LEMMA SortSteps ==
  ASSUME NEW rows, NEW n \in Nat, n = Len(rows)
  PROVE  \E f : /\ f[0] = <<>> /\ \A k \in 1 .. n : f[k] = Inserted(f[k - 1], rows[k])
                /\ Sorted(rows) = f[n]
<1> DEFINE F == CHOOSE f : Sorts(f, rows, n)
<1>1. Sorts(F, rows, n)
  BY SortsExists
<1>2. Sorted(rows) = F[n]
  BY DEF Sorted, Sorts
<1> HIDE DEF F
<1>3. F[0] = <<>> /\ \A k \in 1 .. n : F[k] = Inserted(F[k - 1], rows[k])
  BY <1>1 DEF Sorts
<1> QED BY <1>2, <1>3

\* s with r put before its i-th element.
Put(t, s, r, i, k) ==
  /\ Len(t) = k + 1 /\ t[i] = r
  /\ \A j \in 1 .. i - 1 : t[j] = s[j]
  /\ \A j \in i + 1 .. k + 1 : t[j] = s[j - 1]

LEMMA InsertPuts ==
  ASSUME NEW S, NEW s \in Seq(S), NEW r \in S, NEW k \in Nat, k = Len(s), NEW i \in 1 .. k + 1
  PROVE  InsertAt(s, i, r) \in Seq(S) /\ Put(InsertAt(s, i, r), s, r, i, k)
<1>1. PICK a \in Seq(S) : a = SubSeq(s, 1, i - 1)
  <2>1. SubSeq(s, 1, i - 1) \in Seq(S)
    OBVIOUS
  <2> QED BY <2>1
<1>2. PICK b \in Seq(S) : b = SubSeq(s, i, k)
  <2>1. SubSeq(s, i, k) \in Seq(S)
    OBVIOUS
  <2> QED BY <2>1
<1>3. Len(a) = i - 1 /\ \A j \in 1 .. i - 1 : a[j] = s[j]
  BY <1>1
<1>4. Len(b) = k + 1 - i /\ \A j \in 1 .. k + 1 - i : b[j] = s[i + j - 1]
  BY <1>2
<1>5. PICK u \in Seq(S) : u = a \o <<r>>
  <2>1. a \o <<r>> \in Seq(S)
    OBVIOUS
  <2> QED BY <2>1
<1>6. Len(u) = i /\ u[i] = r /\ \A j \in 1 .. i - 1 : u[j] = s[j]
  BY <1>3, <1>5
<1>7. PICK t \in Seq(S) : t = u \o b
  <2>1. u \o b \in Seq(S)
    OBVIOUS
  <2> QED BY <2>1
<1>8. /\ Len(t) = Len(u) + Len(b)
      /\ \A j \in 1 .. Len(u) : t[j] = u[j]
      /\ \A j \in 1 .. Len(b) : t[Len(u) + j] = b[j]
  BY <1>7
<1>9. Len(t) = k + 1 /\ t[i] = r /\ \A j \in 1 .. i - 1 : t[j] = s[j]
  BY <1>4, <1>6, <1>8
<1>10. ASSUME NEW j \in i + 1 .. k + 1 PROVE t[j] = s[j - 1]
  <2>1. PICK c \in Int : c = j - i
    OBVIOUS
  <2>2. c \in 1 .. k + 1 - i /\ i + c = j /\ i + c - 1 = j - 1
    BY <2>1
  <2> QED BY <1>4, <1>6, <1>8, <2>2
<1>11. InsertAt(s, i, r) = t
  BY <1>1, <1>2, <1>5, <1>7 DEF InsertAt
<1> QED BY <1>9, <1>10, <1>11 DEF Put

\* No row is less than one before it.
InOrder(s, k) == \A i, j \in 1 .. k : i < j => ~Less(s[j], s[i])

\* The row goes where it is in order.
LEMMA InsertedWhere ==
  ASSUME query.order \in Seq(Keys), NEW m \in Nat, m = Len(query.order),
         NEW S, \A x \in S : x.keys \in [1 .. m -> Int],
         NEW s \in Seq(S), NEW k \in Nat, k = Len(s), InOrder(s, k), NEW r \in S
  PROVE  \E i \in 1 .. k + 1 : /\ Inserted(s, r) = InsertAt(s, i, r)
                               /\ \A j \in 1 .. i - 1 : ~Less(r, s[j])
                               /\ \A j \in i .. k : ~Less(s[j], r)
<1> DEFINE later == {i \in DOMAIN s : Less(r, s[i])}
<1>1. \A x, y, z \in S : ~Less(x, x) /\ (Less(x, y) /\ Less(y, z) => Less(x, z))
  <2> SUFFICES ASSUME NEW x \in S, NEW y \in S, NEW z \in S
               PROVE  ~Less(x, x) /\ (Less(x, y) /\ Less(y, z) => Less(x, z))
    OBVIOUS
  <2>1. PICK ks \in [1 .. m -> Int], ls \in [1 .. m -> Int], ms \in [1 .. m -> Int] :
          ks = x.keys /\ ls = y.keys /\ ms = z.keys
    OBVIOUS
  <2>2. ~Before(ks, ks, query.order)
        /\ (Before(ks, ls, query.order) /\ Before(ls, ms, query.order) => Before(ks, ms, query.order))
    BY BeforeOrder
  <2> QED BY <2>1, <2>2, LessIsBefore
<1>2. later \in SUBSET Nat /\ DOMAIN s = 1 .. k
  OBVIOUS
<1>3. \A j \in 1 .. k : s[j] \in S
  OBVIOUS
<1>4. CASE later = {}
  <2>1. Inserted(s, r) = InsertAt(s, k + 1, r)
    BY <1>4 DEF Inserted
  <2>2. \A j \in 1 .. (k + 1) - 1 : ~Less(r, s[j])
    BY <1>2, <1>4
  <2>3. \A j \in k + 1 .. k : ~Less(s[j], r)
    <3> \A j \in k + 1 .. k : FALSE
      OBVIOUS
    <3> QED OBVIOUS
  <2>4. k + 1 \in 1 .. k + 1
    OBVIOUS
  <2> HIDE DEF later
  <2> QED BY <2>1, <2>2, <2>3, <2>4
<1>5. CASE later # {}
  <2>1. PICK i \in later : \A j \in later : i <= j
    <3> HIDE DEF later
    <3> QED BY <1>2, <1>5, LeastOne
  <2>2. Least(later) \in later /\ \A j \in later : Least(later) <= j
    <3> HIDE DEF later
    <3> QED BY <2>1 DEF Least
  <2>3. i = Least(later)
    <3>1. i <= Least(later) /\ Least(later) <= i /\ i \in Nat /\ Least(later) \in Nat
      <4> HIDE DEF later
      <4> QED BY <1>2, <2>1, <2>2
    <3> HIDE DEF later
    <3> QED BY <3>1
  <2>4. Inserted(s, r) = InsertAt(s, i, r)
    BY <1>5, <2>3 DEF Inserted
  <2>5. i \in 1 .. k /\ Less(r, s[i]) /\ i \in 1 .. k + 1
    BY <1>2
  <2>6. ASSUME NEW j \in 1 .. i - 1 PROVE ~Less(r, s[j])
    <3>1. j \in 1 .. k /\ ~(i <= j)
      BY <2>5
    <3> QED BY <1>2, <2>1, <3>1
  <2>7. ASSUME NEW j \in i .. k PROVE ~Less(s[j], r)
    <3>1. j \in 1 .. k
      BY <2>5
    <3>2. CASE j = i
      BY <1>1, <1>3, <2>5, <3>2
    <3>3. CASE j # i
      <4>1. ~Less(s[j], s[i])
        BY <2>5, <3>1, <3>3 DEF InOrder
      <4> QED BY <1>1, <1>3, <2>5, <3>1, <4>1
    <3> QED BY <3>2, <3>3
  <2> HIDE DEF later
  <2> QED BY <2>4, <2>5, <2>6, <2>7
<1> QED BY <1>4, <1>5

\* g says where the first k things of a list have gone.
Shuffle(g, k) == g \in [1 .. k -> 1 .. k] /\ \A i, j \in 1 .. k : i # j => g[i] # g[j]

Arranged(s, rows, k) ==
  /\ Len(s) = k /\ InOrder(s, k)
  /\ \E g : Shuffle(g, k) /\ \A i \in 1 .. k : s[i] = rows[g[i]]

LEMMA InsertStep ==
  ASSUME query.order \in Seq(Keys), NEW m \in Nat, m = Len(query.order),
         NEW S, \A x \in S : x.keys \in [1 .. m -> Int],
         NEW s \in Seq(S), NEW k \in Nat, NEW rows, Arranged(s, rows, k),
         NEW r \in S, r = rows[k + 1]
  PROVE  Inserted(s, r) \in Seq(S) /\ Arranged(Inserted(s, r), rows, k + 1)
<1>1. k = Len(s) /\ InOrder(s, k)
  BY DEF Arranged
<1>2. PICK i \in 1 .. k + 1 : /\ Inserted(s, r) = InsertAt(s, i, r)
                              /\ \A j \in 1 .. i - 1 : ~Less(r, s[j])
                              /\ \A j \in i .. k : ~Less(s[j], r)
  BY <1>1, InsertedWhere
<1>3. PICK t \in Seq(S) : t = Inserted(s, r) /\ Put(t, s, r, i, k)
  BY <1>1, <1>2, InsertPuts
<1>4. PICK g : Shuffle(g, k) /\ \A j \in 1 .. k : s[j] = rows[g[j]]
  BY DEF Arranged
<1> DEFINE h == [j \in 1 .. k + 1 |-> IF j < i THEN g[j] ELSE IF j = i THEN k + 1 ELSE g[j - 1]]
<1>5. /\ \A j \in 1 .. i - 1 : j \in 1 .. k /\ j \in 1 .. k + 1
      /\ \A j \in i + 1 .. k + 1 : j - 1 \in 1 .. k /\ j - 1 \in i .. k
  OBVIOUS
<1>6. \A j \in 1 .. k : g[j] \in 1 .. k /\ g[j] # k + 1
  BY <1>4 DEF Shuffle
<1>7. \A j \in 1 .. k + 1 : h[j] \in 1 .. k + 1 /\ (h[j] = k + 1 <=> j = i)
  <2> SUFFICES ASSUME NEW j \in 1 .. k + 1 PROVE h[j] \in 1 .. k + 1 /\ (h[j] = k + 1 <=> j = i)
    OBVIOUS
  <2>1. CASE j < i
    <3>1. j \in 1 .. k /\ h[j] = g[j]
      BY <2>1
    <3> HIDE DEF h
    <3> QED BY <1>6, <2>1, <3>1
  <2>2. CASE j = i
    BY <2>2
  <2>3. CASE j > i
    <3>1. j - 1 \in 1 .. k /\ h[j] = g[j - 1]
      BY <2>3
    <3> HIDE DEF h
    <3> QED BY <1>6, <2>3, <3>1
  <2> QED BY <2>1, <2>2, <2>3
<1>8. ASSUME NEW a \in 1 .. k + 1, NEW b \in 1 .. k + 1, a < b PROVE h[a] # h[b]
  <2>1. CASE a = i \/ b = i
    <3> HIDE DEF h
    <3> QED BY <1>7, <1>8, <2>1
  <2>2. CASE a # i /\ b # i
    <3>1. PICK c \in 1 .. k : h[a] = g[c] /\ c = IF a < i THEN a ELSE a - 1
      BY <2>2
    <3>2. PICK d \in 1 .. k : h[b] = g[d] /\ d = IF b < i THEN b ELSE b - 1
      BY <2>2
    <3>3. c # d
      BY <1>8, <2>2, <3>1, <3>2
    <3> HIDE DEF h
    <3> QED BY ZenonT(40), <1>4, <3>1, <3>2, <3>3 DEF Shuffle
  <2> QED BY <2>1, <2>2
<1>9. Shuffle(h, k + 1)
  <2>1. h \in [1 .. k + 1 -> 1 .. k + 1]
    BY <1>7
  <2> HIDE DEF h
  <2>2. ASSUME NEW a \in 1 .. k + 1, NEW b \in 1 .. k + 1, a # b PROVE h[a] # h[b]
    <3>1. a < b \/ b < a
      BY <2>2
    <3> QED BY <1>8, <3>1
  <2> QED BY <2>1, <2>2 DEF Shuffle
<1>10. ASSUME NEW j \in 1 .. k + 1 PROVE t[j] = rows[h[j]]
  <2>1. CASE j < i
    <3>1. t[j] = s[j] /\ h[j] = g[j] /\ j \in 1 .. k
      BY <1>3, <2>1 DEF Put
    <3> HIDE DEF h
    <3> QED BY <1>4, <3>1
  <2>2. CASE j = i
    <3>1. t[j] = r /\ h[j] = k + 1
      BY <1>3, <2>2 DEF Put
    <3> HIDE DEF h
    <3> QED BY <3>1
  <2>3. CASE j > i
    <3>1. t[j] = s[j - 1] /\ h[j] = g[j - 1] /\ j - 1 \in 1 .. k
      BY <1>3, <2>3 DEF Put
    <3> HIDE DEF h
    <3> QED BY <1>4, <3>1
  <2> QED BY <2>1, <2>2, <2>3
<1>11. InOrder(t, k + 1)
  <2> SUFFICES ASSUME NEW a \in 1 .. k + 1, NEW b \in 1 .. k + 1, a < b PROVE ~Less(t[b], t[a])
    BY DEF InOrder
  <2>1. CASE a = i
    <3>1. t[a] = r /\ t[b] = s[b - 1] /\ b - 1 \in i .. k
      BY <1>3, <2>1 DEF Put
    <3> QED BY <1>2, <3>1
  <2>2. CASE b = i
    <3>1. t[b] = r /\ t[a] = s[a] /\ a \in 1 .. i - 1
      BY <1>3, <2>2 DEF Put
    <3> QED BY <1>2, <3>1
  <2>3. CASE a # i /\ b # i
    <3>1. PICK c \in 1 .. k : t[a] = s[c] /\ c = IF a < i THEN a ELSE a - 1
      <4>1. CASE a < i
        <5>1. a \in 1 .. k /\ t[a] = s[a]
          BY <1>3, <4>1 DEF Put
        <5> QED BY <4>1, <5>1
      <4>2. CASE a > i
        <5>1. a - 1 \in 1 .. k /\ t[a] = s[a - 1] /\ ~(a < i)
          BY <1>3, <4>2 DEF Put
        <5> QED BY <5>1
      <4> QED BY <2>3, <4>1, <4>2
    <3>2. PICK d \in 1 .. k : t[b] = s[d] /\ d = IF b < i THEN b ELSE b - 1
      <4>1. CASE b < i
        <5>1. b \in 1 .. k /\ t[b] = s[b]
          BY <1>3, <4>1 DEF Put
        <5> QED BY <4>1, <5>1
      <4>2. CASE b > i
        <5>1. b - 1 \in 1 .. k /\ t[b] = s[b - 1] /\ ~(b < i)
          BY <1>3, <4>2 DEF Put
        <5> QED BY <5>1
      <4> QED BY <2>3, <4>1, <4>2
    <3>3. c < d
      BY <2>3, <3>1, <3>2
    <3> QED BY <1>1, <3>1, <3>2, <3>3 DEF InOrder
  <2> QED BY <2>1, <2>2, <2>3
<1> HIDE DEF h
<1>12. Len(t) = k + 1
  BY <1>3 DEF Put
<1> QED BY <1>3, <1>9, <1>10, <1>11, <1>12 DEF Arranged

\* sortRows puts the rows in order and loses none.
LEMMA SortArranges ==
  ASSUME query.order \in Seq(Keys), NEW m \in Nat, m = Len(query.order),
         NEW S, \A x \in S : x.keys \in [1 .. m -> Int],
         NEW rows \in Seq(S), NEW n \in Nat, n = Len(rows)
  PROVE  Sorted(rows) \in Seq(S) /\ Arranged(Sorted(rows), rows, n)
<1>1. PICK f : /\ f[0] = <<>> /\ \A k \in 1 .. n : f[k] = Inserted(f[k - 1], rows[k])
               /\ Sorted(rows) = f[n]
  BY SortSteps
<1> DEFINE P == {k \in 0 .. n : f[k] \in Seq(S) /\ Arranged(f[k], rows, k)}
<1>2. 0 \in P
  <2>1. f[0] = <<>> /\ <<>> \in Seq(S) /\ Len(<<>>) = 0
    BY <1>1
  <2>2. \A i \in 1 .. 0 : FALSE
    OBVIOUS
  <2>3. InOrder(<<>>, 0)
    BY <2>2 DEF InOrder
  <2>4. Shuffle([i \in 1 .. 0 |-> i], 0)
    BY <2>2 DEF Shuffle
  <2>5. Arranged(<<>>, rows, 0)
    BY <2>1, <2>2, <2>3, <2>4 DEF Arranged
  <2>6. 0 \in 0 .. n
    OBVIOUS
  <2> QED BY <2>1, <2>5, <2>6
<1>3. ASSUME NEW k \in 0 .. n - 1, k \in P PROVE k + 1 \in P
  <2>1. k + 1 \in 1 .. n /\ k + 1 \in 0 .. n /\ (k + 1) - 1 = k /\ k \in Nat
    OBVIOUS
  <2>2. PICK s \in Seq(S) : s = f[k] /\ Arranged(s, rows, k)
    BY <1>3
  <2>3. PICK r \in S : r = rows[k + 1]
    BY <2>1
  <2>4. f[k + 1] = Inserted(s, r)
    BY <1>1, <2>1, <2>2, <2>3
  <2>5. Inserted(s, r) \in Seq(S) /\ Arranged(Inserted(s, r), rows, k + 1)
    BY <2>1, <2>2, <2>3, InsertStep
  <2> QED BY <2>1, <2>4, <2>5
<1>4. P = 0 .. n
  <2>1. P \in SUBSET (0 .. n)
    OBVIOUS
  <2> HIDE DEF P
  <2> QED BY <1>2, <1>3, <2>1, InductTo
<1>5. n \in P
  <2>1. n \in 0 .. n
    OBVIOUS
  <2> HIDE DEF P
  <2> QED BY <1>4, <2>1
<1> QED BY <1>1, <1>5
-----------------------------------------------------------------------------
(* What is left of a sequence.                                              *)

LEMMA PlacesGrow ==
  ASSUME NEW n \in Nat, NEW ss, NEW at, Places(at, ss, n), \A i \in 1 .. n : Len(ss[i]) \in Nat,
         NEW i \in 1 .. n + 1, NEW j \in 1 .. n + 1, i <= j
  PROVE  at[i] <= at[j]
<1> DEFINE P == {k \in 0 .. n + 1 - i : at[i] <= at[i + k]}
<1>1. \A k \in 1 .. n + 1 : at[k] \in Nat
  BY DEF Places
<1>2. 0 \in P
  <2>1. at[i] \in Nat /\ i + 0 = i /\ 0 \in 0 .. n + 1 - i
    BY <1>1
  <2>2. PICK p \in Nat : p = at[i]
    BY <2>1
  <2>3. p <= p
    BY <2>2
  <2> QED BY <2>1, <2>2, <2>3
<1>3. ASSUME NEW k \in 0 .. (n + 1 - i) - 1, k \in P PROVE k + 1 \in P
  <2>1. i + k \in 1 .. n /\ i + (k + 1) = (i + k) + 1 /\ k + 1 \in 0 .. n + 1 - i
    OBVIOUS
  <2>2. at[(i + k) + 1] = at[i + k] + Len(ss[i + k]) /\ Len(ss[i + k]) \in Nat
    BY <2>1 DEF Places
  <2>3. PICK p \in Nat, q \in Nat, l \in Nat : p = at[i] /\ q = at[i + k] /\ l = Len(ss[i + k])
    BY <1>1, <2>1, <2>2
  <2>4. p <= q
    BY <1>3, <2>3
  <2>5. p <= q + l
    BY <2>3, <2>4
  <2> QED BY <2>1, <2>2, <2>3, <2>5
<1>4. P = 0 .. n + 1 - i
  <2>1. P \in SUBSET (0 .. n + 1 - i) /\ n + 1 - i \in Nat
    OBVIOUS
  <2> HIDE DEF P
  <2> QED BY <1>2, <1>3, <2>1, InductTo
<1>5. j - i \in 0 .. n + 1 - i /\ i + (j - i) = j
  OBVIOUS
<1>6. j - i \in P
  BY <1>4, <1>5
<1> QED BY <1>5, <1>6

\* e says which of s have stayed, in w.
Stayed(e, w, s, ss, n, p) ==
  /\ Len(w) = p /\ e \in [1 .. p -> 1 .. n]
  /\ \A i, j \in 1 .. p : i # j => e[i] # e[j]
  /\ \A j \in 1 .. p : w[j] = s[e[j]] /\ ss[e[j]] # <<>>
  /\ \A i \in 1 .. n : ss[i] # <<>> => \E j \in 1 .. p : e[j] = i

\* A selection of the elements of a sequence: which, and each once.
LEMMA SelectStays ==
  ASSUME NEW S, NEW n \in Nat, NEW s \in [1 .. n -> S], NEW ss \in [1 .. n -> Seq(S)],
         \A i \in 1 .. n : ss[i] = <<s[i]>> \/ ss[i] = <<>>
  PROVE  /\ FlattenSeq(ss) \in Seq(S)
         /\ \E e, p : p \in Nat /\ Stayed(e, FlattenSeq(ss), s, ss, n, p)
<1>1. FlattenSeq(ss) \in Seq(S)
  BY FlattenLaid
<1>2. PICK w \in Seq(S) : w = FlattenSeq(ss)
  BY <1>1
<1>3. PICK at : Places(at, ss, n) /\ Laid(w, at, ss, n)
  BY <1>2, FlattenLaid
<1>4. PICK p \in Nat : p = Len(w) /\ p = at[n + 1]
  <2>1. Len(w) = at[n + 1]
    BY <1>3 DEF Laid
  <2> QED BY <2>1
<1>5. ASSUME NEW i \in 1 .. n
      PROVE  /\ ss[i] # <<>> => ss[i] = <<s[i]>> /\ Len(ss[i]) = 1
             /\ ss[i] = <<>> => Len(ss[i]) = 0
             /\ Len(ss[i]) \in Nat
  <2>1. CASE ss[i] = <<>>
    BY <2>1
  <2>2. CASE ss[i] = <<s[i]>>
    BY <2>2
  <2> QED BY <2>1, <2>2
<1> DEFINE Is(i, j) == ss[i] # <<>> /\ j = at[i] + 1
<1>6. \A j \in 1 .. p : \E i \in 1 .. n : Is(i, j)
  <2> DEFINE P == {k \in 0 .. n : \A j \in 1 .. at[k + 1] : \E i \in 1 .. n : Is(i, j)}
  <2>1. 0 \in P
    <3>1. at[0 + 1] = 0 /\ 0 \in 0 .. n
      BY <1>3 DEF Places
    <3>2. \A j \in 1 .. 0 : FALSE
      OBVIOUS
    <3> QED BY <3>1, <3>2
  <2>2. ASSUME NEW k \in 0 .. n - 1, k \in P PROVE k + 1 \in P
    <3>1. k + 1 \in 1 .. n /\ k + 1 \in 0 .. n
      OBVIOUS
    <3>2. at[(k + 1) + 1] = at[k + 1] + Len(ss[k + 1]) /\ at[k + 1] \in Nat
      BY <1>3, <3>1 DEF Places
    <3>3. \A j \in 1 .. at[k + 1] : \E i \in 1 .. n : Is(i, j)
      BY <2>2
    <3>4. ASSUME NEW j \in 1 .. at[(k + 1) + 1] PROVE \E i \in 1 .. n : Is(i, j)
      <4>1. CASE ss[k + 1] = <<>>
        <5>1. at[(k + 1) + 1] = at[k + 1]
          BY <1>5, <3>1, <3>2, <4>1
        <5> QED BY <3>3, <5>1
      <4>2. CASE ss[k + 1] # <<>>
        <5>1. at[(k + 1) + 1] = at[k + 1] + 1
          BY <1>5, <3>1, <3>2, <4>2
        <5>2. PICK q \in Nat : q = at[k + 1]
          BY <3>2
        <5>3. j \in 1 .. q \/ j = q + 1
          BY <5>1, <5>2
        <5>4. CASE j \in 1 .. q
          BY <3>3, <5>2, <5>4
        <5>5. CASE j = q + 1
          <6>1. Is(k + 1, j)
            BY <4>2, <5>2, <5>5
          <6> QED BY <3>1, <6>1
        <5> QED BY <5>3, <5>4, <5>5
      <4> QED BY <4>1, <4>2
    <3> HIDE DEF Is
    <3> QED BY <3>1, <3>4
  <2>3. P = 0 .. n
    <3>1. P \in SUBSET (0 .. n)
      OBVIOUS
    <3> HIDE DEF P
    <3> QED BY <2>1, <2>2, <3>1, InductTo
  <2>4. n \in P
    <3>1. n \in 0 .. n
      OBVIOUS
    <3> HIDE DEF P
    <3> QED BY <2>3, <3>1
  <2> HIDE DEF Is
  <2> QED BY <1>4, <2>4
<1> DEFINE e == [j \in 1 .. p |-> CHOOSE i \in 1 .. n : Is(i, j)]
<1>7. \A j \in 1 .. p : e[j] \in 1 .. n /\ Is(e[j], j)
  <2> HIDE DEF Is
  <2> QED BY <1>6
<1>8. e \in [1 .. p -> 1 .. n]
  BY <1>7
<1> HIDE DEF e
<1>9. ASSUME NEW i \in 1 .. p, NEW j \in 1 .. p, i # j PROVE e[i] # e[j]
  BY <1>7, <1>9
<1>10. ASSUME NEW j \in 1 .. p PROVE w[j] = s[e[j]] /\ ss[e[j]] # <<>>
  <2>1. PICK i \in 1 .. n : i = e[j] /\ ss[i] # <<>> /\ j = at[i] + 1
    <3>1. e[j] \in 1 .. n
      BY <1>7
    <3> QED BY <1>7, <3>1
  <2> HIDE DEF Is
  <2>2. ss[i] = <<s[i]>> /\ 1 \in 1 .. Len(ss[i])
    BY <1>5, <2>1
  <2>3. w[at[i] + 1] = ss[i][1]
    BY <1>3, <2>2 DEF Laid
  <2>4. ss[i][1] = s[i]
    BY <2>2
  <2>5. w[j] = s[i]
    BY <2>1, <2>3, <2>4
  <2> QED BY <2>1, <2>5
<1>11. ASSUME NEW i \in 1 .. n, ss[i] # <<>> PROVE \E j \in 1 .. p : e[j] = i
  <2>1. 1 \in 1 .. Len(ss[i]) /\ Len(ss[i]) = 1
    BY <1>5, <1>11
  <2>2. at[i] + 1 \in 1 .. p
    BY <1>3, <1>4, <2>1 DEF Laid
  <2>3. PICK j \in 1 .. p : j = at[i] + 1
    BY <2>2
  <2>4. PICK k \in 1 .. n : k = e[j] /\ ss[k] # <<>> /\ j = at[k] + 1
    <3>1. e[j] \in 1 .. n
      BY <1>7
    <3> QED BY <1>7, <3>1
  <2> HIDE DEF Is
  <2>5. PICK a \in Nat, b \in Nat : a = at[i] /\ b = at[k]
    <3>1. i \in 1 .. n + 1 /\ k \in 1 .. n + 1
      OBVIOUS
    <3>2. at[i] \in Nat /\ at[k] \in Nat
      BY <1>3, <3>1 DEF Places
    <3> QED BY <3>2
  <2>6. a = b
    <3>1. j = a + 1 /\ j = b + 1
      BY <2>3, <2>4, <2>5
    <3> QED BY <3>1
  <2>7. at[i + 1] = a + 1 /\ at[k + 1] = b + 1
    <3>1. Len(ss[k]) = 1
      BY <1>5, <2>4
    <3>2. at[i + 1] = at[i] + Len(ss[i]) /\ at[k + 1] = at[k] + Len(ss[k])
      BY <1>3 DEF Places
    <3> QED BY <2>1, <2>5, <3>1, <3>2
  <2>8. ~(i < k)
    <3>1. SUFFICES ASSUME i < k PROVE FALSE
      OBVIOUS
    <3>2. i + 1 \in 1 .. n + 1 /\ k \in 1 .. n + 1 /\ i + 1 <= k
      BY <3>1
    <3>3. at[i + 1] <= at[k]
      BY <1>3, <1>5, <3>2, PlacesGrow
    <3> QED BY <2>5, <2>6, <2>7, <3>3
  <2>9. ~(k < i)
    <3>1. SUFFICES ASSUME k < i PROVE FALSE
      OBVIOUS
    <3>2. k + 1 \in 1 .. n + 1 /\ i \in 1 .. n + 1 /\ k + 1 <= i
      BY <3>1
    <3>3. at[k + 1] <= at[i]
      BY <1>3, <1>5, <3>2, PlacesGrow
    <3> QED BY <2>5, <2>6, <2>7, <3>3
  <2>10. k = i
    BY <2>8, <2>9
  <2> QED BY <2>4, <2>10
<1>12. Stayed(e, w, s, ss, n, p)
  BY <1>4, <1>8, <1>9, <1>10, <1>11 DEF Stayed
<1> QED BY <1>1, <1>2, <1>12
-----------------------------------------------------------------------------
(* Where a target's column is.                                              *)

Lays(f, ts, srcs, n) ==
  f = [i \in 0 .. n |-> IF i = 0 THEN SourceStart(srcs, Len(srcs) + 1) ELSE f[i - 1] + Width(ts[i])]

LEMMA LaysExists ==
  ASSUME NEW ts, NEW srcs, NEW n \in Nat
  PROVE  \E f : Lays(f, ts, srcs, n)
<1> DEFINE from == SourceStart(srcs, Len(srcs) + 1)
           P == {m \in 0 .. n : \E f : Lays(f, ts, srcs, m)}
<1>1. 0 \in P
  <2>1. Lays([k \in 0 .. 0 |-> from], ts, srcs, 0)
    BY DEF Lays
  <2> QED BY <2>1
<1>2. ASSUME NEW m \in 0 .. n - 1, m \in P PROVE m + 1 \in P
  <2>1. PICK f : Lays(f, ts, srcs, m)
    BY <1>2
  <2> DEFINE g == [k \in 0 .. m + 1 |-> IF k = 0 THEN from ELSE f[k - 1] + Width(ts[k])]
  <2> HIDE DEF from
  <2>2. ASSUME NEW k \in 0 .. m PROVE g[k] = f[k]
    BY <2>1 DEF Lays, from
  <2>3. ASSUME NEW k \in 0 .. m + 1, k # 0 PROVE g[k - 1] = f[k - 1]
    <3>1. k - 1 \in 0 .. m
      BY <2>3
    <3> QED BY <2>2, <3>1
  <2>4. g = [k \in 0 .. m + 1 |-> IF k = 0 THEN from ELSE g[k - 1] + Width(ts[k])]
    BY <2>3
  <2>5. Lays(g, ts, srcs, m + 1)
    BY <2>4 DEF Lays, from
  <2>6. m + 1 \in 0 .. n
    OBVIOUS
  <2> QED BY <2>5, <2>6
<1>3. P = 0 .. n
  <2>1. P \in SUBSET (0 .. n)
    OBVIOUS
  <2> HIDE DEF P
  <2> QED BY <1>1, <1>2, <2>1, InductTo
<1> QED BY <1>3

LaidOut(f, ts, srcs, n) ==
  /\ f[0] = SourceStart(srcs, Len(srcs) + 1)
  /\ \A i \in 1 .. n : f[i] = f[i - 1] + Width(ts[i])
  /\ Layout(ts, srcs) = [i \in DOMAIN ts |-> IF Width(ts[i]) = 0 THEN 0 ELSE f[i - 1]]

LEMMA LayoutSteps ==
  ASSUME NEW ts, NEW srcs, NEW n \in Nat, n = Len(ts)
  PROVE  \E f : LaidOut(f, ts, srcs, n)
<1> DEFINE F == CHOOSE f : Lays(f, ts, srcs, n)
<1>1. Lays(F, ts, srcs, n)
  BY LaysExists
<1>2. Layout(ts, srcs) = [i \in DOMAIN ts |-> IF Width(ts[i]) = 0 THEN 0 ELSE F[i - 1]]
  BY DEF Layout, Lays
<1> HIDE DEF F
<1>3. F[0] = SourceStart(srcs, Len(srcs) + 1) /\ \A i \in 1 .. n : F[i] = F[i - 1] + Width(ts[i])
  BY <1>1 DEF Lays
<1> QED BY <1>2, <1>3 DEF LaidOut
-----------------------------------------------------------------------------
\* A column, or a call on a row of the table or a column of it.
Simple(x) == (x.fn = "col" /\ x.arg \in {"a", "b"}) \/ (IsJev(x) /\ x.arg \in ArgNames)

LEMMA SimpleKinds ==
  ASSUME NEW x, Simple(x)
  PROVE  /\ x # Star /\ ~IsAgg(x)
         /\ Kind(x) = "plain" => x.fn = "col" /\ x.arg \in {"a", "b"}
         /\ Kind(x) \in {"plain", "jev"} /\ (Kind(x) = "jev" <=> IsJev(x))
         /\ IsJev(x) => x.arg \in ArgNames
<1>1. Star.fn = "*"
  BY DEF Star, X
<1>2. CASE x.fn = "col" /\ x.arg \in {"a", "b"}
  BY <1>1, <1>2 DEF IsJev, IsAgg, Kind
<1>3. CASE IsJev(x) /\ x.arg \in ArgNames
  BY <1>1, <1>3 DEF IsJev, IsAgg, Kind
<1> QED BY <1>2, <1>3 DEF Simple

\* No star among the targets before the i-th.
Unstarred(ts, i) == \A j \in 1 .. i - 1 : ts[j].x # Star

LEMMA TripleIs ==
  ASSUME NEW N, NEW w \in Seq(N), Len(w) = 3
  PROVE  w = <<w[1], w[2], w[3]>>
OBVIOUS

Grows(w, s, e) == Len(w) = Len(s) + 1 /\ w[Len(s) + 1] = e /\ \A i \in 1 .. Len(s) : w[i] = s[i]

LEMMA AppendGrows ==
  ASSUME NEW N, NEW s \in Seq(N), NEW e \in N
  PROVE  Append(s, e) \in Seq(N) /\ Grows(Append(s, e), s, e)
BY DEF Grows

LEMMA StarIs ==
  /\ Kind(Star) = "plain" /\ ~IsJev(Star) /\ ~IsAgg(Star) /\ ~Refused(Star)
  /\ \A t : t.x = Star => TargetColumns(t) = <<"a", "b", Sep>>
  /\ Sep \notin {"a", "b"}
<1>1. Star.fn = "*"
  BY DEF Star, X
<1>2. Append(Columns, Sep) = <<"a", "b", Sep>>
  <2>1. PICK N : N = {"a", "b", Sep}
    OBVIOUS
  <2>2. PICK s \in Seq(N), e \in N : s = Columns /\ e = Sep /\ Len(s) = 2 /\ s[1] = "a" /\ s[2] = "b"
    <3>1. Columns \in Seq(N) /\ Len(Columns) = 2 /\ Columns[1] = "a" /\ Columns[2] = "b"
      BY <2>1 DEF Columns
    <3> QED BY <2>1, <3>1
  <2>3. PICK w \in Seq(N) : w = Append(s, e) /\ Grows(w, s, e)
    BY AppendGrows
  <2>4. Len(w) = 3 /\ w[3] = e
    BY <2>2, <2>3 DEF Grows
  <2>5. w[1] = "a" /\ w[2] = "b"
    <3>1. 1 \in 1 .. Len(s) /\ 2 \in 1 .. Len(s)
      BY <2>2
    <3>2. \A i \in 1 .. Len(s) : w[i] = s[i]
      BY <2>3 DEF Grows
    <3> QED BY <2>2, <3>1, <3>2, Zenon
  <2>6. w = <<w[1], w[2], w[3]>>
    BY <2>4, TripleIs
  <2>7. PICK a, b, c : a = w[1] /\ b = w[2] /\ c = w[3]
    OBVIOUS
  <2>8. w = <<a, b, c>>
    BY <2>6, <2>7, Zenon
  <2>9. a = "a" /\ b = "b" /\ c = Sep
    BY <2>2, <2>4, <2>5, <2>7, Zenon
  <2> QED BY <2>2, <2>3, <2>8, <2>9, Zenon
<1>3. \A t : t.x = Star => TargetColumns(t) = <<"a", "b", Sep>>
  BY <1>2 DEF TargetColumns
<1>4. Sep \notin {"a", "b"}
  BY DEF Sep
<1> QED BY <1>1, <1>3, <1>4 DEF Kind, IsJev, IsAgg, Refused

\* The columns of a target with no star before it are where Layout says: of the
\* targets before it, each has one column or none.
LEMMA LayoutPoints ==
  ASSUME NEW srcs \in Seq(ArgNames), NEW ts \in Seq(Targets),
         \A j \in 1 .. Len(ts) : ts[j].x = Star \/ Simple(ts[j].x),
         \A j \in 1 .. Len(ts) : ts[j].kind = Kind(ts[j].x),
         NEW i \in 1 .. Len(ts), ts[i].kind = "plain", Unstarred(ts, i)
  PROVE  /\ Layout(ts, srcs)[i] \in Nat
         /\ \A c \in 1 .. Len(TargetColumns(ts[i])) :
              /\ Layout(ts, srcs)[i] + c - 1 \in 1 .. Len(Fields(ts, srcs))
              /\ Fields(ts, srcs)[Layout(ts, srcs)[i] + c - 1] = TargetColumns(ts[i])[c]
         /\ Fields(ts, srcs) \in Seq(Names)
<1> DEFINE n == Len(ts)
           ss == [k \in DOMAIN srcs |-> SourceColumns(srcs[k])]
           us == [k \in DOMAIN ts |-> TargetColumns(ts[k])]
<1>1. ss \in [1 .. Len(srcs) -> Seq(Names)] /\ Len(srcs) \in Nat
  BY SourceColumnsType
<1>2. us \in [1 .. n -> Seq(Names)] /\ n \in Nat /\ DOMAIN ts = 1 .. n
  BY TargetColumnsType
<1>3. ASSUME NEW k \in 1 .. i - 1
      PROVE  Len(us[k]) = Width(ts[k])
  <2>1. k \in 1 .. n /\ us[k] = TargetColumns(ts[k])
    BY <1>2
  <2>2. ts[k].x # Star /\ Simple(ts[k].x) /\ ts[k].kind = Kind(ts[k].x)
    BY <2>1 DEF Unstarred
  <2>3. ts[k].kind \in {"plain", "jev"} /\ (ts[k].kind = "plain" => ts[k].x.arg # "*")
    BY <2>2, SimpleKinds
  <2>4. CASE ts[k].kind = "plain"
    <3>1. TargetColumns(ts[k]) = <<ts[k].x.arg>>
      BY <2>2, <2>3, <2>4 DEF TargetColumns
    <3>2. Width(ts[k]) = 1
      BY <2>4 DEF Width
    <3> QED BY <2>1, <3>1, <3>2
  <2>5. CASE ts[k].kind = "jev"
    <3>1. TargetColumns(ts[k]) = <<>>
      BY <2>2, <2>5 DEF TargetColumns
    <3>2. Width(ts[k]) = 0
      BY <2>5 DEF Width
    <3> QED BY <2>1, <2>5, <3>1, <3>2
  <2> QED BY <2>3, <2>4, <2>5
<1>4. Fields(ts, srcs) = FlattenSeq(ss) \o FlattenSeq(us)
  BY DEF Fields
<1>5. SourceStart(srcs, Len(srcs) + 1) = 1 + Len(FlattenSeq(ss))
  <2>1. 1 .. (Len(srcs) + 1) - 1 = DOMAIN srcs
    BY <1>1
  <2> QED BY <2>1 DEF SourceStart
<1> HIDE DEF ss, us
<1>6. FlattenSeq(ss) \in Seq(Names) /\ FlattenSeq(us) \in Seq(Names)
  BY <1>1, <1>2, FlattenLaid
<1>7. PICK at : Places(at, us, n) /\ Laid(FlattenSeq(us), at, us, n)
  BY <1>2, FlattenLaid
<1>8. PICK f : LaidOut(f, ts, srcs, n)
  BY <1>2, LayoutSteps
<1>9. PICK u \in Seq(Names), v \in Seq(Names) : u = FlattenSeq(ss) /\ v = FlattenSeq(us)
  BY <1>6
<1>10. PICK l \in Nat : l = Len(u)
  OBVIOUS
<1> DEFINE P == {k \in 0 .. i - 1 : f[k] = 1 + l + at[k + 1]}
<1>11. 0 \in P
  <2>1. f[0] = 1 + l
    BY <1>5, <1>8, <1>9, <1>10 DEF LaidOut
  <2>2. at[0 + 1] = 0
    BY <1>7 DEF Places
  <2>3. 0 \in 0 .. i - 1
    OBVIOUS
  <2> QED BY <2>1, <2>2, <2>3
<1>12. ASSUME NEW k \in 0 .. (i - 1) - 1, k \in P PROVE k + 1 \in P
  <2>1. /\ k + 1 \in 1 .. i - 1 /\ k + 1 \in 1 .. n
        /\ k + 1 \in 0 .. i - 1 /\ (k + 1) - 1 = k
    BY <1>2
  <2>2. PICK w \in Nat : w = Width(ts[k + 1]) /\ w = Len(us[k + 1])
    <3>1. us[k + 1] \in Seq(Names)
      BY <1>2, <2>1
    <3>2. Len(us[k + 1]) \in Nat
      BY <3>1
    <3> QED BY <1>3, <2>1, <3>2
  <2>3. PICK p \in Nat : p = at[k + 1]
    <3>1. k + 1 \in 1 .. n + 1
      BY <1>2, <2>1
    <3>2. at[k + 1] \in Nat
      BY <1>7, <3>1 DEF Places
    <3> QED BY <3>2
  <2>4. at[(k + 1) + 1] = p + w
    BY <1>7, <2>1, <2>2, <2>3 DEF Places
  <2>5. f[k] = 1 + l + p
    BY <1>12, <2>3
  <2>6. f[k + 1] = (1 + l + p) + w
    BY <1>8, <2>1, <2>2, <2>5 DEF LaidOut
  <2> QED BY <2>1, <2>4, <2>6
<1>13. P = 0 .. i - 1
  <2>1. P \in SUBSET (0 .. i - 1) /\ i - 1 \in Nat
    OBVIOUS
  <2> HIDE DEF P
  <2> QED BY <1>11, <1>12, <2>1, InductTo
<1>14. PICK p \in Nat : p = at[i]
  <2>1. i \in 1 .. n + 1
    BY <1>2
  <2>2. at[i] \in Nat
    BY <1>7, <2>1 DEF Places
  <2> QED BY <2>2
<1>15. f[i - 1] = 1 + l + p
  <2>1. i - 1 \in 0 .. i - 1 /\ (i - 1) + 1 = i
    OBVIOUS
  <2>2. i - 1 \in P
    BY <1>13, <2>1
  <2> QED BY <1>14, <2>1, <2>2
<1>16. Layout(ts, srcs)[i] = 1 + l + p
  <2>1. Width(ts[i]) = 1
    BY DEF Width
  <2> QED BY <1>2, <1>8, <1>15, <2>1 DEF LaidOut
<1>17. us[i] = TargetColumns(ts[i])
  BY <1>2 DEF us
<1>18. ASSUME NEW c \in 1 .. Len(TargetColumns(ts[i]))
       PROVE  /\ 1 + l + p + c - 1 \in 1 .. Len(u \o v)
              /\ (u \o v)[1 + l + p + c - 1] = TargetColumns(ts[i])[c]
  <2>1. p + c \in 1 .. Len(v) /\ v[p + c] = TargetColumns(ts[i])[c]
    BY <1>7, <1>9, <1>14, <1>17 DEF Laid
  <2>2. TargetColumns(ts[i]) \in Seq(Names)
    BY <1>2, <1>17
  <2>3. PICK d \in Nat : d = p + c /\ 1 + l + p + c - 1 = l + d
    <3>1. c \in Nat
      BY <2>2
    <3> QED BY <3>1
  <2>4. d \in 1 .. Len(v) /\ v[d] = TargetColumns(ts[i])[c]
    BY <2>1, <2>3
  <2>5. l + d \in 1 .. Len(u \o v) /\ (u \o v)[l + d] = v[d]
    BY <1>10, <2>4
  <2> QED BY <2>3, <2>4, <2>5
<1>19. u \o v \in Seq(Names)
  OBVIOUS
<1> QED BY <1>4, <1>9, <1>16, <1>18, <1>19
-----------------------------------------------------------------------------
(* The cells of a row.                                                      *)

\* A target that is where the layout says.
Placed(i) == plan.targets[i].kind = "jev" \/ Unstarred(plan.targets, i)

\* A plan with targets that are the select list and hidden keys, each a column,
\* a star, or a call whose source is collected; and the list where it should be.
RightTargets ==
  /\ Grown(plan.targets, query)
  /\ \A i \in 1 .. Len(plan.targets) :
       /\ plan.targets[i].x = Star \/ Simple(plan.targets[i].x)
       /\ IsJev(plan.targets[i].x) =>
            \E c \in DOMAIN plan.calls : plan.calls[c].arg = plan.targets[i].x.arg
  /\ \A i \in 1 .. Len(query.list) : Placed(i)

Laying == /\ WellLaid
          /\ plan.layout = Layout(plan.targets, plan.srcs)

\* What a call is about does not depend on the rest of the call.
LEMMA ObjectOfSource ==
  ASSUME WellLaid, NEW x, \E c \in DOMAIN plan.calls : plan.calls[c].arg = x.arg, NEW r
  PROVE  ObjectOf(Row(r), x) = Object(x.arg, r)
<1>1. PICK c \in DOMAIN plan.calls : plan.calls[c].arg = x.arg
  OBVIOUS
<1>2. ObjectOf(Row(r), x) = ObjectOf(Row(r), plan.calls[c])
  BY <1>1 DEF ObjectOf
<1> QED BY <1>1, <1>2, ObjectRight

\* A target and the first of its columns.
LEMMA PlacedPoints ==
  ASSUME Laying, RightTargets, NEW i \in 1 .. Len(plan.targets),
         plan.targets[i].kind = "plain", Placed(i)
  PROVE  /\ plan.layout[i] \in Nat /\ plan.fields \in Seq(Names)
         /\ \A c \in 1 .. Len(TargetColumns(plan.targets[i])) :
              /\ plan.layout[i] + c - 1 \in 1 .. Len(plan.fields)
              /\ plan.fields[plan.layout[i] + c - 1] = TargetColumns(plan.targets[i])[c]
<1>1. PICK ts \in Seq(Targets), srcs \in Seq(ArgNames) : ts = plan.targets /\ srcs = plan.srcs
  BY DEF Laying, WellLaid
<1>2. /\ \A j \in 1 .. Len(ts) : ts[j].x = Star \/ Simple(ts[j].x)
      /\ \A j \in 1 .. Len(ts) : ts[j].kind = Kind(ts[j].x)
  BY <1>1 DEF RightTargets, Grown
<1>3. i \in 1 .. Len(ts) /\ ts[i].kind = "plain" /\ Unstarred(ts, i)
  BY <1>1 DEF Placed
<1>4. plan.layout = Layout(ts, srcs) /\ plan.fields = Fields(ts, srcs)
  BY <1>1 DEF Laying, WellLaid
<1>5. /\ Layout(ts, srcs)[i] \in Nat
      /\ \A c \in 1 .. Len(TargetColumns(ts[i])) :
           /\ Layout(ts, srcs)[i] + c - 1 \in 1 .. Len(Fields(ts, srcs))
           /\ Fields(ts, srcs)[Layout(ts, srcs)[i] + c - 1] = TargetColumns(ts[i])[c]
      /\ Fields(ts, srcs) \in Seq(Names)
  BY <1>2, <1>3, LayoutPoints
<1> QED BY <1>1, <1>4, <1>5

LEMMA CellIsValue ==
  ASSUME Laying, RightTargets, NEW i \in 1 .. Len(plan.targets), Placed(i), plan.targets[i].x # Star, NEW r
  PROVE  Cells(Row(r), i) = <<Value(plan.targets[i].x, r, verdict)>>
<1>1. PICK t : t = plan.targets[i]
  OBVIOUS
<1>2. Simple(t.x) /\ t.kind = Kind(t.x)
  BY <1>1 DEF RightTargets, Grown
<1>3. CASE t.kind = "jev"
  <2>1. IsJev(t.x) /\ \E c \in DOMAIN plan.calls : plan.calls[c].arg = t.x.arg
    BY <1>1, <1>2, <1>3, SimpleKinds DEF RightTargets
  <2>2. ObjectOf(Row(r), t.x) = Object(t.x.arg, r)
    BY <2>1, ObjectOfSource DEF Laying
  <2>3. JevValue(Row(r), t.x) = Value(t.x, r, verdict)
    <3>1. PICK o : o = Object(t.x.arg, r)
      OBVIOUS
    <3>2. CASE t.x.fn = "jev"
      BY <2>2, <3>2 DEF JevValue, Value
    <3>3. CASE t.x.fn = "jev_prob"
      BY <2>2, <3>3 DEF JevValue, Value
    <3> QED BY <2>1, <3>2, <3>3 DEF IsJev
  <2>4. Cells(Row(r), i) = <<JevValue(Row(r), t.x)>>
    BY <1>1, <1>3 DEF Cells
  <2> QED BY <1>1, <2>3, <2>4
<1>4. CASE t.kind = "plain"
  <2>1. t.x # Star /\ t.x.fn = "col" /\ t.x.arg \in {"a", "b"}
    BY <1>2, <1>4, SimpleKinds
  <2>2. PICK s \in Nat : s = plan.layout[i] /\ s \in DOMAIN plan.fields /\ plan.fields[s] = t.x.arg
    <3>1. PICK s \in Nat, fs \in Seq(Names) : s = plan.layout[i] /\ fs = plan.fields
      BY <1>1, <1>4, PlacedPoints
    <3>2. TargetColumns(t) = <<t.x.arg>>
      <4>1. t.x.arg # "*"
        BY <2>1
      <4> QED BY <1>4, <2>1, <4>1 DEF TargetColumns
    <3>3. PICK u : u = TargetColumns(t) /\ Len(u) = 1 /\ u[1] = t.x.arg
      BY <3>2
    <3>4. \A c \in 1 .. Len(u) : s + c - 1 \in 1 .. Len(fs) /\ fs[s + c - 1] = u[c]
      BY <1>1, <1>4, <3>1, <3>3, PlacedPoints
    <3>5. 1 \in 1 .. Len(u) /\ s + 1 - 1 = s
      BY <3>3
    <3>6. s \in 1 .. Len(fs) /\ fs[s] = u[1]
      BY <3>4, <3>5
    <3> QED BY <3>1, <3>3, <3>6
  <2>3. Span(i) = s .. s
    BY <1>1, <2>1, <2>2 DEF Span
  <2>4. s .. s = {s}
    BY <2>2
  <2>5. Cardinality({s}) = 1
    BY FS_Singleton
  <2>6. Least({s}) = s
    <3>1. {s} \in SUBSET Nat /\ {s} # {}
      BY <2>2
    <3>2. Least({s}) \in {s}
      BY <3>1, LeastIn
    <3> QED BY <3>2
  <2>7. Row(r)[s] = r[t.x.arg]
    <3>1. t.x.arg # Sep
      BY <2>1 DEF Sep
    <3> QED BY <2>2, <3>1 DEF Row
  <2>8. Cells(Row(r), i) = [k \in 1 .. Cardinality(Span(i)) |-> Row(r)[Least(Span(i)) + k - 1]]
    BY <1>1, <1>4 DEF Cells
  <2>9. Cells(Row(r), i) = [k \in 1 .. 1 |-> Row(r)[s + k - 1]]
    BY <2>3, <2>4, <2>5, <2>6, <2>8
  <2>10. [k \in 1 .. 1 |-> Row(r)[s + k - 1]] = <<Row(r)[s]>>
    <3>1. PICK y : y = Row(r)
      OBVIOUS
    <3>2. \A k \in 1 .. 1 : s + k - 1 = s
      BY <2>2
    <3>3. [k \in 1 .. 1 |-> y[s + k - 1]] = <<y[s]>>
      BY <3>2
    <3> QED BY <3>1, <3>3
  <2>11. Value(t.x, r, verdict) = r[t.x.arg]
    BY <2>1 DEF Value
  <2> QED BY <1>1, <2>7, <2>9, <2>10, <2>11
<1> QED BY <1>2, <1>3, <1>4, SimpleKinds

\* What an expression of the list shows of a row: a star, all columns.
CellsIn(x, r) ==
  IF x = Star THEN [c \in DOMAIN Columns |-> Value(Col(Columns[c]), r, verdict)]
              ELSE <<Value(x, r, verdict)>>

LEMMA StarIsColumns ==
  ASSUME Laying, RightTargets, NEW i \in 1 .. Len(plan.targets), Placed(i), plan.targets[i].x = Star, NEW r
  PROVE  Cells(Row(r), i) = CellsIn(Star, r)
<1>1. PICK t : t = plan.targets[i]
  OBVIOUS
<1>2. t.x = Star /\ t.kind = "plain" /\ TargetColumns(t) = <<"a", "b", Sep>>
  BY <1>1, StarIs DEF RightTargets, Grown
<1>3. PICK s \in Nat, fs \in Seq(Names) : s = plan.layout[i] /\ fs = plan.fields
  BY <1>1, <1>2, PlacedPoints
<1>4. PICK u : u = TargetColumns(t) /\ Len(u) = 3 /\ u[1] = "a" /\ u[2] = "b" /\ u[3] = Sep
  BY <1>2
<1>5. \A c \in 1 .. Len(u) : s + c - 1 \in 1 .. Len(fs) /\ fs[s + c - 1] = u[c]
  BY <1>1, <1>2, <1>3, <1>4, PlacedPoints
<1>6. PICK n \in Nat : n = Len(fs)
  OBVIOUS
<1>7. /\ s \in 1 .. n /\ s + 1 \in 1 .. n /\ s + 2 \in 1 .. n
      /\ fs[s] = "a" /\ fs[s + 1] = "b" /\ fs[s + 2] = Sep
  <2>1. 1 \in 1 .. Len(u) /\ 2 \in 1 .. Len(u) /\ 3 \in 1 .. Len(u)
    BY <1>4
  <2>2. s + 1 - 1 = s /\ s + 2 - 1 = s + 1 /\ s + 3 - 1 = s + 2
    OBVIOUS
  <2>3. s \in 1 .. n /\ fs[s] = u[1]
    BY <1>5, <1>6, <2>1, <2>2
  <2>4. s + 1 \in 1 .. n /\ fs[s + 1] = u[2]
    BY <1>5, <1>6, <2>1, <2>2
  <2>5. s + 2 \in 1 .. n /\ fs[s + 2] = u[3]
    BY <1>5, <1>6, <2>1, <2>2
  <2> QED BY <1>4, <2>3, <2>4, <2>5
<1>8. PICK seps : seps = {c \in s .. n : fs[c] = Sep}
  OBVIOUS
<1>9. Least(seps) = s + 2 /\ seps # {}
  <2>1. s + 2 \in seps /\ seps \in SUBSET Nat
    BY <1>7, <1>8
  <2>2. ASSUME NEW c \in seps PROVE s + 2 <= c
    <3>1. PICK d \in Nat : d = c /\ s <= d /\ fs[d] = Sep
      BY <1>8
    <3>2. d # s /\ d # s + 1
      BY <1>7, <3>1, StarIs
    <3>3. s + 2 <= d
      BY <3>1, <3>2
    <3> QED BY <3>1, <3>3
  <2> QED BY <2>1, <2>2, LeastIs
<1>10. Span(i) = s .. s + 1
  <2>1. Span(i) = s .. (IF seps = {} THEN Len(plan.fields) ELSE Least(seps) - 1)
    BY <1>1, <1>2, <1>3, <1>6, <1>8 DEF Span
  <2>2. (s + 2) - 1 = s + 1
    OBVIOUS
  <2> QED BY <1>9, <2>1, <2>2
<1>11. Cardinality(s .. s + 1) = 2 /\ Least(s .. s + 1) = s
  <2>1. ~(s > s + 1) /\ (s + 1) - s + 1 = 2 /\ s \in Int /\ s + 1 \in Int
    OBVIOUS
  <2>2. Cardinality(s .. s + 1) = 2
    BY <2>1, FS_Interval
  <2>3. /\ s .. s + 1 \in SUBSET Nat /\ s \in s .. s + 1
        /\ \A k \in s .. s + 1 : s <= k
    OBVIOUS
  <2>4. Least(s .. s + 1) = s
    BY <2>3, LeastIs
  <2> QED BY <2>2, <2>4
<1>12. PICK y : y = Row(r)
  OBVIOUS
<1>13. y[s] = r["a"] /\ y[s + 1] = r["b"]
  <2>1. DOMAIN plan.fields = 1 .. n
    BY <1>3, <1>6
  <2>2. fs[s] # Sep /\ fs[s + 1] # Sep
    BY <1>7, StarIs
  <2> QED BY <1>3, <1>7, <1>12, <2>1, <2>2 DEF Row
<1>14. Cells(Row(r), i) = [k \in 1 .. 2 |-> y[s + k - 1]]
  <2>1. Cells(Row(r), i) = [k \in 1 .. Cardinality(Span(i)) |-> Row(r)[Least(Span(i)) + k - 1]]
    BY <1>1, <1>2 DEF Cells
  <2> QED BY <1>10, <1>11, <1>12, <2>1
<1>15. CellsIn(Star, r) = [k \in 1 .. 2 |-> Value(Col(Columns[k]), r, verdict)]
  <2>1. DOMAIN Columns = 1 .. 2
    BY DEF Columns
  <2> QED BY <2>1 DEF CellsIn
<1>16. ASSUME NEW k \in 1 .. 2 PROVE y[s + k - 1] = Value(Col(Columns[k]), r, verdict)
  <2>1. \A c : Value(Col(c), r, verdict) = r[c]
    BY DEF Value, Col, X
  <2>2. Columns[1] = "a" /\ Columns[2] = "b"
    BY DEF Columns
  <2>3. CASE k = 1
    <3>1. s + k - 1 = s
      BY <2>3
    <3> QED BY <1>13, <2>1, <2>2, <2>3, <3>1
  <2>4. CASE k = 2
    <3>1. s + k - 1 = s + 1
      BY <2>4
    <3> QED BY <1>13, <2>1, <2>2, <2>4, <3>1
  <2> QED BY <2>3, <2>4
<1> QED BY <1>14, <1>15, <1>16
-----------------------------------------------------------------------------
(* Lines, and rows that are kept.                                           *)

CellsOf(r) == [k \in DOMAIN Expanded(query) |-> Value(Expanded(query)[k], r, verdict)]
KeysOf(r) == [k \in DOMAIN query.order |-> Value(KeyExpr(query, query.order[k], FALSE), r, verdict)]
LineOf(r) == [cells |-> CellsOf(r), keys |-> KeysOf(r)]

\* Each key has a target that is what it means; where jevql is to sort by it,
\* one that is where the layout says.
RightKeys ==
  /\ DOMAIN plan.orderKeys = DOMAIN query.order
  /\ \A k \in DOMAIN query.order :
       /\ plan.orderKeys[k] \in 1 .. Len(plan.targets)
       /\ plan.targets[plan.orderKeys[k]].x = KeyExpr(query, query.order[k], FALSE)
       /\ Simple(plan.targets[plan.orderKeys[k]].x)
       /\ ~plan.serverOrder => Placed(plan.orderKeys[k])

LEMMA KeyIsValue ==
  ASSUME Laying, RightTargets, NEW i \in 1 .. Len(plan.targets), Placed(i), plan.targets[i].x # Star, NEW r
  PROVE  KeyOf(Row(r), i) = Value(plan.targets[i].x, r, verdict)
<1>1. PICK c : c = Cells(Row(r), i)
  OBVIOUS
<1>2. PICK v : v = Value(plan.targets[i].x, r, verdict)
  OBVIOUS
<1>3. c = <<v>>
  BY <1>1, <1>2, CellIsValue
<1>4. Len(c) = 1 /\ c[1] = v
  BY <1>3
<1> QED BY <1>1, <1>2, <1>4 DEF KeyOf

\* What is shown of a row is the select list with * written out.
LEMMA LineCells ==
  ASSUME query \in Statements, Laying, RightTargets, NEW r
  PROVE  PlainLine(Row(r)).cells = CellsOf(r)
<1>1. PICK m \in Nat : m = Len(query.list) /\ DOMAIN query.list = 1 .. m /\ m <= Len(plan.targets)
  BY DEF RightTargets, Grown
<1>2. ASSUME NEW i \in 1 .. m
      PROVE  /\ i \in 1 .. Len(plan.targets) /\ plan.targets[i].x = query.list[i].x /\ Placed(i)
  <2>1. Len(plan.targets) \in Nat
    BY DEF Laying, WellLaid
  <2> QED BY <1>1, <2>1 DEF RightTargets, Grown
<1>3. DOMAIN Shown = 1 .. m /\ \A i \in 1 .. m : Shown[i] = i
  <2>1. Grown(plan.targets, query)
    BY DEF RightTargets
  <2> QED BY <1>1, <2>1, VisibleIsList DEF Shown
<1> DEFINE E == {query.list[i].x : i \in 1 .. m} \cup {Col(Columns[c]) : c \in 1 .. 2}
           v == [x \in E |-> Value(x, r, verdict)]
           T == {v[x] : x \in E}
           ss == [i \in DOMAIN query.list |->
                   IF query.list[i].x = Star THEN [c \in DOMAIN Columns |-> Col(Columns[c])]
                                             ELSE <<query.list[i].x>>]
           tt == [k \in DOMAIN Shown |-> Cells(Row(r), Shown[k])]
<1>4. DOMAIN Columns = 1 .. 2
  BY DEF Columns
<1>5. v \in [E -> T] /\ \A x \in E : v[x] = Value(x, r, verdict)
  OBVIOUS
<1>6. ASSUME NEW i \in 1 .. m
      PROVE  /\ ss[i] \in Seq(E) /\ tt[i] = CellsIn(query.list[i].x, r)
             /\ tt[i] = Mapped(ss[i], v)
  <2>1. PICK x \in E : x = query.list[i].x
    OBVIOUS
  <2>2. ss[i] = (IF x = Star THEN [c \in DOMAIN Columns |-> Col(Columns[c])] ELSE <<x>>)
    BY <1>1, <2>1
  <2>3. tt[i] = Cells(Row(r), i)
    BY <1>3
  <2>4. CASE x = Star
    <3>1. tt[i] = CellsIn(Star, r)
      BY <1>2, <2>1, <2>3, <2>4, StarIsColumns
    <3>2. ss[i] = [c \in 1 .. 2 |-> Col(Columns[c])]
      BY <1>4, <2>2, <2>4
    <3>3. \A c \in 1 .. 2 : Col(Columns[c]) \in E
      OBVIOUS
    <3> HIDE DEF E, v, T, ss, tt
    <3>4. [c \in 1 .. 2 |-> Col(Columns[c])] \in Seq(E)
      BY <3>3
    <3>5. CellsIn(Star, r) = [c \in 1 .. 2 |-> Value(Col(Columns[c]), r, verdict)]
      BY <1>4 DEF CellsIn
    <3>6. Mapped(ss[i], v) = [c \in 1 .. 2 |-> v[Col(Columns[c])]]
      BY <3>2 DEF Mapped
    <3>7. \A c \in 1 .. 2 : v[Col(Columns[c])] = Value(Col(Columns[c]), r, verdict)
      BY <1>5, <3>3
    <3> QED BY <2>1, <2>4, <3>1, <3>2, <3>4, <3>5, <3>6, <3>7
  <2>5. CASE x # Star
    <3>1. tt[i] = <<Value(x, r, verdict)>>
      BY <1>2, <2>1, <2>3, <2>5, CellIsValue
    <3>2. CellsIn(x, r) = <<Value(x, r, verdict)>>
      BY <2>5 DEF CellsIn
    <3>3. ss[i] = <<x>>
      BY <2>2, <2>5
    <3> HIDE DEF E, v, T, ss, tt
    <3>4. <<x>> \in Seq(E)
      BY <2>1
    <3>5. Mapped(<<x>>, v) = <<v[x]>>
      BY DEF Mapped
    <3>6. v[x] = Value(x, r, verdict)
      BY <1>5, <2>1
    <3> QED BY <2>1, <3>1, <3>2, <3>3, <3>4, <3>5, <3>6
  <2> QED BY <2>4, <2>5
<1>7. DOMAIN ss = 1 .. m /\ ss = [i \in 1 .. m |-> ss[i]]
  BY <1>1
<1>8. DOMAIN tt = 1 .. m /\ tt = [i \in 1 .. m |-> tt[i]]
  BY <1>3
<1>9. Expanded(query) = FlattenSeq(ss)
  BY DEF Expanded
<1>10. PlainLine(Row(r)).cells = FlattenSeq(tt)
  BY DEF PlainLine
<1> HIDE DEF E, v, T, ss, tt
<1>11. ss \in [1 .. m -> Seq(E)]
  BY <1>6, <1>7
<1>12. tt \in [1 .. m -> Seq(T)]
  <2>1. ASSUME NEW i \in 1 .. m PROVE tt[i] \in Seq(T)
    <3>1. PICK w \in Seq(E) : w = ss[i]
      BY <1>6
    <3>2. tt[i] = [c \in DOMAIN w |-> v[w[c]]]
      BY <1>6, <3>1 DEF Mapped
    <3>3. DOMAIN w = 1 .. Len(w) /\ Len(w) \in Nat /\ \A c \in 1 .. Len(w) : v[w[c]] \in T
      BY <1>5, <3>1
    <3> QED BY <3>2, <3>3
  <2> QED BY <1>8, <2>1
<1>13. FlattenSeq(tt) = Mapped(FlattenSeq(ss), v)
  <2>1. MapsEach(tt, T, ss, E, v, m)
    BY <1>5, <1>6, <1>11, <1>12 DEF MapsEach
  <2> QED BY <2>1, FlattenMap
<1>14. PICK w \in Seq(E) : w = FlattenSeq(ss)
  BY <1>11, FlattenLaid
<1>15. CellsOf(r) = [c \in DOMAIN w |-> Value(w[c], r, verdict)]
  BY <1>9, <1>14 DEF CellsOf
<1>16. \A c \in DOMAIN w : v[w[c]] = Value(w[c], r, verdict)
  BY <1>5, <1>14
<1>17. Mapped(w, v) = [c \in DOMAIN w |-> Value(w[c], r, verdict)]
  BY <1>16 DEF Mapped
<1> QED BY <1>10, <1>13, <1>14, <1>15, <1>17

\* Where jevql sorts, a row's line is the statement's.
LEMMA LineIsLine ==
  ASSUME query \in Statements, Laying, RightTargets, RightKeys, ~plan.serverOrder, NEW r
  PROVE  PlainLine(Row(r)) = LineOf(r)
<1>1. PlainLine(Row(r)).cells = CellsOf(r)
  BY LineCells
<1>2. PlainLine(Row(r)).keys = KeysOf(r)
  <2>1. PlainLine(Row(r)).keys = [k \in DOMAIN plan.orderKeys |-> KeyOf(Row(r), plan.orderKeys[k])]
    BY DEF PlainLine
  <2>2. ASSUME NEW k \in DOMAIN query.order
        PROVE  KeyOf(Row(r), plan.orderKeys[k]) = Value(KeyExpr(query, query.order[k], FALSE), r, verdict)
    <3>1. PICK i \in 1 .. Len(plan.targets) : i = plan.orderKeys[k] /\ Simple(plan.targets[i].x) /\ Placed(i)
      BY DEF RightKeys
    <3>2. plan.targets[i].x # Star
      BY <3>1, SimpleKinds
    <3>3. KeyOf(Row(r), i) = Value(plan.targets[i].x, r, verdict)
      BY <3>1, <3>2, KeyIsValue
    <3> QED BY <3>1, <3>3 DEF RightKeys
  <2> QED BY <2>1, <2>2 DEF KeysOf, RightKeys
<1>3. PlainLine(Row(r)) = [cells |-> PlainLine(Row(r)).cells, keys |-> PlainLine(Row(r)).keys]
  BY DEF PlainLine
<1> QED BY <1>1, <1>2, <1>3 DEF LineOf

\* What the analysis makes of the terms with calls.
Judges(ps, q, p) ==
  /\ DOMAIN ps = 1 .. p /\ Len(ps) = p
  /\ \A k \in 1 .. p : \E t \in Range(Terms(q)) :
       /\ t.kind \in {"jev", "not jev"}
       /\ ps[k].x = t.x /\ (ps[k].negate <=> t.kind = "not jev")
  /\ \A t \in Range(Terms(q)) : t.kind \in {"jev", "not jev"} =>
       \E k \in 1 .. p : ps[k].x = t.x /\ (ps[k].negate <=> t.kind = "not jev")

LEMMA PredicatesJudge ==
  ASSUME NEW q \in Statements
  PROVE  \E p \in Nat : Judges(Predicates(q), q, p)
<1> DEFINE T == Terms(q)
           ss == [i \in DOMAIN T |-> IF T[i].kind \in {"jev", "not jev"} THEN <<T[i]>> ELSE <<>>]
<1>1. PICK n \in Nat : n = Len(T) /\ DOMAIN T = 1 .. n /\ T \in [1 .. n -> SimpleTerms]
  <2>1. T \in Seq(SimpleTerms)
    BY TermsType
  <2> QED BY <2>1
<1>2. ASSUME NEW i \in 1 .. n
      PROVE  /\ ss[i] \in Seq(SimpleTerms) /\ (ss[i] = <<T[i]>> \/ ss[i] = <<>>)
             /\ ss[i] # <<>> <=> T[i].kind \in {"jev", "not jev"}
  <2>1. PICK t \in SimpleTerms : t = T[i]
    BY <1>1
  <2>2. <<t>> \in Seq(SimpleTerms) /\ <<>> \in Seq(SimpleTerms) /\ <<t>> # <<>>
    OBVIOUS
  <2> QED BY <1>1, <2>1, <2>2
<1>3. ss \in [1 .. n -> Seq(SimpleTerms)]
  BY <1>1, <1>2
<1>4. PICK ps : ps = FlattenSeq(ss)
  OBVIOUS
<1>5. Predicates(q) = [i \in DOMAIN ps |-> [x |-> ps[i].x, negate |-> ps[i].kind = "not jev"]]
  <2>1. Select(T, LAMBDA t : t.kind \in {"jev", "not jev"}) = ps
    BY <1>4 DEF Select
  <2> QED BY <2>1 DEF Predicates
<1>6. Range(T) = {T[i] : i \in 1 .. n}
  BY <1>1 DEF Range
<1> HIDE DEF T, ss
<1>7. ps \in Seq(SimpleTerms) /\ \E e, p : p \in Nat /\ Stayed(e, ps, T, ss, n, p)
  BY <1>1, <1>2, <1>3, <1>4, SelectStays
<1>8. PICK p \in Nat : \E e : Stayed(e, ps, T, ss, n, p)
  BY <1>7
<1>9. PICK e : Stayed(e, ps, T, ss, n, p)
  BY <1>8
<1>10. DOMAIN ps = 1 .. p
  BY <1>7, <1>9 DEF Stayed
<1>11. DOMAIN Predicates(q) = 1 .. p /\ Len(Predicates(q)) = p
  <2>1. PICK P : P = Predicates(q)
    OBVIOUS
  <2>2. DOMAIN P = 1 .. p
    BY <1>5, <1>10, <2>1
  <2>3. P = [i \in 1 .. p |-> P[i]]
    BY <1>5, <1>10, <2>1
  <2>4. Len(P) = p
    BY <2>3
  <2> QED BY <2>1, <2>2, <2>4
<1>12. ASSUME NEW k \in 1 .. p
       PROVE  Predicates(q)[k].x = ps[k].x /\ (Predicates(q)[k].negate <=> ps[k].kind = "not jev")
  <2>1. PICK b \in BOOLEAN : b = (ps[k].kind = "not jev")
    OBVIOUS
  <2>2. Predicates(q)[k] = [x |-> ps[k].x, negate |-> b]
    BY <1>5, <1>10, <2>1
  <2>3. Predicates(q)[k].x = ps[k].x /\ Predicates(q)[k].negate = b
    BY <2>2
  <2>4. CASE ps[k].kind = "not jev"
    <3>1. b = TRUE
      BY <2>1, <2>4
    <3>2. Predicates(q)[k].negate = TRUE
      BY <2>3, <3>1
    <3> QED BY <2>3, <2>4, <3>2
  <2>5. CASE ps[k].kind # "not jev"
    <3>1. b = FALSE
      BY <2>1, <2>5
    <3>2. Predicates(q)[k].negate = FALSE
      BY <2>3, <3>1
    <3> QED BY <2>3, <2>5, <3>2
  <2> QED BY <2>4, <2>5
<1>13. ASSUME NEW k \in 1 .. p
       PROVE  \E t \in Range(T) : /\ t.kind \in {"jev", "not jev"}
                                  /\ Predicates(q)[k].x = t.x /\ (Predicates(q)[k].negate <=> t.kind = "not jev")
  <2>1. e[k] \in 1 .. n /\ ps[k] = T[e[k]] /\ ss[e[k]] # <<>>
    BY <1>9 DEF Stayed
  <2>2. PICK t : t = T[e[k]]
    OBVIOUS
  <2>3. t \in Range(T) /\ t.kind \in {"jev", "not jev"} /\ ps[k] = t
    BY <1>2, <1>6, <2>1, <2>2
  <2> QED BY <1>12, <2>3
<1>14. ASSUME NEW t \in Range(T), t.kind \in {"jev", "not jev"}
       PROVE  \E k \in 1 .. p : Predicates(q)[k].x = t.x /\ (Predicates(q)[k].negate <=> t.kind = "not jev")
  <2>1. PICK i \in 1 .. n : t = T[i]
    BY <1>6
  <2>2. ss[i] # <<>>
    BY <1>2, <1>14, <2>1
  <2>3. PICK k \in 1 .. p : e[k] = i
    BY <1>9, <2>2 DEF Stayed
  <2>4. ps[k] = t
    BY <1>9, <2>1, <2>3 DEF Stayed
  <2> QED BY <1>12, <2>4
<1> QED BY <1>11, <1>13, <1>14 DEF Judges, T

Passes(row) ==
  \A k \in DOMAIN plan.preds :
    LET x == plan.preds[k].x
        pass == Holds(x, verdict[ObjectOf(row, x)])
    IN  IF plan.preds[k].negate THEN ~pass ELSE pass

RightPreds ==
  /\ plan.preds = Predicates(query)
  /\ \A k \in DOMAIN plan.preds : \E c \in DOMAIN plan.calls : plan.calls[c].arg = plan.preds[k].x.arg

LEMMA PassesQualifies ==
  ASSUME query \in Statements, Laying, RightPreds, NEW r, Filtered(query, r),
         \A t \in Range(Terms(query)) : t.kind # "around"
  PROVE  Passes(Row(r)) <=> Qualifies(query, r, verdict)
<1>1. PICK p \in Nat : Judges(plan.preds, query, p)
  BY PredicatesJudge DEF RightPreds
<1> DEFINE H(x) == Holds(x, verdict[Object(x.arg, r)])
<1>2. ASSUME NEW k \in 1 .. p PROVE Holds(plan.preds[k].x, verdict[ObjectOf(Row(r), plan.preds[k].x)]) <=> H(plan.preds[k].x)
  <2>1. PICK x : x = plan.preds[k].x
    OBVIOUS
  <2>2. \E c \in DOMAIN plan.calls : plan.calls[c].arg = x.arg
    <3>1. k \in DOMAIN plan.preds
      BY <1>1 DEF Judges
    <3> QED BY <2>1, <3>1 DEF RightPreds
  <2>3. ObjectOf(Row(r), x) = Object(x.arg, r)
    BY <2>2, ObjectOfSource DEF Laying
  <2> QED BY <2>1, <2>3
<1>3. Passes(Row(r)) <=> \A k \in 1 .. p : H(plan.preds[k].x) <=> ~plan.preds[k].negate
  BY <1>1, <1>2 DEF Passes, Judges
<1>4. ASSUME NEW t \in Range(Terms(query))
      PROVE  t.kind # "plain" <=> t.kind \in {"jev", "not jev"}
  <2>1. t \in SimpleTerms
    BY TermsType DEF Range
  <2>2. t.kind \in {"plain", "jev", "not jev", "around"}
    BY <2>1 DEF SimpleTerms
  <2> QED BY <2>2
<1>5. Qualifies(query, r, verdict) <=>
        \A t \in Range(Terms(query)) : t.kind # "plain" => (H(t.x) <=> t.kind = "jev")
  BY DEF Qualifies, Holds
<1> HIDE DEF H
<1>6. ASSUME \A k \in 1 .. p : H(plan.preds[k].x) <=> ~plan.preds[k].negate,
             NEW t \in Range(Terms(query)), t.kind # "plain"
      PROVE  H(t.x) <=> t.kind = "jev"
  <2>1. t.kind \in {"jev", "not jev"}
    BY <1>4, <1>6
  <2>2. PICK k \in 1 .. p : plan.preds[k].x = t.x /\ (plan.preds[k].negate <=> t.kind = "not jev")
    BY <1>1, <2>1 DEF Judges
  <2> QED BY <1>6, <2>1, <2>2
<1>7. ASSUME \A t \in Range(Terms(query)) : t.kind # "plain" => (H(t.x) <=> t.kind = "jev"),
             NEW k \in 1 .. p
      PROVE  H(plan.preds[k].x) <=> ~plan.preds[k].negate
  <2>1. PICK t \in Range(Terms(query)) :
          /\ t.kind \in {"jev", "not jev"}
          /\ plan.preds[k].x = t.x /\ (plan.preds[k].negate <=> t.kind = "not jev")
    BY <1>1 DEF Judges
  <2>2. H(t.x) <=> t.kind = "jev"
    BY <1>4, <1>7, <2>1
  <2> QED BY <2>1, <2>2
<1> QED BY <1>3, <1>5, <1>6, <1>7
-----------------------------------------------------------------------------
(* Results.                                                                 *)

\* p lists the elements of S, each once.
Lists(p, n, S) ==
  /\ p \in [1 .. n -> S]
  /\ \A i, j \in 1 .. n : i # j => p[i] # p[j]
  /\ \A x \in S : \E i \in 1 .. n : p[i] = x

LEMMA ListsCount ==
  ASSUME NEW n \in Nat, NEW S, NEW p, Lists(p, n, S)
  PROVE  IsFiniteSet(S) /\ Cardinality(S) = n
<1>1. p \in Bijection(1 .. n, S)
  BY DEF Lists, Bijection, Injection, Surjection, IsInjective
<1>2. ExistsBijection(1 .. n, S)
  BY <1>1 DEF ExistsBijection
<1>3. IsFiniteSet(1 .. n)
  BY FS_Interval
<1> QED BY <1>2, <1>3, FS_CountingElements, FS_Bijection

\* An injection of as many things covers them.
LEMMA CoversAll ==
  ASSUME NEW n \in Nat, NEW S, IsFiniteSet(S), Cardinality(S) = n, NEW p \in [1 .. n -> S],
         \A i, j \in 1 .. n : i # j => p[i] # p[j]
  PROVE  Lists(p, n, S)
<1>1. p \in Injection(1 .. n, S)
  BY DEF Injection, IsInjective
<1>2. IsFiniteSet(1 .. n) /\ Cardinality(1 .. n) = n
  <2>1. 1 \in Int /\ n \in Int
    OBVIOUS
  <2>2. IsFiniteSet(1 .. n) /\ Cardinality(1 .. n) = IF 1 > n THEN 0 ELSE n - 1 + 1
    BY <2>1, FS_Interval
  <2> QED BY <2>2
<1>3. p \in Surjection(1 .. n, S)
  BY <1>1, <1>2, FS_Injection
<1> QED BY <1>3 DEF Lists, Surjection

LEMMA SetListed ==
  ASSUME NEW S, IsFiniteSet(S)
  PROVE  Cardinality(S) \in Nat /\ Lists(SetToSeq(S), Cardinality(S), S)
<1>1. PICK n \in Nat : n = Cardinality(S)
  BY FS_CardinalityType
<1>2. \E g \in [1 .. n -> S] : IsInjective(g)
  <2>1. ExistsBijection(1 .. n, S)
    BY <1>1, FS_CardinalityType
  <2> QED BY <2>1 DEF ExistsBijection, Bijection, Injection, IsInjective
<1>3. SetToSeq(S) = CHOOSE g \in [1 .. n -> S] : IsInjective(g)
  BY <1>1 DEF SetToSeq
<1>4. PICK g : g = SetToSeq(S)
  OBVIOUS
<1>5. g \in [1 .. n -> S] /\ IsInjective(g)
  BY <1>2, <1>3, <1>4
<1>6. \A i, j \in 1 .. n : i # j => g[i] # g[j]
  BY <1>5 DEF IsInjective
<1>7. Lists(g, n, S)
  BY <1>1, <1>5, <1>6, CoversAll
<1> QED BY <1>1, <1>4, <1>7

NoNegative(q) == \A n \in Range(q.limit) \cup Range(q.offset) : n >= 0

\* OFFSET and LIMIT leave the same places of every list of n things.
SlicesTo(q, n, off, len) ==
  \A S : \A s \in Seq(S) : Len(s) = n =>
    /\ Slice(s, q) \in Seq(S) /\ Len(Slice(s, q)) = len
    /\ \A i \in 1 .. len : Slice(s, q)[i] = s[off + i]

LEMMA SliceAt ==
  ASSUME NEW q \in Statements, NoNegative(q), NEW n \in Nat
  PROVE  \E off, len \in Nat : off + len <= n /\ SlicesTo(q, n, off, len)
<1>1. /\ q.limit # <<>> => q.limit[1] \in Nat
      /\ q.offset # <<>> => q.offset[1] \in Nat
  <2>1. ASSUME NEW l \in Seq(Int), l # <<>>, \A k \in Range(l) : k >= 0 PROVE l[1] \in Nat
    <3>1. 1 \in DOMAIN l
      BY <2>1
    <3>2. l[1] \in Range(l) /\ l[1] \in Int
      BY <3>1 DEF Range
    <3> QED BY <2>1, <3>2
  <2>2. q.limit \in Seq(Int) /\ q.offset \in Seq(Int)
    BY DEF Statements
  <2> QED BY <2>1, <2>2 DEF NoNegative
<1>2. PICK off \in Nat : off = IF q.offset = <<>> THEN 0 ELSE IF q.offset[1] > n THEN n ELSE q.offset[1]
  BY <1>1
<1>3. PICK len \in Nat : len = IF q.limit = <<>> \/ q.limit[1] >= n - off THEN n - off ELSE q.limit[1]
  <2>1. n - off \in Nat
    BY <1>1, <1>2
  <2> QED BY <1>1, <2>1
<1>4. off + len <= n
  BY <1>1, <1>2, <1>3
<1>5. ASSUME NEW S, NEW s \in Seq(S), Len(s) = n
      PROVE  /\ Slice(s, q) \in Seq(S) /\ Len(Slice(s, q)) = len
             /\ \A i \in 1 .. len : Slice(s, q)[i] = s[off + i]
  <2>1. PICK t \in Seq(S) : t = IF q.offset = <<>> THEN s ELSE SubSeq(s, q.offset[1] + 1, Len(s))
    <3>1. CASE q.offset = <<>>
      BY <3>1
    <3>2. CASE q.offset # <<>>
      <4>1. PICK o \in Nat : o = q.offset[1]
        BY <1>1, <3>2
      <4>2. SubSeq(s, o + 1, Len(s)) \in Seq(S)
        OBVIOUS
      <4> QED BY <3>2, <4>1, <4>2
    <3> QED BY <3>1, <3>2
  <2>2. Len(t) = n - off /\ \A i \in 1 .. n - off : t[i] = s[off + i]
    <3>1. CASE q.offset = <<>>
      BY <1>2, <1>5, <2>1, <3>1
    <3>2. CASE q.offset # <<>>
      <4>1. PICK o \in Nat : o = q.offset[1]
        BY <1>1, <3>2
      <4>2. t = SubSeq(s, o + 1, n)
        BY <1>5, <2>1, <3>2, <4>1
      <4>3. off = IF o > n THEN n ELSE o
        BY <1>2, <3>2, <4>1
      <4>4. CASE o > n
        BY <1>5, <4>2, <4>3, <4>4
      <4>5. CASE o <= n
        BY <1>5, <4>2, <4>3, <4>5
      <4> QED BY <4>4, <4>5
    <3> QED BY <3>1, <3>2
  <2>3. Slice(s, q) = IF q.limit = <<>> \/ q.limit[1] >= Len(t) THEN t ELSE SubSeq(t, 1, q.limit[1])
    BY <2>1 DEF Slice
  <2>4. CASE q.limit = <<>> \/ q.limit[1] >= n - off
    <3>1. Slice(s, q) = t /\ len = n - off
      BY <1>3, <2>2, <2>3, <2>4
    <3> QED BY <2>2, <3>1
  <2>5. CASE ~(q.limit = <<>> \/ q.limit[1] >= n - off)
    <3>1. PICK l \in Nat : l = q.limit[1]
      BY <1>1, <2>5
    <3>2. Slice(s, q) = SubSeq(t, 1, l) /\ len = l /\ l < n - off
      BY SMTT(40), <1>2, <1>3, <2>2, <2>3, <2>5, <3>1
    <3>3. SubSeq(t, 1, l) \in Seq(S) /\ Len(SubSeq(t, 1, l)) = l /\ \A i \in 1 .. l : SubSeq(t, 1, l)[i] = t[i]
      BY <2>2, <3>2
    <3>4. \A i \in 1 .. l : i \in 1 .. n - off
      BY <1>2, <3>2
    <3> QED BY <2>2, <3>2, <3>3, <3>4
  <2> QED BY <2>4, <2>5
<1>6. SlicesTo(q, n, off, len)
  BY <1>5 DEF SlicesTo
<1> QED BY <1>4, <1>6

\* Two lists of n things keep the same places.
SlicedAlike(u, s, v, t, n, off, len) ==
  /\ Len(u) = len /\ Len(v) = len /\ off + len <= n
  /\ \A i \in 1 .. len : off + i \in 1 .. n /\ u[i] = s[off + i] /\ v[i] = t[off + i]

LEMMA SliceBoth ==
  ASSUME NEW q \in Statements, NoNegative(q), NEW n \in Nat,
         NEW S, NEW s \in [1 .. n -> S], NEW T, NEW t \in [1 .. n -> T]
  PROVE  /\ Slice(s, q) \in Seq(S) /\ Slice(t, q) \in Seq(T)
         /\ \E off, len \in Nat : SlicedAlike(Slice(s, q), s, Slice(t, q), t, n, off, len)
<1>1. PICK off, len \in Nat : off + len <= n /\ SlicesTo(q, n, off, len)
  BY SliceAt
<1>2. s \in Seq(S) /\ Len(s) = n /\ t \in Seq(T) /\ Len(t) = n
  OBVIOUS
<1>3. Slice(s, q) \in Seq(S) /\ Len(Slice(s, q)) = len /\ \A i \in 1 .. len : Slice(s, q)[i] = s[off + i]
  BY <1>1, <1>2 DEF SlicesTo
<1>4. Slice(t, q) \in Seq(T) /\ Len(Slice(t, q)) = len /\ \A i \in 1 .. len : Slice(t, q)[i] = t[off + i]
  BY <1>1, <1>2 DEF SlicesTo
<1>5. \A i \in 1 .. len : off + i \in 1 .. n
  BY <1>1
<1>6. SlicedAlike(Slice(s, q), s, Slice(t, q), t, n, off, len)
  BY <1>1, <1>3, <1>4, <1>5 DEF SlicedAlike
<1> QED BY <1>3, <1>4, <1>6

LEMMA CutIsSlice ==
  ASSUME query \in Statements, NoNegative(query), NEW S, NEW s \in Seq(S)
  PROVE  Cut(s) = Slice(s, query)
<1>1. /\ query.limit # <<>> => query.limit[1] \in Nat
      /\ query.offset # <<>> => query.offset[1] \in Nat
  <2>1. ASSUME NEW l \in Seq(Int), l # <<>>, \A k \in Range(l) : k >= 0 PROVE l[1] \in Nat
    <3>1. 1 \in DOMAIN l
      BY <2>1
    <3>2. l[1] \in Range(l) /\ l[1] \in Int
      BY <3>1 DEF Range
    <3> QED BY <2>1, <3>2
  <2>2. query.limit \in Seq(Int) /\ query.offset \in Seq(Int)
    BY DEF Statements
  <2> QED BY <2>1, <2>2 DEF NoNegative
<1>2. PICK n \in Nat : n = Len(s)
  OBVIOUS
<1>3. PICK off \in Nat : off = IF query.offset = <<>> THEN 0
                               ELSE IF query.offset[1] > n THEN n ELSE query.offset[1]
  BY <1>1
<1>4. PICK t \in Seq(S) : t = SubSeq(s, off + 1, n)
  <2>1. SubSeq(s, off + 1, n) \in Seq(S)
    BY <1>2
  <2> QED BY <2>1
<1>5. Cut(s) = IF query.limit # <<>> /\ query.limit[1] < Len(t) THEN SubSeq(t, 1, query.limit[1]) ELSE t
  BY <1>2, <1>3, <1>4 DEF Cut
<1>6. t = IF query.offset = <<>> THEN s ELSE SubSeq(s, query.offset[1] + 1, n)
  <2>1. CASE query.offset = <<>>
    <3>1. t = SubSeq(s, 1, n)
      BY <1>3, <1>4, <2>1
    <3>2. s = SubSeq(s, 1, n)
      BY <1>2
    <3> QED BY <2>1, <3>1, <3>2
  <2>2. CASE query.offset # <<>>
    <3>1. PICK o \in Nat : o = query.offset[1]
      BY <1>1, <2>2
    <3>2. off = IF o > n THEN n ELSE o
      BY <1>3, <2>2, <3>1
    <3>3. CASE o > n
      <4>1. SubSeq(s, o + 1, n) = <<>> /\ SubSeq(s, n + 1, n) = <<>>
        BY <1>2, <3>3
      <4> QED BY <1>4, <2>2, <3>1, <3>2, <3>3, <4>1
    <3>4. CASE o <= n
      <4>1. off = o
        BY <3>2, <3>4
      <4>2. t = SubSeq(s, o + 1, n)
        BY <1>4, <4>1
      <4> QED BY <2>2, <3>1, <4>2
    <3> QED BY <3>3, <3>4
  <2> QED BY <2>1, <2>2
<1>7. Slice(s, query) = IF query.limit = <<>> \/ query.limit[1] >= Len(t) THEN t ELSE SubSeq(t, 1, query.limit[1])
  BY <1>2, <1>6 DEF Slice
<1>8. PICK m \in Nat : m = Len(t)
  OBVIOUS
<1>9. CASE query.limit = <<>>
  BY <1>5, <1>7, <1>9
<1>10. CASE query.limit # <<>>
  <2>1. PICK l \in Nat : l = query.limit[1]
    BY <1>1, <1>10
  <2>2. l < m <=> ~(l >= m)
    OBVIOUS
  <2> QED BY <1>5, <1>7, <1>8, <1>10, <2>1, <2>2
<1> QED BY <1>9, <1>10

\* The positions of the rows a query is about.
Chosen == {i \in DOMAIN table : Qualifies(query, table[i], verdict)}

\* No row comes before one it is less than.
Ordered(p, n) ==
  \A i, j \in 1 .. n : i < j => ~Before(KeysOf(table[p[j]]), KeysOf(table[p[i]]), query.order)

LEMMA LinesAre ==
  ASSUME ~IsGrouped(query)
  PROVE  Lines(query, table, verdict) = [k \in DOMAIN SetToSeq(Chosen) |-> LineOf(table[SetToSeq(Chosen)[k]])]
BY DEF Lines, LineOf, CellsOf, KeysOf, Chosen

\* Every order of the rows a query is about, if it is in order, is a result.
LEMMA ResultFrom ==
  ASSUME ~IsGrouped(query), NEW n \in Nat, NEW p, Lists(p, n, Chosen), Ordered(p, n)
  PROVE  IsResult(query, table, verdict, Slice([i \in 1 .. n |-> CellsOf(table[p[i]])], query))
<1>1. IsFiniteSet(Chosen) /\ Cardinality(Chosen) = n
  BY ListsCount
<1>2. PICK is : is = SetToSeq(Chosen)
  OBVIOUS
<1>3. Lists(is, n, Chosen)
  BY <1>1, <1>2, SetListed
<1>4. PICK L : L = Lines(query, table, verdict)
  OBVIOUS
<1>5. L = [k \in 1 .. n |-> LineOf(table[is[k]])]
  <2>1. DOMAIN is = 1 .. n
    BY <1>3 DEF Lists
  <2> QED BY <1>2, <1>4, <2>1, LinesAre
<1>6. \A k \in 1 .. n : L[k].keys = KeysOf(table[is[k]]) /\ L[k].cells = CellsOf(table[is[k]])
  BY <1>5 DEF LineOf
<1> DEFINE f == [i \in 1 .. n |-> CHOOSE k \in 1 .. n : is[k] = p[i]]
<1>7. \A i \in 1 .. n : f[i] \in 1 .. n /\ is[f[i]] = p[i]
  <2>1. ASSUME NEW i \in 1 .. n PROVE \E k \in 1 .. n : is[k] = p[i]
    <3>1. p[i] \in Chosen
      BY DEF Lists
    <3> QED BY <1>3, <3>1 DEF Lists
  <2> QED BY <2>1
<1>8. f \in [1 .. n -> 1 .. n]
  BY <1>7
<1> HIDE DEF f
<1>9. ASSUME NEW i \in 1 .. n, NEW j \in 1 .. n, f[i] = f[j] PROVE i = j
  <2>1. p[i] = p[j]
    BY <1>7, <1>9
  <2> QED BY <2>1 DEF Lists
<1>10. f \in Injection(1 .. n, 1 .. n)
  BY <1>8, <1>9 DEF Injection, IsInjective
<1>11. PICK keys : keys = [i \in DOMAIN L |-> L[i].keys]
  OBVIOUS
<1>12. DOMAIN keys = 1 .. n /\ \A i \in 1 .. n : keys[i] = KeysOf(table[is[i]])
  BY <1>5, <1>6, <1>11
<1>13. \A i \in 1 .. n : keys[f[i]] = KeysOf(table[p[i]])
  BY <1>7, <1>12
<1>14. f \in Arrangements(keys, query.order)
  BY <1>10, <1>12, <1>13 DEF Arrangements, Ordered
<1>15. [i \in DOMAIN L |-> L[f[i]].cells] = [i \in 1 .. n |-> CellsOf(table[p[i]])]
  <2>1. \A i \in 1 .. n : L[f[i]].cells = CellsOf(table[p[i]])
    BY <1>6, <1>7
  <2> QED BY <1>5, <2>1
<1> QED BY <1>4, <1>11, <1>14, <1>15 DEF IsResult
-----------------------------------------------------------------------------
(* What Project shows.                                                      *)

\* What the service says of the rows of the table.
VerdictTyped == \A i \in DOMAIN table : \A src \in ArgNames : verdict[Object(src, table[i])] \in Nat

\* A plan that has what the statement asks for.
Right ==
  /\ Laying /\ RightTargets /\ RightKeys /\ RightPreds
  /\ plan.grouped = FALSE
  /\ plan.serverOrder => plan.preds = <<>>

\* A statement of which every row is a line.
Lined(q) ==
  /\ ~IsGrouped(q) /\ NoNegative(q)
  /\ \A t \in Range(Terms(q)) : t.kind # "around"

Given == query \in Statements /\ table \in Seq(Rows) /\ VerdictTyped /\ Lined(query) /\ Right

LEMMA KeysType ==
  ASSUME Given, NEW i \in DOMAIN table, NEW m \in Nat, m = Len(query.order)
  PROVE  KeysOf(table[i]) \in [1 .. m -> Int]
<1>1. DOMAIN query.order = 1 .. m
  BY DEF Given, Statements
<1>2. PICK r \in Rows : r = table[i]
  BY DEF Given
<1>3. ASSUME NEW k \in 1 .. m
      PROVE  Value(KeyExpr(query, query.order[k], FALSE), r, verdict) \in Int
  <2>1. PICK x : x = KeyExpr(query, query.order[k], FALSE)
    OBVIOUS
  <2>2. Simple(x)
    <3> QED BY <1>1, <2>1 DEF Given, Right, RightKeys
  <2>3. ASSUME x.fn = "col", x.arg \in {"a", "b"} PROVE Value(x, r, verdict) \in Int
    <3>1. r.a \in Int /\ r.b \in Int
      BY DEF Rows, Null
    <3> QED BY <2>3, <3>1 DEF Value
  <2>4. ASSUME IsJev(x), x.arg \in ArgNames PROVE Value(x, r, verdict) \in Int
    <3>1. verdict[Object(x.arg, r)] \in Int
      BY <1>2, <2>4 DEF Given, VerdictTyped
    <3>2. CASE x.fn = "jev"
      <4>1. Value(x, r, verdict) = IF Holds(x, verdict[Object(x.arg, r)]) THEN 1 ELSE 0
        BY <3>2 DEF Value
      <4> QED BY <4>1
    <3>3. CASE x.fn = "jev_prob"
      <4>1. Value(x, r, verdict) = verdict[Object(x.arg, r)]
        BY <3>3 DEF Value
      <4> QED BY <3>1, <4>1
    <3> QED BY <2>4, <3>2, <3>3 DEF IsJev
  <2>5. Value(x, r, verdict) \in Int
    BY <2>2, <2>3, <2>4 DEF Simple
  <2> QED BY <2>1, <2>5
<1> QED BY <1>1, <1>2, <1>3 DEF KeysOf

\* Which of the collected rows are kept.
KeptAs(e, m, n) ==
  /\ DOMAIN Kept = 1 .. m
  /\ e \in [1 .. m -> 1 .. n]
  /\ \A i, j \in 1 .. m : i # j => e[i] # e[j]
  /\ \A j \in 1 .. m : Kept[j] = collected[e[j]] /\ Passes(collected[e[j]])
  /\ \A i \in 1 .. n : Passes(collected[i]) => \E j \in 1 .. m : e[j] = i

LEMMA KeptSome ==
  ASSUME NEW n \in Nat, DOMAIN collected = 1 .. n
  PROVE  \E e, m : m \in Nat /\ KeptAs(e, m, n)
<1> DEFINE ss == [i \in DOMAIN collected |-> IF Passes(collected[i]) THEN <<collected[i]>> ELSE <<>>]
           S == {collected[i] : i \in 1 .. n}
<1>1. PICK c : c = [i \in 1 .. n |-> collected[i]]
  OBVIOUS
<1>2. Kept = FlattenSeq(ss)
  BY DEF Kept, Select, Passes
<1>3. ASSUME NEW i \in 1 .. n
      PROVE  /\ c[i] \in S /\ c[i] = collected[i] /\ (ss[i] = <<c[i]>> \/ ss[i] = <<>>)
             /\ ss[i] # <<>> <=> Passes(collected[i])
  <2>1. c[i] \in S /\ c[i] = collected[i]
    BY <1>1
  <2>2. <<c[i]>> # <<>>
    OBVIOUS
  <2>3. CASE Passes(collected[i])
    BY <2>1, <2>2, <2>3
  <2>4. CASE ~Passes(collected[i])
    BY <2>1, <2>4
  <2> QED BY <2>1, <2>3, <2>4
<1>4. DOMAIN ss = 1 .. n /\ ss = [i \in 1 .. n |-> ss[i]]
  OBVIOUS
<1> HIDE DEF ss, S
<1>5. ss \in [1 .. n -> Seq(S)] /\ c \in [1 .. n -> S]
  <2>1. ASSUME NEW i \in 1 .. n PROVE ss[i] \in Seq(S)
    <3>1. <<c[i]>> \in Seq(S) /\ <<>> \in Seq(S)
      BY <1>3
    <3> QED BY <1>3, <3>1
  <2> QED BY <1>1, <1>3, <1>4, <2>1
<1>6. FlattenSeq(ss) \in Seq(S) /\ \E e, p : p \in Nat /\ Stayed(e, FlattenSeq(ss), c, ss, n, p)
  BY <1>3, <1>5, SelectStays
<1>7. PICK m \in Nat : \E e : Stayed(e, FlattenSeq(ss), c, ss, n, m)
  BY <1>6
<1>8. PICK e : Stayed(e, FlattenSeq(ss), c, ss, n, m)
  BY <1>7
<1>9. DOMAIN Kept = 1 .. m
  BY <1>2, <1>6, <1>8 DEF Stayed
<1>10. ASSUME NEW j \in 1 .. m PROVE Kept[j] = collected[e[j]] /\ Passes(collected[e[j]])
  <2>1. e[j] \in 1 .. n /\ Kept[j] = c[e[j]] /\ ss[e[j]] # <<>>
    BY <1>2, <1>8 DEF Stayed
  <2> QED BY <1>3, <2>1
<1>11. ASSUME NEW i \in 1 .. n, Passes(collected[i]) PROVE \E j \in 1 .. m : e[j] = i
  BY <1>3, <1>8, <1>11 DEF Stayed
<1>12. KeptAs(e, m, n)
  BY <1>8, <1>9, <1>10, <1>11 DEF KeptAs, Stayed
<1> QED BY <1>12

\* An order of the rows the plain terms leave, and what of it is collected.
OrderOf(p, n) == [i \in 1 .. n |-> table[p[i]]]

CollectsAs(p, n, rows) ==
  /\ Lists(p, n, FilteredRows)
  /\ plan.serverOrder => Ordered(p, n)
  /\ rows = IF plan.serverOrder THEN Slice(OrderOf(p, n), query) ELSE OrderOf(p, n)

LEMMA FilteredAre ==
  ASSUME Given, NEW i \in FilteredRows
  PROVE  i \in DOMAIN table /\ table[i] \in Rows /\ (Passes(Row(table[i])) <=> i \in Chosen)
<1>1. i \in DOMAIN table /\ Filtered(query, table[i])
  BY DEF FilteredRows
<1>2. table[i] \in Rows
  BY <1>1 DEF Given
<1>3. Passes(Row(table[i])) <=> Qualifies(query, table[i], verdict)
  BY <1>1, PassesQualifies DEF Given, Lined, Right
<1> QED BY <1>1, <1>2, <1>3 DEF Chosen

LEMMA ChosenFiltered == Chosen \subseteq FilteredRows
BY DEF Chosen, FilteredRows, Qualifies

LEMMA LineParts == \A r : LineOf(r).keys = KeysOf(r) /\ LineOf(r).cells = CellsOf(r)
BY DEF LineOf

\* A list of rows and what is shown of them.
LEMMA SliceCells ==
  ASSUME query \in Statements, table \in Seq(Rows), NoNegative(query), NEW n \in Nat,
         NEW p \in [1 .. n -> DOMAIN table]
  PROVE  /\ Slice(OrderOf(p, n), query) \in Seq(Rows) /\ Len(Slice(OrderOf(p, n), query)) <= n
         /\ Slice([i \in 1 .. n |-> CellsOf(table[p[i]])], query)
              = [i \in DOMAIN Slice(OrderOf(p, n), query) |-> CellsOf(Slice(OrderOf(p, n), query)[i])]
<1>1. PICK s : s = OrderOf(p, n)
  OBVIOUS
<1>2. \A i \in 1 .. n : table[p[i]] \in Rows
  OBVIOUS
<1>3. s \in [1 .. n -> Rows] /\ \A i \in 1 .. n : s[i] = table[p[i]]
  BY <1>1, <1>2 DEF OrderOf
<1>4. PICK t, T : t = [i \in 1 .. n |-> CellsOf(table[p[i]])] /\ t \in [1 .. n -> T]
  <2>1. [i \in 1 .. n |-> CellsOf(table[p[i]])] \in [1 .. n -> {CellsOf(table[p[i]]) : i \in 1 .. n}]
    OBVIOUS
  <2> QED BY <2>1
<1>5. \A i \in 1 .. n : t[i] = CellsOf(table[p[i]])
  BY <1>4
<1>6. /\ Slice(s, query) \in Seq(Rows) /\ Slice(t, query) \in Seq(T)
      /\ \E off, len \in Nat : SlicedAlike(Slice(s, query), s, Slice(t, query), t, n, off, len)
  BY <1>3, <1>4, SliceBoth
<1>7. PICK u \in Seq(Rows), v \in Seq(T) : u = Slice(s, query) /\ v = Slice(t, query)
  BY <1>6
<1>8. PICK off \in Nat, len \in Nat : SlicedAlike(u, s, v, t, n, off, len)
  BY <1>6, <1>7
<1>9. Len(u) <= n
  BY <1>8 DEF SlicedAlike
<1>10. \A i \in 1 .. len : v[i] = CellsOf(u[i])
  <2>1. ASSUME NEW i \in 1 .. len PROVE v[i] = CellsOf(u[i])
    <3>1. PICK j \in 1 .. n : u[i] = s[j] /\ v[i] = t[j]
      BY <1>8 DEF SlicedAlike
    <3>2. u[i] = table[p[j]] /\ v[i] = CellsOf(table[p[j]])
      BY <1>3, <1>5, <3>1
    <3> QED BY <3>2
  <2> QED BY <2>1
<1>11. Len(u) = len /\ Len(v) = len
  BY <1>8 DEF SlicedAlike
<1>12. v = [i \in DOMAIN u |-> CellsOf(u[i])]
  BY <1>10, <1>11
<1> QED BY <1>1, <1>4, <1>7, <1>9, <1>12

\* What Project shows if it shows something.
ShownRows == LET rows == [i \in DOMAIN Kept |-> PlainLine(Kept[i])]
                 final == IF plan.serverOrder THEN rows ELSE Cut(Sorted(rows))
             IN  [i \in DOMAIN final |-> final[i].cells]

LEMMA ServerShows ==
  ASSUME Given, plan.serverOrder, NEW n \in Nat, NEW p, NEW rows, CollectsAs(p, n, rows),
         collected = [i \in DOMAIN rows |-> Row(rows[i])]
  PROVE  IsResult(query, table, verdict, ShownRows)
<1>1. /\ query \in Statements /\ table \in Seq(Rows) /\ NoNegative(query) /\ ~IsGrouped(query)
      /\ Laying /\ RightTargets /\ RightKeys /\ plan.preds = <<>>
  BY DEF Given, Lined, Right
<1>2. Lists(p, n, FilteredRows) /\ Ordered(p, n) /\ rows = Slice(OrderOf(p, n), query)
  BY DEF CollectsAs
<1>3. FilteredRows = Chosen
  <2>1. \A row : Passes(row)
    BY <1>1 DEF Passes
  <2>2. FilteredRows \subseteq Chosen
    BY <2>1, FilteredAre
  <2> QED BY <2>2, ChosenFiltered
<1>4. p \in [1 .. n -> DOMAIN table]
  BY <1>2 DEF Lists, FilteredRows
<1>5. /\ rows \in Seq(Rows)
      /\ Slice([i \in 1 .. n |-> CellsOf(table[p[i]])], query) = [i \in DOMAIN rows |-> CellsOf(rows[i])]
  BY <1>1, <1>2, <1>4, SliceCells
<1>6. PICK m \in Nat : DOMAIN rows = 1 .. m
  BY <1>5
<1>7. DOMAIN collected = 1 .. m /\ \A i \in 1 .. m : collected[i] = Row(rows[i])
  BY <1>6
<1>8. DOMAIN Kept = 1 .. m /\ \A i \in 1 .. m : Kept[i] = Row(rows[i])
  BY <1>1, <1>7, KeptAll
<1>9. \A i \in 1 .. m : PlainLine(Kept[i]).cells = CellsOf(rows[i])
  <2>1. ASSUME NEW i \in 1 .. m PROVE PlainLine(Kept[i]).cells = CellsOf(rows[i])
    <3>1. PlainLine(Row(rows[i])).cells = CellsOf(rows[i])
      BY <1>1, LineCells
    <3> QED BY <1>8, <3>1
  <2> QED BY <2>1
<1>10. ShownRows = [i \in 1 .. m |-> PlainLine(Kept[i]).cells]
  BY <1>8 DEF ShownRows
<1>11. ShownRows = [i \in DOMAIN rows |-> CellsOf(rows[i])]
  BY <1>6, <1>9, <1>10
<1>12. IsResult(query, table, verdict, Slice([i \in 1 .. n |-> CellsOf(table[p[i]])], query))
  BY <1>1, <1>2, <1>3, ResultFrom
<1> QED BY <1>5, <1>11, <1>12

\* The kept rows are those the query is about.
LEMMA KeptChosen ==
  ASSUME Given, NEW n \in Nat, NEW p, Lists(p, n, FilteredRows),
         DOMAIN collected = 1 .. n, \A i \in 1 .. n : collected[i] = Row(table[p[i]])
  PROVE  \E m \in Nat : \E h : /\ Lists(h, m, Chosen) /\ DOMAIN Kept = 1 .. m
                               /\ \A j \in 1 .. m : Kept[j] = Row(table[h[j]])
<1>1. PICK m \in Nat : \E e : KeptAs(e, m, n)
  <2>1. \E e, m : m \in Nat /\ KeptAs(e, m, n)
    BY KeptSome
  <2> QED BY <2>1
<1>2. PICK e : KeptAs(e, m, n)
  BY <1>1
<1> DEFINE h == [j \in 1 .. m |-> p[e[j]]]
<1>3. ASSUME NEW j \in 1 .. m
      PROVE  e[j] \in 1 .. n /\ p[e[j]] \in FilteredRows /\ h[j] = p[e[j]]
  BY <1>2 DEF KeptAs, Lists
<1>4. ASSUME NEW j \in 1 .. m PROVE h[j] \in Chosen /\ Kept[j] = Row(table[h[j]])
  <2>1. Kept[j] = collected[e[j]] /\ Passes(collected[e[j]])
    BY <1>2 DEF KeptAs
  <2>2. collected[e[j]] = Row(table[p[e[j]]])
    BY <1>3
  <2> HIDE DEF h
  <2> QED BY <1>3, <2>1, <2>2, FilteredAre
<1>5. ASSUME NEW i \in 1 .. m, NEW j \in 1 .. m, i # j PROVE h[i] # h[j]
  <2>1. e[i] # e[j]
    BY <1>2, <1>5 DEF KeptAs
  <2> QED BY <1>3, <2>1 DEF Lists
<1>6. ASSUME NEW x \in Chosen PROVE \E j \in 1 .. m : h[j] = x
  <2>1. x \in FilteredRows
    BY ChosenFiltered
  <2>2. PICK i \in 1 .. n : p[i] = x
    BY <2>1 DEF Lists
  <2>3. Passes(collected[i])
    BY <2>1, <2>2, FilteredAre
  <2>4. PICK j \in 1 .. m : e[j] = i
    BY <1>2, <2>3 DEF KeptAs
  <2> QED BY <2>2, <2>4
<1>7. h \in [1 .. m -> Chosen]
  BY <1>4
<1> HIDE DEF h
<1>8. Lists(h, m, Chosen)
  BY <1>5, <1>6, <1>7 DEF Lists
<1>9. DOMAIN Kept = 1 .. m
  BY <1>2 DEF KeptAs
<1> QED BY <1>4, <1>8, <1>9

LEMMA SortedShows ==
  ASSUME Given, ~plan.serverOrder, NEW n \in Nat, NEW p, NEW rows, CollectsAs(p, n, rows),
         collected = [i \in DOMAIN rows |-> Row(rows[i])]
  PROVE  IsResult(query, table, verdict, ShownRows)
<1>1. /\ query \in Statements /\ table \in Seq(Rows) /\ NoNegative(query) /\ ~IsGrouped(query)
      /\ Laying /\ RightTargets /\ RightKeys
  BY DEF Given, Lined, Right
<1>2. Lists(p, n, FilteredRows) /\ rows = OrderOf(p, n)
  BY DEF CollectsAs
<1>3. DOMAIN collected = 1 .. n /\ \A i \in 1 .. n : collected[i] = Row(table[p[i]])
  BY <1>2 DEF OrderOf
<1>4. PICK m \in Nat : \E h : /\ Lists(h, m, Chosen) /\ DOMAIN Kept = 1 .. m
                               /\ \A j \in 1 .. m : Kept[j] = Row(table[h[j]])
  BY <1>2, <1>3, KeptChosen
<1>5. PICK h : /\ Lists(h, m, Chosen) /\ DOMAIN Kept = 1 .. m
               /\ \A j \in 1 .. m : Kept[j] = Row(table[h[j]])
  BY <1>4
<1>6. \A j \in 1 .. m : h[j] \in DOMAIN table
  BY <1>5 DEF Lists, Chosen
<1>7. PICK l \in Nat : l = Len(query.order)
  BY <1>1 DEF Statements
<1>8. PICK S : S = {LineOf(table[i]) : i \in DOMAIN table}
  OBVIOUS
<1>9. \A x \in S : x.keys \in [1 .. l -> Int]
  <2>1. ASSUME NEW x \in S PROVE x.keys \in [1 .. l -> Int]
    <3>1. PICK i \in DOMAIN table : x = LineOf(table[i])
      BY <1>8
    <3>2. x.keys = KeysOf(table[i])
      BY <3>1 DEF LineOf
    <3> QED BY <1>7, <3>2, KeysType
  <2> QED BY <2>1
<1>10. PICK L \in Seq(S) : L = [i \in DOMAIN Kept |-> PlainLine(Kept[i])] /\ Len(L) = m
                          /\ \A i \in 1 .. m : L[i] = LineOf(table[h[i]])
  <2>1. ASSUME NEW i \in 1 .. m PROVE PlainLine(Kept[i]) = LineOf(table[h[i]]) /\ LineOf(table[h[i]]) \in S
    <3>1. PlainLine(Row(table[h[i]])) = LineOf(table[h[i]])
      BY <1>1, LineIsLine
    <3> QED BY <1>5, <1>6, <1>8, <3>1
  <2>2. [i \in 1 .. m |-> PlainLine(Kept[i])] \in Seq(S)
    BY <2>1
  <2>3. Len([i \in 1 .. m |-> PlainLine(Kept[i])]) = m
    OBVIOUS
  <2> QED BY <1>5, <2>1, <2>2, <2>3
<1>11. Sorted(L) \in Seq(S) /\ Arranged(Sorted(L), L, m)
  <2>1. query.order \in Seq(Keys)
    BY <1>1 DEF Statements
  <2> QED BY <1>7, <1>9, <1>10, <2>1, SortArranges
<1>12. PICK s \in Seq(S) : s = Sorted(L)
  BY <1>11
<1>13. PICK g : Shuffle(g, m) /\ \A i \in 1 .. m : s[i] = L[g[i]]
  BY <1>11, <1>12 DEF Arranged
<1>14. Len(s) = m /\ InOrder(s, m)
  BY <1>11, <1>12 DEF Arranged
<1> DEFINE c == [i \in 1 .. m |-> h[g[i]]]
<1>15. ASSUME NEW i \in 1 .. m
       PROVE  c[i] = h[g[i]] /\ g[i] \in 1 .. m /\ c[i] \in Chosen /\ s[i] = LineOf(table[c[i]])
  <2>1. g[i] \in 1 .. m /\ c[i] = h[g[i]]
    BY <1>13 DEF Shuffle
  <2>2. h[g[i]] \in Chosen
    BY <1>5, <2>1 DEF Lists
  <2>3. s[i] = LineOf(table[h[g[i]]])
    BY <1>10, <1>13, <2>1
  <2> QED BY <2>1, <2>2, <2>3
<1>16. c \in [1 .. m -> Chosen]
  BY <1>15
<1> HIDE DEF c
<1>17. ASSUME NEW i \in 1 .. m, NEW j \in 1 .. m, i # j PROVE c[i] # c[j]
  <2>1. g[i] # g[j]
    BY <1>13, <1>17 DEF Shuffle
  <2> QED BY <1>5, <1>15, <2>1 DEF Lists
<1>18. Lists(c, m, Chosen)
  <2>1. IsFiniteSet(Chosen) /\ Cardinality(Chosen) = m
    BY <1>5, ListsCount
  <2> QED BY <1>16, <1>17, <2>1, CoversAll
<1>19. Ordered(c, m)
  <2>1. ASSUME NEW i \in 1 .. m, NEW j \in 1 .. m, i < j
        PROVE  ~Before(KeysOf(table[c[j]]), KeysOf(table[c[i]]), query.order)
    <3>1. ~Less(s[j], s[i])
      BY <1>14, <2>1 DEF InOrder
    <3>2. ~Before(s[j].keys, s[i].keys, query.order)
      BY <3>1, LessIsBefore
    <3>3. s[j] = LineOf(table[c[j]]) /\ s[i] = LineOf(table[c[i]])
      BY <1>15
    <3>4. s[j].keys = KeysOf(table[c[j]]) /\ s[i].keys = KeysOf(table[c[i]])
      BY <3>3, LineParts
    <3> QED BY <3>2, <3>4
  <2> QED BY <2>1 DEF Ordered
<1>20. IsResult(query, table, verdict, Slice([i \in 1 .. m |-> CellsOf(table[c[i]])], query))
  BY <1>1, <1>18, <1>19, ResultFrom
<1>21. PICK u : u = Slice(s, query)
  OBVIOUS
<1>22. Cut(Sorted(L)) = u
  BY <1>1, <1>12, <1>21, CutIsSlice
<1>23. ShownRows = [i \in DOMAIN u |-> u[i].cells]
  BY <1>10, <1>22 DEF ShownRows
<1>24. PICK t, T : t = [i \in 1 .. m |-> CellsOf(table[c[i]])] /\ t \in [1 .. m -> T]
  <2>1. [i \in 1 .. m |-> CellsOf(table[c[i]])] \in [1 .. m -> {CellsOf(table[c[i]]) : i \in 1 .. m}]
    OBVIOUS
  <2> QED BY <2>1
<1>25. s \in [1 .. m -> S]
  BY <1>14
<1>26. \A i \in 1 .. m : t[i] = s[i].cells
  <2>1. ASSUME NEW i \in 1 .. m PROVE t[i] = s[i].cells
    <3>1. s[i] = LineOf(table[c[i]])
      BY <1>15
    <3>2. s[i].cells = CellsOf(table[c[i]])
      BY <3>1, LineParts
    <3> QED BY <1>24, <3>2
  <2> QED BY <2>1
<1>27. /\ u \in Seq(S) /\ Slice(t, query) \in Seq(T)
       /\ \E off, len \in Nat : SlicedAlike(u, s, Slice(t, query), t, m, off, len)
  BY <1>1, <1>21, <1>24, <1>25, SliceBoth
<1>28. PICK v \in Seq(T) : v = Slice(t, query)
  BY <1>27
<1>29. PICK off \in Nat, len \in Nat : SlicedAlike(u, s, v, t, m, off, len)
  BY <1>27, <1>28
<1>30. \A i \in 1 .. len : v[i] = u[i].cells
  BY <1>26, <1>29 DEF SlicedAlike
<1>31. Len(u) = len /\ Len(v) = len
  BY <1>29 DEF SlicedAlike
<1>32. v = [i \in DOMAIN u |-> u[i].cells]
  BY <1>27, <1>30, <1>31
<1> QED BY <1>20, <1>23, <1>24, <1>28, <1>32
-----------------------------------------------------------------------------
(* What is collected.                                                       *)

LEMMA FilteredFinite ==
  ASSUME table \in Seq(Rows)
  PROVE  IsFiniteSet(FilteredRows)
<1>1. PICK n \in Nat : DOMAIN table = 1 .. n
  OBVIOUS
<1>2. IsFiniteSet(1 .. n)
  BY FS_Interval
<1>3. FilteredRows \in SUBSET (1 .. n)
  BY <1>1 DEF FilteredRows
<1> QED BY <1>2, <1>3, FS_Subset

LEMMA CollectsSo ==
  ASSUME Given, CollectRows = FilteredRows, NEW rows \in CollectOrders
  PROVE  \E n \in Nat : \E p : CollectsAs(p, n, rows)
<1>1. /\ query \in Statements /\ table \in Seq(Rows) /\ RightKeys
  BY DEF Given, Right
<1> DEFINE at == SetToSeq(CollectRows)
           all == [k \in DOMAIN at |-> table[at[k]]]
           keys == [i \in DOMAIN all |-> [k \in DOMAIN plan.orderKeys |->
                      Value(plan.targets[plan.orderKeys[k]].x, all[i], verdict)]]
           given == [i \in DOMAIN all |-> <<>>]
<1>2. PICK n \in Nat : Lists(at, n, FilteredRows)
  <2>1. Cardinality(FilteredRows) \in Nat /\ Lists(SetToSeq(FilteredRows), Cardinality(FilteredRows), FilteredRows)
    BY <1>1, FilteredFinite, SetListed
  <2> QED BY <2>1
<1>4. DOMAIN all = 1 .. n /\ \A k \in 1 .. n : all[k] = table[at[k]]
  <2>1. DOMAIN at = 1 .. n
    BY <1>2 DEF Lists
  <2> QED BY <2>1
<1>5. keys = [i \in DOMAIN all |-> [k \in DOMAIN plan.orderKeys |->
                Value(plan.targets[plan.orderKeys[k]].x, all[i], verdict)]]
  OBVIOUS
<1>6. given = [i \in DOMAIN all |-> <<>>]
  OBVIOUS
<1>7. PICK f : /\ f \in IF plan.serverOrder THEN Arrangements(keys, query.order) ELSE Arrangements(given, <<>>)
               /\ rows = LET s == [i \in DOMAIN all |-> all[f[i]]]
                         IN  IF plan.serverOrder THEN Slice(s, query) ELSE s
  BY DEF CollectOrders
<1> HIDE DEF at, all, keys, given
<1>8. DOMAIN keys = 1 .. n /\ DOMAIN given = 1 .. n
  BY <1>4, <1>5, <1>6
<1>9. f \in Injection(1 .. n, 1 .. n)
  <2>1. CASE plan.serverOrder
    BY <1>7, <1>8, <2>1 DEF Arrangements
  <2>2. CASE ~plan.serverOrder
    BY <1>7, <1>8, <2>2 DEF Arrangements
  <2> QED BY <2>1, <2>2
<1>10. ASSUME NEW i \in 1 .. n PROVE keys[i] = KeysOf(table[at[i]])
  <2>1. keys[i] = [k \in DOMAIN plan.orderKeys |-> Value(plan.targets[plan.orderKeys[k]].x, all[i], verdict)]
    BY <1>4, <1>5
  <2>2. \A k \in DOMAIN query.order :
          plan.targets[plan.orderKeys[k]].x = KeyExpr(query, query.order[k], FALSE)
    BY <1>1 DEF RightKeys
  <2>3. DOMAIN plan.orderKeys = DOMAIN query.order
    BY <1>1 DEF RightKeys
  <2>4. all[i] = table[at[i]]
    BY <1>4
  <2> QED BY <2>1, <2>2, <2>3, <2>4 DEF KeysOf
<1> DEFINE p == [i \in 1 .. n |-> at[f[i]]]
<1>11. ASSUME NEW i \in 1 .. n
       PROVE  f[i] \in 1 .. n /\ p[i] = at[f[i]] /\ p[i] \in FilteredRows /\ all[f[i]] = table[p[i]]
  <2>1. f[i] \in 1 .. n
    BY <1>9 DEF Injection
  <2>2. at[f[i]] \in FilteredRows
    BY <1>2, <2>1 DEF Lists
  <2> QED BY <1>4, <2>1, <2>2
<1>12. p \in [1 .. n -> FilteredRows]
  BY <1>11
<1> HIDE DEF p
<1>13. ASSUME NEW i \in 1 .. n, NEW j \in 1 .. n, i # j PROVE p[i] # p[j]
  <2>1. f[i] # f[j]
    BY <1>9, <1>13 DEF Injection, IsInjective
  <2> QED BY <1>2, <1>11, <2>1 DEF Lists
<1>14. Lists(p, n, FilteredRows)
  <2>1. IsFiniteSet(FilteredRows) /\ Cardinality(FilteredRows) = n
    BY <1>2, ListsCount
  <2> QED BY <1>12, <1>13, <2>1, CoversAll
<1>15. ASSUME plan.serverOrder PROVE Ordered(p, n)
  <2>1. ASSUME NEW i \in 1 .. n, NEW j \in 1 .. n, i < j
        PROVE  ~Before(KeysOf(table[p[j]]), KeysOf(table[p[i]]), query.order)
    <3>1. ~Before(keys[f[j]], keys[f[i]], query.order)
      BY <1>7, <1>8, <1>15, <2>1 DEF Arrangements
    <3>2. keys[f[j]] = KeysOf(table[p[j]]) /\ keys[f[i]] = KeysOf(table[p[i]])
      BY <1>10, <1>11
    <3> QED BY <3>1, <3>2
  <2> QED BY <2>1 DEF Ordered
<1>16. [i \in DOMAIN all |-> all[f[i]]] = OrderOf(p, n)
  BY <1>4, <1>11 DEF OrderOf
<1>17. rows = IF plan.serverOrder THEN Slice(OrderOf(p, n), query) ELSE OrderOf(p, n)
  BY <1>7, <1>16
<1>18. CollectsAs(p, n, rows)
  BY <1>14, <1>15, <1>17 DEF CollectsAs
<1> QED BY <1>18

\* As many rows as the plain terms leave, or fewer.
LEMMA CollectsFew ==
  ASSUME Given, NEW n \in Nat, NEW p, NEW rows, CollectsAs(p, n, rows)
  PROVE  Cardinality(FilteredRows) = n /\ rows \in Seq(Rows) /\ Len(rows) <= n
<1>1. Lists(p, n, FilteredRows)
  BY DEF CollectsAs
<1>2. Cardinality(FilteredRows) = n
  BY <1>1, ListsCount
<1>3. p \in [1 .. n -> DOMAIN table]
  BY <1>1 DEF Lists, FilteredRows
<1>4. query \in Statements /\ table \in Seq(Rows) /\ NoNegative(query)
  BY DEF Given, Lined
<1>5. CASE plan.serverOrder
  BY <1>2, <1>3, <1>4, <1>5, SliceCells DEF CollectsAs
<1>6. CASE ~plan.serverOrder
  <2>1. rows = OrderOf(p, n)
    BY <1>6 DEF CollectsAs
  <2>2. OrderOf(p, n) \in [1 .. n -> Rows]
    BY <1>3, <1>4 DEF OrderOf
  <2> QED BY <1>2, <2>1, <2>2
<1> QED BY <1>5, <1>6
-----------------------------------------------------------------------------
(* The keys of ORDER BY, resolved.                                          *)

\* The keys, one after the other.
Goes(acc, next, ref, grouped) ==
  IF ~acc.ok THEN next = acc
  ELSE \E t : /\ Resolved(t, acc.ts, ref, grouped)
              /\ next = [ok |-> t.ok, is |-> Append(acc.is, t.i), ts |-> t.ts]

Keyed(F, all, ts, refs, grouped, n) ==
  /\ F[0] = [ok |-> TRUE, is |-> <<>>, ts |-> ts] /\ all = F[n]
  /\ \A m \in 0 .. n - 1 : Goes(F[m], F[m + 1], refs[m + 1], grouped)

LEMMA ResolveAllSteps ==
  ASSUME NEW ts, NEW refs, NEW n \in Nat, n = Len(refs), NEW grouped, NEW all, ResolvedAll(all, ts, refs, grouped)
  PROVE  \E F : Keyed(F, all, ts, refs, grouped, n)
<1> DEFINE F == CHOOSE acc : IsResolved(acc, ts, refs, grouped, FALSE, n)
<1>1. IsResolved(F, ts, refs, grouped, FALSE, n)
  BY ResolvedExists
<1>2. all = F[n]
  BY DEF ResolvedAll, ResolveAll, IsResolved
<1> HIDE DEF F
<1>3. F[0] = [ok |-> TRUE, is |-> <<>>, ts |-> ts]
  BY <1>1 DEF IsResolved
<1>4. ASSUME NEW m \in 0 .. n - 1 PROVE Goes(F[m], F[m + 1], refs[m + 1], grouped)
  <2>1. m + 1 \in 0 .. n /\ m + 1 # 0 /\ (m + 1) - 1 = m
    OBVIOUS
  <2>2. PICK acc : acc = F[m]
    OBVIOUS
  <2>3. PICK t : t = Resolve(acc.ts, refs[m + 1], grouped, FALSE)
    OBVIOUS
  <2>4. F[m + 1] = IF ~acc.ok THEN acc ELSE [ok |-> t.ok, is |-> Append(acc.is, t.i), ts |-> t.ts]
    BY <1>1, <2>1, <2>2, <2>3 DEF IsResolved
  <2>5. CASE ~acc.ok
    BY <2>2, <2>4, <2>5 DEF Goes
  <2>6. CASE acc.ok
    <3>1. Resolved(t, acc.ts, refs[m + 1], grouped)
      BY <2>3 DEF Resolved
    <3> QED BY <2>2, <2>4, <2>6, <3>1 DEF Goes
  <2> QED BY <2>5, <2>6
<1> QED BY <1>2, <1>3, <1>4 DEF Keyed

\* A column, a call, or what jevql refuses.
Single(x) == \/ x.fn = "col" /\ x.arg \in {"a", "b"}
             \/ IsJev(x) /\ x.arg # "*"
             \/ Refused(x)

LEMMA SingleIsNoStar == \A x : Single(x) => x # Star
<1>1. Star.fn = "*"
  BY DEF Star, X
<1> QED BY <1>1 DEF Single, IsJev, Refused

\* What is no call is a column; neither is a star.
LEMMA SingleKinds ==
  ASSUME NEW x, Single(x), ~Refused(x)
  PROVE  /\ x # Star
         /\ IsJev(x) => x.arg # "*"
         /\ ~IsJev(x) => x.fn = "col" /\ x.arg \in {"a", "b"}
         /\ x.arg \in ArgNames => Simple(x)
<1>1. Star.fn = "*"
  BY DEF Star, X
<1>2. CASE x.fn = "col" /\ x.arg \in {"a", "b"}
  BY <1>1, <1>2 DEF IsJev, Simple
<1>3. CASE IsJev(x) /\ x.arg # "*"
  BY <1>1, <1>3 DEF IsJev, Simple
<1> QED BY <1>2, <1>3 DEF Single

\* What may be in a select list: that, or a star.
Listed(x) == Single(x) \/ x = Star

Unmatched(ts, ref) == ref.by # "position" /\ Matches(ts, ref) = {}
MeansItself(q, ref) == KeyExpr(q, ref, FALSE) = ref.x
Unlike(ts, ref) == \A i \in 1 .. Len(ts) : ts[i].x # ref.x
Appends(us, ts, ref) == us = Append(ts, Target(ref.x, "", TRUE))

\* What resolving a key comes to.
InList(ts, q, ref, r) == ref.by = "position" /\ ref.n \in 1 .. Len(q.list) /\ r.ok /\ r.ts = ts
OffList(ts, q, ref, r) == ref.by = "position" /\ ref.n \notin 1 .. Len(q.list) /\ ~r.ok
Meets(ts, ref, r) == ref.by # "position" /\ ~Unmatched(ts, ref) /\ r.ok /\ r.ts = ts
Refuses(ts, ref, r) == Unmatched(ts, ref) /\ ~r.ok /\ (Refused(ref.x) \/ ref.x = Star)
Adds(ts, ref, r) == Unmatched(ts, ref) /\ r.ok /\ ~Refused(ref.x) /\ ref.x # Star /\ Appends(r.ts, ts, ref)

LEMMA ResolveOne ==
  ASSUME NEW ts, NEW q, Grown(ts, q), NEW ref, NEW grouped, ~grouped, NEW r, Resolved(r, ts, ref, grouped)
  PROVE  \/ InList(ts, q, ref, r) \/ OffList(ts, q, ref, r)
         \/ Meets(ts, ref, r) \/ Refuses(ts, ref, r) \/ Adds(ts, ref, r)
<1>1. CASE ref.by = "position"
  <2>1. DOMAIN Visible(ts) = 1 .. Len(q.list)
    BY VisibleIsList
  <2>2. CASE ref.n \in 1 .. Len(q.list)
    BY <1>1, <2>1, <2>2 DEF Resolved, Resolve, InList
  <2>3. CASE ref.n \notin 1 .. Len(q.list)
    BY <1>1, <2>1, <2>3 DEF Resolved, Resolve, OffList
  <2> QED BY <2>2, <2>3
<1>2. CASE ref.by # "position" /\ Matches(ts, ref) # {}
  BY <1>2 DEF Resolved, Resolve, Meets, Unmatched
<1>3. CASE ref.by # "position" /\ Matches(ts, ref) = {} /\ (Refused(ref.x) \/ ref.x = Star)
  BY <1>3 DEF Resolved, Resolve, Refuses, Unmatched
<1>4. CASE ref.by # "position" /\ Matches(ts, ref) = {} /\ ~Refused(ref.x) /\ ref.x # Star
  <2>1. PICK t : t = Target(ref.x, "", TRUE)
    OBVIOUS
  <2>2. r.ok /\ r.ts = Append(ts, t)
    BY <1>4, <2>1 DEF Resolved, Resolve
  <2> QED BY <1>4, <2>1, <2>2 DEF Adds, Unmatched, Appends
<1> QED BY <1>1, <1>2, <1>3, <1>4

LEMMA MatchesNone ==
  ASSUME NEW ts, NEW q, Grown(ts, q), NEW ref, Unmatched(ts, ref)
  PROVE  MeansItself(q, ref) /\ Unlike(ts, ref)
<1> USE DEF Unmatched
<1> DEFINE named == {i \in DOMAIN ts : ref.x.fn = "col" /\ ~ts[i].hidden /\ ts[i].as = ref.x.arg}
           of == {i \in DOMAIN q.list : ref.x.fn = "col" /\ q.list[i].as = ref.x.arg}
<1>1. ts \in Seq(Targets) /\ Len(ts) \in Nat /\ DOMAIN ts = 1 .. Len(ts)
      /\ Len(q.list) \in Nat /\ Len(q.list) <= Len(ts) /\ DOMAIN q.list = 1 .. Len(q.list)
  BY DEF Grown
<1>2. Matches(ts, ref) = IF named # {} THEN named ELSE {i \in DOMAIN ts : ts[i].x = ref.x}
  BY DEF Matches
<1>3. named = {} /\ {i \in DOMAIN ts : ts[i].x = ref.x} = {}
  <2> HIDE DEF named
  <2> QED BY <1>2
<1>4. of = {}
  <2>1. ASSUME NEW i \in of PROVE FALSE
    <3>1. i \in 1 .. Len(q.list) /\ ref.x.fn = "col" /\ q.list[i].as = ref.x.arg
      BY <1>1, <2>1
    <3>2. i \in DOMAIN ts /\ ts[i].hidden = FALSE /\ ts[i].as = q.list[i].as
      BY <1>1, <3>1 DEF Grown
    <3>3. i \in named
      BY <3>1, <3>2
    <3> QED BY <1>3, <3>3
  <2> QED BY <2>1
<1>5. KeyExpr(q, ref, FALSE) = ref.x
  <2>1. KeyExpr(q, ref, FALSE) = IF ref.by = "position" THEN Expanded(q)[ref.n]
                                 ELSE IF of = {} \/ (FALSE /\ ref.x.arg \in Range(Columns)) THEN ref.x
                                 ELSE q.list[CHOOSE i \in of : TRUE].x
    BY DEF KeyExpr
  <2> HIDE DEF of
  <2> QED BY <1>4, <2>1
<1>6. \A i \in 1 .. Len(ts) : ts[i].x # ref.x
  BY <1>1, <1>3
<1> QED BY <1>5, <1>6 DEF MeansItself, Unlike

\* The targets so far can be run, and each hidden one is an ORDER BY key that
\* is not in the list.
Fits(ts, q, refs, m) ==
  /\ Grown(ts, q)
  /\ \A i \in 1 .. Len(ts) : Listed(ts[i].x) /\ ~Refused(ts[i].x)
  /\ \A k \in 1 .. m : refs[k].by = "position" => refs[k].n \in 1 .. Len(q.list)
  /\ \A i \in Len(q.list) + 1 .. Len(ts) :
       /\ Single(ts[i].x) /\ \A j \in 1 .. Len(q.list) : q.list[j].x # ts[i].x
       /\ \E k \in 1 .. m : refs[k].by # "position" /\ ts[i].x = refs[k].x

LEMMA FitsStep ==
  ASSUME NEW q \in Statements, NEW refs, NEW m \in Nat, NEW ts, Fits(ts, q, refs, m),
         NEW ref \in Keys, ref = refs[m + 1], Clear(q, ref),
         ref.by # "position" => Single(KeyExpr(q, ref, FALSE)),
         NEW grouped, ~grouped, NEW r, Resolved(r, ts, ref, grouped), r.ok
  PROVE  Fits(r.ts, q, refs, m + 1)
<1>1. Grown(ts, q)
  BY DEF Fits
<1>2. /\ ts \in Seq(Targets) /\ Len(ts) \in Nat
      /\ Len(q.list) \in Nat /\ Len(q.list) <= Len(ts)
  BY <1>1 DEF Grown
<1>3. Grown(r.ts, q)
  BY <1>1, ResolveMeans DEF Found
<1>4. ref.by = "position" => ref.n \in 1 .. Len(q.list)
  <2>1. \/ InList(ts, q, ref, r) \/ OffList(ts, q, ref, r)
        \/ Meets(ts, ref, r) \/ Refuses(ts, ref, r) \/ Adds(ts, ref, r)
    BY <1>1, ResolveOne
  <2> QED BY <2>1 DEF OffList, InList, Meets, Refuses, Adds, Unmatched
<1>5. \A k \in 1 .. m + 1 : refs[k].by = "position" => refs[k].n \in 1 .. Len(q.list)
  <2>1. \A k \in 1 .. m + 1 : k \in 1 .. m \/ k = m + 1
    OBVIOUS
  <2> QED BY <1>4, <2>1 DEF Fits
<1>6. \A k \in 1 .. m : k \in 1 .. m + 1
  OBVIOUS
<1>7. CASE r.ts = ts
  <2>1. ASSUME NEW i \in Len(q.list) + 1 .. Len(ts)
        PROVE  /\ Single(ts[i].x) /\ \A j \in 1 .. Len(q.list) : q.list[j].x # ts[i].x
               /\ \E k \in 1 .. m + 1 : refs[k].by # "position" /\ ts[i].x = refs[k].x
    BY <1>6, <2>1 DEF Fits
  <2>2. \A i \in 1 .. Len(ts) : Listed(ts[i].x) /\ ~Refused(ts[i].x)
    BY DEF Fits
  <2> QED BY <1>3, <1>5, <1>7, <2>1, <2>2 DEF Fits
<1>8. CASE r.ts # ts
  <2>1. PICK t : t = Target(ref.x, "", TRUE)
    OBVIOUS
  <2>2. /\ ref.by # "position" /\ Unmatched(ts, ref)
        /\ ~Refused(ref.x) /\ r.ts = Append(ts, t)
    <3>1. Adds(ts, ref, r)
      <4>1. \/ InList(ts, q, ref, r) \/ OffList(ts, q, ref, r)
            \/ Meets(ts, ref, r) \/ Refuses(ts, ref, r) \/ Adds(ts, ref, r)
        BY <1>1, ResolveOne
      <4> QED BY <1>8, <4>1 DEF InList, OffList, Meets, Refuses
    <3> QED BY <2>1, <3>1 DEF Adds, Unmatched, Appends
  <2>3. t.x = ref.x
    BY <2>1 DEF Target
  <2>4. Single(ref.x)
    <3>1. KeyExpr(q, ref, FALSE) = ref.x
      <4>1. MeansItself(q, ref)
        BY <1>1, <2>2, MatchesNone
      <4> QED BY <4>1 DEF MeansItself
    <3>2. Single(KeyExpr(q, ref, FALSE))
      BY <2>2
    <3> QED BY <3>1, <3>2
  <2>5. PICK us : us = r.ts
    OBVIOUS
  <2>6. /\ Len(us) = Len(ts) + 1 /\ us[Len(ts) + 1] = t
        /\ \A i \in 1 .. Len(ts) : us[i] = ts[i]
    BY <1>2, <2>2, <2>5
  <2>7. ASSUME NEW i \in 1 .. Len(us) PROVE Listed(us[i].x) /\ ~Refused(us[i].x)
    <3>1. i \in 1 .. Len(ts) \/ i = Len(ts) + 1
      BY <1>2, <2>6
    <3>2. CASE i \in 1 .. Len(ts)
      <4>1. us[i] = ts[i]
        BY <2>6, <3>2
      <4> QED BY <3>2, <4>1 DEF Fits
    <3>3. CASE i = Len(ts) + 1
      BY <2>2, <2>3, <2>4, <2>6, <3>3 DEF Listed
    <3> QED BY <3>1, <3>2, <3>3
  <2>8. ASSUME NEW j \in 1 .. Len(q.list) PROVE q.list[j].x # ref.x
    <3>1. Unlike(ts, ref)
      BY <1>1, <2>2, MatchesNone
    <3>2. j \in 1 .. Len(ts) /\ ts[j].x = q.list[j].x
      BY <1>1, <1>2 DEF Grown
    <3> QED BY <3>1, <3>2 DEF Unlike
  <2>9. ASSUME NEW i \in Len(q.list) + 1 .. Len(us)
        PROVE  /\ Single(us[i].x) /\ \A j \in 1 .. Len(q.list) : q.list[j].x # us[i].x
               /\ \E k \in 1 .. m + 1 : refs[k].by # "position" /\ us[i].x = refs[k].x
    <3>1. i \in Len(q.list) + 1 .. Len(ts) \/ i = Len(ts) + 1
      BY <1>2, <2>6
    <3>2. CASE i \in Len(q.list) + 1 .. Len(ts)
      <4>1. us[i] = ts[i]
        BY <1>2, <2>6, <3>2
      <4>2. PICK k \in 1 .. m : refs[k].by # "position" /\ ts[i].x = refs[k].x
        BY <3>2 DEF Fits
      <4>3. Single(ts[i].x) /\ \A j \in 1 .. Len(q.list) : q.list[j].x # ts[i].x
        BY <3>2 DEF Fits
      <4> QED BY <1>6, <4>1, <4>2, <4>3
    <3>3. CASE i = Len(ts) + 1
      <4>1. m + 1 \in 1 .. m + 1
        OBVIOUS
      <4>2. us[i].x = ref.x
        BY <2>3, <2>6, <3>3
      <4> QED BY <2>2, <2>4, <2>8, <4>1, <4>2
    <3> QED BY <3>1, <3>2, <3>3
  <2> QED BY <1>3, <1>5, <2>5, <2>7, <2>9 DEF Fits
<1> QED BY <1>7, <1>8

\* Keys that mean one expression, which is no star and no aggregate.
KeysRead(q) ==
  \A k \in DOMAIN q.order :
    Clear(q, q.order[k]) /\ (q.order[k].by # "position" => Single(KeyExpr(q, q.order[k], FALSE)))

LEMMA KeysFit ==
  ASSUME NEW q \in Statements, KeysRead(q), Fits(ListOf(q), q, q.order, 0),
         NEW grouped, ~grouped, NEW o, ResolvedAll(o, ListOf(q), q.order, grouped), o.ok
  PROVE  Fits(o.ts, q, q.order, Len(q.order))
<1>1. PICK refs \in Seq(Keys) : refs = q.order
  BY DEF Statements
<1>2. PICK n \in Nat : n = Len(refs) /\ DOMAIN refs = 1 .. n
  OBVIOUS
<1>3. PICK F : Keyed(F, o, ListOf(q), refs, grouped, n)
  BY <1>1, <1>2, ResolveAllSteps
<1> DEFINE P == {m \in 0 .. n : F[m].ok => Fits(F[m].ts, q, refs, m)}
<1>4. 0 \in P
  <2>1. F[0].ts = ListOf(q)
    BY <1>3 DEF Keyed
  <2>2. 0 \in 0 .. n
    OBVIOUS
  <2> QED BY <1>1, <2>1, <2>2
<1>5. ASSUME NEW m \in 0 .. n - 1, m \in P PROVE m + 1 \in P
  <2>1. m + 1 \in 0 .. n /\ m + 1 \in 1 .. n /\ m \in Nat
    OBVIOUS
  <2>2. PICK acc, next : acc = F[m] /\ next = F[m + 1]
    OBVIOUS
  <2>3. PICK ref \in Keys : ref = refs[m + 1]
    BY <1>2, <2>1
  <2>4. SUFFICES ASSUME next.ok PROVE Fits(next.ts, q, refs, m + 1)
    BY <2>1, <2>2
  <2>5. Goes(acc, next, ref, grouped)
    BY <1>3, <2>2, <2>3 DEF Keyed
  <2>6. acc.ok
    BY <2>4, <2>5 DEF Goes
  <2>7. PICK t : Resolved(t, acc.ts, ref, grouped) /\ next = [ok |-> t.ok, is |-> Append(acc.is, t.i), ts |-> t.ts]
    BY <2>5, <2>6 DEF Goes
  <2>8. t.ok /\ next.ts = t.ts
    BY <2>4, <2>7
  <2>9. PICK ts : ts = acc.ts
    OBVIOUS
  <2>10. Fits(ts, q, refs, m)
    BY <1>5, <2>2, <2>6, <2>9
  <2>11. Clear(q, ref) /\ (ref.by # "position" => Single(KeyExpr(q, ref, FALSE)))
    BY <1>1, <1>2, <2>1, <2>3 DEF KeysRead
  <2>12. Fits(t.ts, q, refs, m + 1)
    <3> HIDE DEF P
    <3> QED BY <2>1, <2>3, <2>7, <2>8, <2>9, <2>10, <2>11, FitsStep
  <2> QED BY <2>8, <2>12
<1>6. P = 0 .. n
  <2>1. P \in SUBSET (0 .. n)
    OBVIOUS
  <2> HIDE DEF P
  <2> QED BY <1>4, <1>5, <2>1, InductTo
<1>7. n \in P
  <2>1. n \in 0 .. n
    OBVIOUS
  <2> HIDE DEF P
  <2> QED BY <1>6, <2>1
<1>8. o = F[n]
  BY <1>3 DEF Keyed
<1> QED BY <1>1, <1>2, <1>7, <1>8

\* The calls of a list of expressions: each of them, as often as it is there.
JevsIn(w, s, n) ==
  /\ Len(w) = Cardinality({i \in 1 .. n : IsJev(s[i])})
  /\ \A i \in 1 .. n : IsJev(s[i]) => \E j \in 1 .. Len(w) : w[j] = s[i]
  /\ \A j \in 1 .. Len(w) : \E i \in 1 .. n : IsJev(s[i]) /\ w[j] = s[i]

LEMMA SelectJevs ==
  ASSUME NEW S, NEW n \in Nat, NEW s \in [1 .. n -> S], NEW w, w = Select(s, IsJev)
  PROVE  w \in Seq(S) /\ JevsIn(w, s, n)
<1> DEFINE ss == [i \in DOMAIN s |-> IF IsJev(s[i]) THEN <<s[i]>> ELSE <<>>]
           J == {i \in 1 .. n : IsJev(s[i])}
<1>1. w = FlattenSeq(ss)
  BY DEF Select
<1>2. DOMAIN s = 1 .. n
  OBVIOUS
<1>3. \A i \in 1 .. n : (IsJev(s[i]) => ss[i] = <<s[i]>>) /\ (~IsJev(s[i]) => ss[i] = <<>>)
  BY <1>2
<1>4. ss \in [1 .. n -> Seq(S)]
  <2>1. ASSUME NEW i \in 1 .. n PROVE ss[i] \in Seq(S)
    <3>1. s[i] \in S
      OBVIOUS
    <3> HIDE DEF ss
    <3>2. <<s[i]>> \in Seq(S) /\ <<>> \in Seq(S)
      BY <3>1
    <3>3. ss[i] = <<s[i]>> \/ ss[i] = <<>>
      BY <1>3
    <3> QED BY <3>2, <3>3
  <2>2. ss = [i \in 1 .. n |-> ss[i]]
    BY <1>2
  <2> HIDE DEF ss
  <2> QED BY <2>1, <2>2
<1> HIDE DEF ss
<1>5. \A i \in 1 .. n : ss[i] = <<s[i]>> \/ ss[i] = <<>>
  BY <1>3
<1>6. \A i \in 1 .. n : IsJev(s[i]) <=> ss[i] # <<>>
  BY <1>3
<1>7. FlattenSeq(ss) \in Seq(S) /\ \E e, p : p \in Nat /\ Stayed(e, FlattenSeq(ss), s, ss, n, p)
  BY <1>4, <1>5, SelectStays
<1>8. PICK e, p : p \in Nat /\ Stayed(e, w, s, ss, n, p)
  BY <1>1, <1>7
<1>9. /\ Len(w) = p /\ e \in [1 .. p -> 1 .. n]
      /\ \A i, j \in 1 .. p : i # j => e[i] # e[j]
      /\ \A j \in 1 .. p : w[j] = s[e[j]] /\ ss[e[j]] # <<>>
      /\ \A i \in 1 .. n : ss[i] # <<>> => \E j \in 1 .. p : e[j] = i
  BY <1>8 DEF Stayed
<1>10. Lists(e, p, J)
  <2>1. \A j \in 1 .. p : e[j] \in J
    BY <1>6, <1>9
  <2>2. e = [j \in 1 .. p |-> e[j]]
    BY <1>9
  <2>3. e \in [1 .. p -> J]
    <3> HIDE DEF J
    <3> QED BY <2>1, <2>2
  <2>4. \A x \in J : \E j \in 1 .. p : e[j] = x
    BY <1>6, <1>9
  <2> HIDE DEF J
  <2> QED BY <1>9, <2>3, <2>4 DEF Lists
<1>11. Cardinality(J) = p
  <2> HIDE DEF J
  <2> QED BY <1>8, <1>10, ListsCount
<1>12. ASSUME NEW i \in 1 .. n, IsJev(s[i]) PROVE \E j \in 1 .. Len(w) : w[j] = s[i]
  <2>1. PICK j \in 1 .. p : e[j] = i
    BY <1>6, <1>9, <1>12
  <2> QED BY <1>9, <2>1
<1>13. ASSUME NEW j \in 1 .. Len(w) PROVE \E i \in 1 .. n : IsJev(s[i]) /\ w[j] = s[i]
  <2>1. e[j] \in 1 .. n /\ IsJev(s[e[j]]) /\ w[j] = s[e[j]]
    BY <1>6, <1>9
  <2> QED BY <2>1
<1>14. JevsIn(w, s, n)
  BY <1>9, <1>11, <1>12, <1>13 DEF JevsIn
<1> QED BY <1>1, <1>7, <1>14

\* Three lists, one after the other.
Joined(w, u, v, x) ==
  /\ Len(w) = Len(u) + Len(v) + Len(x) /\ DOMAIN w = 1 .. Len(w)
  /\ \A i \in 1 .. Len(u) : \E c \in DOMAIN w : w[c] = u[i]
  /\ \A i \in 1 .. Len(v) : \E c \in DOMAIN w : w[c] = v[i]
  /\ \A i \in 1 .. Len(x) : \E c \in DOMAIN w : w[c] = x[i]
  /\ \A c \in DOMAIN w : \/ \E i \in 1 .. Len(u) : w[c] = u[i]
                         \/ \E i \in 1 .. Len(v) : w[c] = v[i]
                         \/ \E i \in 1 .. Len(x) : w[c] = x[i]

LEMMA JoinThree ==
  ASSUME NEW S, NEW u \in Seq(S), NEW v \in Seq(S), NEW x \in Seq(S)
  PROVE  Joined(u \o v \o x, u, v, x)
<1> Len(u) \in Nat /\ Len(v) \in Nat /\ Len(x) \in Nat
  OBVIOUS
<1>1. PICK l \in Nat, m \in Nat, n \in Nat : l = Len(u) /\ m = Len(v) /\ n = Len(x)
  OBVIOUS
<1> u \o v \in Seq(S)
  OBVIOUS
<1>2. PICK y \in Seq(S) : y = u \o v
  OBVIOUS
<1>3. Len(y) = l + m /\ (\A i \in 1 .. l : y[i] = u[i]) /\ (\A i \in 1 .. m : y[l + i] = v[i])
  BY <1>1, <1>2
<1> y \o x \in Seq(S)
  OBVIOUS
<1>4. PICK w \in Seq(S) : w = y \o x
  OBVIOUS
<1>5. /\ Len(w) = l + m + n /\ DOMAIN w = 1 .. l + m + n
      /\ \A i \in 1 .. l + m : w[i] = y[i]
      /\ \A i \in 1 .. n : w[l + m + i] = x[i]
  <2>1. Len(w) = Len(y) + Len(x) /\ DOMAIN w = 1 .. Len(y) + Len(x)
    BY <1>4
  <2>2. \A i \in 1 .. Len(y) : w[i] = y[i]
    BY <1>4
  <2>3. \A i \in 1 .. Len(x) : w[Len(y) + i] = x[i]
    BY <1>4
  <2> QED BY <1>1, <1>3, <2>1, <2>2, <2>3
<1>6. /\ \A i \in 1 .. l : i \in DOMAIN w /\ w[i] = u[i]
      /\ \A i \in 1 .. m : l + i \in DOMAIN w /\ w[l + i] = v[i]
      /\ \A i \in 1 .. n : l + m + i \in DOMAIN w /\ w[l + m + i] = x[i]
  BY <1>3, <1>5
<1>7. ASSUME NEW c \in DOMAIN w
      PROVE  \/ \E i \in 1 .. l : w[c] = u[i]
             \/ \E i \in 1 .. m : w[c] = v[i]
             \/ \E i \in 1 .. n : w[c] = x[i]
  <2>1. CASE c <= l
    BY <1>5, <1>6, <2>1
  <2>2. CASE l < c /\ c <= l + m
    <3>1. c - l \in 1 .. m /\ l + (c - l) = c
      BY <1>5, <2>2
    <3> QED BY <1>6, <3>1
  <2>3. CASE l + m < c
    <3>1. c - l - m \in 1 .. n /\ l + m + (c - l - m) = c
      BY <1>5, <2>3
    <3> QED BY <1>6, <3>1
  <2> QED BY <1>5, <2>1, <2>2, <2>3
<1>8. Joined(w, u, v, x)
  BY <1>1, <1>5, <1>6, <1>7 DEF Joined
<1> QED BY <1>2, <1>4, <1>8

\* The calls a statement with these targets has.
Called(calls, ts, q) ==
  /\ \A i \in 1 .. Len(ts) : IsJev(ts[i].x) => \E c \in DOMAIN calls : calls[c] = ts[i].x
  /\ \A k \in DOMAIN Predicates(q) : \E c \in DOMAIN calls : calls[c] = Predicates(q)[k].x
  /\ \A c \in DOMAIN calls : \/ \E i \in 1 .. Len(ts) : IsJev(ts[i].x) /\ calls[c] = ts[i].x
                             \/ \E k \in DOMAIN Predicates(q) : calls[c] = Predicates(q)[k].x

ListJevs(q) == {i \in DOMAIN q.list : IsJev(q.list[i].x)}
HiddenJevs(ts, q) == {i \in 1 .. Len(ts) - Len(q.list) : IsJev(ts[Len(q.list) + i].x)}

LEMMA CallsParts ==
  ASSUME NEW q \in Statements, NEW ts, Grown(ts, q)
  PROVE  /\ Called(Calls(ts, q), ts, q)
         /\ Len(Calls(ts, q)) = Cardinality(ListJevs(q)) + Len(Predicates(q)) + Cardinality(HiddenJevs(ts, q))
<1> DEFINE E == {ts[i].x : i \in Int} \cup {Predicates(q)[i].x : i \in Int}
           list == [i \in DOMAIN q.list |-> ts[i].x]
           more == [i \in 1 .. Len(ts) - Len(q.list) |-> ts[Len(q.list) + i].x]
           of == [i \in DOMAIN Predicates(q) |-> Predicates(q)[i].x]
<1>1. PICK u, x : u = Select(list, IsJev) /\ x = Select(more, IsJev)
  OBVIOUS
<1>2. Calls(ts, q) = u \o of \o x
  BY <1>1 DEF Calls
<1>3. PICK n \in Nat, d \in Nat : /\ n = Len(q.list) /\ d = Len(ts) - Len(q.list)
                                  /\ DOMAIN q.list = 1 .. n /\ Len(ts) = n + d
  <2>1. /\ Len(q.list) \in Nat /\ Len(ts) \in Nat /\ Len(q.list) <= Len(ts)
        /\ DOMAIN q.list = 1 .. Len(q.list)
    BY DEF Grown
  <2>2. Len(ts) - Len(q.list) \in Nat /\ Len(ts) = Len(q.list) + (Len(ts) - Len(q.list))
    BY <2>1
  <2> QED BY <2>1, <2>2
<1>20. \A i \in 1 .. Len(ts) : i \in 1 .. n \/ (i - n \in 1 .. d /\ n + (i - n) = i)
  <2> n + d \in Nat
    OBVIOUS
  <2>1. PICK m \in Nat : m = Len(ts) /\ m = n + d
    BY <1>3
  <2>2. \A i \in 1 .. m : i \in 1 .. n \/ (i - n \in 1 .. d /\ n + (i - n) = i)
    BY <2>1
  <2> QED BY <2>1, <2>2
<1>21. (\A i \in 1 .. n : i \in 1 .. Len(ts)) /\ (\A i \in 1 .. d : n + i \in 1 .. Len(ts) /\ n + i \in Int)
  <2> n + d \in Nat
    OBVIOUS
  <2>1. PICK m \in Nat : m = Len(ts) /\ m = n + d
    BY <1>3
  <2>2. (\A i \in 1 .. n : i \in 1 .. m) /\ (\A i \in 1 .. d : n + i \in 1 .. m /\ n + i \in Int)
    BY <2>1
  <2> QED BY <2>1, <2>2
<1>4. list \in [1 .. n -> E] /\ \A i \in 1 .. n : list[i] = ts[i].x
  <2>1. list = [i \in 1 .. n |-> ts[i].x]
    BY <1>3
  <2>2. \A i \in 1 .. n : ts[i].x \in E
    OBVIOUS
  <2> HIDE DEF list, E
  <2> QED BY <2>1, <2>2
<1>5. more \in [1 .. d -> E] /\ \A i \in 1 .. d : more[i] = ts[n + i].x
  <2>1. more = [i \in 1 .. d |-> ts[n + i].x]
    BY <1>3
  <2>2. \A i \in 1 .. d : ts[n + i].x \in E
    BY <1>21
  <2> HIDE DEF more, E
  <2> QED BY <2>1, <2>2
<1>6. PICK p \in Nat : DOMAIN Predicates(q) = 1 .. p /\ Len(Predicates(q)) = p
  BY PredicatesJudge DEF Judges
<1>7. of \in [1 .. p -> E] /\ \A k \in 1 .. p : of[k] = Predicates(q)[k].x
  BY <1>6
<1> HIDE DEF E, list, more, of
<1>8. u \in Seq(E) /\ JevsIn(u, list, n)
  BY <1>1, <1>4, SelectJevs
<1>9. x \in Seq(E) /\ JevsIn(x, more, d)
  BY <1>1, <1>5, SelectJevs
<1>10. of \in Seq(E) /\ Len(of) = p
  BY <1>7
<1>11. PICK w : w = Calls(ts, q)
  OBVIOUS
<1>12. Joined(w, u, of, x)
  BY <1>2, <1>8, <1>9, <1>10, <1>11, JoinThree
<1>13. ASSUME NEW i \in 1 .. Len(ts), IsJev(ts[i].x) PROVE \E c \in DOMAIN w : w[c] = ts[i].x
  <2>1. CASE i \in 1 .. n
    <3>1. PICK j \in 1 .. Len(u) : u[j] = ts[i].x
      BY ZenonT(40), <1>4, <1>8, <1>13, <2>1 DEF JevsIn
    <3> QED BY <1>12, <3>1 DEF Joined
  <2>2. CASE i \notin 1 .. n
    <3>1. i - n \in 1 .. d /\ n + (i - n) = i
      BY <1>20, <2>2
    <3>2. more[i - n] = ts[i].x
      BY <1>5, <3>1
    <3>3. PICK j \in 1 .. Len(x) : x[j] = ts[i].x
      BY <1>9, <1>13, <3>1, <3>2 DEF JevsIn
    <3> QED BY <1>12, <3>3 DEF Joined
  <2> QED BY <2>1, <2>2
<1>14. ASSUME NEW k \in DOMAIN Predicates(q) PROVE \E c \in DOMAIN w : w[c] = Predicates(q)[k].x
  BY <1>6, <1>7, <1>10, <1>12 DEF Joined
<1>15. ASSUME NEW c \in DOMAIN w
       PROVE  \/ \E i \in 1 .. Len(ts) : IsJev(ts[i].x) /\ w[c] = ts[i].x
              \/ \E k \in DOMAIN Predicates(q) : w[c] = Predicates(q)[k].x
  <2>1. CASE \E i \in 1 .. Len(u) : w[c] = u[i]
    <3>1. PICK j \in 1 .. Len(u) : w[c] = u[j]
      BY <2>1
    <3>2. PICK i \in 1 .. n : IsJev(list[i]) /\ u[j] = list[i]
      BY <1>8 DEF JevsIn
    <3>3. i \in 1 .. Len(ts) /\ list[i] = ts[i].x
      BY <1>4, <1>21
    <3> QED BY <3>1, <3>2, <3>3
  <2>2. CASE \E i \in 1 .. Len(of) : w[c] = of[i]
    BY <1>6, <1>7, <1>10, <2>2
  <2>3. CASE \E i \in 1 .. Len(x) : w[c] = x[i]
    <3>1. PICK j \in 1 .. Len(x) : w[c] = x[j]
      BY <2>3
    <3>2. PICK i \in 1 .. d : IsJev(more[i]) /\ x[j] = more[i]
      BY <1>9 DEF JevsIn
    <3>3. n + i \in 1 .. Len(ts) /\ more[i] = ts[n + i].x
      BY <1>5, <1>21
    <3> QED BY <3>1, <3>2, <3>3
  <2> QED BY <1>12, <2>1, <2>2, <2>3 DEF Joined
<1>16. Called(w, ts, q)
  BY <1>13, <1>14, <1>15 DEF Called
<1>17. {i \in 1 .. n : IsJev(list[i])} = ListJevs(q)
  <2>1. \A i \in 1 .. n : list[i] = q.list[i].x
    BY <1>3, <1>4 DEF Grown
  <2> QED BY <1>3, <2>1 DEF ListJevs
<1>18. {i \in 1 .. d : IsJev(more[i])} = HiddenJevs(ts, q)
  BY <1>3, <1>5 DEF HiddenJevs
<1>19. Len(w) = Cardinality(ListJevs(q)) + Len(Predicates(q)) + Cardinality(HiddenJevs(ts, q))
  BY <1>6, <1>8, <1>9, <1>10, <1>12, <1>17, <1>18 DEF Joined, JevsIn
<1> QED BY <1>11, <1>16, <1>19
-----------------------------------------------------------------------------
(* Statements of which every row is a line.                                 *)

TermsRead(q) ==
  \A t \in Range(Terms(q)) : IF t.kind = "plain" THEN t.x.arg \in {"a", "b"} ELSE t.x.arg # "*"

NoStar(q) == \A i \in DOMAIN q.list : q.list[i].x # Star

\* Keys that are calls, or in the select list.
KeysShown(q) ==
  \A x \in OrderExprs(q) : IsJev(x) \/ Refused(x) \/ \E i \in DOMAIN q.list : q.list[i].x = x

\* Nothing is grouped; the list has columns, calls, what jevql refuses and a
\* star, after which there is no column; what tests a plain column has one; a
\* negative LIMIT or OFFSET goes to Postgres (jevql panics at one it has itself to
\* slice by); and so, next to a star, does ordering by a column that is not in
\* the list (rewrite.go puts what follows a star in the wrong place).
Rowwise(q) ==
  /\ ~IsGrouped(q)
  /\ NoNegative(q) \/ AllPlain(q)
  /\ \A i \in DOMAIN q.list :
       /\ Listed(q.list[i].x)
       /\ IsJev(q.list[i].x) \/ Refused(q.list[i].x) \/ Unstarred(q.list, i)
  /\ NoStar(q) \/ AllPlain(q) \/ KeysShown(q)
  /\ KeysRead(q)
  /\ TermsRead(q)

LEMMA ListFits ==
  ASSUME NEW q \in Statements, \A i \in DOMAIN q.list : Listed(q.list[i].x) /\ ~Refused(q.list[i].x)
  PROVE  Fits(ListOf(q), q, q.order, 0)
<1>1. PICK ts : ts = ListOf(q)
  OBVIOUS
<1>2. Grown(ts, q) /\ Len(ts) = Len(q.list)
  BY <1>1, ListGrown
<1>3. PICK n \in Nat : n = Len(q.list) /\ n = Len(ts) /\ DOMAIN q.list = 1 .. n
  BY <1>2 DEF Grown
<1>4. \A i \in 1 .. n : Listed(ts[i].x) /\ ~Refused(ts[i].x)
  BY <1>2, <1>3 DEF Grown
<1>5. \A i \in n + 1 .. n : FALSE
  BY <1>3
<1>6. \A k \in 1 .. 0 : FALSE
  OBVIOUS
<1> QED BY <1>1, <1>2, <1>3, <1>4, <1>5, <1>6 DEF Fits

\* What is accepted can be run.
LEMMA AcceptedFits ==
  ASSUME NEW q \in Statements, Rowwise(q), NEW o, NEW grouped, Parts(q, o, grouped), Accepts(q, o)
  PROVE  /\ Fits(o.ts, q, q.order, Len(q.order)) /\ Means(o, q, q.order, Len(q.order))
         /\ Called(Calls(o.ts, q), o.ts, q)
         /\ \A i \in 1 .. Len(o.ts) : o.ts[i].x = Star \/ Simple(o.ts[i].x)
<1>1. ~grouped /\ ResolvedAll(o, ListOf(q), q.order, grouped) /\ Grown(ListOf(q), q) /\ o.ok
  BY DEF Parts, Accepts
<1>2. \A i \in DOMAIN q.list : Listed(q.list[i].x) /\ ~Refused(q.list[i].x)
  BY DEF Rowwise, Accepts
<1>3. KeysRead(q)
  BY DEF Rowwise
<1>4. Fits(o.ts, q, q.order, Len(q.order))
  BY <1>1, <1>2, <1>3, ListFits, KeysFit
<1>5. Means(o, q, q.order, Len(q.order))
  <2>1. q.order \in Seq(Keys) /\ \A k \in DOMAIN q.order : Clear(q, q.order[k])
    BY <1>3 DEF Statements, KeysRead
  <2>2. PICK refs, list : refs = q.order /\ list = ListOf(q)
    OBVIOUS
  <2>3. Means(o, q, refs, Len(refs))
    BY <1>1, <2>1, <2>2, ResolveAllMeans
  <2> QED BY <2>2, <2>3
<1>6. PICK ts : ts = o.ts
  OBVIOUS
<1>7. PICK calls : calls = Calls(ts, q)
  OBVIOUS
<1>8. Called(calls, ts, q)
  BY <1>4, <1>6, <1>7, CallsParts DEF Fits
<1>9. ASSUME NEW i \in 1 .. Len(ts), ts[i].x # Star PROVE Simple(ts[i].x)
  <2>1. PICK x : x = ts[i].x
    OBVIOUS
  <2>2. Single(x) /\ ~Refused(x)
    BY <1>4, <1>6, <1>9, <2>1 DEF Fits, Listed
  <2>3. CASE IsJev(x)
    <3>1. PICK c \in DOMAIN calls : calls[c] = x
      BY <1>8, <2>1, <2>3 DEF Called
    <3>2. calls[c].arg \in ArgNames
      BY <1>6, <1>7 DEF Accepts
    <3> QED BY <2>1, <2>2, <3>1, <3>2, SingleKinds
  <2>4. CASE ~IsJev(x)
    BY <2>1, <2>2, <2>4, SingleKinds DEF ArgNames
  <2> QED BY <2>3, <2>4
<1> QED BY <1>4, <1>5, <1>6, <1>7, <1>8, <1>9

RangeOfColumns == Range(Columns) = {"a", "b"}

LEMMA ColumnsAre == RangeOfColumns
<1>1. DOMAIN Columns = 1 .. 2 /\ Columns[1] = "a" /\ Columns[2] = "b"
  BY DEF Columns
<1>2. Range(Columns) = {Columns[i] : i \in 1 .. 2}
  BY <1>1 DEF Range
<1> QED BY <1>1, <1>2 DEF RangeOfColumns

\* The select list with * written out: what is no star of it, and columns.
ExpandsTo(q, w) ==
  /\ \A x \in Range(w) : x \in {Col("a"), Col("b")}
                          \/ (x # Star /\ \E i \in DOMAIN q.list : x = q.list[i].x)
  /\ \A i \in DOMAIN q.list : q.list[i].x # Star => q.list[i].x \in Range(w)

LEMMA ExpandedRange == ASSUME NEW q \in Statements PROVE ExpandsTo(q, Expanded(q))
<1> DEFINE S == {Col("a"), Col("b")} \cup {q.list[i].x : i \in {j \in DOMAIN q.list : q.list[j].x # Star}}
           ss == [i \in DOMAIN q.list |->
                   IF q.list[i].x = Star THEN [c \in DOMAIN Columns |-> Col(Columns[c])]
                                         ELSE <<q.list[i].x>>]
<1>1. PICK n \in Nat : DOMAIN q.list = 1 .. n
  BY DEF Statements
<1>2. ASSUME NEW i \in 1 .. n PROVE ss[i] \in Seq(S)
  <2>1. CASE q.list[i].x = Star
    <3>1. ss[i] = [c \in 1 .. 2 |-> Col(Columns[c])]
      BY <1>1, <2>1 DEF Columns
    <3>2. \A c \in 1 .. 2 : Col(Columns[c]) \in S
      <4>1. Columns[1] = "a" /\ Columns[2] = "b"
        BY DEF Columns
      <4>2. \A c \in 1 .. 2 : c = 1 \/ c = 2
        OBVIOUS
      <4> QED BY <4>1, <4>2
    <3> HIDE DEF S, ss
    <3>3. [c \in 1 .. 2 |-> Col(Columns[c])] \in Seq(S)
      BY <3>2
    <3> QED BY <3>1, <3>3
  <2>2. CASE q.list[i].x # Star
    <3>1. ss[i] = <<q.list[i].x>>
      BY <1>1, <2>2
    <3>2. q.list[i].x \in S
      BY <1>1, <2>2
    <3> HIDE DEF S, ss
    <3>3. <<q.list[i].x>> \in Seq(S)
      BY <3>2
    <3> QED BY <3>1, <3>3
  <2> QED BY <2>1, <2>2
<1>3. DOMAIN ss = 1 .. n /\ ss = [i \in 1 .. n |-> ss[i]]
  BY <1>1
<1>4. Expanded(q) = FlattenSeq(ss)
  BY DEF Expanded
<1>5. ASSUME NEW i \in 1 .. n, q.list[i].x # Star PROVE ss[i] = <<q.list[i].x>>
  BY <1>1, <1>5
<1>6. \A x \in S : x \in {Col("a"), Col("b")} \/ (x # Star /\ \E i \in DOMAIN q.list : x = q.list[i].x)
  OBVIOUS
<1> HIDE DEF S, ss
<1>7. ss \in [1 .. n -> Seq(S)]
  BY <1>2, <1>3
<1>8. PICK w \in Seq(S) : w = FlattenSeq(ss)
  BY <1>7, FlattenLaid
<1>9. PICK at : Laid(w, at, ss, n)
  BY <1>7, <1>8, FlattenLaid
<1>10. \A x \in Range(w) : x \in S
  BY <1>8 DEF Range
<1>11. ASSUME NEW i \in 1 .. n, q.list[i].x # Star PROVE q.list[i].x \in Range(w)
  <2>1. PICK x, u : x = q.list[i].x /\ u = ss[i] /\ u = <<x>>
    BY <1>5, <1>11
  <2>2. Len(u) = 1 /\ u[1] = x /\ 1 \in 1 .. Len(u)
    BY <2>1
  <2>3. at[i] + 1 \in 1 .. Len(w) /\ w[at[i] + 1] = x
    BY <1>9, <2>1, <2>2 DEF Laid
  <2>4. DOMAIN w = 1 .. Len(w)
    BY <1>8
  <2> QED BY <2>1, <2>3, <2>4 DEF Range
<1>12. ExpandsTo(q, w)
  BY <1>1, <1>6, <1>10, <1>11 DEF ExpandsTo
<1> QED BY <1>4, <1>8, <1>12

LEMMA ColIs == \A c \in {"a", "b"} : Simple(Col(c)) /\ ~Refused(Col(c))
BY DEF Simple, Col, X, Refused

LEMMA NoGroups ==
  ASSUME NEW q, q.group = <<>>
  PROVE  GroupExprs(q) = {} /\ Range(q.group) = {}
<1>1. PICK g : g = q.group
  OBVIOUS
<1>2. DOMAIN g = {}
  <2>1. g = <<>>
    BY <1>1
  <2> QED BY <2>1
<1>3. Range(g) = {} /\ GroupExprs(q) = {}
  BY <1>1, <1>2 DEF Range, GroupExprs
<1> QED BY <1>1, <1>3

\* The keys of an accepted statement, its expressions, and its terms.
LEMMA KeyTargets ==
  ASSUME NEW q \in Statements, Rowwise(q), NEW o, NEW grouped, Parts(q, o, grouped), Accepts(q, o),
         NEW k \in DOMAIN q.order
  PROVE  /\ o.is[k] \in 1 .. Len(o.ts) /\ o.ts[o.is[k]].x = KeyExpr(q, q.order[k], FALSE)
         /\ Simple(o.ts[o.is[k]].x) /\ ~Refused(o.ts[o.is[k]].x)
<1>1. /\ Fits(o.ts, q, q.order, Len(q.order)) /\ Means(o, q, q.order, Len(q.order))
      /\ \A i \in 1 .. Len(o.ts) : o.ts[i].x = Star \/ Simple(o.ts[i].x)
  BY AcceptedFits
<1>2. PICK ts : ts = o.ts /\ Grown(ts, q)
  BY <1>1 DEF Fits
<1>3. k \in 1 .. Len(q.order)
  <2>1. q.order \in Seq(Keys)
    BY DEF Statements
  <2> QED BY <2>1
<1>4. PICK i \in 1 .. Len(ts) : i = o.is[k] /\ ts[i].x = KeyExpr(q, q.order[k], FALSE)
  BY <1>1, <1>2, <1>3 DEF Means
<1>5. ~Refused(ts[i].x)
  BY <1>1, <1>2 DEF Fits
<1>6. ts[i].x # Star
  <2>1. Clear(q, q.order[k]) /\ (q.order[k].by # "position" => Single(KeyExpr(q, q.order[k], FALSE)))
    BY DEF Rowwise, KeysRead
  <2>2. CASE q.order[k].by # "position"
    BY <1>4, <2>1, <2>2, SingleIsNoStar
  <2>3. CASE q.order[k].by = "position"
    <3>1. \A j \in DOMAIN q.list : q.list[j].x # Star
      BY <2>1, <2>3 DEF Clear
    <3>2. i \in 1 .. Len(q.list) \/ i \in Len(q.list) + 1 .. Len(ts)
      BY <1>2 DEF Grown
    <3>3. CASE i \in 1 .. Len(q.list)
      BY <1>2, <3>1, <3>3 DEF Grown
    <3>4. CASE i \in Len(q.list) + 1 .. Len(ts)
      <4>1. Single(ts[i].x)
        BY <1>1, <1>2, <3>4 DEF Fits
      <4> QED BY <4>1, SingleIsNoStar
    <3> QED BY <3>2, <3>3, <3>4
  <2> QED BY <2>2, <2>3
<1> QED BY <1>1, <1>2, <1>4, <1>5, <1>6

LEMMA AcceptedExprs ==
  ASSUME NEW q \in Statements, Rowwise(q), NEW o, NEW grouped, Parts(q, o, grouped), Accepts(q, o),
         NEW x \in Range(Expanded(q)) \cup OrderExprs(q)
  PROVE  Simple(x) /\ ~Refused(x)
<1>1. /\ Fits(o.ts, q, q.order, Len(q.order))
      /\ \A i \in 1 .. Len(o.ts) : o.ts[i].x = Star \/ Simple(o.ts[i].x)
  BY AcceptedFits
<1>2. PICK ts : ts = o.ts /\ Grown(ts, q)
  BY <1>1 DEF Fits
<1>3. \A i \in 1 .. Len(ts) : (ts[i].x = Star \/ Simple(ts[i].x)) /\ ~Refused(ts[i].x)
  BY <1>1, <1>2 DEF Fits
<1>4. PICK n \in Nat : n = Len(q.list) /\ DOMAIN q.list = 1 .. n /\ \A i \in 1 .. n : i \in 1 .. Len(ts)
  BY <1>2 DEF Grown
<1>5. \A i \in 1 .. n : (q.list[i].x = Star \/ Simple(q.list[i].x)) /\ ~Refused(q.list[i].x)
  BY <1>2, <1>3, <1>4 DEF Grown
<1>6. CASE x \in Range(Expanded(q))
  <2>1. x \in {Col("a"), Col("b")} \/ (x # Star /\ \E i \in DOMAIN q.list : x = q.list[i].x)
    BY <1>6, ExpandedRange DEF ExpandsTo
  <2>2. CASE x \in {Col("a"), Col("b")}
    BY <2>2, ColIs
  <2>3. CASE x # Star /\ \E i \in DOMAIN q.list : x = q.list[i].x
    BY <1>4, <1>5, <2>3
  <2> QED BY <2>1, <2>2, <2>3
<1>7. CASE x \in OrderExprs(q)
  <2>1. PICK k \in DOMAIN q.order : x = KeyExpr(q, q.order[k], FALSE)
    BY <1>7 DEF OrderExprs
  <2>2. o.ts[o.is[k]].x = x /\ Simple(o.ts[o.is[k]].x) /\ ~Refused(o.ts[o.is[k]].x)
    BY <2>1, KeyTargets
  <2> QED BY <2>2
<1> QED BY <1>6, <1>7

LEMMA AcceptedTerms ==
  ASSUME NEW q \in Statements, Rowwise(q), NEW o, NEW grouped, Parts(q, o, grouped), Accepts(q, o),
         NEW t \in Range(Terms(q))
  PROVE  /\ t.x.arg \in ArgNames /\ t.kind # "around"
         /\ t.kind # "plain" => t.x.fn = "jev"
<1>1. t.kind \in {"plain", "jev", "not jev", "around"}
  <2>1. Terms(q) \in Seq(SimpleTerms)
    BY TermsType
  <2>2. t \in SimpleTerms
    BY <2>1 DEF Range
  <2> QED BY <2>2 DEF SimpleTerms
<1>2. /\ t.kind # "around"
      /\ t.kind \in {"jev", "not jev"} => t.x.fn = "jev"
  BY DEF Accepts, SplitFails
<1>3. CASE t.kind = "plain"
  <2>1. t.x.arg \in {"a", "b"}
    <3>1. TermsRead(q)
      BY DEF Rowwise
    <3> QED BY <1>3, <3>1 DEF TermsRead
  <2> QED BY <1>3, <2>1 DEF ArgNames
<1>4. CASE t.kind \in {"jev", "not jev"}
  <2>1. PICK p \in Nat : Judges(Predicates(q), q, p)
    BY PredicatesJudge
  <2>2. PICK k \in 1 .. p : Predicates(q)[k].x = t.x
    BY <1>4, <2>1 DEF Judges
  <2>3. PICK calls : calls = Calls(o.ts, q)
    OBVIOUS
  <2>4. Called(calls, o.ts, q)
    BY <2>3, AcceptedFits
  <2>5. k \in DOMAIN Predicates(q)
    BY <2>1 DEF Judges
  <2>6. PICK c \in DOMAIN calls : calls[c] = t.x
    BY <2>2, <2>4, <2>5 DEF Called
  <2>7. calls[c].arg \in ArgNames
    BY <2>3 DEF Accepts
  <2> QED BY <1>2, <1>4, <2>6, <2>7
<1> QED BY <1>1, <1>2, <1>3, <1>4

\* What jevql accepts, and sends no negative number with, Postgres would run.
LEMMA AcceptedLegal ==
  ASSUME NEW q \in Statements, Rowwise(q), NEW o, NEW grouped, Parts(q, o, grouped), Accepts(q, o)
  PROVE  (NoNegative(q) => Legal(q)) /\ Supported(q)
<1>1. q.group = <<>> /\ ~IsGrouped(q)
  BY DEF Rowwise, IsGrouped
<1>2. GroupExprs(q) = {} /\ Range(q.group) = {}
  BY <1>1, NoGroups
<1>3. \A x \in Range(Expanded(q)) \cup OrderExprs(q) : Simple(x) /\ ~Refused(x)
  BY AcceptedExprs
<1>4. \A t \in Range(Terms(q)) : /\ t.x.arg \in ArgNames /\ t.kind # "around"
                                 /\ t.kind # "plain" => t.x.fn = "jev"
  BY AcceptedTerms
<1>5. ASSUME NEW ref \in Range(q.group) \cup Range(q.order), ref.by = "position"
      PROVE  ref.n \in 1 .. Len(Expanded(q))
  <2>1. PICK k \in DOMAIN q.order : q.order[k] = ref
    BY <1>2 DEF Range
  <2>2. k \in 1 .. Len(q.order)
    <3>1. q.order \in Seq(Keys)
      BY DEF Statements
    <3> QED BY <3>1
  <2>3. Fits(o.ts, q, q.order, Len(q.order))
    BY AcceptedFits
  <2>4. ref.n \in 1 .. Len(q.list)
    BY <1>5, <2>1, <2>2, <2>3 DEF Fits
  <2>5. \A i \in DOMAIN q.list : q.list[i].x # Star
    BY <1>5, <2>1 DEF Rowwise, KeysRead, Clear
  <2>6. Len(Expanded(q)) = Len(q.list)
    BY <2>5, ExpandedIsList
  <2> QED BY <2>4, <2>6
<1>6. ASSUME NEW x \in Range(Expanded(q)) \cup GroupExprs(q) \cup OrderExprs(q) \cup {t.x : t \in Range(Terms(q))}
      PROVE  x.arg \in Range(Columns) \cup {"*", "t"}
  <2>1. x.arg \in ArgNames
    <3>1. CASE x \in Range(Expanded(q)) \cup OrderExprs(q)
      BY <1>3, <3>1 DEF Simple, ArgNames
    <3>2. CASE x \in {t.x : t \in Range(Terms(q))}
      BY <1>4, <3>2
    <3> QED BY <1>2, <3>1, <3>2
  <2> QED BY <2>1, ColumnsAre DEF ArgNames, RangeOfColumns
<1>7. NoNegative(q) => Legal(q)
  BY <1>1, <1>2, <1>5, <1>6 DEF Legal, NoNegative
<1>8. \A x \in Range(Expanded(q)) \cup GroupExprs(q) \cup OrderExprs(q) :
        x.fn \notin {"around jev", "other aggregate"}
  BY <1>2, <1>3 DEF Refused
<1>9. q.also = {}
  BY DEF Accepts
<1> QED BY <1>4, <1>7, <1>8, <1>9 DEF Supported
-----------------------------------------------------------------------------
(* What is refused.                                                         *)

LEMMA OneMore ==
  ASSUME NEW n \in Nat, NEW S \in SUBSET (1 .. n)
  PROVE  Cardinality(S) \in Nat /\ Cardinality(S \cup {n + 1}) = Cardinality(S) + 1
<1>1. IsFiniteSet(1 .. n)
  BY FS_Interval
<1>2. IsFiniteSet(S)
  BY <1>1, FS_Subset
<1>3. n + 1 \notin S
  OBVIOUS
<1> QED BY <1>2, <1>3, FS_AddElement, FS_CardinalityType

\* A call as a key is what it is.
LEMMA JevKey ==
  ASSUME NEW q, NEW ref, ref.by # "position", IsJev(ref.x)
  PROVE  MeansItself(q, ref)
<1> DEFINE of == {i \in DOMAIN q.list : ref.x.fn = "col" /\ q.list[i].as = ref.x.arg}
<1>1. of = {}
  BY DEF IsJev
<1>2. KeyExpr(q, ref, FALSE) = IF ref.by = "position" THEN Expanded(q)[ref.n]
                               ELSE IF of = {} \/ (FALSE /\ ref.x.arg \in Range(Columns)) THEN ref.x
                               ELSE q.list[CHOOSE i \in of : TRUE].x
  BY DEF KeyExpr
<1> HIDE DEF of
<1> QED BY <1>1, <1>2 DEF MeansItself

\* A key that Postgres knows, and jevql does not refuse, is resolved.
Known(q, ref) ==
  IF ref.by = "position" THEN ref.n \in 1 .. Len(q.list)
  ELSE Single(KeyExpr(q, ref, FALSE)) /\ ~Refused(KeyExpr(q, ref, FALSE))

LEMMA KnownResolves ==
  ASSUME NEW q, NEW ts, Grown(ts, q), NEW ref, Known(q, ref),
         NEW grouped, ~grouped, NEW r, Resolved(r, ts, ref, grouped)
  PROVE  r.ok
<1>1. \/ InList(ts, q, ref, r) \/ OffList(ts, q, ref, r)
      \/ Meets(ts, ref, r) \/ Refuses(ts, ref, r) \/ Adds(ts, ref, r)
  BY ResolveOne
<1>2. ~OffList(ts, q, ref, r)
  BY DEF OffList, Known
<1>3. ASSUME Refuses(ts, ref, r) PROVE FALSE
  <2>1. Unmatched(ts, ref) /\ ref.by # "position" /\ (Refused(ref.x) \/ ref.x = Star)
    BY <1>3 DEF Refuses, Unmatched
  <2>2. MeansItself(q, ref)
    BY <2>1, MatchesNone
  <2>3. Single(ref.x) /\ ~Refused(ref.x)
    BY <2>1, <2>2 DEF Known, MeansItself
  <2> QED BY <2>1, <2>3, SingleIsNoStar
<1> QED BY <1>1, <1>2, <1>3 DEF InList, Meets, Adds

KeyJevs(refs, m) == {k \in 1 .. m : refs[k].by = "expression" /\ IsJev(refs[k].x)}

\* The key after the first m is no call that was written before.
FirstTime(q, refs, m) ==
  refs[m + 1].by = "expression" /\ IsJev(refs[m + 1].x) =>
    /\ \A i \in DOMAIN q.list : q.list[i].x # refs[m + 1].x
    /\ \A j \in 1 .. m : refs[j].by = "expression" => refs[j].x # refs[m + 1].x

\* Such a call gets a hidden target; other keys get no hidden call.
LEMMA CountStep ==
  ASSUME NEW q \in Statements, NEW refs, NEW m \in Nat, NEW ts, Fits(ts, q, refs, m),
         \A k \in 1 .. m : refs[k] \in Keys,
         NEW ref \in Keys, ref = refs[m + 1], FirstTime(q, refs, m),
         NEW grouped, ~grouped, NEW r, Resolved(r, ts, ref, grouped), r.ok,
         Cardinality(KeyJevs(refs, m)) = Cardinality(HiddenJevs(ts, q))
  PROVE  Cardinality(KeyJevs(refs, m + 1)) = Cardinality(HiddenJevs(r.ts, q))
<1>1. Grown(ts, q)
  BY DEF Fits
<1>2. PICK n \in Nat, d \in Nat : /\ n = Len(q.list) /\ DOMAIN q.list = 1 .. n
                                  /\ Len(ts) = n + d /\ Len(ts) - Len(q.list) = d
  <2>1. /\ Len(q.list) \in Nat /\ Len(ts) \in Nat /\ Len(q.list) <= Len(ts)
        /\ DOMAIN q.list = 1 .. Len(q.list)
    BY <1>1 DEF Grown
  <2>2. Len(ts) - Len(q.list) \in Nat /\ Len(ts) = Len(q.list) + (Len(ts) - Len(q.list))
    BY <2>1
  <2> QED BY <2>1, <2>2
<1>3. ref.by \in {"position", "expression"}
  BY DEF Keys
<1>4. \/ InList(ts, q, ref, r) \/ Meets(ts, ref, r) \/ Adds(ts, ref, r)
  <2>1. \/ InList(ts, q, ref, r) \/ OffList(ts, q, ref, r)
        \/ Meets(ts, ref, r) \/ Refuses(ts, ref, r) \/ Adds(ts, ref, r)
    BY <1>1, ResolveOne
  <2> QED BY <2>1 DEF OffList, Refuses
<1>5. ASSUME Adds(ts, ref, r)
      PROVE  /\ ref.by = "expression" /\ Len(r.ts) - Len(q.list) = d + 1
             /\ r.ts[n + d + 1].x = ref.x /\ \A i \in 1 .. d : r.ts[n + i] = ts[n + i]
  <2>1. PICK t : t = Target(ref.x, "", TRUE)
    OBVIOUS
  <2>2. ref.by # "position" /\ r.ts = Append(ts, t)
    BY <1>5, <2>1 DEF Adds, Unmatched, Appends
  <2>3. t.x = ref.x
    BY <2>1 DEF Target
  <2>4. PICK us : us = r.ts
    OBVIOUS
  <2>5. ts \in Seq(Targets)
    BY <1>1 DEF Grown
  <2>6. /\ Len(us) = Len(ts) + 1 /\ us[Len(ts) + 1] = t
        /\ \A i \in 1 .. Len(ts) : us[i] = ts[i]
    BY <2>2, <2>4, <2>5
  <2>7. \A i \in 1 .. d : n + i \in 1 .. n + d
    OBVIOUS
  <2>8. Len(us) = n + d + 1 /\ us[n + d + 1] = t
    BY <1>2, <2>6
  <2>9. \A i \in 1 .. d : us[n + i] = ts[n + i]
    BY <1>2, <2>6, <2>7
  <2>10. Len(us) - Len(q.list) = d + 1
    <3>1. (n + d + 1) - n = d + 1
      OBVIOUS
    <3>2. Len(us) = n + d + 1 /\ Len(q.list) = n
      BY <1>2, <2>8
    <3> QED BY <3>1, <3>2, Zenon
  <2> QED BY <1>3, <2>2, <2>3, <2>4, <2>8, <2>9, <2>10
<1>6. HiddenJevs(ts, q) = {i \in 1 .. d : IsJev(ts[n + i].x)}
  BY <1>2 DEF HiddenJevs
<1>7. CASE ref.by = "expression" /\ IsJev(ref.x)
  <2>1. Adds(ts, ref, r)
    <3>1. \A i \in 1 .. n + d : ts[i].x # ref.x
      <4>1. ASSUME NEW i \in 1 .. n + d, ts[i].x = ref.x PROVE FALSE
        <5>1. CASE i \in 1 .. n
          <6>1. q.list[i].x = ref.x
            BY <1>1, <1>2, <4>1, <5>1 DEF Grown
          <6> QED BY <1>2, <1>7, <5>1, <6>1 DEF FirstTime
        <5>2. CASE i \in n + 1 .. n + d
          <6>1. PICK k \in 1 .. m : refs[k].by # "position" /\ ts[i].x = refs[k].x
            BY <1>2, <5>2 DEF Fits
          <6>2. refs[k].by = "expression"
            <7>1. refs[k] \in Keys
              OBVIOUS
            <7> QED BY <6>1, <7>1 DEF Keys
          <6> QED BY <1>7, <4>1, <6>1, <6>2 DEF FirstTime
        <5>3. i \in 1 .. n \/ i \in n + 1 .. n + d
          OBVIOUS
        <5> QED BY <5>1, <5>2, <5>3
      <4> QED BY <4>1
    <3>2. DOMAIN ts = 1 .. n + d
      <4>1. DOMAIN ts = 1 .. Len(ts)
        <5>1. ts \in Seq(Targets)
          BY <1>1 DEF Grown
        <5> QED BY <5>1
      <4> QED BY <1>2, <4>1
    <3>3. Matches(ts, ref) = {}
      <4>1. ref.x.fn # "col"
        BY <1>7 DEF IsJev
      <4>2. {i \in DOMAIN ts : ref.x.fn = "col" /\ ~ts[i].hidden /\ ts[i].as = ref.x.arg} = {}
        BY <4>1
      <4>3. {i \in DOMAIN ts : ts[i].x = ref.x} = {}
        BY <3>1, <3>2
      <4> QED BY <4>2, <4>3 DEF Matches
    <3>4. Unmatched(ts, ref)
      BY <1>7, <3>3 DEF Unmatched
    <3> QED BY <1>4, <1>7, <3>4 DEF InList, Meets
  <2>2. PICK us : us = r.ts
    OBVIOUS
  <2>3. Len(us) - Len(q.list) = d + 1 /\ us[n + d + 1].x = ref.x /\ \A i \in 1 .. d : us[n + i] = ts[n + i]
    BY <1>5, <2>1, <2>2
  <2>4. HiddenJevs(us, q) = HiddenJevs(ts, q) \cup {d + 1}
    <3>1. HiddenJevs(us, q) = {i \in 1 .. d + 1 : IsJev(us[n + i].x)}
      BY <1>2, <2>3 DEF HiddenJevs
    <3>2. n + (d + 1) = n + d + 1
      OBVIOUS
    <3>3. IsJev(us[n + (d + 1)].x)
      BY <1>7, <2>3, <3>2
    <3>4. \A i \in 1 .. d + 1 : i \in 1 .. d \/ i = d + 1
      OBVIOUS
    <3>5. \A i \in 1 .. d : i \in 1 .. d + 1
      OBVIOUS
    <3>6. d + 1 \in 1 .. d + 1
      OBVIOUS
    <3> QED BY <1>6, <2>3, <3>1, <3>3, <3>4, <3>5, <3>6
  <2>5. KeyJevs(refs, m + 1) = KeyJevs(refs, m) \cup {m + 1}
    <3>1. \A k \in 1 .. m + 1 : k \in 1 .. m \/ k = m + 1
      OBVIOUS
    <3>2. (\A k \in 1 .. m : k \in 1 .. m + 1) /\ m + 1 \in 1 .. m + 1
      OBVIOUS
    <3> QED BY <1>7, <3>1, <3>2 DEF KeyJevs
  <2>6. KeyJevs(refs, m) \in SUBSET (1 .. m) /\ HiddenJevs(ts, q) \in SUBSET (1 .. d)
    BY <1>6 DEF KeyJevs
  <2>7. /\ Cardinality(KeyJevs(refs, m) \cup {m + 1}) = Cardinality(KeyJevs(refs, m)) + 1
        /\ Cardinality(HiddenJevs(ts, q) \cup {d + 1}) = Cardinality(HiddenJevs(ts, q)) + 1
    BY <2>6, OneMore
  <2> QED BY <2>2, <2>4, <2>5, <2>7
<1>8. CASE ~(ref.by = "expression" /\ IsJev(ref.x))
  <2>1. KeyJevs(refs, m + 1) = KeyJevs(refs, m)
    <3>1. \A k \in 1 .. m + 1 : k \in 1 .. m \/ k = m + 1
      OBVIOUS
    <3>2. \A k \in 1 .. m : k \in 1 .. m + 1
      OBVIOUS
    <3> QED BY <1>8, <3>1, <3>2 DEF KeyJevs
  <2>2. HiddenJevs(r.ts, q) = HiddenJevs(ts, q)
    <3>1. CASE r.ts = ts
      BY <3>1
    <3>2. CASE Adds(ts, ref, r)
      <4>1. PICK us : us = r.ts
        OBVIOUS
      <4>2. /\ Len(us) - Len(q.list) = d + 1 /\ us[n + d + 1].x = ref.x
            /\ \A i \in 1 .. d : us[n + i] = ts[n + i]
        BY <1>5, <3>2, <4>1
      <4>3. ~IsJev(ref.x)
        BY <1>5, <1>8, <3>2
      <4>4. HiddenJevs(us, q) = {i \in 1 .. d + 1 : IsJev(us[n + i].x)}
        BY <1>2, <4>2 DEF HiddenJevs
      <4>5. n + (d + 1) = n + d + 1
        OBVIOUS
      <4>6. ~IsJev(us[n + (d + 1)].x)
        BY <4>2, <4>3, <4>5
      <4>7. \A i \in 1 .. d + 1 : i \in 1 .. d \/ i = d + 1
        OBVIOUS
      <4>8. \A i \in 1 .. d : i \in 1 .. d + 1
        OBVIOUS
      <4> QED BY <1>6, <4>1, <4>2, <4>4, <4>6, <4>7, <4>8
    <3> QED BY <1>4, <3>1, <3>2 DEF InList, Meets
  <2> QED BY <2>1, <2>2
<1> QED BY <1>7, <1>8

\* After the first m keys: all known, and each call among them has its target.
Fine(acc, q, refs, m) ==
  /\ acc.ok /\ Fits(acc.ts, q, refs, m)
  /\ Cardinality(KeyJevs(refs, m)) = Cardinality(HiddenJevs(acc.ts, q))

LEMMA KeysFine ==
  ASSUME NEW q \in Statements, KeysRead(q), Fits(ListOf(q), q, q.order, 0),
         NEW refs \in Seq(Keys), refs = q.order, NEW n \in Nat, n = Len(refs),
         \A k \in 1 .. n : Known(q, refs[k]), \A m \in 0 .. n - 1 : FirstTime(q, refs, m),
         NEW grouped, ~grouped, NEW o, ResolvedAll(o, ListOf(q), refs, grouped)
  PROVE  Fine(o, q, refs, n)
<1>1. DOMAIN refs = 1 .. n
  OBVIOUS
<1>2. PICK F : Keyed(F, o, ListOf(q), refs, grouped, n)
  BY ResolveAllSteps
<1> DEFINE P == {m \in 0 .. n : Fine(F[m], q, refs, m)}
<1>3. 0 \in P
  <2>1. F[0].ts = ListOf(q) /\ F[0].ok
    BY <1>2 DEF Keyed
  <2>2. KeyJevs(refs, 0) = {}
    <3>1. \A k \in 1 .. 0 : FALSE
      OBVIOUS
    <3> QED BY <3>1 DEF KeyJevs
  <2>3. HiddenJevs(ListOf(q), q) = {}
    <3>1. Len(ListOf(q)) - Len(q.list) = 0
      <4>1. Len(q.list) \in Nat /\ Len(ListOf(q)) = Len(q.list)
        BY ListGrown DEF Grown
      <4> QED BY <4>1
    <3>2. \A k \in 1 .. 0 : FALSE
      OBVIOUS
    <3> QED BY <3>1, <3>2 DEF HiddenJevs
  <2>4. Fine(F[0], q, refs, 0)
    BY <2>1, <2>2, <2>3 DEF Fine
  <2>5. 0 \in 0 .. n
    OBVIOUS
  <2> QED BY <2>4, <2>5
<1>4. ASSUME NEW m \in 0 .. n - 1, m \in P PROVE m + 1 \in P
  <2>1. m + 1 \in 0 .. n /\ m + 1 \in 1 .. n /\ m \in Nat /\ \A k \in 1 .. m : k \in 1 .. n
    OBVIOUS
  <2>2. PICK acc, next : acc = F[m] /\ next = F[m + 1]
    OBVIOUS
  <2>3. refs[m + 1] \in Keys /\ \A k \in 1 .. m : refs[k] \in Keys
    BY <1>1, <2>1
  <2>4. PICK ref \in Keys : ref = refs[m + 1]
    BY <2>3
  <2>5. Fine(acc, q, refs, m)
    BY <1>4, <2>2
  <2>6. Goes(acc, next, ref, grouped)
    BY <1>2, <2>2, <2>4 DEF Keyed
  <2>7. PICK t : Resolved(t, acc.ts, ref, grouped) /\ next = [ok |-> t.ok, is |-> Append(acc.is, t.i), ts |-> t.ts]
    BY <2>5, <2>6 DEF Fine, Goes
  <2>8. next.ok = t.ok /\ next.ts = t.ts
    BY <2>7
  <2>9. PICK ts : ts = acc.ts /\ Fits(ts, q, refs, m)
    BY <2>5 DEF Fine
  <2>10. Resolved(t, ts, ref, grouped)
    BY <2>7, <2>9
  <2> HIDE DEF P
  <2>11. Known(q, ref) /\ FirstTime(q, refs, m)
    BY <2>1, <2>4
  <2>12. Grown(ts, q)
    BY <2>9 DEF Fits
  <2>13. t.ok
    BY <2>10, <2>11, <2>12, KnownResolves
  <2>14. Clear(q, ref) /\ (ref.by # "position" => Single(KeyExpr(q, ref, FALSE)))
    BY <1>1, <2>1, <2>4 DEF KeysRead
  <2>15. Fits(t.ts, q, refs, m + 1)
    BY <2>1, <2>4, <2>9, <2>10, <2>13, <2>14, FitsStep
  <2>16. Cardinality(KeyJevs(refs, m)) = Cardinality(HiddenJevs(ts, q))
    BY <2>5, <2>9 DEF Fine
  <2>17. Cardinality(KeyJevs(refs, m + 1)) = Cardinality(HiddenJevs(t.ts, q))
    BY <2>1, <2>3, <2>4, <2>9, <2>10, <2>11, <2>13, <2>16, CountStep
  <2>18. Fine(next, q, refs, m + 1)
    BY <2>8, <2>13, <2>15, <2>17 DEF Fine
  <2> QED BY <2>1, <2>2, <2>18 DEF P
<1>5. P = 0 .. n
  <2>1. P \in SUBSET (0 .. n)
    OBVIOUS
  <2> HIDE DEF P
  <2> QED BY <1>3, <1>4, <2>1, InductTo
<1>6. n \in P
  <2>1. n \in 0 .. n
    OBVIOUS
  <2> HIDE DEF P
  <2> QED BY <1>5, <2>1
<1>7. o = F[n]
  BY <1>2 DEF Keyed
<1> QED BY <1>6, <1>7

LEMMA WrittenCount ==
  ASSUME NEW q \in Statements, q.group = <<>>, NEW n \in Nat, n = Len(q.order)
  PROVE  Written(q) = Cardinality(ListJevs(q)) + Len(Predicates(q)) + Cardinality(KeyJevs(q.order, n))
<1> DEFINE OfKeys(refs) == Cardinality({i \in DOMAIN refs : refs[i].by = "expression" /\ IsJev(refs[i].x)})
<1>1. Written(q) = Cardinality(ListJevs(q)) + Len(Predicates(q)) + OfKeys(q.group) + OfKeys(q.order)
  BY DEF Written, ListJevs
<1>2. OfKeys(q.group) = 0
  <2>1. PICK g : g = q.group
    OBVIOUS
  <2>2. DOMAIN g = {}
    <3>1. g = <<>>
      BY <2>1
    <3> QED BY <3>1
  <2>3. {i \in DOMAIN g : g[i].by = "expression" /\ IsJev(g[i].x)} = {}
    BY <2>2
  <2>4. Cardinality({}) = 0
    BY FS_EmptySet
  <2>5. OfKeys(g) = 0
    BY <2>3, <2>4
  <2> QED BY <2>1, <2>5
<1>3. OfKeys(q.order) = Cardinality(KeyJevs(q.order, n))
  <2>1. PICK refs \in Seq(Keys) : refs = q.order
    BY DEF Statements
  <2>2. DOMAIN refs = 1 .. n
    BY <2>1
  <2>3. {i \in DOMAIN refs : refs[i].by = "expression" /\ IsJev(refs[i].x)} = KeyJevs(refs, n)
    BY <2>2 DEF KeyJevs
  <2> QED BY <2>1, <2>3
<1>4. Cardinality(ListJevs(q)) \in Nat
  <2>1. PICK m \in Nat : DOMAIN q.list = 1 .. m
    BY DEF Statements
  <2>2. ListJevs(q) \in SUBSET (1 .. m)
    BY <2>1 DEF ListJevs
  <2> QED BY <2>2, OneMore
<1>5. Len(Predicates(q)) \in Nat
  BY PredicatesJudge DEF Judges
<1> HIDE DEF OfKeys
<1> QED BY <1>1, <1>2, <1>3, <1>4, <1>5

\* Keys that are no call written before.
LEMMA WrittenOnce ==
  ASSUME NEW q \in Statements, q.group = <<>>, ~Repeats(q),
         NEW n \in Nat, n = Len(q.order), NEW m \in 0 .. n - 1
  PROVE  FirstTime(q, q.order, m)
<1>1. PICK refs \in Seq(Keys) : refs = q.order
  BY DEF Statements
<1>2. DOMAIN refs = 1 .. n
  BY <1>1
<1>3. q.group \o q.order = refs
  <2>1. <<>> \o refs = refs
    OBVIOUS
  <2> QED BY <1>1, <2>1
<1>4. m + 1 \in DOMAIN refs /\ \A j \in 1 .. m : j \in 1 .. (m + 1) - 1
  BY <1>2
<1>5. ~ \E k \in DOMAIN refs :
        /\ refs[k].by = "expression" /\ IsJev(refs[k].x)
        /\ \/ \E i \in DOMAIN q.list : q.list[i].x = refs[k].x
           \/ \E j \in 1 .. k - 1 : refs[j].by = "expression" /\ refs[j].x = refs[k].x
  BY <1>3 DEF Repeats
<1> QED BY <1>1, <1>4, <1>5 DEF FirstTime

\* What jevql supports and Postgres would run, with no call written twice, is accepted.
LEMMA LegalAccepted ==
  ASSUME NEW q \in Statements, Rowwise(q), ~Repeats(q), Legal(q), Supported(q),
         NEW o, NEW grouped, Parts(q, o, grouped)
  PROVE  Accepts(q, o)
<1>1. q.group = <<>>
  BY DEF Rowwise, IsGrouped
<1>2. PICK refs \in Seq(Keys) : refs = q.order
  BY DEF Statements
<1>3. PICK n \in Nat : n = Len(refs) /\ DOMAIN refs = 1 .. n
  OBVIOUS
<1>4. PICK l \in Nat : DOMAIN q.list = 1 .. l /\ Len(q.list) = l
  BY DEF Statements
<1>5. \A i \in 1 .. l : Listed(q.list[i].x)
  BY <1>4 DEF Rowwise
<1>6. \A i \in 1 .. l : q.list[i].x = Star \/ q.list[i].x \in Range(Expanded(q))
  BY <1>4, ExpandedRange DEF ExpandsTo
<1>8. \A x \in Range(Expanded(q)) \cup OrderExprs(q) : ~Refused(x)
  BY DEF Supported, Refused
<1>9. \A x \in Range(Expanded(q)) \cup OrderExprs(q) \cup {t.x : t \in Range(Terms(q))} :
        x.arg \in {"a", "b", "*", "t"}
  BY ColumnsAre DEF Legal, RangeOfColumns
<1>10. \A k \in 1 .. n : KeyExpr(q, refs[k], FALSE) \in OrderExprs(q)
  BY <1>2, <1>3 DEF OrderExprs
<1>11. ASSUME NEW k \in 1 .. n PROVE Known(q, refs[k])
  <2>1. CASE refs[k].by = "position"
    <3>1. refs[k] \in Range(q.order)
      BY <1>2, <1>3 DEF Range
    <3>2. refs[k].n \in 1 .. Len(Expanded(q))
      BY <2>1, <3>1 DEF Legal
    <3>3. \A i \in DOMAIN q.list : q.list[i].x # Star
      BY <1>2, <1>3, <2>1 DEF Rowwise, KeysRead, Clear
    <3>4. Len(Expanded(q)) = l
      BY <1>4, <3>3, ExpandedIsList
    <3> QED BY <1>4, <2>1, <3>2, <3>4 DEF Known
  <2>2. CASE refs[k].by # "position"
    <3>1. Single(KeyExpr(q, refs[k], FALSE))
      BY <1>2, <1>3, <2>2 DEF Rowwise, KeysRead
    <3> QED BY <1>8, <1>10, <2>2, <3>1 DEF Known
  <2> QED BY <2>1, <2>2
<1>12. \A m \in 0 .. n - 1 : FirstTime(q, refs, m)
  BY <1>1, <1>2, <1>3, WrittenOnce
<1>13. ~grouped /\ ResolvedAll(o, ListOf(q), refs, grouped)
  BY <1>2 DEF Parts
<1>7. \A i \in 1 .. l : ~Refused(q.list[i].x)
  BY <1>6, <1>8, StarIs
<1>14. Fits(ListOf(q), q, q.order, 0)
  <2>1. \A i \in DOMAIN q.list : Listed(q.list[i].x) /\ ~Refused(q.list[i].x)
    BY <1>4, <1>5, <1>7
  <2> QED BY <2>1, ListFits
<1>15. Fine(o, q, refs, n)
  <2>1. KeysRead(q)
    BY DEF Rowwise
  <2> QED BY <1>2, <1>3, <1>11, <1>12, <1>13, <1>14, <2>1, KeysFine
<1>16. PICK ts : ts = o.ts
  OBVIOUS
<1>17. Fits(ts, q, refs, n) /\ Grown(ts, q)
  BY <1>15, <1>16 DEF Fine, Fits
<1>18. PICK calls : calls = Calls(ts, q)
  OBVIOUS
<1>19. /\ Called(calls, ts, q)
       /\ Len(calls) = Cardinality(ListJevs(q)) + Len(Predicates(q)) + Cardinality(HiddenJevs(ts, q))
  BY <1>17, <1>18, CallsParts
<1>20. Written(q) = Len(calls)
  <2>1. Written(q) = Cardinality(ListJevs(q)) + Len(Predicates(q)) + Cardinality(KeyJevs(refs, n))
    BY <1>1, <1>2, <1>3, WrittenCount
  <2>2. Cardinality(KeyJevs(refs, n)) = Cardinality(HiddenJevs(ts, q))
    BY <1>15, <1>16 DEF Fine
  <2> QED BY <1>19, <2>1, <2>2
<1>21. ~SplitFails(q)
  BY DEF SplitFails, Supported
<1>22. ASSUME NEW i \in 1 .. Len(ts), IsJev(ts[i].x) PROVE ts[i].x.arg \in ArgNames
  <2>1. PICK x : x = ts[i].x
    OBVIOUS
  <2>2. x # Star /\ Single(x) /\ ~Refused(x)
    BY <1>17, <1>22, <2>1, StarIs DEF Fits, Listed
  <2>3. x.arg # "*"
    BY <1>22, <2>1, <2>2, SingleKinds
  <2>4. i \in 1 .. l \/ i \in l + 1 .. Len(ts)
    <3>1. PICK m \in Nat : m = Len(ts)
      BY <1>17 DEF Grown
    <3>2. \A j \in 1 .. m : j \in 1 .. l \/ j \in l + 1 .. m
      OBVIOUS
    <3> QED BY <3>1, <3>2
  <2>5. CASE i \in 1 .. l
    <3>1. x = q.list[i].x
      BY <1>4, <1>17, <2>1, <2>5 DEF Grown
    <3>2. x \in Range(Expanded(q))
      BY <1>6, <2>2, <2>5, <3>1
    <3> QED BY <1>9, <2>1, <2>3, <3>2 DEF ArgNames
  <2>6. CASE i \in l + 1 .. Len(ts)
    <3>1. PICK k \in 1 .. n : refs[k].by # "position" /\ ts[i].x = refs[k].x
      BY <1>4, <1>17, <2>6 DEF Fits
    <3>2. MeansItself(q, refs[k])
      BY <1>22, <3>1, JevKey
    <3>3. x \in OrderExprs(q)
      BY <1>10, <2>1, <3>1, <3>2 DEF MeansItself
    <3> QED BY <1>9, <2>1, <2>3, <3>3 DEF ArgNames
  <2> QED BY <2>4, <2>5, <2>6
<1>23. ASSUME NEW k \in DOMAIN Predicates(q) PROVE Predicates(q)[k].x.arg \in ArgNames
  <2>1. PICK p \in Nat : Judges(Predicates(q), q, p)
    BY PredicatesJudge
  <2>2. PICK t \in Range(Terms(q)) : t.kind \in {"jev", "not jev"} /\ Predicates(q)[k].x = t.x
    BY <2>1 DEF Judges
  <2>3. t.x.arg # "*"
    <3>1. TermsRead(q)
      BY DEF Rowwise
    <3>2. t.kind # "plain" /\ t \in Range(Terms(q))
      BY <2>2, Zenon
    <3> QED BY <3>1, <3>2, Zenon DEF TermsRead
  <2>4. t.x.arg \in {"a", "b", "*", "t"}
    BY <1>9
  <2> QED BY <2>2, <2>3, <2>4 DEF ArgNames
<1>24. \A c \in DOMAIN calls : calls[c].arg \in ArgNames
  BY <1>19, <1>22, <1>23 DEF Called
<1>25. o.ok /\ q.also = {}
  BY <1>15 DEF Fine, Supported
<1>26. \A i \in DOMAIN q.list : ~Refused(q.list[i].x)
  BY <1>4, <1>7
<1> QED BY <1>16, <1>18, <1>20, <1>21, <1>24, <1>25, <1>26 DEF Accepts
-----------------------------------------------------------------------------
(* The run of such a statement.                                             *)

\* The plan is the analysis, laid out.
PlanIs ==
  /\ Analysis(query).ok
  /\ plan.targets = Analysis(query).targets
  /\ plan.orderKeys = Analysis(query).orderKeys
  /\ plan.calls = Analysis(query).calls
  /\ plan.preds = Analysis(query).preds
  /\ plan.grouped = Analysis(query).grouped
  /\ plan.layout = Layout(plan.targets, plan.srcs)
  /\ plan.serverOrder <=> ServerOrder(Analysis(query))

\* The statement is one that Postgres runs, if no number of it is negative.
LEMMA PlanIsLegal ==
  ASSUME query \in Statements, Rowwise(query), PlanIs
  PROVE  /\ NoNegative(query) => Legal(query)
         /\ Supported(query)
         /\ \A t \in Range(Terms(query)) : t.kind # "around"
         /\ AllPlain(query) => plan.serverOrder
<1>1. PICK q \in Statements : q = query
  OBVIOUS
<1>2. ~IsGrouped(q)
  BY <1>1 DEF Rowwise
<1>3. PICK o, grouped : Parts(q, o, grouped) /\ Accepts(q, o)
  BY <1>1, <1>2, AnalysisParts DEF PlanIs
<1>4. (NoNegative(q) => Legal(q)) /\ Supported(q)
  BY <1>1, <1>3, AcceptedLegal
<1>5. \A t \in Range(Terms(q)) : t.kind # "around"
  BY <1>1, <1>3, AcceptedTerms
<1>6. KeysClear(q)
  <2>1. \A x \in OrderExprs(q) : ~IsAgg(x)
    BY <1>1, <1>3, AcceptedExprs, SimpleKinds
  <2>2. \A k \in DOMAIN q.order : Clear(q, q.order[k])
    BY <1>1 DEF Rowwise, KeysRead
  <2> QED BY <2>1, <2>2 DEF KeysClear
<1>7. ASSUME AllPlain(q) PROVE plan.serverOrder
  <2>1. ServerOrder(Analysis(q))
    BY <1>1, <1>6, <1>7, PushedDown DEF PlanIs
  <2> QED BY <1>1, <2>1 DEF PlanIs
<1> QED BY <1>1, <1>4, <1>5, <1>7

\* The list is where the layout says: no star comes before what takes a column.
LEMMA ListPlaced ==
  ASSUME NEW q \in Statements, Rowwise(q), NEW o, NEW grouped, Parts(q, o, grouped), Accepts(q, o),
         plan.targets = o.ts, NEW i \in 1 .. Len(q.list)
  PROVE  Placed(i)
<1>1. PICK ts : ts = o.ts /\ Fits(ts, q, q.order, Len(q.order))
  BY AcceptedFits
<1>2. Grown(ts, q) /\ \A j \in 1 .. Len(ts) : ~Refused(ts[j].x)
  BY <1>1 DEF Fits
<1>3. PICK n \in Nat : /\ n = Len(q.list) /\ DOMAIN q.list = 1 .. n
                       /\ \A j \in 1 .. n : j \in 1 .. Len(ts) /\ ts[j].x = q.list[j].x
  BY <1>2 DEF Grown
<1>4. ts[i].kind = Kind(ts[i].x)
  BY <1>2, <1>3 DEF Grown
<1>5. IsJev(q.list[i].x) \/ Unstarred(q.list, i)
  BY <1>2, <1>3 DEF Rowwise
<1>6. CASE IsJev(q.list[i].x)
  BY <1>1, <1>3, <1>4, <1>6 DEF Placed, Kind
<1>7. CASE Unstarred(q.list, i)
  <2>1. \A j \in 1 .. i - 1 : j \in 1 .. n
    BY <1>3
  <2> QED BY <1>1, <1>3, <1>7, <2>1 DEF Placed, Unstarred
<1> QED BY <1>5, <1>6, <1>7

\* So is what jevql sorts by.
LEMMA KeyPlaced ==
  ASSUME NEW q \in Statements, q = query, Rowwise(q), PlanIs,
         NEW o, NEW grouped, Parts(q, o, grouped), Accepts(q, o),
         plan.targets = o.ts, ~plan.serverOrder, NEW k \in DOMAIN q.order
  PROVE  Placed(o.is[k])
<1>1. PICK ts, i : /\ ts = o.ts /\ i = o.is[k] /\ i \in 1 .. Len(ts)
                   /\ ts[i].x = KeyExpr(q, q.order[k], FALSE) /\ Simple(ts[i].x) /\ ~Refused(ts[i].x)
  BY KeyTargets
<1>2. Fits(ts, q, q.order, Len(q.order)) /\ Grown(ts, q)
  <2>1. Fits(o.ts, q, q.order, Len(q.order))
    BY AcceptedFits
  <2> QED BY <1>1, <2>1 DEF Fits
<1>3. PICK n \in Nat, m \in Nat :
        /\ n = Len(q.list) /\ DOMAIN q.list = 1 .. n /\ m = Len(ts)
        /\ \A j \in 1 .. n : j \in 1 .. m /\ ts[j].x = q.list[j].x
  <2>1. /\ Len(q.list) \in Nat /\ DOMAIN q.list = 1 .. Len(q.list) /\ Len(ts) \in Nat
        /\ Len(q.list) <= Len(ts) /\ \A j \in 1 .. Len(q.list) : ts[j].x = q.list[j].x
    BY <1>2 DEF Grown
  <2>2. \A j \in 1 .. Len(q.list) : j \in 1 .. Len(ts)
    BY <2>1
  <2> QED BY <2>1, <2>2
<1>4. i \in 1 .. n \/ i \in n + 1 .. m
  BY <1>1, <1>3
<1>5. CASE i \in 1 .. n
  BY <1>1, <1>3, <1>5, ListPlaced
<1>6. CASE i \in n + 1 .. m
  <2>1. Single(ts[i].x) /\ \A j \in 1 .. n : q.list[j].x # ts[i].x
    BY <1>2, <1>3, <1>6 DEF Fits
  <2>2. ~AllPlain(q)
    BY PlanIsLegal
  <2>3. CASE NoStar(q)
    <3>1. ASSUME NEW j \in 1 .. m PROVE ts[j].x # Star
      <4>1. j \in 1 .. n \/ j \in n + 1 .. m
        BY <1>3
      <4>2. CASE j \in 1 .. n
        BY <1>3, <2>3, <4>2 DEF NoStar
      <4>3. CASE j \in n + 1 .. m
        <5>1. Single(ts[j].x)
          BY <1>2, <1>3, <4>3 DEF Fits
        <5> QED BY <5>1, SingleIsNoStar
      <4> QED BY <4>1, <4>2, <4>3
    <3>2. \A j \in 1 .. i - 1 : j \in 1 .. m
      BY <1>1, <1>3
    <3> QED BY <1>1, <3>1, <3>2 DEF Placed, Unstarred
  <2>4. CASE KeysShown(q)
    <3>1. ts[i].x \in OrderExprs(q)
      BY <1>1 DEF OrderExprs
    <3>2. IsJev(ts[i].x)
      <4>1. PICK x : x = ts[i].x
        OBVIOUS
      <4>2. x \in OrderExprs(q) /\ ~Refused(x) /\ \A j \in DOMAIN q.list : q.list[j].x # x
        BY <1>1, <1>3, <2>1, <3>1, <4>1
      <4>3. IsJev(x)
        BY <2>4, <4>2 DEF KeysShown
      <4> QED BY <4>1, <4>3
    <3>3. ts[i].kind = Kind(ts[i].x)
      BY <1>1, <1>2 DEF Grown
    <3> QED BY <1>1, <3>2, <3>3 DEF Placed, Kind
  <2> QED BY <2>2, <2>3, <2>4 DEF Rowwise
<1> QED BY <1>4, <1>5, <1>6

\* Such a plan has what the statement asks for.
LEMMA PlanIsRight ==
  ASSUME query \in Statements, Rowwise(query), PlanIs, WellLaid
  PROVE  Right
<1>1. PICK q \in Statements : q = query
  OBVIOUS
<1>2. ~IsGrouped(q)
  BY <1>1 DEF Rowwise
<1>3. PICK o, grouped : Parts(q, o, grouped) /\ Accepts(q, o)
  BY <1>1, <1>2, AnalysisParts DEF PlanIs
<1>4. PICK ts, is, calls : ts = o.ts /\ is = o.is /\ calls = Calls(ts, q)
  OBVIOUS
<1>5. /\ Fits(ts, q, q.order, Len(q.order)) /\ Means(o, q, q.order, Len(q.order))
      /\ Called(calls, ts, q)
      /\ \A i \in 1 .. Len(ts) : ts[i].x = Star \/ Simple(ts[i].x)
  BY <1>1, <1>3, <1>4, AcceptedFits
<1>6. /\ plan.targets = ts /\ plan.orderKeys = is /\ plan.calls = calls
      /\ plan.preds = Predicates(q) /\ plan.grouped = FALSE
  BY <1>1, <1>3, <1>4 DEF PlanIs, Parts
<1>7. Laying
  BY DEF Laying, PlanIs
<1>8. RightTargets
  <2>1. Grown(ts, q)
    BY <1>4, <1>5 DEF Means
  <2>2. \A i \in 1 .. Len(ts) : IsJev(ts[i].x) => \E c \in DOMAIN calls : calls[c].arg = ts[i].x.arg
    BY <1>5 DEF Called
  <2>3. \A i \in 1 .. Len(q.list) : Placed(i)
    BY <1>1, <1>3, <1>4, <1>6, ListPlaced
  <2> QED BY <1>1, <1>5, <1>6, <2>1, <2>2, <2>3 DEF RightTargets
<1>9. RightKeys
  <2>1. PICK n \in Nat : n = Len(q.order) /\ DOMAIN q.order = 1 .. n
    BY DEF Statements
  <2>2. is \in Seq(Nat) /\ Len(is) = n
    BY <1>4, <1>5, <2>1 DEF Means
  <2>3. DOMAIN is = 1 .. n
    BY <2>2
  <2>4. ASSUME NEW k \in 1 .. n
        PROVE  /\ is[k] \in 1 .. Len(ts) /\ ts[is[k]].x = KeyExpr(q, q.order[k], FALSE)
               /\ Simple(ts[is[k]].x) /\ (~plan.serverOrder => Placed(is[k]))
    <3>1. k \in DOMAIN q.order
      BY <2>1
    <3>2. /\ is[k] \in 1 .. Len(ts) /\ ts[is[k]].x = KeyExpr(q, q.order[k], FALSE)
          /\ Simple(ts[is[k]].x)
      BY <1>1, <1>3, <1>4, <3>1, KeyTargets
    <3>3. ~plan.serverOrder => Placed(is[k])
      BY <1>1, <1>3, <1>4, <1>6, <3>1, KeyPlaced
    <3> QED BY <3>2, <3>3
  <2> QED BY <1>1, <1>6, <2>1, <2>3, <2>4 DEF RightKeys
<1>10. RightPreds
  <2>1. \A k \in DOMAIN Predicates(q) : \E c \in DOMAIN calls : calls[c].arg = Predicates(q)[k].x.arg
    BY <1>5 DEF Called
  <2> QED BY <1>1, <1>6, <2>1 DEF RightPreds
<1>11. plan.serverOrder => plan.preds = <<>>
  BY DEF PlanIs, ServerOrder
<1> QED BY <1>6, <1>7, <1>8, <1>9, <1>10, <1>11 DEF Right

\* A statement that Postgres does not refuse has no negative number.
LEMMA NotRefused ==
  ASSUME query \in Statements, Rowwise(query), PlanIs, ~ServerRefuses
  PROVE  NoNegative(query)
<1>1. CASE NoNegative(query)
  BY <1>1
<1>2. CASE AllPlain(query)
  <2>1. plan.serverOrder
    BY <1>2, PlanIsLegal
  <2>2. \A n \in Range(query.limit) \cup Range(query.offset) : ~(n < 0) /\ n \in Int
    <3>1. \A n \in Range(query.limit) \cup Range(query.offset) : ~(n < 0)
      BY <2>1 DEF ServerRefuses
    <3>2. query.limit \in Seq(Int) /\ query.offset \in Seq(Int)
      BY DEF Statements
    <3>3. \A s \in Seq(Int) : \A n \in Range(s) : n \in Int
      BY DEF Range
    <3> QED BY <3>1, <3>2, <3>3
  <2> QED BY <2>2 DEF NoNegative
<1> QED BY <1>1, <1>2 DEF Rowwise

\* One that it does refuse has.
LEMMA RefusedIllegal ==
  ASSUME query \in Statements, Rowwise(query), PlanIs, WellLaid, ServerRefuses
  PROVE  ~Legal(query)
<1>1. RightKeys
  BY PlanIsRight DEF Right
<1>2. \A i \in Range(plan.orderKeys) : plan.targets[i].x # Star
  <2>1. ASSUME NEW i \in Range(plan.orderKeys) PROVE Simple(plan.targets[i].x)
    BY <1>1 DEF RightKeys, Range
  <2> QED BY <2>1, SimpleKinds
<1>3. PICK n \in Range(query.limit) \cup Range(query.offset) : n < 0
  BY <1>2 DEF ServerRefuses
<1>4. n \in Int
  <2>1. query.limit \in Seq(Int) /\ query.offset \in Seq(Int)
    BY DEF Statements
  <2>2. \A s \in Seq(Int) : \A m \in Range(s) : m \in Int
    BY DEF Range
  <2> QED BY <2>1, <2>2
<1>5. ~(n >= 0)
  BY <1>3, <1>4
<1> QED BY <1>3, <1>5 DEF Legal

LEMMA GivenOf ==
  ASSUME query \in Statements, table \in Seq(Rows), VerdictTyped,
         Rowwise(query), PlanIs, WellLaid, NoNegative(query)
  PROVE  Given
<1>1. Lined(query)
  BY PlanIsLegal DEF Lined, Rowwise
<1> QED BY <1>1, PlanIsRight DEF Given

\* What is collected is what Postgres returns of the rows the plain terms leave:
\* all of them in any order, or their slice in the order asked for.
RowsOf(rows) == [i \in DOMAIN rows |-> Row(rows[i])]
CollectedSo == \E n \in Nat : \E p, rows : CollectsAs(p, n, rows) /\ collected = RowsOf(rows)

\* The inductive invariant: what the steps before a step have left for it.
RowInv ==
  /\ Inv /\ VerdictTyped
  /\ pc \in {"planned", "collected", "judged"} => PlanIs
  /\ pc \in {"collected", "judged"} /\ Rowwise(query) => NoNegative(query) /\ CollectedSo
  /\ Rowwise(query) => ResultAsPostgres

\* What depends on the statement, the table and the plan only.
LEMMA SameRows ==
  ASSUME UNCHANGED <<query, table, verdict, plan>>
  PROVE  /\ VerdictTyped => VerdictTyped'
         /\ PlanIs => PlanIs'
         /\ \A rows : RowsOf(rows)' = RowsOf(rows)
         /\ \A p, n, rows : CollectsAs(p, n, rows) => CollectsAs(p, n, rows)'
<1>1. VerdictTyped => VerdictTyped'
  BY DEF VerdictTyped
<1>2. PlanIs => PlanIs'
  BY DEF PlanIs
<1>3. \A rows : RowsOf(rows)' = RowsOf(rows)
  <2>1. \A r : Row(r)' = Row(r)
    BY SamePlan
  <2> QED BY <2>1 DEF RowsOf
<1>4. \A r : KeysOf(r)' = KeysOf(r)
  BY DEF KeysOf
<1>5. \A p, n : Ordered(p, n) <=> Ordered(p, n)'
  BY <1>4 DEF Ordered
<1>6. \A p, n : OrderOf(p, n)' = OrderOf(p, n)
  BY DEF OrderOf
<1>7. FilteredRows' = FilteredRows
  BY SamePlan
<1>8. ASSUME NEW p, NEW n, NEW rows, CollectsAs(p, n, rows) PROVE CollectsAs(p, n, rows)'
  <2>1. /\ Lists(p, n, FilteredRows)
        /\ plan.serverOrder => Ordered(p, n)
        /\ rows = IF plan.serverOrder THEN Slice(OrderOf(p, n), query) ELSE OrderOf(p, n)
    BY <1>8 DEF CollectsAs
  <2>2. Lists(p, n, FilteredRows')
    BY <1>7, <2>1
  <2>3. plan'.serverOrder => Ordered(p, n)'
    BY <1>5, <2>1
  <2>4. rows = IF plan'.serverOrder THEN Slice(OrderOf(p, n)', query') ELSE OrderOf(p, n)'
    <3>1. OrderOf(p, n)' = OrderOf(p, n) /\ plan' = plan /\ query' = query
      BY <1>6
    <3> QED BY <2>1, <3>1
  <2> QED BY <2>2, <2>3, <2>4 DEF CollectsAs
<1> QED BY <1>1, <1>2, <1>3, <1>8

LEMMA InitRow == Init => RowInv
<1> SUFFICES ASSUME Init PROVE RowInv
  OBVIOUS
<1>1. Inv
  BY InitInv
<1>2. VerdictTyped
  <2>1. /\ verdict \in Verdicts /\ table \in Tables
    BY DEF Init
  <2>2. \A src \in ArgNames : src \in {"t"} \cup Range(Columns)
    BY ColumnsAre DEF ArgNames, RangeOfColumns
  <2> QED BY <2>1, <2>2, VerdictsAssumption DEF VerdictTyped
<1>3. pc = "analyze"
  BY DEF Init
<1> QED BY <1>1, <1>2, <1>3 DEF RowInv, ResultAsPostgres

LEMMA RowAnalyze ==
  ASSUME RowInv, Analyze
  PROVE  /\ VerdictTyped'
         /\ (pc \in {"planned", "collected", "judged"})' => PlanIs'
         /\ (pc \in {"collected", "judged"})' => FALSE
         /\ Rowwise(query)' => ResultAsPostgres'
<1>1. query \in Statements /\ VerdictTyped /\ query' = query /\ table' = table /\ verdict' = verdict
  BY DEF RowInv, Inv, Fed, Analyze
<1>2. VerdictTyped'
  BY <1>1 DEF VerdictTyped
<1>3. CASE ~Analysis(query).ok
  <2>1. out' = [err |-> "sql", rows |-> <<>>] /\ pc' = "done"
    BY <1>3 DEF Analyze, Failed
  <2>2. out'.err = "sql"
    BY <2>1
  <2>3. ASSUME Rowwise(query) PROVE ~Legal(query) \/ ~Supported(query) \/ Repeats(query)
    <3>1. PICK q \in Statements : q = query
      BY <1>1
    <3>2. ~IsGrouped(q)
      BY <2>3, <3>1 DEF Rowwise
    <3>3. PICK o, grouped : Parts(q, o, grouped) /\ (Accepts(q, o) => Analysis(q).ok)
      BY <3>2, AnalysisParts
    <3>4. ~Accepts(q, o)
      BY <1>3, <3>1, <3>3
    <3> QED BY <2>3, <3>1, <3>3, <3>4, LegalAccepted
  <2>4. Rowwise(query)' => ResultAsPostgres'
    BY <1>1, <2>2, <2>3 DEF ResultAsPostgres
  <2> QED BY <1>2, <2>1, <2>4
<1>4. CASE Analysis(query).ok
  <2>1. PICK a : a = Analysis(query)
    OBVIOUS
  <2>2. /\ plan'.targets = a.targets /\ plan'.orderKeys = a.orderKeys /\ plan'.calls = a.calls
        /\ plan'.preds = a.preds /\ plan'.grouped = a.grouped
        /\ pc' = "planned"
    BY <1>4, <2>1 DEF Analyze
  <2>3. plan'.layout = Layout(plan'.targets, plan'.srcs)
    BY <1>4, <2>1 DEF Analyze
  <2>4. plan'.serverOrder <=> ServerOrder(a)
    BY <1>4, <2>1 DEF Analyze
  <2>5. PlanIs'
    BY <1>1, <1>4, <2>1, <2>2, <2>3, <2>4 DEF PlanIs
  <2>6. ResultAsPostgres'
    BY <2>2 DEF ResultAsPostgres
  <2> QED BY <1>2, <2>2, <2>5, <2>6
<1> QED BY <1>3, <1>4

LEMMA RowCollect ==
  ASSUME RowInv, Collect
  PROVE  /\ VerdictTyped'
         /\ (pc \in {"planned", "collected", "judged"})' => PlanIs'
         /\ (pc \in {"collected", "judged"} /\ Rowwise(query))' => NoNegative(query)' /\ CollectedSo'
         /\ Rowwise(query)' => ResultAsPostgres'
<1>1. /\ query \in Statements /\ table \in Seq(Rows) /\ maxRows \in Nat /\ VerdictTyped
      /\ pc = "planned" /\ PlanIs
  BY DEF RowInv, Inv, Fed, Collect
<1>2. Planned /\ WellLaid
  BY <1>1 DEF RowInv, Inv, PlanFirst, Planned
<1>3. UNCHANGED <<query, table, verdict, maxRows, plan>>
  BY DEF Collect
<1>4. VerdictTyped' /\ PlanIs'
  BY <1>1, <1>3, SameRows
<1>5. CASE ServerRefuses
  <2>1. out' = [err |-> "sql", rows |-> <<>>] /\ pc' = "done"
    BY <1>5 DEF Collect, Failed
  <2>2. out'.err = "sql"
    BY <2>1
  <2>3. Rowwise(query) => ~Legal(query)
    BY <1>1, <1>2, <1>5, RefusedIllegal
  <2>4. Rowwise(query)' => ResultAsPostgres'
    BY <1>3, <2>2, <2>3 DEF ResultAsPostgres
  <2> QED BY <1>4, <2>1, <2>4
<1>6. CASE ~ServerRefuses
  <2>1. PICK rows \in CollectOrders :
          IF OverBudget(Len(rows))
            THEN Failed("budget")
            ELSE collected' = [i \in DOMAIN rows |-> Row(rows[i])] /\ pc' = "collected"
    BY <1>6 DEF Collect
  <2>2. ASSUME Rowwise(query)
        PROVE  /\ NoNegative(query)
               /\ \E n \in Nat : \E p : CollectsAs(p, n, rows) /\ Cardinality(FilteredRows) = n /\ Len(rows) <= n
                                        /\ rows \in Seq(Rows)
    <3>1. NoNegative(query)
      BY <1>1, <1>6, <2>2, NotRefused
    <3>2. Given
      BY <1>1, <1>2, <2>2, <3>1, GivenOf
    <3>3. CollectRows = FilteredRows
      BY <1>2, CollectFilters
    <3>4. PICK n \in Nat : \E p : CollectsAs(p, n, rows)
      BY <3>2, <3>3, CollectsSo
    <3>5. PICK p : CollectsAs(p, n, rows)
      BY <3>4
    <3>6. Cardinality(FilteredRows) = n /\ Len(rows) <= n /\ rows \in Seq(Rows)
      BY <3>2, <3>5, CollectsFew
    <3> QED BY <3>1, <3>5, <3>6
  <2>3. CASE OverBudget(Len(rows))
    <3>1. out' = [err |-> "budget", rows |-> <<>>] /\ pc' = "done"
      BY <2>1, <2>3 DEF Failed
    <3>2. out'.err = "budget"
      BY <3>1
    <3>3. ASSUME Rowwise(query) PROVE maxRows > 0 /\ Cardinality(FilteredRows) > maxRows
      <4>1. PICK n \in Nat, m \in Nat : Cardinality(FilteredRows) = n /\ m = Len(rows) /\ m <= n
        <5>1. PICK n \in Nat : Cardinality(FilteredRows) = n /\ Len(rows) <= n /\ rows \in Seq(Rows)
          BY <2>2, <3>3
        <5>2. Len(rows) \in Nat
          BY <5>1
        <5> QED BY <5>1, <5>2
      <4> QED BY <1>1, <2>3, <4>1 DEF OverBudget
    <3>4. FilteredRows' = FilteredRows
      BY <1>3, SamePlan
    <3>5. Rowwise(query)' => ResultAsPostgres'
      BY <1>3, <3>2, <3>3, <3>4 DEF ResultAsPostgres
    <3> QED BY <1>4, <3>1, <3>5
  <2>4. CASE ~OverBudget(Len(rows))
    <3>1. collected' = RowsOf(rows) /\ pc' = "collected"
      BY <2>1, <2>4 DEF RowsOf
    <3>2. collected' = RowsOf(rows)'
      BY <1>3, <3>1, SameRows
    <3>3. ASSUME Rowwise(query) PROVE NoNegative(query) /\ CollectedSo'
      <4>1. PICK n \in Nat : \E p : CollectsAs(p, n, rows)
        BY <2>2, <3>3
      <4>2. PICK p : CollectsAs(p, n, rows)
        BY <4>1
      <4>3. CollectsAs(p, n, rows)'
        BY <1>3, <4>2, SameRows
      <4> QED BY <2>2, <3>2, <3>3, <4>3 DEF CollectedSo
    <3>4. ResultAsPostgres'
      BY <3>1 DEF ResultAsPostgres
    <3> QED BY <1>3, <1>4, <3>3, <3>4
  <2> QED BY <2>3, <2>4
<1> QED BY <1>5, <1>6

LEMMA RowSteady ==
  ASSUME RowInv, UNCHANGED <<query, table, verdict, plan, collected>>,
         pc' = pc \/ (pc = "collected" /\ pc' = "judged"), pc' # "done"
  PROVE  /\ VerdictTyped'
         /\ (pc \in {"planned", "collected", "judged"})' => PlanIs'
         /\ (pc \in {"collected", "judged"} /\ Rowwise(query))' => NoNegative(query)' /\ CollectedSo'
         /\ Rowwise(query)' => ResultAsPostgres'
<1>1. VerdictTyped' /\ (PlanIs => PlanIs')
  BY SameRows DEF RowInv
<1>2. CollectedSo => CollectedSo'
  <2>1. ASSUME CollectedSo PROVE CollectedSo'
    <3>1. PICK n \in Nat : \E p, rows : CollectsAs(p, n, rows) /\ collected = RowsOf(rows)
      BY <2>1 DEF CollectedSo
    <3>2. PICK p, rows : CollectsAs(p, n, rows) /\ collected = RowsOf(rows)
      BY <3>1
    <3>3. CollectsAs(p, n, rows)' /\ collected' = RowsOf(rows)'
      BY <3>2, SameRows
    <3> QED BY <3>3 DEF CollectedSo
  <2> QED BY <2>1
<1>3. ResultAsPostgres'
  BY DEF ResultAsPostgres
<1> QED BY <1>1, <1>2, <1>3 DEF RowInv

LEMMA RowProject ==
  ASSUME RowInv, Project
  PROVE  VerdictTyped' /\ pc' = "done" /\ (Rowwise(query)' => ResultAsPostgres')
<1>1. /\ query \in Statements /\ table \in Seq(Rows) /\ VerdictTyped
      /\ pc = "judged" /\ PlanIs /\ pc' = "done"
  BY DEF RowInv, Inv, Fed, Project, Failed
<1>2. WellLaid
  BY <1>1 DEF RowInv, Inv, PlanFirst, Planned
<1>3. UNCHANGED <<query, table, verdict, plan>>
  BY DEF Project
<1>4. VerdictTyped'
  BY <1>1, <1>3, SameRows
<1>5. ASSUME Rowwise(query) PROVE ResultAsPostgres'
  <2>1. NoNegative(query) /\ CollectedSo
    BY <1>1, <1>5 DEF RowInv
  <2>2. Given
    BY <1>1, <1>2, <1>5, <2>1, GivenOf
  <2>3. plan.grouped = FALSE
    BY <2>2 DEF Given, Right
  <2>4. \A n : ~Panics(n)
    <3>1. query.limit \in Seq(Int) /\ query.offset \in Seq(Int)
      BY <1>1 DEF Statements
    <3>2. \A s \in Seq(Int) : s # <<>> => s[1] \in Range(s) /\ s[1] \in Int
      <4>1. \A s \in Seq(Int) : s # <<>> => 1 \in DOMAIN s /\ s[1] \in Int
        OBVIOUS
      <4> QED BY <4>1 DEF Range
    <3>3. query.offset # <<>> => query.offset[1] >= 0 /\ query.offset[1] \in Int
      BY <2>1, <3>1, <3>2 DEF NoNegative
    <3>4. query.limit # <<>> => query.limit[1] >= 0 /\ query.limit[1] \in Int
      BY <2>1, <3>1, <3>2 DEF NoNegative
    <3> QED BY <3>3, <3>4 DEF Panics
  <2>5. out' = [err |-> "", rows |-> ShownRows]
    BY <2>3, <2>4 DEF Project, ShownRows
  <2>6. out'.err = "" /\ out'.rows = ShownRows
    BY <2>5
  <2>7. PICK n \in Nat : \E p, rows : CollectsAs(p, n, rows) /\ collected = RowsOf(rows)
    BY <2>1 DEF CollectedSo
  <2>8. PICK p, rows : CollectsAs(p, n, rows) /\ collected = RowsOf(rows)
    BY <2>7
  <2>9. IsResult(query, table, verdict, ShownRows)
    <3>1. CASE plan.serverOrder
      BY <2>2, <2>8, <3>1, ServerShows DEF RowsOf
    <3>2. CASE ~plan.serverOrder
      BY <2>2, <2>8, <3>2, SortedShows DEF RowsOf
    <3> QED BY <3>1, <3>2
  <2>10. Legal(query) /\ Supported(query)
    BY <1>1, <1>5, <2>1, PlanIsLegal
  <2> QED BY <1>3, <2>6, <2>9, <2>10 DEF ResultAsPostgres
<1> QED BY <1>1, <1>3, <1>4, <1>5

LEMMA RowInvariant == Spec => []RowInv
<1>1. RowInv /\ [Next]_vars => RowInv'
  <2> SUFFICES ASSUME RowInv, [Next]_vars PROVE RowInv'
    OBVIOUS
  <2>1. Inv'
    BY StepPreserves DEF RowInv
  <2>2. CASE Analyze
    BY <2>1, <2>2, RowAnalyze DEF RowInv
  <2>3. CASE Collect
    BY <2>1, <2>3, RowCollect DEF RowInv
  <2>4. CASE ExplainQuery
    <3>1. UNCHANGED <<query, table, verdict, plan, collected>> /\ pc' = pc /\ pc' # "done"
      BY <2>4 DEF ExplainQuery
    <3> QED BY <2>1, <3>1, RowSteady DEF RowInv
  <2>5. CASE Judge
    <3>1. UNCHANGED <<query, table, verdict, plan, collected>> /\ pc = "collected" /\ pc' = "judged"
      BY <2>5 DEF Judge
    <3> QED BY <2>1, <3>1, RowSteady DEF RowInv
  <2>6. CASE Project
    BY <2>1, <2>6, RowProject DEF RowInv
  <2>7. CASE UNCHANGED vars
    <3>1. UNCHANGED <<query, table, verdict, maxRows, pc, plan, collected, out>>
      BY <2>7 DEF vars
    <3>2. CASE pc # "done"
      BY <2>1, <3>1, <3>2, RowSteady DEF RowInv
    <3>3. CASE pc = "done"
      <4>1. VerdictTyped'
        BY <3>1, SameRows DEF RowInv
      <4>2. FilteredRows' = FilteredRows
        BY <3>1, SamePlan
      <4>3. Rowwise(query)' => ResultAsPostgres'
        BY <3>1, <4>2 DEF RowInv, ResultAsPostgres
      <4> QED BY <2>1, <3>1, <3>3, <4>1, <4>3 DEF RowInv
    <3> QED BY <3>2, <3>3
  <2> QED BY <2>2, <2>3, <2>4, <2>5, <2>6, <2>7 DEF Next, Finished
<1> QED BY <1>1, InitRow, PTL DEF Spec

\* The three passes together return rows that Postgres could return, for every
\* statement of which every row is a line (Rowwise), every table, whatever the
\* service says: analyze.go finds for each ORDER BY key what it means, rewrite.go
\* collects the columns each target needs, in places that shift with the targets
\* before it, and leaves the order and the slice to Postgres when it may, and
\* exec.go filters, sorts and slices as Postgres does when it may not.  A
\* statement is refused only if Postgres or jevql's documented limits refuse it,
\* or it writes one call twice.
THEOREM RowsAsPostgres == Spec => [](Rowwise(query) => ResultAsPostgres)
<1>1. RowInv => (Rowwise(query) => ResultAsPostgres)
  BY DEF RowInv
<1> QED BY <1>1, RowInvariant, PTL
=============================================================================
