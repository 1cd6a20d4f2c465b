---------------------------- MODULE ServiceProofs ----------------------------
(* Theorems about Service, for every number of slots, every set of requests, *)
(* every burst, refill and size of the limiter's map.                        *)
EXTENDS Service, FiniteSetTheorems, TLAPS

Phases == {"idle", "waiting", "running", "replying", "done", "silent"}

Admission == [client : Clients, at : 0 .. clock, flushes : 0 .. flushes]
Bucket == [tokens : 0 .. Burst, last : 0 .. clock]

LimiterType ==
  /\ clock \in Nat /\ flushes \in Nat
  /\ DOMAIN buckets \subseteq Clients /\ IsFiniteSet(DOMAIN buckets)
  /\ buckets \in [DOMAIN buckets -> Bucket]
  /\ admitted \in Seq(Admission)

Effects == {"catalog", "judged", "wrote", "ran", "planned", "cleared"}

RequestType ==
  /\ req \in [Slots -> Requests \cup {<<>>}]
  /\ phase \in [Slots -> Phases]
  /\ hungUp \in [Slots -> BOOLEAN]
  /\ mutex \in [{"http", "mcp", "go"} -> Slots \cup {0}]
  /\ used = [s \in Slots |-> used[s]]
  /\ did \in [Slots -> SUBSET Effects]

TypeOK == LimiterType /\ RequestType
-----------------------------------------------------------------------------
(* The token bucket *)

\* What client c got through since its admission i.
Since(i, c) == {k \in i .. Len(admitted) : admitted[k].client = c}

\* What a client got through since an admission of its, with what its bucket
\* holds, is within its burst and the refill up to the bucket's last use, and a
\* burst for each time the buckets were forgotten.  A client that is forgotten
\* has not used the burst its return will give it.
Balanced(i, a) ==
  LET spent == Cardinality(Since(i, a.client))
  IN  IF Known(a.client)
        THEN spent + buckets[a.client].tokens
               <= Burst * (1 + (flushes - a.flushes)) + Rate * (buckets[a.client].last - a.at)
        ELSE spent <= Burst * (flushes - a.flushes) + Rate * (clock - a.at)

Ledger == \A i \in DOMAIN admitted : \A a \in Admission : a = admitted[i] => Balanced(i, a)

LimiterInv == LimiterType /\ RateBounded /\ Ledger

LEMMA TimesMonotonic ==
  ASSUME NEW b \in Nat, NEW m \in Int, NEW n \in Int, m <= n
  PROVE  b * m \in Int /\ b * n \in Int /\ b * m <= b * n
OBVIOUS

LEMMA TimesOneMore ==
  ASSUME NEW b \in Nat, NEW n \in Int
  PROVE  b * (1 + n) = b + b * n
OBVIOUS

LEMMA SinceFinite ==
  ASSUME admitted \in Seq(Admission), NEW i \in DOMAIN admitted, NEW c
  PROVE  IsFiniteSet(Since(i, c)) /\ Cardinality(Since(i, c)) \in Nat
<1>1. Since(i, c) \subseteq 1 .. Len(admitted)  BY DEF Since
<1>2. IsFiniteSet(1 .. Len(admitted))  BY FS_Interval
<1>3. QED  BY <1>1, <1>2, FS_Subset, FS_CardinalityType

\* One admission more is counted for its client and for no other.
LEMMA SinceAppend ==
  ASSUME LimiterType, NEW a \in Admission', admitted' = Append(admitted, a),
         NEW i \in DOMAIN admitted, NEW c
  PROVE  Cardinality(Since(i, c)') =
           Cardinality(Since(i, c)) + (IF a.client = c THEN 1 ELSE 0)
<1> DEFINE n == Len(admitted)
<1>1. n \in Nat /\ i \in 1 .. n /\ Len(admitted') = n + 1 /\ admitted'[n + 1] = a
      /\ \A k \in 1 .. n : admitted'[k] = admitted[k]
  BY DEF LimiterType
<1>2. Since(i, c)' = Since(i, c) \cup (IF a.client = c THEN {n + 1} ELSE {})
  BY <1>1 DEF Since
<1>3. n + 1 \notin Since(i, c)  BY <1>1 DEF Since
<1>4. IsFiniteSet(Since(i, c)) /\ Cardinality(Since(i, c)) \in Nat
  BY SinceFinite DEF LimiterType
<1>5. CASE a.client = c
  <2>1. Since(i, c)' = Since(i, c) \cup {n + 1}  BY <1>2, <1>5
  <2>2. QED  BY <2>1, <1>3, <1>4, <1>5, FS_AddElement
<1>6. CASE a.client # c
  <2>1. Since(i, c)' = Since(i, c)  BY <1>2, <1>6
  <2>2. QED  BY <2>1, <1>4, <1>6
<1>7. QED  BY <1>5, <1>6

\* Tokens never exceed the burst, and no step of the clock takes any away.
LEMMA TokensType ==
  ASSUME LimiterType, NEW key
  PROVE  /\ Tokens(key) \in 0 .. Burst
         /\ Known(key) => Tokens(key) <= buckets[key].tokens + (clock - buckets[key].last) * Rate
<1>1. CASE ~Known(key)  BY <1>1, LimiterParameters DEF Tokens
<1>2. CASE Known(key)
  <2> DEFINE t == buckets[key].tokens
             gain == (clock - buckets[key].last) * Rate
  <2>1. t \in 0 .. Burst /\ buckets[key].last \in 0 .. clock  BY <1>2 DEF Known, LimiterType, Bucket
  <2>2. clock - buckets[key].last \in Nat  BY <2>1 DEF LimiterType
  <2>3. gain \in Nat  BY <2>2, LimiterParameters
  <2>4. Tokens(key) = Least(t + gain, Burst)  BY <1>2 DEF Tokens
  <2> HIDE DEF t, gain
  <2>5. Tokens(key) \in 0 .. Burst /\ Tokens(key) <= t + gain
    BY <2>1, <2>3, <2>4, LimiterParameters DEF Least
  <2>6. QED  BY <2>5 DEF t, gain
<1>3. QED  BY <1>1, <1>2

\* What a client's bucket would hold now keeps the ledger balanced.
LEMMA LedgerNow ==
  ASSUME LimiterInv, NEW i \in DOMAIN admitted, NEW a \in Admission, a = admitted[i]
  PROVE  Cardinality(Since(i, a.client)) + Tokens(a.client)
           <= Burst * (1 + (flushes - a.flushes)) + Rate * (clock - a.at)
<1> DEFINE c == a.client
           spent == Cardinality(Since(i, c))
           f == flushes - a.flushes
<1>2. a.at \in Nat /\ clock \in Nat /\ f \in Nat  BY DEF Admission, LimiterInv, LimiterType
<1>3. spent \in Nat  BY SinceFinite DEF LimiterInv, LimiterType
<1>4. Tokens(c) \in Nat  BY TokensType, LimiterParameters DEF LimiterInv
<1>5. CASE Known(c)
  <2> DEFINE last == buckets[c].last
             t == buckets[c].tokens
  <2>1. t \in Nat /\ last \in Nat  BY <1>5, LimiterParameters DEF Known, LimiterInv, LimiterType, Bucket
  <2>2. Tokens(c) <= t + (clock - last) * Rate  BY <1>5, TokensType DEF LimiterInv
  <2>3. spent + t <= Burst * (1 + f) + Rate * (last - a.at)  BY <1>5 DEF LimiterInv, Ledger, Balanced
  <2>4. Rate * (last - a.at) + (clock - last) * Rate = Rate * (clock - a.at)
    BY <2>1, <1>2, LimiterParameters
  <2>5. /\ Burst * (1 + f) \in Int /\ Rate * (last - a.at) \in Int /\ (clock - last) * Rate \in Int
    BY <2>1, <1>2, LimiterParameters
  <2> HIDE DEF c, f, last, t, spent
  <2>6. QED  BY <1>3, <1>4, <2>1, <2>2, <2>3, <2>4, <2>5 DEF c, f, spent
<1>6. CASE ~Known(c)
  <2>1. spent <= Burst * f + Rate * (clock - a.at)  BY <1>6 DEF LimiterInv, Ledger, Balanced
  <2>2. Tokens(c) = Burst  BY <1>6 DEF Tokens
  <2>3. Burst * (1 + f) = Burst + Burst * f  BY <1>2, TimesOneMore, LimiterParameters
  <2>4. Burst * f \in Int /\ Rate * (clock - a.at) \in Int  BY <1>2, LimiterParameters
  <2> HIDE DEF c, f, spent
  <2>5. QED  BY <1>3, <1>4, <2>1, <2>2, <2>3, <2>4, LimiterParameters DEF c, f, spent
<1>7. QED  BY <1>5, <1>6

\* What allow does to the bucket of its client and leaves to the others.
LEMMA AllowBuckets ==
  ASSUME LimiterType, NEW key \in Clients, Allow(key), UNCHANGED clock
  PROVE  /\ DOMAIN buckets' = IF Overfull(key) THEN {key} ELSE DOMAIN buckets \cup {key}
         /\ buckets'[key] = [tokens |-> IF Allowed(key) THEN Tokens(key) - 1 ELSE Tokens(key), last |-> clock]
         /\ \A c \in DOMAIN buckets' \ {key} : c \in DOMAIN buckets /\ buckets'[c] = buckets[c]
         /\ buckets' \in [DOMAIN buckets' -> Bucket]
         /\ flushes' = IF Overfull(key) THEN flushes + 1 ELSE flushes
         /\ admitted' = IF Allowed(key)
                         THEN Append(admitted, [client |-> key, at |-> clock, flushes |-> flushes'])
                         ELSE admitted
<1> DEFINE kept == IF Overfull(key) THEN {key} ELSE DOMAIN buckets \cup {key}
           left == IF Allowed(key) THEN Tokens(key) - 1 ELSE Tokens(key)
           b == [tokens |-> left, last |-> clock]
<1>1. buckets' = [c \in kept |-> IF c = key THEN b ELSE buckets[c]]  BY DEF Allow
<1>2. left \in 0 .. Burst  BY TokensType, LimiterParameters DEF Allowed
<1>3. b \in Bucket'  BY <1>2 DEF Bucket, LimiterType
<1>4. \A c \in kept : c # key => c \in DOMAIN buckets  OBVIOUS
<1>5. \A c \in DOMAIN buckets : buckets[c] \in Bucket'  BY DEF Bucket, LimiterType
<1>6. flushes' = IF Overfull(key) THEN flushes + 1 ELSE flushes  BY DEF Allow
<1>7. admitted' = IF Allowed(key)
                    THEN Append(admitted, [client |-> key, at |-> clock, flushes |-> flushes'])
                    ELSE admitted
  BY DEF Allow
<1>8. Bucket' = Bucket  BY DEF Bucket
<1> HIDE DEF b, left
<1>9. /\ DOMAIN buckets' = kept /\ buckets'[key] = b
      /\ \A c \in kept \ {key} : c \in DOMAIN buckets /\ buckets'[c] = buckets[c]
      /\ \A c \in kept : buckets'[c] \in Bucket
  BY <1>1, <1>3, <1>4, <1>5, <1>8
<1>10. buckets' = [c \in DOMAIN buckets' |-> buckets'[c]]  BY <1>1
<1>11. QED  BY <1>6, <1>7, <1>9, <1>10 DEF b, left

LEMMA AllowType ==
  ASSUME LimiterType, NEW key \in Clients, Allow(key), UNCHANGED clock
  PROVE  LimiterType' /\ flushes' \in {flushes, flushes + 1}
<1>0. /\ DOMAIN buckets' = IF Overfull(key) THEN {key} ELSE DOMAIN buckets \cup {key}
      /\ buckets'[key] = [tokens |-> IF Allowed(key) THEN Tokens(key) - 1 ELSE Tokens(key), last |-> clock]
      /\ \A c \in DOMAIN buckets' \ {key} : c \in DOMAIN buckets /\ buckets'[c] = buckets[c]
      /\ buckets' \in [DOMAIN buckets' -> Bucket]
      /\ flushes' = IF Overfull(key) THEN flushes + 1 ELSE flushes
      /\ admitted' = IF Allowed(key)
                      THEN Append(admitted, [client |-> key, at |-> clock, flushes |-> flushes'])
                      ELSE admitted
  BY AllowBuckets
<1>1. flushes' \in {flushes, flushes + 1} /\ flushes' \in Nat
  BY <1>0 DEF LimiterType
<1>2. IsFiniteSet(DOMAIN buckets \cup {key}) /\ IsFiniteSet({key})
  BY FS_AddElement, FS_Singleton DEF LimiterType
<1>3. DOMAIN buckets' \subseteq Clients /\ IsFiniteSet(DOMAIN buckets')
  BY <1>0, <1>2 DEF LimiterType
<1>4. buckets' \in [DOMAIN buckets' -> Bucket']  BY <1>0 DEF Bucket
<1>5. Admission \subseteq Admission'  BY <1>1 DEF Admission, LimiterType
<1>6. admitted \in Seq(Admission')  BY <1>5 DEF LimiterType
<1>7. [client |-> key, at |-> clock, flushes |-> flushes'] \in Admission'
  BY <1>1 DEF Admission, LimiterType
<1>8. admitted' \in Seq(Admission')  BY <1>0, <1>6, <1>7
<1>9. QED  BY <1>1, <1>3, <1>4, <1>8 DEF LimiterType

LEMMA AllowBound ==
  ASSUME LimiterInv, NEW key \in Clients, Allow(key), UNCHANGED clock
  PROVE  Cardinality(DOMAIN buckets') <= MaxBuckets
<1>1. IsFiniteSet(DOMAIN buckets) /\ Cardinality(DOMAIN buckets) \in Nat
      /\ Cardinality(DOMAIN buckets) <= MaxBuckets
  BY FS_CardinalityType DEF LimiterInv, LimiterType, RateBounded
<1>2. Cardinality({key}) = 1  BY FS_Singleton
<1>3. Cardinality(DOMAIN buckets \cup {key}) =
        IF key \in DOMAIN buckets THEN Cardinality(DOMAIN buckets) ELSE Cardinality(DOMAIN buckets) + 1
  BY <1>1, FS_AddElement
<1>4. DOMAIN buckets' = IF Overfull(key) THEN {key} ELSE DOMAIN buckets \cup {key}
  BY AllowBuckets DEF LimiterInv
<1>5. CASE Overfull(key)  BY <1>2, <1>4, <1>5, LimiterParameters
<1>6. CASE ~Overfull(key)  BY <1>1, <1>3, <1>4, <1>6, LimiterParameters DEF Overfull, Known
<1>7. QED  BY <1>5, <1>6

\* The entries made before keep the ledger.
LEMMA AllowOldEntries ==
  ASSUME LimiterInv, NEW key \in Clients, Allow(key), UNCHANGED clock,
         NEW i \in DOMAIN admitted, NEW a \in Admission, a = admitted[i]
  PROVE  Balanced(i, a)'
<1> DEFINE c == a.client
           old == Cardinality(Since(i, c))
           spent == Cardinality(Since(i, c)')
           f == flushes - a.flushes
           g == flushes' - a.flushes
           time == clock - a.at
<1>0. /\ DOMAIN buckets' = IF Overfull(key) THEN {key} ELSE DOMAIN buckets \cup {key}
      /\ buckets'[key] = [tokens |-> IF Allowed(key) THEN Tokens(key) - 1 ELSE Tokens(key), last |-> clock]
      /\ \A o \in DOMAIN buckets' \ {key} : o \in DOMAIN buckets /\ buckets'[o] = buckets[o]
      /\ buckets' \in [DOMAIN buckets' -> Bucket]
      /\ flushes' = IF Overfull(key) THEN flushes + 1 ELSE flushes
      /\ admitted' = IF Allowed(key)
                      THEN Append(admitted, [client |-> key, at |-> clock, flushes |-> flushes'])
                      ELSE admitted
  BY AllowBuckets DEF LimiterInv
<1>2. flushes' \in {flushes, flushes + 1} /\ LimiterType  BY AllowType DEF LimiterInv
<1>3. time \in Nat /\ f \in Nat /\ g \in {f, f + 1}
  BY <1>2 DEF Admission, LimiterType
<1>4. old \in Nat  BY SinceFinite DEF LimiterInv, LimiterType
<1>5. spent = old + (IF Allowed(key) /\ key = c THEN 1 ELSE 0)
  <2>1. CASE Allowed(key)
    <3> DEFINE e == [client |-> key, at |-> clock, flushes |-> flushes']
    <3>1. e \in Admission' /\ e.client = key  BY <1>2 DEF Admission, LimiterType
    <3>2. admitted' = Append(admitted, e)  BY <1>0, <1>2, <2>1
    <3> HIDE DEF e
    <3>3. QED  BY <1>2, <2>1, <3>1, <3>2, SinceAppend
  <2>2. CASE ~Allowed(key)
    <3>1. admitted' = admitted  BY <1>0, <1>2, <2>2
    <3>2. Since(i, c)' = Since(i, c)  BY <3>1 DEF Since
    <3>3. QED  BY <1>4, <2>2, <3>2
  <2>3. QED  BY <2>1, <2>2
<1>6. Burst \in Nat /\ Rate \in Nat  BY LimiterParameters
<1>7. Burst * (1 + f) <= Burst * (1 + g) /\ Burst * f <= Burst * g
      /\ Burst * (1 + f) \in Int /\ Burst * (1 + g) \in Int /\ Burst * f \in Int /\ Burst * g \in Int
  BY <1>3, <1>6, TimesMonotonic
<1>8. CASE c = key
  <2>1. old + Tokens(c) <= Burst * (1 + f) + Rate * time  BY LedgerNow
  <2>2. Tokens(c) \in Nat  BY <1>2, <1>6, TokensType
  <2>3. Known(c)'  BY <1>0, <1>2, <1>8 DEF Known
  <2>4. /\ buckets'[c].last = clock
        /\ buckets'[c].tokens = IF Allowed(key) THEN Tokens(c) - 1 ELSE Tokens(c)
    BY <1>0, <1>2, <1>8
  <2>5. spent + buckets'[c].tokens = old + Tokens(c)  BY <1>4, <1>5, <1>8, <2>2, <2>4
  <2>6. Rate * time \in Int  BY <1>3, <1>6
  <2>7. spent + buckets'[c].tokens <= Burst * (1 + g) + Rate * time
    <3> HIDE DEF spent, old, c, f, g, time
    <3>1. QED  BY <1>4, <1>7, <2>1, <2>2, <2>5, <2>6
  <2>8. QED  BY <2>3, <2>4, <2>7 DEF Balanced
<1>9. CASE c # key
  <2>1. spent = old  BY <1>4, <1>5, <1>9
  <2>2. CASE Known(c)'
    <3>1. Known(c) /\ buckets'[c] = buckets[c]  BY <1>0, <1>2, <1>9, <2>2 DEF Known
    <3>2. buckets[c].tokens \in Nat /\ Rate * (buckets[c].last - a.at) \in Int
      BY SMTT(30), <1>2, <1>6, <3>1 DEF Known, LimiterType, Bucket, Admission
    <3>3. old + buckets[c].tokens <= Burst * (1 + f) + Rate * (buckets[c].last - a.at)
      BY <3>1 DEF LimiterInv, Ledger, Balanced
    <3>4. spent + buckets'[c].tokens <= Burst * (1 + g) + Rate * (buckets'[c].last - a.at)
      <4> HIDE DEF spent, old, c, f, g
      <4>1. QED  BY <1>4, <1>7, <2>1, <3>1, <3>2, <3>3
    <3>5. QED  BY <2>2, <3>4 DEF Balanced
  <2>3. CASE ~Known(c)' /\ Known(c)
    <3>0. Overfull(key)  BY <1>0, <1>9, <2>3 DEF Known
    <3>1. g = f + 1  BY <1>0, <1>2, <3>0 DEF Admission, LimiterType
    <3>2. Tokens(c) \in Nat /\ Rate * time \in Int  BY <1>2, <1>3, <1>6, TokensType
    <3>3. old + Tokens(c) <= Burst * (1 + f) + Rate * time  BY LedgerNow
    <3>4. spent <= Burst * g + Rate * time
      <4> HIDE DEF spent, old, c, f, g, time
      <4>1. 1 + f = g  BY <1>3, <3>1
      <4>2. QED  BY <1>4, <1>7, <2>1, <4>1, <3>2, <3>3
    <3>5. QED  BY <2>3, <3>4 DEF Balanced
  <2>4. CASE ~Known(c)' /\ ~Known(c)
    <3>1. old <= Burst * f + Rate * time  BY <2>4 DEF LimiterInv, Ledger, Balanced
    <3>2. Rate * time \in Int  BY <1>3, <1>6
    <3>3. spent <= Burst * g + Rate * time
      <4> HIDE DEF spent, old, c, f, g, time
      <4>1. QED  BY <1>4, <1>7, <2>1, <3>1, <3>2
    <3>4. QED  BY <2>4, <3>3 DEF Balanced
  <2>5. QED  BY <2>2, <2>3, <2>4
<1>10. QED  BY <1>8, <1>9

\* What is there of admitted afterwards.
LEMMA AllowAdmitted ==
  ASSUME LimiterType, NEW key \in Clients, Allow(key), UNCHANGED clock
  PROVE  LET n == Len(admitted)
         IN  /\ n \in Nat /\ DOMAIN admitted = 1 .. n
             /\ \A k \in 1 .. n : admitted'[k] = admitted[k]
             /\ ~Allowed(key) => admitted' = admitted
             /\ Allowed(key) => /\ Len(admitted') = n + 1 /\ DOMAIN admitted' = 1 .. n + 1
                                /\ admitted'[n + 1] = [client |-> key, at |-> clock, flushes |-> flushes']
<1> DEFINE e == [client |-> key, at |-> clock, flushes |-> flushes']
<1>1. admitted' = IF Allowed(key) THEN Append(admitted, e) ELSE admitted  BY AllowBuckets
<1>2. admitted \in Seq(Admission)  BY DEF LimiterType
<1> HIDE DEF e
<1>3. QED  BY <1>1, <1>2 DEF e

LEMMA AllowLedger ==
  ASSUME LimiterInv, NEW key \in Clients, Allow(key), UNCHANGED clock
  PROVE  Ledger'
<1>1. /\ LimiterType /\ LimiterType'
      /\ buckets'[key] = [tokens |-> IF Allowed(key) THEN Tokens(key) - 1 ELSE Tokens(key), last |-> clock]
      /\ key \in DOMAIN buckets'
  BY AllowBuckets, AllowType DEF LimiterInv
<1>2. PICK n : n = Len(admitted)  OBVIOUS
<1>3.  /\ n \in Nat /\ DOMAIN admitted = 1 .. n
       /\ \A k \in 1 .. n : admitted'[k] = admitted[k]
       /\ ~Allowed(key) => admitted' = admitted
       /\ Allowed(key) => /\ Len(admitted') = n + 1 /\ DOMAIN admitted' = 1 .. n + 1
                          /\ admitted'[n + 1] = [client |-> key, at |-> clock, flushes |-> flushes']
  BY <1>1, <1>2, AllowAdmitted
<1>4. Admission' \cap {admitted[i] : i \in DOMAIN admitted} \subseteq Admission
  BY <1>1 DEF LimiterType
<1>5. ASSUME NEW i \in DOMAIN admitted, NEW a \in Admission', a = admitted'[i]
      PROVE  Balanced(i, a)'
  <2>1. a = admitted[i] /\ a \in Admission  BY <1>3, <1>4, <1>5
  <2>2. QED  BY <2>1, AllowOldEntries
<1>6. CASE ~Allowed(key)
  <2>1. DOMAIN admitted' = DOMAIN admitted  BY <1>3, <1>6
  <2>2. QED  BY <1>5, <2>1 DEF Ledger
<1>7. CASE Allowed(key)
  <2> DEFINE e == [client |-> key, at |-> clock, flushes |-> flushes']
  <2>1. /\ n \in Nat /\ DOMAIN admitted' = DOMAIN admitted \cup {n + 1}
        /\ admitted'[n + 1] = e /\ Len(admitted') = n + 1
    BY <1>3, <1>7
  <2>2. Since(n + 1, key)' = {n + 1}  BY <2>1 DEF Since
  <2>3. Cardinality({n + 1}) = 1  BY FS_Singleton
  <2>4. Tokens(key) \in 0 .. Burst  BY <1>1, TokensType
  <2>5. Known(key)' /\ buckets'[key].last = clock /\ buckets'[key].tokens = Tokens(key) - 1
    BY <1>1, <1>7 DEF Known
  <2>6. flushes' \in Nat /\ clock \in Nat  BY <1>1 DEF LimiterType
  <2>7. \A m \in Nat : Burst * (1 + (m - m)) = Burst /\ Rate * (m - m) = 0
    BY LimiterParameters
  <2>8. ASSUME NEW a, a = e  PROVE Balanced(n + 1, a)'
    <3>1. a.client = key /\ a.flushes = flushes' /\ a.at = clock  BY <2>8
    <3>2. Since(n + 1, a.client)' = {n + 1} /\ Known(a.client)'  BY <2>2, <2>5, <3>1 DEF Since, Known
    <3>3. Cardinality(Since(n + 1, a.client)') + buckets'[a.client].tokens <= Burst
      BY <2>3, <2>4, <2>5, <3>1, <3>2, LimiterParameters
    <3>4. Burst * (1 + (flushes' - a.flushes)) + Rate * (buckets'[a.client].last - a.at) = Burst
      <4>1. a.flushes \in Nat /\ a.at \in Nat  BY <2>6, <3>1
      <4>2. buckets'[a.client].last = a.at /\ flushes' = a.flushes  BY <2>5, <3>1
      <4>3. Burst * (1 + (a.flushes - a.flushes)) = Burst /\ Rate * (a.at - a.at) = 0
        BY <4>1, <2>7
      <4>4. QED  BY <4>2, <4>3, LimiterParameters
    <3>5. QED  BY <3>2, <3>3, <3>4 DEF Balanced
  <2>9. QED  BY <1>5, <2>1, <2>8 DEF Ledger
<1>8. QED  BY <1>6, <1>7

\* The property of two admissions, from the ledger of the first when the
\* second was made.
LEMMA AllowPairs ==
  ASSUME LimiterInv, NEW key \in Clients, Allow(key), UNCHANGED clock
  PROVE  RateBounded'
<1>1. /\ LimiterType /\ LimiterType'
      /\ buckets'[key] = [tokens |-> IF Allowed(key) THEN Tokens(key) - 1 ELSE Tokens(key), last |-> clock]
      /\ key \in DOMAIN buckets'
  BY AllowBuckets, AllowType DEF LimiterInv
<1>4. Cardinality(DOMAIN buckets') <= MaxBuckets  BY AllowBound
<1> DEFINE Mine(i, j) == {k \in i .. j : admitted'[k].client = admitted'[i].client}
           Pair(i, j) == Cardinality(Mine(i, j)) <=
                           Burst * (1 + (admitted'[j].flushes - admitted'[i].flushes))
                             + Rate * (admitted'[j].at - admitted'[i].at)
<1>2. PICK n : n = Len(admitted)  OBVIOUS
<1>3.  /\ n \in Nat /\ DOMAIN admitted = 1 .. n
       /\ \A k \in 1 .. n : admitted'[k] = admitted[k]
       /\ ~Allowed(key) => admitted' = admitted
       /\ Allowed(key) => /\ Len(admitted') = n + 1 /\ DOMAIN admitted' = 1 .. n + 1
                          /\ admitted'[n + 1] = [client |-> key, at |-> clock, flushes |-> flushes']
  BY <1>1, <1>2, AllowAdmitted
<1>5. ASSUME NEW i \in DOMAIN admitted', NEW j \in DOMAIN admitted', i <= j,
             admitted'[i].client = admitted'[j].client
      PROVE  Pair(i, j)
  <2>2. CASE j \in DOMAIN admitted
    <3>1. i \in 1 .. n /\ j \in 1 .. n /\ \A k \in 1 .. n : admitted'[k] = admitted[k]
      BY <1>3, <1>5, <2>2
    <3>2. Mine(i, j) = {k \in i .. j : admitted[k].client = admitted[i].client}
      BY <1>3, <3>1
    <3>3. QED  BY <1>3, <1>5, <3>1, <3>2 DEF LimiterInv, RateBounded
  <2>3. CASE j \notin DOMAIN admitted
    <3>1. Allowed(key) /\ j = n + 1 /\ Len(admitted') = j
          /\ admitted'[j] = [client |-> key, at |-> clock, flushes |-> flushes']
      BY <1>3, <2>3
    <3>2. PICK a \in Admission' : a = admitted'[i]  BY <1>1 DEF LimiterType
    <3> DEFINE paid == Burst * (1 + (flushes' - a.flushes)) + Rate * (clock - a.at)
               spent == Cardinality(Mine(i, j))
    <3>3. a.client = key  BY <1>5, <3>1, <3>2
    <3>4. Mine(i, j) = Since(i, key)'  BY <1>5, <3>1, <3>2, <3>3 DEF Since
    <3>5. Known(key)' /\ buckets'[key].last = clock  BY <1>1 DEF Known
    <3>6. buckets'[key].tokens \in Nat
      BY <1>1, LimiterParameters DEF LimiterType, Bucket
    <3>7. Balanced(i, a)'  BY <3>2, AllowLedger DEF Ledger
    <3>8. spent + buckets'[key].tokens <= paid
      BY <3>3, <3>4, <3>5, <3>7 DEF Balanced
    <3>9. paid \in Int
      BY <1>1, LimiterParameters DEF Admission, LimiterType
    <3>10. spent \in Nat
      <4>1. Mine(i, j) \subseteq i .. j /\ i \in Int /\ j \in Int  BY <1>3, <3>1
      <4>2. QED  BY <4>1, FS_Interval, FS_Subset, FS_CardinalityType
    <3>11. Pair(i, j) <=> spent <= paid  BY <3>1, <3>2
    <3> HIDE DEF spent, paid
    <3>12. spent <= paid  BY <3>6, <3>8, <3>9, <3>10
    <3>13. QED  BY <3>11, <3>12
  <2>4. QED  BY <2>2, <2>3
<1>6. QED  BY <1>4, <1>5 DEF RateBounded

LEMMA AllowInv ==
  ASSUME LimiterInv, NEW key \in Clients, Allow(key), UNCHANGED clock
  PROVE  LimiterInv'
BY AllowType, AllowLedger, AllowPairs DEF LimiterInv

LEMMA TickInv ==
  ASSUME LimiterInv, UNCHANGED limiter, clock' = clock + 1
  PROVE  LimiterInv'
<1>1. clock \in Nat /\ Admission \subseteq Admission' /\ Bucket \subseteq Bucket'
  BY DEF LimiterInv, LimiterType, Admission, Bucket, limiter
<1>2. LimiterType'
  <2>1. admitted \in Seq(Admission')  BY <1>1 DEF LimiterInv, LimiterType
  <2>2. buckets \in [DOMAIN buckets -> Bucket']  BY <1>1 DEF LimiterInv, LimiterType
  <2>3. QED  BY <1>1, <2>1, <2>2 DEF LimiterInv, LimiterType, limiter
<1>3. RateBounded'  BY DEF LimiterInv, RateBounded, limiter
<1>4. ASSUME NEW i \in DOMAIN admitted, NEW a \in Admission, a = admitted[i]
      PROVE  Balanced(i, a)'
  <2> DEFINE spent == Cardinality(Since(i, a.client))
             gone == Burst * (flushes - a.flushes)
             time == clock - a.at
  <2>1. Since(i, a.client)' = Since(i, a.client) /\ Balanced(i, a)
    BY <1>4 DEF Since, limiter, LimiterInv, Ledger
  <2>0. a.at \in 0 .. clock /\ a.flushes \in Nat /\ flushes \in Nat
    BY <1>1 DEF Admission, LimiterInv, LimiterType
  <2>2. time \in Nat /\ clock + 1 - a.at = time + 1 /\ gone \in Int
    BY <1>1, <2>0, LimiterParameters
  <2>3. Rate * time <= Rate * (time + 1) /\ Rate * time \in Int /\ Rate * (time + 1) \in Int
    BY <2>2, LimiterParameters, TimesMonotonic
  <2>4. spent \in Nat  BY SinceFinite DEF LimiterInv, LimiterType
  <2>5. ASSUME spent <= gone + Rate * time  PROVE spent <= gone + Rate * (time + 1)
    <3> HIDE DEF spent, gone, time
    <3>1. QED  BY <2>2, <2>3, <2>4, <2>5
  <2>6. CASE Known(a.client)
    <3>1. Known(a.client)' /\ UNCHANGED <<buckets, flushes>>  BY <2>6 DEF Known, limiter
    <3>2. QED  BY <2>1, <2>6, <3>1 DEF Balanced
  <2>7. CASE ~Known(a.client)
    <3>1. ~Known(a.client)' /\ flushes' = flushes  BY <2>7 DEF Known, limiter
    <3>2. clock' - a.at = time + 1
      <4>1. clock' = clock + 1 /\ clock \in Int /\ a.at \in Int  BY <1>1, <2>0
      <4>2. \A m \in Int : m = clock + 1 => m - a.at = (clock - a.at) + 1  BY <4>1
      <4>3. clock' \in Int  BY <4>1
      <4>4. QED  BY <4>1, <4>2, <4>3
    <3>3. spent <= gone + Rate * time  BY <2>1, <2>7 DEF Balanced
    <3>4. spent <= gone + Rate * (time + 1)  BY <2>5, <3>3
    <3>5. Rate * (clock' - a.at) = Rate * (time + 1)  BY <3>2
    <3>6. Cardinality(Since(i, a.client)') <= Burst * (flushes' - a.flushes) + Rate * (clock' - a.at)
      BY <2>1, <3>1, <3>4, <3>5
    <3>7. QED  BY <3>1, <3>6 DEF Balanced
  <2>8. QED  BY <2>6, <2>7
<1>5. Ledger'
  <2>1. ASSUME NEW i \in DOMAIN admitted, NEW a \in Admission', a = admitted[i]
        PROVE  Balanced(i, a)'
    <3>1. a \in Admission  BY <2>1 DEF LimiterInv, LimiterType
    <3>2. QED  BY <1>4, <2>1, <3>1
  <2>2. QED  BY <2>1 DEF Ledger, limiter
<1>6. QED  BY <1>2, <1>3, <1>5 DEF LimiterInv
-----------------------------------------------------------------------------
(* The mutexes, the executor and what a request may do *)

\* Slots are filled in order, with requests to one process.
Arrived ==
  /\ \A s \in Slots : IF phase[s] = "idle" THEN did[s] = {} ELSE req[s] \in Requests
  /\ \A r, s \in Slots : r < s /\ phase[s] # "idle" => phase[r] # "idle"
  /\ \A r, s \in Slots : phase[r] # "idle" /\ phase[s] # "idle" => SameProcess(req[r], req[s])

\* A request is under way, or writes its reply, exactly while it holds its mutex.
Exclusive ==
  /\ \A s \in Slots : phase[s] \in {"running", "replying"} => mutex[Side(req[s])] = s
  /\ \A side \in {"http", "mcp", "go"} : mutex[side] # 0 =>
       /\ phase[mutex[side]] \in {"running", "replying"}
       /\ Side(req[mutex[side]]) = side

\* The executor has options of its own only while a call of the Go client runs
\* that put its overrides there, and that call knows what to put back.
Overridden == mutex["go"] # 0 /\ InPlace(req[mutex["go"]])
Restored == saved = Default /\ (opts = Default \/ Overridden)

\* Only a request that passed the checks of its route goes further, and only the
\* schema routes reply with the mutex held.
Checked ==
  \A s \in Slots : /\ phase[s] \in {"waiting", "running", "replying"} => Gate(req[s]) = 0
                   /\ phase[s] = "replying" => req[s].route \in {"tables", "table"}

RequestInv == RequestType /\ Arrived /\ Exclusive /\ Restored /\ OwnOptions
              /\ Checked /\ NothingWithoutToken

LEMMA SlotsType == Slots \subseteq Nat \ {0}
<1>1. Cardinality(Slots) \in Nat  BY Bounds, FS_CardinalityType
<1>2. QED  BY <1>1, Bounds

LEMMA SideType ==
  ASSUME NEW q
  PROVE  /\ Side(q) \in {"http", "mcp", "go"}
         /\ Side(q) = "go" <=> q.route \in Calls
         /\ InPlace(q) => Side(q) = "go"
BY DEF Side, Tools, Calls, InPlace

\* Nothing gets past the checks without the token.
LEMMA GateToken ==
  ASSUME NEW q \in Requests, Gate(q) = 0
  PROVE  /\ q.token \/ q.route \in Calls
         /\ q.route \in {"mcp query", "mcp explain"} /\ q.sql = "write" => AllowWrites
<1>1. q.token \in BOOLEAN  BY RequestFields
<1>2. ASSUME ~q.token, q.route \notin Calls  PROVE FALSE
  <2>1. CASE q.route \in Tools
    <3>1. Gate(q) = GateTool(q)  BY <1>2, <2>1 DEF Gate, Tools
    <3>2. GateTool(q) = 401  BY <1>2 DEF GateTool
    <3>3. QED  BY <3>1, <3>2
  <2>2. CASE q.route \in {"health", "tables", "table"}
    <3>1. \E status : Gate(q) = GateGet(q, status)
      <4>1. q.route = "health" => Gate(q) = GateGet(q, 200)  BY DEF Gate, Tools, Calls
      <4>2. q.route = "tables" => Gate(q) = GateGet(q, 0)  BY DEF Gate, Tools, Calls
      <4>3. q.route = "table" => Gate(q) = GateGet(q, IF q.body = "bad" THEN 400 ELSE 0)
        BY DEF Gate, Tools, Calls
      <4>4. QED  BY <2>2, <4>1, <4>2, <4>3
    <3>2. \A status : GateGet(q, status) \in {405, 401}  BY <1>2 DEF GateGet
    <3>3. QED  BY <3>1, <3>2
  <2>3. CASE q.route \in {"openapi", "cache"}
    <3>1. q.route = "openapi" => Gate(q) = IF q.method = "GET" THEN 200 ELSE 405
      BY DEF Gate, Tools, Calls
    <3>2. q.route = "cache" => Gate(q) = 401  BY <1>2 DEF Gate, Tools, Calls
    <3>3. QED  BY <2>3, <3>1, <3>2
  <2>4. CASE q.route \notin Tools \cup {"openapi", "cache", "health", "tables", "table"}
    <3>1. Gate(q) = GatePost(q)  BY <1>2, <2>4 DEF Gate
    <3>2. GatePost(q) \in {405, 401}  BY <1>2 DEF GatePost
    <3>3. QED  BY <3>1, <3>2
  <2>5. QED  BY <2>1, <2>2, <2>3, <2>4
<1>3. ASSUME q.route \in {"mcp query", "mcp explain"}, q.sql = "write", ~AllowWrites  PROVE FALSE
  <2>1. Gate(q) = GateTool(q)  BY <1>3 DEF Gate, Tools, Calls
  <2>2. GateTool(q) \in {401, NoStatus}  BY <1>3 DEF GateTool
  <2>3. QED  BY <2>1, <2>2 DEF NoStatus
<1>4. QED  BY <1>1, <1>2, <1>3, Flags

LEMMA GateClear ==
  ASSUME NEW q \in Requests, q.route = "cache", Gate(q) = 200
  PROVE  q.token /\ CacheAdmin
<1>1. q.token \in BOOLEAN  BY RequestFields
<1>2. QED  BY <1>1 DEF Gate, GateGet, GatePost, GateTool, Tools, Calls, NoStatus

LEMMA StatusGate ==
  ASSUME NEW q, Status(q) \in {0, 200}
  PROVE  Gate(q) = Status(q)
BY DEF Status

LEMMA ArriveInv ==
  ASSUME RequestInv, NEW s \in Slots, NEW q \in Requests, Arrive(s, q)
  PROVE  RequestInv'
<1> USE SlotsType DEF RequestInv
<1>1. /\ phase[s] = "idle" /\ \A r \in Slots : r < s => phase[r] # "idle" /\ SameProcess(req[r], q)
      /\ req' = [req EXCEPT ![s] = q]
      /\ UNCHANGED <<clock, hungUp, mutex, executors, used>>
  BY DEF Arrive
<1>2. PICK p \in {"waiting", "done"} :
        phase' = [phase EXCEPT ![s] = p] /\ (p = "waiting" => Status(q) = 0)
  BY DEF Arrive
<1>3. did' = did \/ (Clears(q) /\ did' = [did EXCEPT ![s] = {"cleared"}])
  BY DEF Arrive
<1>4. RequestType'
  <2>1. req' \in [Slots -> Requests \cup {<<>>}]  BY <1>1 DEF RequestType
  <2>2. phase' \in [Slots -> Phases]  BY <1>2 DEF RequestType, Phases
  <2>3. did' \in [Slots -> SUBSET Effects]  BY SMTT(30), <1>3 DEF RequestType, Effects
  <2>4. QED  BY <1>1, <2>1, <2>2, <2>3 DEF RequestType
<1>5. \A r \in Slots : phase[r] # "idle" => r < s  BY <1>1 DEF Arrived
<1>6. Arrived'
  <2>1. \A r \in Slots : phase'[r] # "idle" => r <= s  BY <1>2, <1>5 DEF RequestType
  <2>2. phase'[s] # "idle" /\ req'[s] = q  BY <1>1, <1>2 DEF RequestType
  <2>3. \A r \in Slots \ {s} : phase'[r] = phase[r] /\ req'[r] = req[r]
    BY <1>1, <1>2 DEF RequestType
  <2>4. \A r \in Slots : IF phase'[r] = "idle" THEN did'[r] = {} ELSE req'[r] \in Requests
    BY <1>3, <2>2, <2>3 DEF Arrived, RequestType
  <2>5. \A r, t \in Slots : r < t /\ phase'[t] # "idle" => phase'[r] # "idle"
    BY <1>1, <2>1, <2>2, <2>3 DEF Arrived
  <2>6. ASSUME NEW r \in Slots, NEW t \in Slots, phase'[r] # "idle", phase'[t] # "idle"
        PROVE  SameProcess(req'[r], req'[t])
    <3>1. \A u \in Slots : phase'[u] # "idle" /\ u # s => SameProcess(req'[u], q)
      BY <1>1, <2>1, <2>3
    <3>2. CASE r # s /\ t # s  BY <2>3, <2>6, <3>2 DEF Arrived, SameProcess
    <3>3. CASE r = s \/ t = s  BY <2>2, <2>6, <3>1, <3>3 DEF SameProcess
    <3>4. QED  BY <3>2, <3>3
  <2>7. QED  BY <2>4, <2>5, <2>6 DEF Arrived, SameProcess
<1>7. \A r \in Slots \ {s} : phase'[r] = phase[r] /\ req'[r] = req[r] /\ did'[r] = did[r]
  BY <1>1, <1>2, <1>3 DEF RequestType
<1>8. phase'[s] \in {"waiting", "done"} /\ req'[s] = q  BY <1>1, <1>2 DEF RequestType
<1>9. \A side \in {"http", "mcp", "go"} : mutex[side] # s
  BY <1>1 DEF Exclusive
<1>10. Exclusive'
  BY <1>1, <1>7, <1>8, <1>9 DEF Exclusive, Side, RequestType
<1>11. Restored'
  <2>1. mutex["go"] # 0 => req'[mutex["go"]] = req[mutex["go"]]
    BY <1>7, <1>9 DEF RequestType
  <2>2. QED  BY <1>1, <2>1 DEF Restored, Overridden, InPlace, executors
<1>12. OwnOptions'  BY <1>1, <1>7, <1>8 DEF OwnOptions
<1>13. Checked'
  <2>1. \A r \in Slots : Gate(req[r])' = Gate(req'[r])
    BY DEF Gate, GateGet, GatePost, GateTool
  <2>2. phase'[s] = "waiting" => Gate(q) = 0  BY <1>2, StatusGate DEF RequestType
  <2>3. QED  BY <1>7, <1>8, <2>1, <2>2 DEF Checked
<1>14. NothingWithoutToken'
  <2>1. CASE did' = did
    <3>1. did[s] = {}  BY <1>1 DEF Arrived
    <3>2. QED  BY <1>7, <2>1, <3>1 DEF NothingWithoutToken
  <2>2. CASE Clears(q) /\ did' = [did EXCEPT ![s] = {"cleared"}]
    <3>1. q.token /\ CacheAdmin /\ q.route = "cache"  BY <2>2, StatusGate, GateClear DEF Clears
    <3>2. did'[s] = {"cleared"}  BY <2>2 DEF RequestType
    <3>3. "wrote" \notin did'[s]  BY <3>2
    <3>4. \A r \in Slots \ {s} : did'[r] = did[r] /\ req'[r] = req[r]  BY <1>7
    <3>5. QED  BY <1>8, <3>1, <3>2, <3>3, <3>4 DEF NothingWithoutToken
  <2>3. QED  BY <1>3, <2>1, <2>2
<1>15. QED  BY <1>4, <1>6, <1>10, <1>11, <1>12, <1>13, <1>14

\* No request takes its mutex while a call has its overrides in the executor.
LEMMA CleanAtLock ==
  ASSUME RequestInv, NEW s \in Slots, phase[s] = "waiting", mutex[Side(req[s])] = 0
  PROVE  opts = Default /\ saved = Default
<1> USE SlotsType DEF RequestInv
<1>1. ASSUME mutex["go"] # 0, InPlace(req[mutex["go"]])  PROVE FALSE
  <2> DEFINE g == mutex["go"]
  <2>1. g \in Slots /\ phase[g] # "idle" /\ Side(req[g]) = "go"
    BY <1>1 DEF RequestType, Exclusive
  <2>2. SameProcess(req[g], req[s])  BY <2>1 DEF Arrived
  <2>3. Side(req[s]) = "go"  BY <2>1, <2>2, SideType DEF SameProcess
  <2>4. QED  BY <1>1, <2>3
<1>2. QED  BY <1>1 DEF Restored, Overridden

\* The options of a request, from those the executor was started with.
LEMMA ExecutorOptions ==
  ASSUME NEW q \in Requests, opts = Default
  PROVE  /\ Executor(q).threshold = Own(q.threshold, Default.threshold)
         /\ Executor(q).maxRows = Own(q.maxRows, Default.maxRows)
         /\ Executor(q).explain = (q.route \in {"explain", "mcp explain", "go explain"} \/ q.explain)
<1>1. /\ q.explain \in BOOLEAN
      /\ q.explain => q.route \in {"query", "explain"}
      /\ q.route \in {"mcp explain", "go explain"} => q.threshold = <<>> /\ q.maxRows = <<>>
  BY RequestFields
<1>2. /\ Executor(q).threshold = Own(q.threshold, Default.threshold)
      /\ Executor(q).maxRows = Own(q.maxRows, Default.maxRows)
  BY <1>1 DEF Executor, Own
<1>3. Executor(q).explain =
        (q.route \in {"explain", "mcp explain", "go explain"} \/ (q.route = "query" /\ q.explain))
  BY DEF Executor
<1>4. (q.route \in {"explain", "mcp explain", "go explain"} \/ (q.route = "query" /\ q.explain))
        <=> (q.route \in {"explain", "mcp explain", "go explain"} \/ q.explain)
  BY <1>1
<1>5. QED  BY <1>2, <1>3, <1>4

\* OwnOptions after a step that changes no request.
LEMMA OwnOptionsKept ==
  ASSUME UNCHANGED req,
         \A s \in Slots : phase'[s] = "running" =>
           /\ used'[s].threshold = Own(req[s].threshold, Default.threshold)
           /\ used'[s].maxRows = Own(req[s].maxRows, Default.maxRows)
           /\ used'[s].explain =
                (req[s].route \in {"explain", "mcp explain", "go explain"} \/ req[s].explain)
  PROVE  OwnOptions'
<1>1. (\A s \in Slots : phase[s] = "running" =>
         used[s].threshold = Own(req[s].threshold, Default.threshold))'
  BY DEF Own
<1>2. (\A s \in Slots : phase[s] = "running" =>
         used[s].maxRows = Own(req[s].maxRows, Default.maxRows))'
  BY DEF Own
<1>3. (\A s \in Slots : phase[s] = "running" =>
         used[s].explain =
           (req[s].route \in {"explain", "mcp explain", "go explain"} \/ req[s].explain))'
  OBVIOUS
<1>4. QED  BY <1>1, <1>2, <1>3 DEF OwnOptions

LEMMA LockInv ==
  ASSUME RequestInv, NEW s \in Slots, Lock(s)
  PROVE  RequestInv'
<1> USE SlotsType DEF RequestInv
<1> DEFINE q == req[s]
<1>1. /\ phase[s] = "waiting" /\ mutex[Side(q)] = 0
      /\ mutex' = [mutex EXCEPT ![Side(q)] = s]
      /\ used' = [used EXCEPT ![s] = Executor(q)]
      /\ phase' = [phase EXCEPT ![s] = "running"]
      /\ UNCHANGED <<req, hungUp, did>>
  BY DEF Lock
<1>2. opts = Default /\ saved = Default  BY <1>1, CleanAtLock
<1>3. Side(q) \in {"http", "mcp", "go"} /\ q \in Requests  BY <1>1, SideType DEF Arrived
<1>4. /\ phase'[s] = "running" /\ mutex'[Side(q)] = s /\ used'[s] = Executor(q)
      /\ \A r \in Slots \ {s} : phase'[r] = phase[r] /\ used'[r] = used[r]
      /\ \A side \in {"http", "mcp", "go"} \ {Side(q)} : mutex'[side] = mutex[side]
  BY <1>1, <1>3 DEF RequestType
<1>5. RequestType'
  <2>1. phase' \in [Slots -> Phases]  BY <1>1 DEF RequestType, Phases
  <2>2. mutex' \in [{"http", "mcp", "go"} -> Slots \cup {0}]  BY <1>1 DEF RequestType
  <2>3. used' = [r \in Slots |-> used'[r]]  BY <1>1 DEF RequestType
  <2>4. QED  BY <1>1, <2>1, <2>2, <2>3 DEF RequestType
<1>6. Arrived'  BY <1>1, <1>4 DEF Arrived, SameProcess
<1>7. Exclusive'
  <2>1. ASSUME NEW r \in Slots, r # s, phase[r] \in {"running", "replying"}
        PROVE  mutex'[Side(req[r])] = r
    <3>1. mutex[Side(req[r])] = r /\ r # 0 /\ Side(req[r]) \in {"http", "mcp", "go"}
      BY <2>1, SideType DEF Exclusive
    <3>2. QED  BY <1>1, <1>4, <3>1
  <2>2. \A r \in Slots : Side(req[r])' = Side(req[r])  BY <1>1 DEF Side
  <2>3. \A side \in {"http", "mcp", "go"} \ {Side(q)} : mutex[side] # s
    BY <1>1 DEF Exclusive
  <2>4. ASSUME NEW side \in {"http", "mcp", "go"}, mutex'[side] # 0
        PROVE  phase'[mutex'[side]] \in {"running", "replying"} /\ Side(req[mutex'[side]]) = side
    <3>1. CASE side = Side(q)  BY <1>4, <3>1
    <3>2. CASE side # Side(q)
      <4>1. mutex'[side] = mutex[side] /\ mutex[side] \in Slots \ {s}
        BY <1>4, <2>3, <2>4, <3>2 DEF RequestType
      <4>2. QED  BY <1>4, <2>4, <4>1 DEF Exclusive
    <3>3. QED  BY <3>1, <3>2
  <2>5. \A side : Side(req[mutex[side]])' = Side(req[mutex'[side]])  BY <1>1 DEF Side
  <2>6. \A r \in Slots : phase'[r] \in {"running", "replying"} => mutex'[Side(req[r])] = r
    BY <1>4, <2>1
  <2>7. QED  BY <1>1, <2>2, <2>4, <2>5, <2>6 DEF Exclusive
<1>8. Restored'
  <2>1. CASE InPlace(q)
    <3>1. saved' = Default  BY <1>2, <2>1 DEF Lock
    <3>2. Side(q) = "go"  BY <2>1, SideType
    <3>3. mutex'["go"] = s /\ s # 0  BY <1>4, <3>2
    <3>4. InPlace(req'[mutex'["go"]])  BY <1>1, <2>1, <3>3
    <3>5. Overridden'  BY <3>3, <3>4 DEF Overridden, InPlace
    <3>6. QED  BY <3>1, <3>5 DEF Restored
  <2>2. CASE ~InPlace(q)  BY <1>2, <2>2 DEF Lock, executors, Restored
  <2>3. QED  BY <2>1, <2>2
<1>9. OwnOptions'
  <2>1. \A r \in Slots \ {s} : phase'[r] = "running" => phase[r] = "running" /\ used'[r] = used[r]
    BY <1>4
  <2>2. used'[s] = Executor(q)  BY <1>4
  <2>3. /\ used'[s].threshold = Own(q.threshold, Default.threshold)
        /\ used'[s].maxRows = Own(q.maxRows, Default.maxRows)
        /\ used'[s].explain = (q.route \in {"explain", "mcp explain", "go explain"} \/ q.explain)
    BY <1>2, <1>3, <2>2, ExecutorOptions
  <2>4. ASSUME NEW r \in Slots, phase'[r] = "running"
        PROVE  /\ used'[r].threshold = Own(req[r].threshold, Default.threshold)
               /\ used'[r].maxRows = Own(req[r].maxRows, Default.maxRows)
               /\ used'[r].explain =
                    (req[r].route \in {"explain", "mcp explain", "go explain"} \/ req[r].explain)
    <3>1. CASE r = s  BY <2>3, <3>1
    <3>2. CASE r # s  BY <2>1, <2>4, <3>2 DEF OwnOptions
    <3>3. QED  BY <3>1, <3>2
  <2>5. QED  BY <1>1, <2>4, OwnOptionsKept
<1>10. Checked'
  <2>1. \A r \in Slots : Gate(req[r])' = Gate(req[r])  BY <1>1 DEF Gate, GateGet, GatePost, GateTool
  <2>2. QED  BY <1>1, <1>4, <2>1 DEF Checked
<1>11. NothingWithoutToken'  BY <1>1 DEF NothingWithoutToken
<1>12. QED  BY <1>5, <1>6, <1>7, <1>8, <1>9, <1>10, <1>11

\* What an executor did is what its request may do.
LEMMA EffectAllowed ==
  ASSUME RequestInv, NEW s \in Slots, phase[s] = "running"
  PROVE  /\ Effect(s) \in Effects \ {"cleared"}
         /\ req[s].token \/ req[s].route \in Calls
         /\ Effect(s) = "wrote" /\ req[s].route \in Tools =>
           AllowWrites \/ req[s].sql = "writing select"
<1>1. req[s] \in Requests /\ Gate(req[s]) = 0  BY DEF RequestInv, Arrived, Checked
<1>2. Effect(s) \in Effects \ {"cleared"}  BY DEF Effect, Effects
<1>3. ASSUME Effect(s) = "wrote", req[s].route \in Tools, req[s].sql # "writing select"
      PROVE  req[s].route \in {"mcp query", "mcp explain"} /\ req[s].sql = "write"
  <2>1. req[s].route \notin Catalog /\ req[s].route # "mcp judge"  BY <1>3 DEF Effect
  <2>2. req[s].sql = "write"  BY <1>3 DEF Effect, Writing
  <2>3. QED  BY <1>3, <2>1, <2>2 DEF Tools, Catalog
<1>4. QED  BY <1>1, <1>2, <1>3, GateToken

\* The end of a request, in any of the ways it has.
Ends(s, p) ==
  /\ phase[s] \in {"running", "replying"} /\ phase' = [phase EXCEPT ![s] = p]
  /\ IF p = "replying" THEN req[s].route \in {"tables", "table"} /\ UNCHANGED mutex ELSE Unlock(s)
  /\ UNCHANGED req
  /\ \A r \in Slots \ {s} : did'[r] = did[r]

LEMMA EndsExclusive ==
  ASSUME RequestInv, NEW s \in Slots, NEW p \in {"replying", "done", "silent"}, Ends(s, p)
  PROVE  /\ Exclusive' /\ Arrived' /\ Checked'
         /\ mutex' \in [{"http", "mcp", "go"} -> Slots \cup {0}]
         /\ phase' \in [Slots -> Phases]
         /\ mutex'["go"] = IF p # "replying" /\ Side(req[s]) = "go" THEN 0 ELSE mutex["go"]
<1> USE SlotsType DEF RequestInv
<1> DEFINE q == req[s]
<1>1. /\ phase[s] \in {"running", "replying"} /\ phase' = [phase EXCEPT ![s] = p]
      /\ mutex' = IF p = "replying" THEN mutex ELSE [mutex EXCEPT ![Side(q)] = 0]
      /\ p = "replying" => q.route \in {"tables", "table"}
      /\ req' = req /\ \A r \in Slots \ {s} : did'[r] = did[r]
  BY DEF Ends, Unlock
<1>2. Side(q) \in {"http", "mcp", "go"} /\ mutex[Side(q)] = s  BY <1>1, SideType DEF Exclusive
<1>3. phase'[s] = p /\ \A r \in Slots \ {s} : phase'[r] = phase[r]  BY <1>1 DEF RequestType
<1>4. \A side \in {"http", "mcp", "go"} :
        mutex'[side] = IF p # "replying" /\ side = Side(q) THEN 0 ELSE mutex[side]
  BY <1>1, <1>2 DEF RequestType
<1>5. \A r : Side(req[r])' = Side(req[r])  BY <1>1 DEF Side
<1>6. ASSUME NEW r \in Slots, phase'[r] \in {"running", "replying"}
      PROVE  mutex'[Side(req[r])] = r
  <2>1. phase[r] \in {"running", "replying"}  BY <1>1, <1>3, <1>6
  <2>2. mutex[Side(req[r])] = r /\ Side(req[r]) \in {"http", "mcp", "go"}
    BY <2>1, SideType DEF Exclusive
  <2>3. r = s => p = "replying"  BY <1>3, <1>6
  <2>4. QED  BY <1>2, <1>4, <2>2, <2>3
<1>7. ASSUME NEW side \in {"http", "mcp", "go"}, mutex'[side] # 0
      PROVE  phase'[mutex'[side]] \in {"running", "replying"} /\ Side(req[mutex'[side]]) = side
  <2>1. mutex'[side] = mutex[side] /\ (side = Side(q) => p = "replying")  BY <1>4, <1>7
  <2>2. mutex[side] \in Slots /\ phase[mutex[side]] \in {"running", "replying"}
        /\ Side(req[mutex[side]]) = side
    BY <1>7, <2>1 DEF RequestType, Exclusive
  <2>3. QED  BY <1>3, <2>1, <2>2
<1>8. Exclusive'
  <2>1. \A side : Side(req[mutex[side]])' = Side(req[mutex'[side]])  BY <1>1 DEF Side
  <2>2. QED  BY <1>5, <1>6, <1>7, <2>1 DEF Exclusive
<1>9. Arrived'  BY <1>1, <1>3 DEF Arrived, SameProcess
<1>10. Checked'
  <2>1. \A r \in Slots : Gate(req[r])' = Gate(req[r])  BY <1>1 DEF Gate, GateGet, GatePost, GateTool
  <2>2. QED  BY <1>1, <1>3, <2>1 DEF Checked
<1>11. mutex' \in [{"http", "mcp", "go"} -> Slots \cup {0}]  BY <1>1 DEF RequestType
<1>12. phase' \in [Slots -> Phases]  BY <1>1 DEF RequestType, Phases
<1>13. QED  BY <1>4, <1>8, <1>9, <1>10, <1>11, <1>12

\* Run has returned, with or without an effect.
LEMMA ReturnInv ==
  ASSUME RequestInv, NEW s \in Slots, NEW p \in {"replying", "done", "silent"}, NEW ok,
         phase[s] = "running", Ends(s, p), Restore(s, ok),
         used' = [used EXCEPT ![s] = Default], hungUp' = [hungUp EXCEPT ![s] = FALSE],
         did' = did \/ did' = [did EXCEPT ![s] = {Effect(s)}]
  PROVE  RequestInv'
<1> USE SlotsType DEF RequestInv
<1> DEFINE q == req[s]
<1>1. req' = req /\ phase' = [phase EXCEPT ![s] = p]  BY DEF Ends
<1>2. phase'[s] = p /\ \A r \in Slots \ {s} : phase'[r] = phase[r]  BY <1>1 DEF RequestType
<1>3. /\ Effect(s) \in Effects \ {"cleared"} /\ (q.token \/ q.route \in Calls)
      /\ Effect(s) = "wrote" /\ q.route \in Tools => AllowWrites \/ q.sql = "writing select"
  BY EffectAllowed
<1>4. /\ Exclusive' /\ Arrived' /\ Checked'
      /\ mutex' \in [{"http", "mcp", "go"} -> Slots \cup {0}]
      /\ phase' \in [Slots -> Phases]
      /\ mutex'["go"] = IF p # "replying" /\ Side(q) = "go" THEN 0 ELSE mutex["go"]
  BY EndsExclusive
<1>5. RequestType'
  <2>1. did' \in [Slots -> SUBSET Effects]
    <3>1. {Effect(s)} \in SUBSET Effects  BY <1>3
    <3>2. did \in [Slots -> SUBSET Effects]  BY DEF RequestType
    <3>3. QED  BY <3>1, <3>2
  <2>2. used' = [r \in Slots |-> used'[r]] /\ hungUp' \in [Slots -> BOOLEAN]  BY DEF RequestType
  <2>3. QED  BY <1>1, <1>4, <2>1, <2>2 DEF RequestType
<1>6. Restored'
  <2>1. CASE InPlace(q)  BY <2>1 DEF Restore, Restored
  <2>2. CASE ~InPlace(q)
    <3>1. UNCHANGED <<opts, saved>>  BY <2>2 DEF Restore, executors
    <3>2. mutex[Side(q)] = s  BY DEF Exclusive
    <3>3. Side(q) = "go" => ~Overridden  BY <2>2, <3>2 DEF Overridden
    <3>4. Side(q) # "go" => Overridden' = Overridden
      BY <1>1, <1>4 DEF Overridden, InPlace
    <3>5. QED  BY <3>1, <3>3, <3>4 DEF Restored
  <2>3. QED  BY <2>1, <2>2
<1>7. OwnOptions'
  <2>1. ASSUME NEW r \in Slots, phase'[r] = "running"
        PROVE  r # s /\ phase[r] = "running" /\ used'[r] = used[r]
    BY <1>2, <2>1 DEF RequestType
  <2>2. ASSUME NEW r \in Slots, phase'[r] = "running"
        PROVE  /\ used'[r].threshold = Own(req[r].threshold, Default.threshold)
               /\ used'[r].maxRows = Own(req[r].maxRows, Default.maxRows)
               /\ used'[r].explain =
                    (req[r].route \in {"explain", "mcp explain", "go explain"} \/ req[r].explain)
    BY <2>1, <2>2 DEF OwnOptions
  <2>3. QED  BY <1>1, <2>2, OwnOptionsKept
<1>8. NothingWithoutToken'
  <2>1. CASE did' = did  BY <1>1, <2>1 DEF NothingWithoutToken
  <2>2. CASE did' = [did EXCEPT ![s] = {Effect(s)}]
    <3>1. did'[s] = {Effect(s)} /\ \A r \in Slots \ {s} : did'[r] = did[r]
      BY <2>2 DEF RequestType
    <3>2. QED  BY <1>1, <1>3, <3>1 DEF NothingWithoutToken
  <2>3. QED  BY <2>1, <2>2
<1>9. QED  BY <1>4, <1>5, <1>6, <1>7, <1>8

\* Answer ends the request.
LEMMA AnswerEnds ==
  ASSUME RequestInv, NEW s \in Slots, phase[s] = "running", NEW status, Answer(s, status),
         UNCHANGED req, did' = did \/ did' = [did EXCEPT ![s] = {Effect(s)}]
  PROVE  /\ \E p \in {"replying", "done", "silent"} : Ends(s, p)
         /\ used' = [used EXCEPT ![s] = Default] /\ hungUp' = [hungUp EXCEPT ![s] = FALSE]
<1>1. \A r \in Slots \ {s} : did'[r] = did[r]  BY DEF RequestInv, RequestType
<1>2. CASE req[s].route \in {"tables", "table"}
  <2>1. Ends(s, "replying")  BY <1>1, <1>2 DEF Answer, Ends
  <2>2. QED  BY <1>2, <2>1 DEF Answer
<1>3. CASE req[s].route \notin {"tables", "table"}
  <2>1. Ends(s, "done")  BY <1>1, <1>3 DEF Answer, Ends
  <2>2. QED  BY <2>1 DEF Answer
<1>4. QED  BY <1>2, <1>3

LEMMA ReturnsInv ==
  ASSUME RequestInv, NEW s \in Slots, Returns(s)
  PROVE  RequestInv'
<1>1. ASSUME phase[s] = "running", NEW status, Answer(s, status), NEW ok, Restore(s, ok),
             UNCHANGED req, did' = did \/ did' = [did EXCEPT ![s] = {Effect(s)}]
      PROVE  RequestInv'
  <2>1. PICK p \in {"replying", "done", "silent"} : Ends(s, p)  BY <1>1, AnswerEnds
  <2>2. used' = [used EXCEPT ![s] = Default] /\ hungUp' = [hungUp EXCEPT ![s] = FALSE]
    BY <1>1 DEF Answer
  <2>3. QED  BY <1>1, <2>1, <2>2, ReturnInv
<1>2. CASE Succeed(s)
  <2>1. PICK status : Answer(s, status)  BY <1>2 DEF Succeed
  <2>2. phase[s] = "running" /\ Restore(s, TRUE) /\ UNCHANGED req /\ did' = [did EXCEPT ![s] = {Effect(s)}]
    BY <1>2 DEF Succeed
  <2>3. QED  BY <1>1, <2>1, <2>2
<1>3. ASSUME NEW e, Fail(s, e)  PROVE RequestInv'
  <2>1. PICK status : Answer(s, status)  BY <1>3 DEF Fail
  <2>2. phase[s] = "running" /\ Restore(s, FALSE) /\ UNCHANGED req
        /\ (did' = did \/ did' = [did EXCEPT ![s] = {Effect(s)}])
    BY <1>3 DEF Fail
  <2>3. QED  BY <1>1, <2>1, <2>2
<1>4. CASE Cancelled(s)
  <2>1. phase[s] = "running" /\ Restore(s, FALSE) /\ UNCHANGED <<req, did>>
    BY <1>4 DEF Cancelled
  <2>2. CASE req[s].route \in Tools \cup Calls
    <3>1. Answer(s, NoStatus)  BY <1>4, <2>2 DEF Cancelled
    <3>2. QED  BY <1>1, <2>1, <3>1
  <2>3. CASE req[s].route \notin Tools \cup Calls
    <3>1. /\ phase' = [phase EXCEPT ![s] = "silent"] /\ Unlock(s)
          /\ used' = [used EXCEPT ![s] = Default] /\ hungUp' = [hungUp EXCEPT ![s] = FALSE]
      BY <1>4, <2>3 DEF Cancelled
    <3>2. Ends(s, "silent")  BY <2>1, <3>1 DEF Ends
    <3>3. QED  BY <2>1, <3>1, <3>2, ReturnInv
  <2>4. QED  BY <2>2, <2>3
<1>5. QED  BY <1>2, <1>3, <1>4 DEF Returns

LEMMA ReplyInv ==
  ASSUME RequestInv, NEW s \in Slots, Reply(s)
  PROVE  RequestInv'
<1> USE SlotsType DEF RequestInv
<1>1. /\ phase[s] = "replying" /\ phase' = [phase EXCEPT ![s] = "done"] /\ Unlock(s)
      /\ UNCHANGED <<req, hungUp, opts, saved, used, did>>
  BY DEF Reply, executors
<1>2. Ends(s, "done")  BY <1>1 DEF Ends
<1>3. /\ Exclusive' /\ Arrived' /\ Checked'
      /\ mutex' \in [{"http", "mcp", "go"} -> Slots \cup {0}]
      /\ phase' \in [Slots -> Phases]
      /\ mutex'["go"] = IF Side(req[s]) = "go" THEN 0 ELSE mutex["go"]
  BY <1>2, EndsExclusive
<1>4. RequestType'  BY <1>1, <1>3 DEF RequestType
<1>5. Restored'
  <2>1. CASE Side(req[s]) # "go"  BY <1>1, <1>3, <2>1 DEF Restored, Overridden, InPlace
  <2>2. CASE Side(req[s]) = "go"
    <3>1. req[s].route \in {"tables", "table"}  BY <1>1 DEF Checked
    <3>2. QED  BY <2>2, <3>1 DEF Side, Tools, Calls
  <2>3. QED  BY <2>1, <2>2
<1>6. OwnOptions'
  <2>1. \A r \in Slots : phase'[r] = "running" => phase[r] = "running" /\ used'[r] = used[r]
    BY <1>1 DEF RequestType
  <2>2. QED  BY <1>1, <2>1, OwnOptionsKept DEF OwnOptions
<1>7. NothingWithoutToken'  BY <1>1 DEF NothingWithoutToken
<1>8. QED  BY <1>3, <1>4, <1>5, <1>6, <1>7

LEMMA IdleInv ==
  ASSUME RequestInv, UNCHANGED <<req, phase, mutex, opts, saved, used, did>>,
         hungUp' \in [Slots -> BOOLEAN]
  PROVE  RequestInv'
<1> USE DEF RequestInv
<1>1. RequestType' /\ Arrived' /\ NothingWithoutToken'
  BY DEF RequestType, Arrived, SameProcess, NothingWithoutToken
<1>2. Exclusive'  BY DEF Exclusive, Side
<1>3. Restored'  BY DEF Restored, Overridden, InPlace
<1>4. OwnOptions'  BY OwnOptionsKept DEF OwnOptions
<1>5. Checked'
  <2>1. \A r \in Slots : Gate(req[r])' = Gate(req[r])  BY DEF Gate, GateGet, GatePost, GateTool
  <2>2. QED  BY <2>1 DEF Checked
<1>6. QED  BY <1>1, <1>2, <1>3, <1>4, <1>5

LEMMA InitInv == Init => LimiterInv /\ RequestInv
<1> SUFFICES ASSUME Init PROVE LimiterInv /\ RequestInv  OBVIOUS
<1>1. clock = 0 /\ flushes = 0 /\ buckets = <<>> /\ admitted = <<>>  BY DEF Init
<1>2. DOMAIN buckets = {} /\ IsFiniteSet({}) /\ Cardinality({}) = 0  BY <1>1, FS_EmptySet
<1>3. buckets \in [DOMAIN buckets -> Bucket]  BY <1>1, <1>2
<1>4. admitted \in Seq(Admission) /\ DOMAIN admitted = {}  BY <1>1
<1>5. LimiterType  BY <1>1, <1>2, <1>3, <1>4 DEF LimiterType
<1>6. RateBounded /\ Ledger  BY <1>2, <1>4, LimiterParameters DEF RateBounded, Ledger
<1>7. RequestType  BY DEF Init, RequestType, Phases
<1>8. Arrived /\ Exclusive /\ Restored /\ OwnOptions /\ Checked /\ NothingWithoutToken
  BY DEF Init, Arrived, Exclusive, Restored, OwnOptions, Checked, NothingWithoutToken
<1>9. QED  BY <1>5, <1>6, <1>7, <1>8 DEF LimiterInv, RequestInv

LEMMA NextInv ==
  ASSUME LimiterInv, RequestInv, [Next]_vars
  PROVE  LimiterInv' /\ RequestInv'
<1>1. ASSUME UNCHANGED limiter, UNCHANGED clock  PROVE LimiterInv'
  BY <1>1 DEF limiter, LimiterInv, LimiterType, RateBounded, Ledger, Balanced, Since, Known, Admission, Bucket
<1>2. CASE Tick
  <2>1. UNCHANGED limiter /\ clock' = clock + 1
        /\ UNCHANGED <<req, phase, mutex, opts, saved, used, did, hungUp>>
    BY <1>2 DEF Tick, executors
  <2>2. hungUp' \in [Slots -> BOOLEAN]  BY <2>1 DEF RequestInv, RequestType
  <2>3. QED  BY <2>1, <2>2, TickInv, IdleInv
<1>3. ASSUME NEW s \in Slots, NEW q \in Requests, Arrive(s, q)  PROVE LimiterInv' /\ RequestInv'
  <2>1. UNCHANGED clock  BY <1>3 DEF Arrive
  <2>2. CASE Free(q)
    <3>1. UNCHANGED limiter  BY <1>3, <2>2 DEF Arrive
    <3>2. LimiterInv'  BY <1>1, <2>1, <3>1
    <3>3. QED  BY <1>3, <3>2, ArriveInv
  <2>3. CASE ~Free(q)
    <3>1. Allow(q.client) /\ q.client \in Clients  BY <1>3, <2>3, RequestFields DEF Arrive
    <3>2. QED  BY <1>3, <2>1, <3>1, AllowInv, ArriveInv
  <2>4. QED  BY <2>2, <2>3
<1>4. ASSUME NEW s \in Slots, Lock(s)  PROVE LimiterInv' /\ RequestInv'
  BY <1>1, <1>4, LockInv DEF Lock
<1>5. ASSUME NEW s \in Slots, Returns(s)  PROVE LimiterInv' /\ RequestInv'
  BY <1>1, <1>5, ReturnsInv DEF Returns, Succeed, Cancelled, Fail
<1>6. ASSUME NEW s \in Slots, Reply(s)  PROVE LimiterInv' /\ RequestInv'
  BY <1>1, <1>6, ReplyInv DEF Reply
<1>7. ASSUME NEW s \in Slots, HangUp(s)  PROVE LimiterInv' /\ RequestInv'
  <2>1. UNCHANGED <<clock, limiter, req, phase, mutex, opts, saved, used, did>>
    BY <1>7 DEF HangUp, executors
  <2>2. hungUp' \in [Slots -> BOOLEAN]  BY <1>7 DEF HangUp, RequestInv, RequestType
  <2>3. QED  BY <1>1, <2>1, <2>2, IdleInv
<1>8. CASE UNCHANGED vars
  <2>1. UNCHANGED <<clock, limiter, req, phase, mutex, opts, saved, used, did, hungUp>>
    BY <1>8 DEF vars, executors
  <2>2. hungUp' \in [Slots -> BOOLEAN]  BY <2>1 DEF RequestInv, RequestType
  <2>3. QED  BY <1>1, <2>1, <2>2, IdleInv
<1>9. QED  BY <1>2, <1>3, <1>4, <1>5, <1>6, <1>7, <1>8 DEF Next
-----------------------------------------------------------------------------
LEMMA Invariance == Spec => [](LimiterInv /\ RequestInv)
BY InitInv, NextInv, PTL DEF Spec

\* The limiter's map, the mutexes and the requests stay what the code takes them
\* for.
THEOREM TypeCorrect == Spec => []TypeOK
<1>1. LimiterInv /\ RequestInv => TypeOK  BY DEF LimiterInv, RequestInv, TypeOK
<1>2. QED  BY <1>1, Invariance, PTL

\* Whatever the burst, the refill, the size of the limiter's map and the clients
\* that share it: none gets through more often than it may, over any stretch of
\* time (ratelimit.go, allow).
THEOREM ClientsBounded == Spec => []RateBounded
<1>1. LimiterInv => RateBounded  BY DEF LimiterInv
<1>2. QED  BY <1>1, Invariance, PTL

\* No request gets anything done, on any route or by any tool, before the check
\* of the token, and where writes are not allowed the tools run nothing but SELECTs
\* (serve.go, mcp.go), which may write.
THEOREM TokenFirst == Spec => []NothingWithoutToken
<1>1. RequestInv => NothingWithoutToken  BY DEF RequestInv
<1>2. QED  BY <1>1, Invariance, PTL

\* However many requests wait, fail, are cancelled or run on the other mutex,
\* each runs with its own options (executor in routes.go and mcp.go, run in
\* sdk/go).
THEOREM OptionsOwn == Spec => []OwnOptions
<1>1. RequestInv => OwnOptions  BY DEF RequestInv
<1>2. QED  BY <1>1, Invariance, PTL

\* Server.mu, mcp.server.mu and Client.mu: one request at a time behind each, from
\* its start until the mutex is released.
OneBehindEach ==
  \A r, s \in Slots : r # s /\ Side(req[r]) = Side(req[s]) =>
    ~(phase[r] \in {"running", "replying"} /\ phase[s] \in {"running", "replying"})

\* The two mutexes of a server and the one of a Go client each keep their
\* requests apart.
THEOREM MutualExclusion == Spec => []OneBehindEach
<1>1. RequestInv => OneBehindEach  BY DEF RequestInv, Exclusive, OneBehindEach
<1>2. QED  BY <1>1, Invariance, PTL
=============================================================================
