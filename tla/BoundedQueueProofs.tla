--------------------------- MODULE BoundedQueueProofs ---------------------------
(***************************************************************************)
(* What holds of BoundedQueue for every number of threads, every size and  *)
(* every policy: no accepted item is lost or handed out twice, the order   *)
(* is kept, and an iteration ends on a drained queue only.  Who waits, and *)
(* who is notified, does not matter for these.                             *)
(***************************************************************************)
EXTENDS BoundedQueue, FiniteSetTheorems, TLAPS

Rising(s) == \A i, j \in DOMAIN s : i < j => s[i] < s[j]

Typed ==
  /\ q \in Seq(Nat) /\ taken \in Seq(Nat)
  /\ accepted \in Nat /\ dropped_total \in Nat /\ sealed \in Nat
  /\ discarded \subseteq Nat /\ IsFiniteSet(discarded)
  /\ cleared \subseteq Nat /\ IsFiniteSet(cleared)

\* What left the queue is older than what is in it.
Aged ==
  /\ Rising(q) /\ Rising(taken)
  /\ \A i \in DOMAIN taken, j \in DOMAIN q : taken[i] < q[j]
  /\ \A x \in discarded \cup cleared, j \in DOMAIN q : x < q[j]
  /\ accepted \notin discarded

Places == {"ready", "wait", "timed", "is_closed", "is_empty", "ended"}

\* What closing leaves behind, and what an iterator has seen of it.
Iterating ==
  /\ maxsize \in Sizes /\ pc \in [Callers -> Places]
  /\ sealed <= accepted
  /\ \A c \in Iterators : pc[c] = "is_empty" => closed

Kept == Typed /\ Aged /\ Accounted

IInv == Kept /\ Iterating /\ DrainedBeforeEnd

items == <<q, taken, discarded, cleared, accepted, dropped_total>>

\* An item is accepted and the n oldest are evicted for it.
Joins(n) ==
  /\ q' = Append(SubSeq(q, n + 1, Len(q)), accepted + 1) /\ accepted' = accepted + 1
  /\ discarded' = discarded \cup {q[i] : i \in 1 .. n} /\ dropped_total' = dropped_total + n
  /\ UNCHANGED <<taken, cleared>>

\* The n oldest are handed out.
Hands(n) ==
  /\ q' = SubSeq(q, n + 1, Len(q)) /\ taken' = taken \o SubSeq(q, 1, n)
  /\ UNCHANGED <<discarded, cleared, accepted, dropped_total>>

Forgets ==
  /\ q' = <<>> /\ cleared' = cleared \cup {q[i] : i \in 1 .. Len(q)}
  /\ UNCHANGED <<taken, discarded, accepted, dropped_total>>

--------------------------------------------------------------------------------

\* The first n of a rising queue are n items.
LEMMA FirstItems ==
  ASSUME NEW s \in Seq(Nat), Rising(s), NEW n \in 0 .. Len(s)
  PROVE  /\ IsFiniteSet({s[i] : i \in 1 .. n}) /\ Cardinality({s[i] : i \in 1 .. n}) = n
         /\ {s[i] : i \in 1 .. n} \subseteq Nat
<1>. DEFINE S == {s[i] : i \in 1 .. n}
            f == [i \in 1 .. n |-> s[i]]
<1>1. S \subseteq Nat
  OBVIOUS
<1>2. f \in Bijection(1 .. n, S)
  <2>1. f \in [1 .. n -> S]
    OBVIOUS
  <2>2. ASSUME NEW i \in 1 .. n, NEW j \in 1 .. n, f[i] = f[j] PROVE i = j
    <3>1. /\ i \in DOMAIN s /\ j \in DOMAIN s /\ s[i] = s[j] /\ s[i] \in Nat /\ s[j] \in Nat
      BY <2>2
    <3>2. ~(i < j) /\ ~(j < i)
      BY <3>1 DEF Rising
    <3>. QED
      BY <3>2
  <2>3. \A x \in S : \E i \in 1 .. n : f[i] = x
    OBVIOUS
  <2>. QED
    BY <2>1, <2>2, <2>3 DEF Bijection, Injection, Surjection, IsInjective
<1>3. IsFiniteSet(1 .. n) /\ Cardinality(1 .. n) = n
  BY FS_Interval
<1>4. IsFiniteSet(S) /\ Cardinality(S) = Cardinality(1 .. n)
  BY <1>2, <1>3, FS_Bijection, Zenon DEF ExistsBijection
<1>. QED
  BY <1>1, <1>3, <1>4

\* Items that are new to a set raise its number by theirs.
LEMMA Adding ==
  ASSUME NEW S, NEW T, IsFiniteSet(S), IsFiniteSet(T), S \cap T = {}
  PROVE  IsFiniteSet(S \cup T) /\ Cardinality(S \cup T) = Cardinality(S) + Cardinality(T)
<1>1. /\ Cardinality(S \cup T) = Cardinality(S) + Cardinality(T) - Cardinality(S \cap T)
      /\ IsFiniteSet(S \cup T)
  BY FS_Union
<1>2. Cardinality(S \cap T) = 0
  BY FS_EmptySet
<1>3. Cardinality(S) \in Nat /\ Cardinality(T) \in Nat
  BY FS_CardinalityType
<1>. QED
  BY <1>1, <1>2, <1>3

LEMMA JoinKeeps ==
  ASSUME Kept, sealed' \in Nat, NEW n \in 0 .. Len(q), Joins(n)
  PROVE  Kept'
<1>. DEFINE E == {q[i] : i \in 1 .. n}
<1>0. /\ q \in Seq(Nat) /\ Rising(q) /\ accepted \in Nat
      /\ Elements(q) \subseteq 1 .. accepted /\ Elements(taken) \subseteq 1 .. accepted
      /\ discarded \subseteq 1 .. accepted /\ cleared \subseteq 1 .. accepted
  BY DEF Kept, Typed, Aged, Accounted
<1>1. IsFiniteSet(E) /\ Cardinality(E) = n /\ E \subseteq Nat
  BY <1>0, FirstItems
<1>2. discarded \cap E = {}
  BY DEF Kept, Typed, Aged
<1>3. /\ IsFiniteSet(discarded \cup E)
      /\ Cardinality(discarded \cup E) = Cardinality(discarded) + n
  BY <1>1, <1>2, Adding DEF Kept, Typed
<1>4. /\ q' \in Seq(Nat) /\ Len(q') = Len(q) - n + 1
      /\ DOMAIN q' = 1 .. Len(q) - n + 1 /\ DOMAIN q = 1 .. Len(q) /\ Len(q) \in Nat
  BY <1>0 DEF Joins
<1>5. /\ \A i \in 1 .. Len(q) - n : i + n \in 1 .. Len(q) /\ q'[i] = q[i + n]
      /\ q'[Len(q) - n + 1] = accepted + 1
  BY <1>0 DEF Joins
<1>6. \A i \in 1 .. Len(q) : q[i] \in 1 .. accepted
  BY <1>0, <1>4 DEF Elements
<1>7. Typed'
  <2>1. accepted + 1 \in Nat /\ dropped_total + n \in Nat
    BY <1>0 DEF Kept, Typed
  <2>2. discarded \cup E \subseteq Nat
    BY <1>1 DEF Kept, Typed
  <2>. QED
    BY <1>3, <1>4, <2>1, <2>2 DEF Joins, Kept, Typed
<1>8. Aged'
  <2>1. ASSUME NEW j \in 1 .. Len(q) - n + 1
        PROVE  \/ j + n \in 1 .. Len(q) /\ q'[j] = q[j + n]
               \/ j = Len(q) - n + 1 /\ q'[j] = accepted + 1
    <3>1. j \in 1 .. Len(q) - n \/ j = Len(q) - n + 1
      BY <1>4
    <3>2. j \in 1 .. Len(q) - n => j + n \in 1 .. Len(q) /\ q'[j] = q[j + n]
      BY <1>5
    <3>. QED
      BY <1>5, <3>1, <3>2
  <2>2. Rising(q')
    <3>1. ASSUME NEW i \in 1 .. Len(q) - n + 1, NEW j \in 1 .. Len(q) - n + 1, i < j
          PROVE  q'[i] < q'[j]
      <4>1. i + n \in 1 .. Len(q) /\ q'[i] = q[i + n]
        BY <1>4, <2>1, <3>1
      <4>2. CASE j + n \in 1 .. Len(q) /\ q'[j] = q[j + n]
        <5>1. i + n < j + n
          BY <3>1, <1>4
        <5>. QED
          BY <1>0, <1>4, <4>1, <4>2, <5>1 DEF Rising
      <4>3. CASE q'[j] = accepted + 1
        BY <1>0, <1>6, <4>1, <4>3
      <4>. QED
        BY <2>1, <4>2, <4>3
    <3>. QED
      BY <1>4, <3>1 DEF Rising
  <2>3. Rising(taken)'
    BY DEF Joins, Kept, Aged, Rising
  <2>4. \A i \in DOMAIN taken, j \in DOMAIN q' : taken[i] < q'[j]
    <3>1. ASSUME NEW i \in DOMAIN taken, NEW j \in 1 .. Len(q) - n + 1
          PROVE  taken[i] < q'[j]
      <4>1. taken[i] \in 1 .. accepted
        BY <1>0 DEF Elements
      <4>2. CASE j + n \in 1 .. Len(q) /\ q'[j] = q[j + n]
        BY <1>4, <4>2 DEF Kept, Aged
      <4>3. CASE q'[j] = accepted + 1
        BY <1>0, <4>1, <4>3
      <4>. QED
        BY <2>1, <4>2, <4>3
    <3>. QED
      BY <1>4, <3>1
  <2>5. \A i \in 1 .. n, j \in DOMAIN q' : q[i] < q'[j]
    <3>1. ASSUME NEW i \in 1 .. n, NEW j \in 1 .. Len(q) - n + 1
          PROVE  q[i] < q'[j]
      <4>1. i \in 1 .. Len(q) /\ i < j + n
        BY <1>4
      <4>2. CASE j + n \in 1 .. Len(q) /\ q'[j] = q[j + n]
        BY <1>0, <1>4, <4>1, <4>2 DEF Rising
      <4>3. CASE q'[j] = accepted + 1
        BY <1>0, <1>6, <4>1, <4>3
      <4>. QED
        BY <2>1, <4>2, <4>3
    <3>. QED
      BY <1>4, <3>1
  <2>6. \A x \in discarded \cup cleared, j \in DOMAIN q' : x < q'[j]
    <3>1. ASSUME NEW x \in discarded \cup cleared, NEW j \in 1 .. Len(q) - n + 1
          PROVE  x < q'[j]
      <4>1. x \in 1 .. accepted
        BY <1>0
      <4>2. CASE j + n \in 1 .. Len(q) /\ q'[j] = q[j + n]
        BY <1>4, <4>2 DEF Kept, Aged
      <4>3. CASE q'[j] = accepted + 1
        BY <1>0, <4>1, <4>3
      <4>. QED
        BY <2>1, <4>2, <4>3
    <3>. QED
      BY <1>4, <3>1
  <2>7. accepted + 1 \notin discarded \cup E
    <3>1. \A i \in 1 .. n : i \in 1 .. Len(q)
      BY <1>4
    <3>. QED
      BY <1>0, <1>6, <3>1
  <2>8. \A x \in (discarded \cup E) \cup cleared, j \in DOMAIN q' : x < q'[j]
    BY <2>5, <2>6
  <2>. QED
    BY <2>2, <2>3, <2>4, <2>7, <2>8 DEF Joins, Aged
<1>9. Accounted'
  <2>1. 1 .. accepted + 1 = Elements(q') \cup Elements(taken) \cup (discarded \cup E) \cup cleared
    <3>1. Elements(q') \subseteq Elements(q) \cup {accepted + 1}
      <4>1. ASSUME NEW j \in 1 .. Len(q) - n + 1
            PROVE  q'[j] \in Elements(q) \cup {accepted + 1}
        <5>1. j \in 1 .. Len(q) - n \/ j = Len(q) - n + 1
          BY <1>4
        <5>2. CASE j \in 1 .. Len(q) - n
          <6>1. j + n \in DOMAIN q /\ q'[j] = q[j + n]
            BY <1>4, <1>5, <5>2
          <6>. QED
            BY <6>1 DEF Elements
        <5>. QED
          BY <1>5, <5>1, <5>2
      <4>. QED
        BY <1>4, <4>1 DEF Elements
    <3>2. accepted + 1 \in Elements(q')
      <4>1. Len(q) - n + 1 \in DOMAIN q'
        BY <1>4
      <4>. QED
        BY <1>5, <4>1 DEF Elements
    <3>3. Elements(q) \subseteq Elements(q') \cup E
      <4>1. ASSUME NEW i \in DOMAIN q, i > n PROVE q[i] \in Elements(q')
        <5>1. i - n \in DOMAIN q' /\ i - n \in 1 .. Len(q) - n /\ (i - n) + n = i
          BY <1>0, <1>4, <4>1
        <5>2. q'[i - n] = q[(i - n) + n]
          BY <1>5, <5>1
        <5>. QED
          BY <5>1, <5>2 DEF Elements
      <4>2. ASSUME NEW i \in DOMAIN q, ~(i > n) PROVE q[i] \in E
        BY <1>4, <4>2
      <4>. QED
        BY <4>1, <4>2 DEF Elements
    <3>4. E \subseteq Elements(q)
      BY <1>0 DEF Elements
    <3>5. 1 .. accepted + 1 = 1 .. accepted \cup {accepted + 1}
      BY <1>0
    <3>6. 1 .. accepted = Elements(q) \cup Elements(taken) \cup discarded \cup cleared
      BY DEF Kept, Accounted
    <3>. QED
      BY <3>1, <3>2, <3>3, <3>4, <3>5, <3>6, Zenon
  <2>2. /\ Len(taken) \in Nat /\ Cardinality(discarded) \in Nat /\ Cardinality(cleared) \in Nat
        /\ Len(q) \in Nat
    BY <1>0, FS_CardinalityType DEF Kept, Typed
  <2>3. accepted + 1
          = Len(q') + Len(taken) + Cardinality(discarded \cup E) + Cardinality(cleared)
    BY <1>3, <1>4, <2>2 DEF Kept, Accounted
  <2>4. dropped_total + n = Cardinality(discarded \cup E)
    BY <1>3 DEF Kept, Accounted
  <2>. QED
    BY <2>1, <2>3, <2>4 DEF Joins, Accounted, Elements
<1>. QED
  BY <1>7, <1>8, <1>9 DEF Kept

LEMMA Concatenated ==
  ASSUME NEW s \in Seq(Nat), NEW t \in Seq(Nat), NEW i \in 1 .. Len(s) + Len(t)
  PROVE  (s \o t)[i] = IF i <= Len(s) THEN s[i] ELSE t[i - Len(s)]
OBVIOUS

LEMMA HandKeeps ==
  ASSUME Kept, sealed' \in Nat, NEW n \in 0 .. Len(q), Hands(n)
  PROVE  Kept'
<1>0. /\ q \in Seq(Nat) /\ taken \in Seq(Nat) /\ Rising(q) /\ Rising(taken)
      /\ \A i \in DOMAIN taken, j \in DOMAIN q : taken[i] < q[j]
      /\ \A x \in discarded \cup cleared, j \in DOMAIN q : x < q[j]
  BY DEF Kept, Typed, Aged
<1>1. q' \in Seq(Nat) /\ taken' \in Seq(Nat) /\ SubSeq(q, 1, n) \in Seq(Nat)
  BY <1>0 DEF Hands
<1>2. /\ Len(q') = Len(q) - n /\ Len(taken') = Len(taken) + n /\ Len(SubSeq(q, 1, n)) = n
      /\ DOMAIN q' = 1 .. Len(q) - n /\ DOMAIN taken' = 1 .. Len(taken) + n
      /\ DOMAIN q = 1 .. Len(q) /\ DOMAIN taken = 1 .. Len(taken)
      /\ Len(q) \in Nat /\ Len(taken) \in Nat /\ n \in Nat
  BY <1>0 DEF Hands
<1>3. \A i \in DOMAIN q' : i + n \in DOMAIN q /\ q'[i] = q[i + n]
  <2>1. ASSUME NEW i \in 1 .. Len(q) - n PROVE i + n \in 1 .. Len(q) /\ q'[i] = q[i + n]
    <3>1. /\ i + n \in 1 .. Len(q) /\ n + 1 \in 1 .. Len(q)
          /\ SubSeq(q, n + 1, Len(q))[i] = q[(n + 1) + i - 1]
      BY <1>0, <1>2
    <3>2. (n + 1) + i - 1 = i + n
      BY <1>2
    <3>. QED
      BY <3>1, <3>2 DEF Hands
  <2>. QED
    BY <1>2, <2>1
<1>4. \A i \in 1 .. n : SubSeq(q, 1, n)[i] = q[i]
  BY <1>0
<1>5. \A i \in DOMAIN taken' :
        IF i <= Len(taken) THEN i \in DOMAIN taken /\ taken'[i] = taken[i]
        ELSE i - Len(taken) \in 1 .. n /\ taken'[i] = q[i - Len(taken)]
  <2>0. \A i \in 1 .. Len(taken) + n :
          taken'[i] = IF i <= Len(taken) THEN taken[i] ELSE SubSeq(q, 1, n)[i - Len(taken)]
    BY <1>0, <1>1, <1>2, Concatenated DEF Hands
  <2>1. ASSUME NEW i \in 1 .. Len(taken) PROVE taken'[i] = taken[i]
    <3>1. i \in 1 .. Len(taken) + n /\ i <= Len(taken)
      BY <1>2
    <3>. QED
      BY <2>0, <3>1
  <2>2. ASSUME NEW i \in 1 .. Len(taken) + n, ~(i <= Len(taken))
        PROVE  i - Len(taken) \in 1 .. n /\ taken'[i] = q[i - Len(taken)]
    <3>1. i - Len(taken) \in 1 .. n
      BY <1>2, <2>2
    <3>2. taken'[i] = SubSeq(q, 1, n)[i - Len(taken)]
      BY <2>0, <2>2
    <3>. QED
      BY <1>4, <3>1, <3>2
  <2>3. \A i \in 1 .. Len(taken) + n : i <= Len(taken) => i \in 1 .. Len(taken)
    BY <1>2
  <2>. QED
    BY <1>2, <2>1, <2>2, <2>3
<1>6. Typed'
  BY <1>1 DEF Hands, Kept, Typed
<1>7. Aged'
  <2>1. Rising(q')
    BY <1>0, <1>1, <1>3 DEF Rising
  <2>2. Rising(taken')
    <3>1. ASSUME NEW i \in 1 .. Len(taken) + n, NEW j \in 1 .. Len(taken) + n, i < j
          PROVE  taken'[i] < taken'[j]
      <4>1. CASE j <= Len(taken)
        <5>1. /\ i \in DOMAIN taken /\ taken'[i] = taken[i]
              /\ j \in DOMAIN taken /\ taken'[j] = taken[j]
          BY <1>2, <1>5, <3>1, <4>1
        <5>. QED
          BY <1>0, <3>1, <5>1 DEF Rising
      <4>2. CASE i <= Len(taken) /\ ~(j <= Len(taken))
        <5>1. /\ i \in DOMAIN taken /\ taken'[i] = taken[i]
              /\ j - Len(taken) \in 1 .. n /\ taken'[j] = q[j - Len(taken)]
          BY <1>2, <1>5, <4>2
        <5>2. j - Len(taken) \in DOMAIN q
          BY <1>2, <5>1
        <5>. QED
          BY <1>0, <5>1, <5>2
      <4>3. CASE ~(i <= Len(taken))
        <5>1. /\ i - Len(taken) \in 1 .. n /\ taken'[i] = q[i - Len(taken)]
              /\ j - Len(taken) \in 1 .. n /\ taken'[j] = q[j - Len(taken)]
          BY <1>2, <1>5, <3>1, <4>3
        <5>2. /\ i - Len(taken) \in DOMAIN q /\ j - Len(taken) \in DOMAIN q
              /\ i - Len(taken) < j - Len(taken)
          BY <1>2, <3>1, <5>1
        <5>. QED
          BY <1>0, <5>1, <5>2 DEF Rising
      <4>. QED
        BY <4>1, <4>2, <4>3
    <3>. QED
      BY <1>2, <3>1 DEF Rising
  <2>3. \A i \in DOMAIN taken', j \in DOMAIN q' : taken'[i] < q'[j]
    <3>1. ASSUME NEW i \in DOMAIN taken', NEW j \in DOMAIN q' PROVE taken'[i] < q'[j]
      <4>1. j + n \in DOMAIN q /\ q'[j] = q[j + n]
        BY <1>3
      <4>2. CASE i <= Len(taken)
        BY <1>0, <1>5, <4>1, <4>2
      <4>3. CASE ~(i <= Len(taken))
        <5>1. i - Len(taken) \in 1 .. n /\ taken'[i] = q[i - Len(taken)]
          BY <1>5, <4>3
        <5>2. i - Len(taken) \in DOMAIN q /\ i - Len(taken) < j + n
          BY <1>2, <5>1
        <5>. QED
          BY <1>0, <4>1, <5>1, <5>2 DEF Rising
      <4>. QED
        BY <4>2, <4>3
    <3>. QED
      BY <3>1
  <2>4. \A x \in discarded \cup cleared, j \in DOMAIN q' : x < q'[j]
    BY <1>0, <1>3
  <2>. QED
    BY <2>1, <2>2, <2>3, <2>4 DEF Hands, Kept, Aged, Rising
<1>8. Elements(q') \cup Elements(taken') = Elements(q) \cup Elements(taken)
  <2>1. Elements(q') \cup Elements(taken') \subseteq Elements(q) \cup Elements(taken)
    BY <1>0, <1>3, <1>5 DEF Elements
  <2>2. ASSUME NEW i \in DOMAIN q PROVE q[i] \in Elements(q') \cup Elements(taken')
    <3>1. CASE i <= n
      <4>1. Len(taken) + i \in DOMAIN taken' /\ taken'[Len(taken) + i] = q[i]
        <5>1. i \in 1 .. n
          BY <1>2, <3>1
        <5>2. /\ Len(taken) + i \in 1 .. Len(taken) + n /\ ~(Len(taken) + i <= Len(taken))
              /\ (Len(taken) + i) - Len(taken) = i
          BY <1>2, <5>1
        <5>. QED
          BY <1>2, <1>5, <5>2
      <4>. QED
        BY <4>1 DEF Elements
    <3>2. CASE i > n
      <4>1. i - n \in DOMAIN q' /\ q'[i - n] = q[i]
        <5>1. i - n \in 1 .. Len(q) - n /\ (i - n) + n = i
          BY <1>2, <3>2
        <5>. QED
          BY <1>2, <1>3, <5>1
      <4>. QED
        BY <4>1 DEF Elements
    <3>. QED
      BY <1>0, <3>1, <3>2
  <2>3. ASSUME NEW i \in DOMAIN taken PROVE taken[i] \in Elements(taken')
    <3>1. i \in DOMAIN taken' /\ i <= Len(taken)
      BY <1>2
    <3>2. taken'[i] = taken[i]
      BY <1>5, <3>1
    <3>. QED
      BY <3>1, <3>2 DEF Elements
  <2>. QED
    BY <2>1, <2>2, <2>3 DEF Elements
<1>9. Accounted'
  <2>1. 1 .. accepted' = Elements(q') \cup Elements(taken') \cup discarded' \cup cleared'
    BY <1>8 DEF Hands, Kept, Accounted
  <2>2. Len(q') + Len(taken') = Len(q) + Len(taken)
    BY <1>0, <1>2
  <2>. QED
    BY <2>1, <2>2 DEF Hands, Kept, Accounted, Elements
<1>. QED
  BY <1>6, <1>7, <1>9 DEF Kept

LEMMA ForgetKeeps ==
  ASSUME Kept, sealed' \in Nat, Forgets
  PROVE  Kept'
<1>. DEFINE E == {q[i] : i \in 1 .. Len(q)}
<1>0. q \in Seq(Nat) /\ Rising(q) /\ Elements(q) = E /\ Len(q) \in 0 .. Len(q)
  BY DEF Kept, Typed, Aged, Elements
<1>1. IsFiniteSet(E) /\ Cardinality(E) = Len(q) /\ E \subseteq Nat
  BY <1>0, FirstItems
<1>2. cleared \cap E = {}
  BY DEF Kept, Typed, Aged
<1>3. /\ IsFiniteSet(cleared \cup E)
      /\ Cardinality(cleared \cup E) = Cardinality(cleared) + Len(q)
  BY <1>1, <1>2, Adding DEF Kept, Typed
<1>4. q' = <<>> /\ Elements(q') = {} /\ Len(q') = 0
  BY DEF Forgets, Elements
<1>5. Typed'
  <2>1. cleared \cup E \subseteq Nat
    BY <1>1 DEF Kept, Typed
  <2>2. IsFiniteSet(cleared')
    BY <1>3 DEF Forgets
  <2>. QED
    BY <1>4, <2>1, <2>2 DEF Forgets, Kept, Typed
<1>6. Aged'
  BY <1>4 DEF Forgets, Kept, Aged, Rising
<1>7. Accounted'
  <2>1. 1 .. accepted = {} \cup Elements(taken) \cup discarded \cup (cleared \cup E)
    BY <1>0 DEF Kept, Accounted
  <2>2. /\ Len(taken) \in Nat /\ Cardinality(discarded) \in Nat /\ Cardinality(cleared) \in Nat
    BY FS_CardinalityType DEF Kept, Typed
  <2>3. accepted = 0 + Len(taken) + Cardinality(discarded) + Cardinality(cleared \cup E)
    BY <1>0, <1>3, <2>2 DEF Kept, Accounted
  <2>. QED
    BY <1>4, <2>1, <2>3 DEF Forgets, Kept, Accounted, Elements
<1>. QED
  BY <1>5, <1>6, <1>7 DEF Kept

LEMMA StayKeeps ==
  ASSUME Kept, UNCHANGED items, sealed' \in Nat
  PROVE  Kept'
BY DEF Kept, Typed, Aged, Rising, Accounted, Elements, items

--------------------------------------------------------------------------------

\* What a step does to the items.
Moves ==
  \/ UNCHANGED items
  \/ \E n \in 0 .. Len(q) : Joins(n)
  \/ \E n \in 0 .. Len(q) : Hands(n)
  \/ Forgets

LEMMA NoneJoins ==
  ASSUME Typed, NEW p, NEW ws, Accept(p, q, ws), NoEviction, UNCHANGED <<taken, cleared>>
  PROVE  Moves
<1>1. SubSeq(q, 0 + 1, Len(q)) = q /\ 0 \in 0 .. Len(q) /\ Len(q) \in Nat
  BY DEF Typed
<1>2. {q[i] : i \in 1 .. 0} = {}
  OBVIOUS
<1>3. dropped_total + 0 = dropped_total
  BY DEF Typed
<1>4. Joins(0)
  BY <1>1, <1>2, <1>3 DEF Joins, Accept, NoEviction
<1>. QED
  BY <1>1, <1>4 DEF Moves

LEMMA OneHands ==
  ASSUME Typed, NEW c, NEW ws, q # <<>>, Deliver(c, ws), UNCHANGED <<accepted, dropped_total>>
  PROVE  Moves
<1>1. /\ Len(q) \in Nat /\ 1 \in 0 .. Len(q)
      /\ SubSeq(q, 1 + 1, Len(q)) = Tail(q) /\ Head(q) = q[1]
  BY DEF Typed
<1>3. SubSeq(q, 1, 1) = <<q[1]>>
  <2>1. /\ SubSeq(q, 1, 1) \in Seq(Nat) /\ Len(SubSeq(q, 1, 1)) = 1
        /\ SubSeq(q, 1, 1)[1] = q[1]
    BY <1>1 DEF Typed
  <2>2. ASSUME NEW s \in Seq(Nat), Len(s) = 1 PROVE s = <<s[1]>>
    <3>1. s = [i \in 1 .. 1 |-> s[i]]
      BY <2>2
    <3>2. <<s[1]>> = [i \in 1 .. 1 |-> s[1]]
      OBVIOUS
    <3>. QED
      BY <3>1, <3>2
  <2>. QED
    BY <2>1, <2>2
<1>2. taken \o <<Head(q)>> = Append(taken, Head(q))
  BY DEF Typed
<1>4. Hands(1)
  BY <1>1, <1>2, <1>3 DEF Hands, Deliver
<1>. QED
  BY <1>1, <1>4 DEF Moves

LEMMA PutMoves ==
  ASSUME Typed, maxsize \in Sizes,
         NEW p \in Producers, StartPut(p) \/ FinishPut(p)
  PROVE  Moves
<1>0. maxsize \in Nat \ {0} /\ Len(q) \in Nat
  BY QueueAssumption DEF Typed
<1>1. CASE PutClosed(p)
  BY <1>1 DEF PutClosed, Call, Decline, NoEviction, Moves, items
<1>2. CASE PutSpace(p)
  BY <1>2, NoneJoins DEF PutSpace, Call
<1>3. ASSUME NEW m, PutWait(p, m) PROVE Moves
  BY <1>3 DEF PutWait, Call, NoEviction, Moves, items
<1>4. ASSUME NEW m, PutDropOldest(p, m) PROVE Moves
  <2>1. Tail(q) = SubSeq(q, 1 + 1, Len(q)) /\ 1 \in 0 .. Len(q)
    BY <1>0, <1>4 DEF PutDropOldest, Full, Typed
  <2>2. Joins(1)
    BY <1>4, <2>1 DEF PutDropOldest, Call, Accept, Evict, Joins
  <2>. QED
    BY <2>1, <2>2 DEF Moves
<1>5. ASSUME NEW m, PutKeepLatest(p, m) PROVE Moves
  <2>1. <<>> = SubSeq(q, Len(q) + 1, Len(q)) /\ Len(q) \in 0 .. Len(q)
    BY <1>0 DEF Typed
  <2>2. Joins(Len(q))
    BY <1>5, <2>1 DEF PutKeepLatest, Call, Accept, Evict, Joins
  <2>. QED
    BY <2>1, <2>2 DEF Moves
<1>6. ASSUME NEW m, PutRefused(p, m) PROVE Moves
  BY <1>6 DEF PutRefused, Call, Decline, NoEviction, Moves, items
<1>7. CASE PutAfterWait(p)
  <2>1. Accept(p, q, Leave(p)) /\ NoEviction /\ UNCHANGED <<taken, cleared>>
    BY <1>7 DEF PutAfterWait, NoEviction, fates
  <2>. QED
    BY <2>1, NoneJoins
<1>8. CASE PutInterrupted(p) \/ PutTimeout(p) \/ PutWaitAgain(p)
  BY <1>8 DEF PutInterrupted, PutTimeout, PutWaitAgain, Decline, fates, Moves, items
<1>. QED
  BY <1>1, <1>2, <1>3, <1>4, <1>5, <1>6, <1>7, <1>8 DEF StartPut, FinishPut

LEMMA GetMoves ==
  ASSUME Typed, NEW c \in Consumers, StartGet(c) \/ FinishGet(c)
  PROVE  Moves
<1>1. ASSUME NEW m, GetItem(c, m) PROVE Moves
  BY <1>1, OneHands DEF GetItem, CallGet
<1>2. ASSUME NEW m, GetNothing(c, m) \/ GetWait(c, m) PROVE Moves
  BY <1>2 DEF GetNothing, GetWait, CallGet, fates, Moves, items
<1>3. CASE GetAfterWait(c)
  BY <1>3, OneHands DEF GetAfterWait, ResumeGet
<1>4. CASE GetEmpty(c) \/ GetWaitAgain(c)
  BY <1>4 DEF GetEmpty, GetWaitAgain, ResumeGet, fates, Moves, items
<1>. QED
  BY <1>1, <1>2, <1>3, <1>4 DEF StartGet, FinishGet

LEMMA ManageMoves ==
  ASSUME Typed, Manage PROVE Moves
<1>1. CASE Close
  BY <1>1 DEF Close, fates, Moves, items
<1>2. CASE Clear
  <2>1. Elements(q) = {q[i] : i \in 1 .. Len(q)}
    BY DEF Typed, Elements
  <2>. QED
    BY <1>2, <2>1 DEF Clear, Forgets, Moves
<1>3. ASSUME NEW n \in Items, Drain(n) PROVE Moves
  <2>1. n \in 0 .. Len(q)
    BY <1>3 DEF Drain, Typed
  <2>2. Hands(n)
    BY <1>3 DEF Drain, Hands
  <2>. QED
    BY <2>1, <2>2 DEF Moves
<1>. QED
  BY <1>1, <1>2, <1>3 DEF Manage

LEMMA StepMoves ==
  ASSUME Typed, maxsize \in Sizes, Next PROVE Moves
<1>1. ASSUME NEW c \in Iterators, Iterate(c) PROVE Moves
  BY <1>1 DEF Iterate, IterIsClosed, IterIsEmpty, fates, Moves, items
<1>. QED
  BY <1>1, PutMoves, GetMoves, ManageMoves DEF Next

LEMMA MoveKeeps ==
  ASSUME Kept, Moves, sealed' \in Nat PROVE Kept'
BY StayKeeps, JoinKeeps, HandKeeps, ForgetKeeps DEF Moves

\* What a step does to the threads and to closed.
Paces ==
  /\ maxsize' = maxsize /\ pc' \in [Callers -> Places]
  /\ \/ UNCHANGED <<closed, sealed>>
     \/ closed' = TRUE /\ sealed' = (IF closed THEN sealed ELSE accepted) /\ UNCHANGED <<q, accepted>>
  /\ \A c \in Iterators :
       /\ pc'[c] = "is_empty" => pc[c] = "is_empty" \/ closed
       /\ pc'[c] = "ended" => pc[c] = "ended" \/ (pc[c] = "is_empty" /\ q' = <<>>)

LEMMA StepPaces ==
  ASSUME pc \in [Callers -> Places], Next PROVE Paces
<1>. USE DEF Paces, Places, conf, Goto
<1>1. ASSUME NEW p \in Producers, StartPut(p) PROVE Paces
  <2>1. PICK m \in PutModes :
          \/ PutClosed(p) \/ PutSpace(p) \/ PutWait(p, m)
          \/ PutDropOldest(p, m) \/ PutKeepLatest(p, m) \/ PutRefused(p, m)
    BY <1>1 DEF StartPut
  <2>2. m \in {"now", "wait", "timed"} /\ p \in Callers /\ Iterators \subseteq Callers
    BY QueueAssumption DEF Modes, Callers, Consumers
  <2>3. CASE PutWait(p, m)
    BY <2>2, <2>3 DEF PutWait, Call, Wait
  <2>. QED
    BY <2>1, <2>2, <2>3 DEF PutClosed, PutSpace, PutDropOldest, PutKeepLatest, PutRefused,
                            Call, Accept, Decline
<1>2. ASSUME NEW p \in Producers, FinishPut(p) PROVE Paces
  <2>1. p \in Callers /\ Iterators \subseteq Callers
    BY DEF Callers, Consumers
  <2>. QED
    BY <1>2, <2>1 DEF FinishPut, PutAfterWait, PutInterrupted, PutTimeout, PutWaitAgain, Resume,
                      Awake, Waiting, Accept, Decline, Wait
<1>3. ASSUME NEW c \in Consumers, StartGet(c) PROVE Paces
  <2>1. c \in Callers /\ Iterators \subseteq Callers
    BY DEF Callers, Consumers
  <2>2. PICK m \in Modes : GetItem(c, m) \/ GetNothing(c, m) \/ GetWait(c, m)
    BY <1>3 DEF StartGet
  <2>. QED
    BY <2>1, <2>2 DEF GetItem, GetNothing, GetWait, CallGet, Deliver, Nothing, Wait, Modes
<1>4. ASSUME NEW c \in Consumers, FinishGet(c) PROVE Paces
  <2>1. c \in Callers /\ Iterators \subseteq Callers
    BY DEF Callers, Consumers
  <2>. QED
    BY <1>4, <2>1 DEF FinishGet, GetAfterWait, GetEmpty, GetWaitAgain, ResumeGet, Resume,
                      Awake, Waiting, Deliver, Nothing, Wait
<1>5. ASSUME NEW c \in Iterators, Iterate(c) PROVE Paces
  <2>1. c \in Callers /\ Iterators \subseteq Callers
    BY DEF Callers, Consumers
  <2>. QED
    BY <1>5, <2>1 DEF Iterate, IterIsClosed, IterIsEmpty
<1>6. CASE Manage
  BY <1>6 DEF Manage, Close, Clear, Drain
<1>. QED
  BY <1>1, <1>2, <1>3, <1>4, <1>5, <1>6 DEF Next

LEMMA EndKeeps ==
  ASSUME IInv, Moves, Paces PROVE Iterating' /\ DrainedBeforeEnd' /\ sealed' \in Nat
<1>0. /\ q \in Seq(Nat) /\ accepted \in Nat /\ sealed \in Nat /\ sealed <= accepted
      /\ \A c \in Iterators : pc[c] = "is_empty" => closed
      /\ \A c \in Iterators : pc[c] = "ended" => closed /\ \A x \in Elements(q) : x > sealed
  BY DEF IInv, Kept, Typed, Iterating, DrainedBeforeEnd
<1>1. accepted' \in {accepted, accepted + 1} /\ Elements(q') \subseteq Elements(q) \cup {accepted + 1}
  <2>1. CASE UNCHANGED items
    BY <2>1 DEF items
  <2>2. ASSUME NEW n \in 0 .. Len(q), Joins(n) \/ Hands(n)
        PROVE  /\ accepted' \in {accepted, accepted + 1}
               /\ Elements(q') \subseteq Elements(q) \cup {accepted + 1}
    <3>1. ASSUME NEW i \in DOMAIN SubSeq(q, n + 1, Len(q))
          PROVE  SubSeq(q, n + 1, Len(q))[i] \in Elements(q)
      <4>1. i + n \in DOMAIN q /\ SubSeq(q, n + 1, Len(q))[i] = q[i + n]
        <5>1. i \in 1 .. Len(q) - n /\ i + n \in 1 .. Len(q)
          BY <1>0
        <5>2. SubSeq(q, n + 1, Len(q))[i] = q[(n + 1) + i - 1]
          BY <1>0, <5>1
        <5>3. (n + 1) + i - 1 = i + n
          BY <1>0, <5>1
        <5>. QED
          BY <1>0, <5>1, <5>2, <5>3
      <4>. QED
        BY <4>1 DEF Elements
    <3>2. Elements(SubSeq(q, n + 1, Len(q))) \subseteq Elements(q)
      BY <3>1 DEF Elements
    <3>3. ASSUME NEW s \in Seq(Nat)
          PROVE  Elements(Append(s, accepted + 1)) \subseteq Elements(s) \cup {accepted + 1}
      BY <1>0 DEF Elements
    <3>4. SubSeq(q, n + 1, Len(q)) \in Seq(Nat)
      BY <1>0
    <3>. QED
      BY <2>2, <3>2, <3>3, <3>4 DEF Joins, Hands
  <2>3. CASE Forgets
    BY <2>3 DEF Forgets, Elements
  <2>. QED
    BY <2>1, <2>2, <2>3 DEF Moves
<1>2. (closed => closed') /\ sealed' \in Nat /\ sealed' <= accepted' /\ (closed => sealed' = sealed)
  BY <1>0, <1>1 DEF Paces
<1>3. Iterating'
  BY <1>0, <1>2 DEF IInv, Iterating, Paces
<1>4. ASSUME NEW c \in Iterators, pc'[c] = "ended"
      PROVE  closed' /\ \A x \in Elements(q') : x > sealed'
  <2>1. CASE pc[c] = "ended"
    BY <1>0, <1>1, <1>2, <2>1
  <2>2. CASE pc[c] = "is_empty" /\ q' = <<>>
    BY <1>0, <1>2, <2>2 DEF Elements
  <2>. QED
    BY <1>4, <2>1, <2>2 DEF Paces
<1>. QED
  BY <1>2, <1>3, <1>4 DEF DrainedBeforeEnd, Elements

--------------------------------------------------------------------------------

\* Every accepted item is in one place and counted once, the order is kept, and an
\* iteration ends on a drained queue.
THEOREM Invariance == Spec => []IInv
<1>1. Init => IInv
  <2>1. ASSUME Init PROVE IInv
    <3>1. Typed /\ Aged
      BY <2>1, FS_EmptySet DEF Init, Typed, Aged, Rising
    <3>2. Accounted
      BY <2>1, FS_EmptySet DEF Init, Accounted, Elements
    <3>3. Iterating /\ DrainedBeforeEnd
      BY <2>1 DEF Init, Iterating, Places, DrainedBeforeEnd, Callers, Consumers
    <3>. QED
      BY <3>1, <3>2, <3>3 DEF IInv, Kept
  <2>. QED
    BY <2>1
<1>2. IInv /\ [Next]_vars => IInv'
  <2>1. ASSUME IInv, Next PROVE IInv'
    <3>1. Moves /\ Paces
      BY <2>1, StepMoves, StepPaces DEF IInv, Kept, Iterating
    <3>2. Iterating' /\ DrainedBeforeEnd' /\ sealed' \in Nat
      BY <2>1, <3>1, EndKeeps
    <3>. QED
      BY <2>1, <3>1, <3>2, MoveKeeps DEF IInv
  <2>2. ASSUME IInv, UNCHANGED vars PROVE IInv'
    <3>1. Kept'
      BY <2>2, StayKeeps DEF IInv, Kept, Typed, vars, fates, items
    <3>2. Iterating' /\ DrainedBeforeEnd'
      BY <2>2 DEF IInv, Iterating, DrainedBeforeEnd, Elements, vars, conf, fates
    <3>. QED
      BY <3>1, <3>2 DEF IInv
  <2>. QED
    BY <2>1, <2>2
<1>. QED
  BY <1>1, <1>2, PTL DEF Spec

\* No accepted item is lost, handed out twice or evicted without being counted, for every
\* size, policy and number of threads (put and get, lines 147-256).
THEOREM NothingLost == Spec => []Accounted
<1>1. IInv => Accounted
  BY DEF IInv, Kept
<1>. QED
  BY <1>1, Invariance, PTL

\* Items leave in the order in which they were accepted, over all consumers.
THEOREM FirstInFirstOut == Spec => []InOrder
<1>1. ASSUME IInv PROVE InOrder
  <2>0. /\ taken \in Seq(Nat) /\ q \in Seq(Nat) /\ Rising(q) /\ Rising(taken)
        /\ \A i \in DOMAIN taken, j \in DOMAIN q : taken[i] < q[j]
    BY <1>1 DEF IInv, Kept, Typed, Aged
  <2>1. /\ DOMAIN (taken \o q) = 1 .. Len(taken) + Len(q)
        /\ DOMAIN taken = 1 .. Len(taken) /\ DOMAIN q = 1 .. Len(q)
        /\ Len(taken) \in Nat /\ Len(q) \in Nat
    BY <2>0
  <2>2. \A i \in 1 .. Len(taken) + Len(q) :
          (taken \o q)[i] = IF i <= Len(taken) THEN taken[i] ELSE q[i - Len(taken)]
    BY <2>0, Concatenated
  <2>3. ASSUME NEW i \in 1 .. Len(taken) + Len(q), NEW j \in 1 .. Len(taken) + Len(q), i < j
        PROVE  (taken \o q)[i] < (taken \o q)[j]
    <3>1. CASE j <= Len(taken)
      <4>1. i \in 1 .. Len(taken) /\ j \in 1 .. Len(taken) /\ i <= Len(taken)
        BY <2>1, <2>3, <3>1
      <4>. QED
        BY <2>0, <2>1, <2>2, <2>3, <3>1, <4>1 DEF Rising
    <3>2. CASE i <= Len(taken) /\ ~(j <= Len(taken))
      <4>1. i \in 1 .. Len(taken) /\ j - Len(taken) \in 1 .. Len(q)
        BY <2>1, <3>2
      <4>. QED
        BY <2>0, <2>1, <2>2, <3>2, <4>1
    <3>3. CASE ~(i <= Len(taken))
      <4>1. /\ i - Len(taken) \in 1 .. Len(q) /\ j - Len(taken) \in 1 .. Len(q)
            /\ i - Len(taken) < j - Len(taken) /\ ~(j <= Len(taken))
        BY <2>1, <2>3, <3>3
      <4>. QED
        BY <2>0, <2>1, <2>2, <3>3, <4>1 DEF Rising
    <3>. QED
      BY <3>1, <3>2, <3>3
  <2>. QED
    BY <1>1, <2>1, <2>3 DEF InOrder, IInv, Kept, Aged
<1>2. IInv => InOrder
  BY <1>1
<1>. QED
  BY <1>2, Invariance, PTL

\* An iteration ends only when all that was accepted before close() has left the queue
\* (__iter__, lines 258-266).
THEOREM EndsDrained == Spec => []DrainedBeforeEnd
<1>1. IInv => DrainedBeforeEnd
  BY DEF IInv
<1>. QED
  BY <1>1, Invariance, PTL

================================================================================
