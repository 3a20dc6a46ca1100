-------------------------- MODULE FileTools_proofs --------------------------
(***************************************************************************)
(* Theorems about the file server's tools, for any number of requests, any *)
(* texts and any size: how texts are cut (Text), what a read sees while    *)
(* others write, and which texts are lost.                                 *)
(***************************************************************************)
EXTENDS FileTools, SequenceTheorems, WellFoundedInduction, TLAPS

(***************************************************************************)
(* Loops that go back                                                      *)
(***************************************************************************)
\* A set of natural numbers has a least one.
LEMMA LeastOne ==
  ASSUME NEW S, S \subseteq Nat, S # {}
  PROVE  \E x \in S : \A y \in S : x <= y
<1> DEFINE less == OpToRel(<, Nat)
<1>1. \A x, y \in Nat : <<y, x>> \in less <=> y < x
  BY DEF OpToRel
<1>2. IsWellFoundedOn(less, Nat)
  BY NatLessThanWellFounded DEF OpToRel
<1> HIDE DEF less
<1>3. PICK x \in S : \A y \in S : ~(<<y, x>> \in less)
  BY <1>2, WFMin
<1>4. ASSUME NEW y \in S PROVE x <= y
  <2>1. x \in Nat /\ y \in Nat
    OBVIOUS
  <2>2. ~(y < x)
    BY <1>1, <1>3, <2>1
  <2> QED
    BY <2>1, <2>2
<1> QED
  BY <1>4

\* The last place, at n or before, where a loop that goes back stops.
LEMMA LastStop ==
  ASSUME NEW n \in Nat, NEW stop, 0 \in stop
  PROVE  \E k \in 0 .. n : k \in stop /\ \A m \in 0 .. n : m \in stop => m <= k
<1> DEFINE S == {d \in 0 .. n : n - d \in stop}
<1>1. n \in S /\ S \subseteq Nat
  OBVIOUS
<1>2. PICK d \in S : \A e \in S : d <= e
  BY <1>1, LeastOne
<1>3. n - d \in 0 .. n /\ n - d \in stop
  BY <1>2
<1>4. ASSUME NEW m \in 0 .. n, m \in stop PROVE m <= n - d
  <2>1. n - m \in S
    BY <1>4
  <2>2. d <= n - m /\ d \in 0 .. n
    BY <1>2, <2>1
  <2> QED
    BY <2>2
<1> QED
  BY <1>3, <1>4

\* A loop that goes back as long as stop does not hold, as a recursive function.
Loop(keep, limit, stop) == keep = [n \in 0 .. limit |-> IF n \in stop THEN n ELSE keep[n - 1]]

LEMMA LoopExists ==
  ASSUME NEW limit \in Nat, NEW stop, 0 \in stop
  PROVE  \E keep : Loop(keep, limit, stop)
<1> DEFINE Ends(n, k) == k \in 0 .. n /\ k \in stop /\ \A m \in 0 .. n : m \in stop => m <= k
           keep == [n \in 0 .. limit |-> CHOOSE k \in 0 .. n : Ends(n, k)]
<1>1. ASSUME NEW n \in 0 .. limit PROVE Ends(n, keep[n])
  <2>1. \E k \in 0 .. n : Ends(n, k)
    <3> HIDE DEF keep
    <3>1. n \in Nat
      OBVIOUS
    <3>2. \E k \in 0 .. n : k \in stop /\ \A m \in 0 .. n : m \in stop => m <= k
      BY <3>1, LastStop
    <3> QED
      BY <3>2
  <2>2. keep[n] = CHOOSE k \in 0 .. n : Ends(n, k)
    OBVIOUS
  <2> HIDE DEF keep, Ends
  <2> QED
    BY <2>1, <2>2
<1>2. \A n \in 0 .. limit, k, l \in Nat : Ends(n, k) /\ Ends(n, l) => k = l
  OBVIOUS
<1>3. ASSUME NEW n \in 0 .. limit PROVE keep[n] = IF n \in stop THEN n ELSE keep[n - 1]
  <2>1. CASE n \in stop
    <3>1. Ends(n, n)
      BY <2>1
    <3>2. keep[n] \in Nat
      BY <1>1
    <3> HIDE DEF keep, Ends
    <3> QED
      BY <1>1, <1>2, <2>1, <3>1, <3>2
  <2>2. CASE n \notin stop
    <3>1. n - 1 \in 0 .. limit
      BY <2>2
    <3>2. Ends(n - 1, keep[n - 1])
      BY <1>1, <3>1
    <3>3. Ends(n, keep[n - 1]) /\ keep[n - 1] \in Nat
      <4> HIDE DEF keep
      <4> QED
        BY <2>2, <3>1, <3>2
    <3>4. Ends(n, keep[n]) /\ keep[n] \in Nat
      BY <1>1
    <3> HIDE DEF keep, Ends
    <3> QED
      BY <1>2, <2>2, <3>3, <3>4
  <2> QED
    BY <2>1, <2>2
<1>4. keep = [n \in 0 .. limit |-> IF n \in stop THEN n ELSE keep[n - 1]]
  <2>1. keep = [n \in 0 .. limit |-> keep[n]]
    OBVIOUS
  <2> HIDE DEF keep
  <2> QED
    BY <1>3, <2>1
<1> QED
  BY <1>4 DEF Loop

\* It ends at the last stop.
LEMMA LoopStops ==
  ASSUME NEW limit \in Nat, NEW stop, 0 \in stop, NEW keep, Loop(keep, limit, stop), NEW n \in 0 .. limit
  PROVE  /\ keep[n] \in 0 .. n /\ keep[n] \in stop
         /\ \A m \in 0 .. n : m \in stop => m <= keep[n]
<1> DEFINE Ends(i) == /\ keep[i] \in 0 .. i /\ keep[i] \in stop
                      /\ \A m \in 0 .. i : m \in stop => m <= keep[i]
           bad == {i \in 0 .. limit : ~Ends(i)}
<1>1. \A i \in 0 .. limit : keep[i] = IF i \in stop THEN i ELSE keep[i - 1]
  BY DEF Loop
<1>2. ASSUME bad # {} PROVE FALSE
  <2>1. PICK i \in bad : \A j \in bad : i <= j
    <3>1. bad \subseteq Nat
      OBVIOUS
    <3> HIDE DEF bad
    <3> QED
      BY <1>2, <3>1, LeastOne
  <2>2. i \notin stop
    BY <1>1, <2>1
  <2>3. i - 1 \in 0 .. limit
    BY <2>1, <2>2
  <2>4. Ends(i - 1)
    BY <2>1, <2>3
  <2>5. keep[i] = keep[i - 1]
    BY <1>1, <2>1, <2>2
  <2>6. Ends(i)
    BY <2>1, <2>2, <2>3, <2>4, <2>5
  <2> QED
    BY <2>1, <2>6
<1> QED
  BY <1>2
(***************************************************************************)
(* Cutting texts                                                           *)
(***************************************************************************)
LEMMA TakeIs ==
  ASSUME NEW s \in Seq(Byte), NEW n \in 0 .. Len(s)
  PROVE  Take(s, n) \in Seq(Byte) /\ Len(Take(s, n)) = n /\ \A i \in 1 .. n : Take(s, n)[i] = s[i]
<1>1. n \in Nat /\ n <= Len(s) /\ \A i \in 1 .. n : s[i] \in Byte
  OBVIOUS
<1> QED
  BY <1>1, SubSeqProperties DEF Take

LEMMA TakeTwice ==
  ASSUME NEW s \in Seq(Byte), NEW n \in 0 .. Len(s), NEW m \in 0 .. n
  PROVE  Take(Take(s, n), m) = Take(s, m)
<1> DEFINE t == Take(s, n)
<1>1. t \in Seq(Byte) /\ Len(t) = n /\ \A i \in 1 .. n : t[i] = s[i]
  BY TakeIs
<1> HIDE DEF t
<1>2. m \in 0 .. Len(t) /\ m \in 0 .. Len(s)
  BY <1>1
<1>3. /\ Take(t, m) \in Seq(Byte) /\ Len(Take(t, m)) = m /\ \A i \in 1 .. m : Take(t, m)[i] = t[i]
      /\ Take(s, m) \in Seq(Byte) /\ Len(Take(s, m)) = m /\ \A i \in 1 .. m : Take(s, m)[i] = s[i]
  BY <1>1, <1>2, TakeIs
<1>4. \A i \in 1 .. m : Take(t, m)[i] = Take(s, m)[i]
  BY <1>1, <1>3
<1>5. Take(t, m) = Take(s, m)
  BY <1>3, <1>4, SeqEqual
<1> QED
  BY <1>5 DEF t

LEMMA TakeAll ==
  ASSUME NEW s \in Seq(Byte)
  PROVE  Take(s, Len(s)) = s
BY SubSeqFull DEF Take

\* A valid text may be cut before a byte that begins a character, nowhere else.
LEMMA ValidCut ==
  ASSUME NEW s \in Seq(Byte), Valid(s), NEW n \in 0 .. Len(s)
  PROVE  Valid(Take(s, n)) <=> n = 0 \/ n = Len(s) \/ s[n + 1] # "tail"
<1> DEFINE t == Take(s, n)
<1>1. t \in Seq(Byte) /\ Len(t) = n /\ \A i \in 1 .. n : t[i] = s[i]
  BY TakeIs
<1> HIDE DEF t
<1>2. DOMAIN s = 1 .. Len(s) /\ DOMAIN t = 1 .. n
  BY <1>1
<1>3. \A i \in 1 .. Len(s) : /\ s[i] = "lead" => i < Len(s) /\ s[i + 1] = "tail"
                             /\ s[i] = "tail" => i > 1 /\ s[i - 1] = "lead"
  BY <1>2 DEF Valid
<1>4. ASSUME n # 0, n # Len(s), s[n + 1] = "tail" PROVE ~Valid(t)
  <2>1. n \in 1 .. n /\ n + 1 \in 1 .. Len(s) /\ n + 1 - 1 = n
    BY <1>4
  <2>2. s[n] = "lead"
    BY <1>3, <1>4, <2>1
  <2>3. t[n] = "lead" /\ ~(n < Len(t))
    BY <1>1, <2>1, <2>2
  <2> QED
    BY <1>2, <2>1, <2>3 DEF Valid
<1>5. ASSUME n = 0 \/ n = Len(s) \/ s[n + 1] # "tail" PROVE Valid(t)
  <2>1. ASSUME NEW i \in 1 .. n, t[i] = "lead" PROVE i < n /\ t[i + 1] = "tail"
    <3>1. i \in 1 .. Len(s) /\ s[i] = "lead"
      BY <1>1, <2>1
    <3>2. i < Len(s) /\ s[i + 1] = "tail"
      BY <1>3, <3>1
    <3>3. i # n
      BY <1>5, <3>2
    <3>4. i + 1 \in 1 .. n
      BY <3>3
    <3> QED
      BY <1>1, <3>2, <3>4
  <2>2. ASSUME NEW i \in 1 .. n, t[i] = "tail" PROVE i > 1 /\ t[i - 1] = "lead"
    <3>1. i \in 1 .. Len(s) /\ s[i] = "tail"
      BY <1>1, <2>2
    <3>2. i > 1 /\ s[i - 1] = "lead"
      BY <1>3, <3>1
    <3>3. i - 1 \in 1 .. n
      BY <3>2
    <3> QED
      BY <1>1, <3>2, <3>3
  <2> QED
    BY <1>1, <1>2, <2>1, <2>2 DEF Valid
<1> QED
  BY <1>4, <1>5 DEF t

\* n is the last place within the limit at which s may be cut.
LastCut(s, limit, n) ==
  /\ n \in 0 .. limit /\ n <= Len(s) /\ Valid(Take(s, n))
  /\ \A m \in 0 .. limit : m <= Len(s) /\ Valid(Take(s, m)) => m <= n

LEMMA NothingIsValid == \A s \in Seq(Byte) : Valid(Take(s, 0))
<1> SUFFICES ASSUME NEW s \in Seq(Byte) PROVE Valid(Take(s, 0))
  OBVIOUS
<1>1. Take(s, 0) \in Seq(Byte) /\ Len(Take(s, 0)) = 0
  BY TakeIs
<1> QED
  BY <1>1 DEF Valid

LEMMA TrimmedIs ==
  ASSUME NEW s \in Seq(Byte)
  PROVE  \E n \in 0 .. Len(s) : Trimmed(s) = Take(s, n) /\ LastCut(s, Len(s), n)
<1> DEFINE stop == {n \in 0 .. Len(s) : n = 0 \/ Valid(Take(s, n))}
           K(f) == f = [n \in 0 .. Len(s) |-> IF n = 0 \/ Valid(Take(s, n)) THEN n ELSE f[n - 1]]
           keep == CHOOSE f : K(f)
<1>1. \A f : K(f) <=> Loop(f, Len(s), stop)
  BY DEF Loop
<1>2. 0 \in stop /\ Len(s) \in Nat
  OBVIOUS
<1>3. Trimmed(s) = Take(s, keep[Len(s)])
  BY DEF Trimmed
<1> HIDE DEF stop, K
<1>4. \E f : K(f)
  BY <1>1, <1>2, LoopExists
<1>5. Loop(keep, Len(s), stop)
  BY <1>1, <1>4
<1> HIDE DEF keep
<1>6. /\ keep[Len(s)] \in 0 .. Len(s) /\ keep[Len(s)] \in stop
      /\ \A m \in 0 .. Len(s) : m \in stop => m <= keep[Len(s)]
  BY <1>2, <1>5, LoopStops
<1>7. \A n \in 0 .. Len(s) : n \in stop <=> Valid(Take(s, n))
  BY NothingIsValid DEF stop
<1> QED
  BY <1>3, <1>6, <1>7 DEF LastCut

\* The loop of files.read ends at the last place; a text that is short enough is
\* read when it is valid.
LEMMA ReadCutIs ==
  ASSUME NEW s \in Seq(Byte), Valid(s), NEW limit \in Nat
  PROVE  \E n \in 0 .. Len(s) : ReadCut(s, limit) = Take(s, n) /\ LastCut(s, limit, n)
<1>1. CASE Len(s) <= limit
  <2>1. ReadCut(s, limit) = Take(s, Len(s)) /\ Take(s, Len(s)) = s
    BY <1>1, TakeAll DEF ReadCut
  <2>2. LastCut(s, limit, Len(s))
    BY <1>1, <2>1 DEF LastCut
  <2> QED
    BY <2>1, <2>2
<1>2. CASE Len(s) > limit
  <2> DEFINE t == Take(s, limit)
  <2>1. limit \in 0 .. Len(s)
    BY <1>2
  <2>2. t \in Seq(Byte) /\ Len(t) = limit
    BY <2>1, TakeIs
  <2>3. ReadCut(s, limit) = Trimmed(t)
    BY <1>2 DEF ReadCut
  <2>4. \A m \in 0 .. limit : Take(t, m) = Take(s, m)
    BY <2>1, TakeTwice
  <2> HIDE DEF t
  <2>5. PICK n \in 0 .. limit : Trimmed(t) = Take(t, n) /\ LastCut(t, limit, n)
    BY <2>2, TrimmedIs
  <2>6. LastCut(s, limit, n)
    BY <1>2, <2>2, <2>4, <2>5 DEF LastCut
  <2> QED
    BY <2>1, <2>3, <2>4, <2>5, <2>6
<1> QED
  BY <1>1, <1>2

\* So does the loop of validUTF8Prefix, which looks at one byte only.
LEMMA PrefixIs ==
  ASSUME NEW s \in Seq(Byte), Valid(s), NEW limit \in Nat
  PROVE  \E n \in 0 .. Len(s) : ValidUTF8Prefix(s, limit) = Take(s, n) /\ LastCut(s, limit, n)
<1>1. CASE Len(s) <= limit
  <2>1. ValidUTF8Prefix(s, limit) = Take(s, Len(s)) /\ Take(s, Len(s)) = s
    BY <1>1, TakeAll DEF ValidUTF8Prefix
  <2>2. LastCut(s, limit, Len(s))
    BY <1>1, <2>1 DEF LastCut
  <2> QED
    BY <2>1, <2>2
<1>2. CASE Len(s) > limit
  <2> DEFINE stop == {n \in 0 .. limit : n = 0 \/ s[n + 1] # "tail"}
             K(f) == f = [n \in 0 .. limit |-> IF n = 0 \/ s[n + 1] # "tail" THEN n ELSE f[n - 1]]
             keep == CHOOSE f : K(f)
  <2>1. \A f : K(f) <=> Loop(f, limit, stop)
    BY DEF Loop
  <2>2. 0 \in stop
    OBVIOUS
  <2>3. ValidUTF8Prefix(s, limit) = Take(s, keep[limit])
    BY <1>2 DEF ValidUTF8Prefix
  <2>4. \A n \in 0 .. limit : n \in stop <=> Valid(Take(s, n))
    <3> SUFFICES ASSUME NEW n \in 0 .. limit PROVE n \in stop <=> Valid(Take(s, n))
      OBVIOUS
    <3>1. n \in 0 .. Len(s) /\ n # Len(s)
      BY <1>2
    <3> QED
      BY <3>1, ValidCut
  <2> HIDE DEF stop, K
  <2>5. \E f : K(f)
    BY <2>1, <2>2, LoopExists
  <2>6. Loop(keep, limit, stop)
    BY <2>1, <2>5
  <2> HIDE DEF keep
  <2>7. /\ keep[limit] \in 0 .. limit /\ keep[limit] \in stop
        /\ \A m \in 0 .. limit : m \in stop => m <= keep[limit]
    BY <2>2, <2>6, LoopStops
  <2>8. keep[limit] \in 0 .. Len(s)
    BY <1>2, <2>7
  <2>9. LastCut(s, limit, keep[limit])
    BY <1>2, <2>4, <2>7 DEF LastCut
  <2> QED
    BY <2>3, <2>8, <2>9
<1> QED
  BY <1>1, <1>2

LEMMA SameCut ==
  ASSUME NEW s \in Seq(Byte), Valid(s), NEW limit \in Nat
  PROVE  ValidUTF8Prefix(s, limit) = ReadCut(s, limit)
<1>1. PICK n \in 0 .. Len(s) : ReadCut(s, limit) = Take(s, n) /\ LastCut(s, limit, n)
  BY ReadCutIs
<1>2. PICK m \in 0 .. Len(s) : ValidUTF8Prefix(s, limit) = Take(s, m) /\ LastCut(s, limit, m)
  BY PrefixIs
<1>3. m <= n /\ n <= m
  BY <1>1, <1>2 DEF LastCut
<1>4. m = n
  BY <1>3
<1> QED
  BY <1>1, <1>2, <1>4

\* What either of them returns.
LEMMA CutIs ==
  ASSUME NEW s \in Seq(Byte), Valid(s), NEW limit \in Nat
  PROVE  /\ ReadCut(s, limit) \in Seq(Byte) /\ Valid(ReadCut(s, limit))
         /\ Len(ReadCut(s, limit)) <= limit /\ IsPrefix(ReadCut(s, limit), s)
         /\ \A n \in Len(ReadCut(s, limit)) + 1 .. Least(limit, Len(s)) : ~Valid(Take(s, n))
<1>1. PICK k \in 0 .. Len(s) : ReadCut(s, limit) = Take(s, k) /\ LastCut(s, limit, k)
  BY ReadCutIs
<1> DEFINE cut == Take(s, k)
<1>2. cut \in Seq(Byte) /\ Len(cut) = k
  BY TakeIs
<1>3. SubSeq(cut, 1, Len(cut)) = SubSeq(s, 1, Len(cut))
  BY <1>2, SubSeqFull DEF Take
<1>4. ASSUME NEW n \in k + 1 .. Least(limit, Len(s)) PROVE ~Valid(Take(s, n))
  BY <1>1, <1>4 DEF LastCut, Least
<1> QED
  BY <1>1, <1>2, <1>3, <1>4 DEF LastCut, IsPrefix

\* The dots after a summary that was cut leave it valid.
LEMMA DotsAreValid ==
  ASSUME NEW s \in Seq(Byte), Valid(s)
  PROVE  /\ s \o <<"a", "a", "a">> \in Seq(Byte) /\ Len(s \o <<"a", "a", "a">>) = Len(s) + 3
         /\ Valid(s \o <<"a", "a", "a">>)
<1> DEFINE dots == <<"a", "a", "a">>
           t == s \o dots
<1>1. dots \in Seq(Byte) /\ Len(dots) = 3 /\ \A i \in 1 .. 3 : dots[i] = "a"
  BY DEF Byte
<1> HIDE DEF dots
<1>2. /\ t \in Seq(Byte) /\ Len(t) = Len(s) + 3
      /\ \A i \in 1 .. Len(s) + 3 : t[i] = IF i <= Len(s) THEN s[i] ELSE dots[i - Len(s)]
  <2>1. /\ t \in Seq(Byte) /\ Len(t) = Len(s) + Len(dots)
        /\ \A i \in 1 .. Len(s) + Len(dots) : t[i] = IF i <= Len(s) THEN s[i] ELSE dots[i - Len(s)]
    BY <1>1, ConcatProperties
  <2> HIDE DEF t
  <2> QED
    BY <1>1, <2>1
<1>3. (\A i \in 1 .. Len(s) : t[i] = s[i]) /\ \A i \in Len(s) + 1 .. Len(s) + 3 : t[i] = "a"
  BY <1>1, <1>2
<1>4. DOMAIN s = 1 .. Len(s) /\ DOMAIN t = 1 .. Len(s) + 3
  BY <1>2, LenProperties
<1> HIDE DEF t
<1>7. \A i \in 1 .. Len(s) : /\ s[i] = "lead" => i < Len(s) /\ s[i + 1] = "tail"
                             /\ s[i] = "tail" => i > 1 /\ s[i - 1] = "lead"
  BY <1>4 DEF Valid
<1>5. ASSUME NEW i \in 1 .. Len(s) + 3
      PROVE  /\ t[i] = "lead" => i < Len(t) /\ t[i + 1] = "tail"
             /\ t[i] = "tail" => i > 1 /\ t[i - 1] = "lead"
  <2>1. CASE i > Len(s)
    BY <1>3, <2>1
  <2>2. CASE i <= Len(s)
    <3>1. i \in 1 .. Len(s) /\ t[i] = s[i]
      BY <1>3, <2>2
    <3>2. s[i] = "lead" => i < Len(s) /\ s[i + 1] = "tail" /\ i + 1 \in 1 .. Len(s)
      BY <1>7, <3>1
    <3>3. s[i] = "tail" => i > 1 /\ s[i - 1] = "lead" /\ i - 1 \in 1 .. Len(s)
      BY <1>7, <3>1
    <3> QED
      BY <1>2, <1>3, <3>1, <3>2, <3>3
  <2> QED
    BY <2>1, <2>2
<1>6. Valid(t)
  BY <1>4, <1>5 DEF Valid
<1> QED
  BY <1>2, <1>6 DEF t, dots

LEMMA TruncateIs ==
  ASSUME NEW s \in Seq(Byte), Valid(s), NEW limit \in Nat
  PROVE  Valid(Truncate(s, limit)) /\ Len(Truncate(s, limit)) <= limit
<1>1. CASE Len(s) <= limit
  <2>1. ~(Len(s) > limit)
    BY <1>1
  <2>2. Truncate(s, limit) = s
    BY <1>1, <2>1, Zenon DEF Truncate
  <2> QED
    BY <1>1, <2>2
<1>2. CASE Len(s) > limit /\ limit <= 3
  <2>1. ~(Len(s) <= limit)
    BY <1>2
  <2>2. Truncate(s, limit) = ValidUTF8Prefix(s, limit)
    BY <1>2, <2>1, Zenon DEF Truncate
  <2> QED
    BY <2>2, SameCut, CutIs
<1>3. CASE Len(s) > limit /\ limit > 3
  <2>1. ~(Len(s) <= limit) /\ ~(limit <= 3)
    BY <1>3
  <2>2. Truncate(s, limit) = ValidUTF8Prefix(s, limit - 3) \o <<"a", "a", "a">>
    BY <2>1, Zenon DEF Truncate
  <2>3. limit - 3 \in Nat
    BY <1>3
  <2> DEFINE cut == ReadCut(s, limit - 3)
  <2>4. cut \in Seq(Byte) /\ Valid(cut) /\ Len(cut) <= limit - 3
    BY <2>3, CutIs
  <2>5. ValidUTF8Prefix(s, limit - 3) = cut
    BY <2>3, SameCut
  <2> HIDE DEF cut
  <2> QED
    BY <2>2, <2>3, <2>4, <2>5, DotsAreValid
<1> QED
  BY <1>1, <1>2, <1>3

(***************************************************************************)
(* Snippets                                                                *)
(***************************************************************************)
\* q begins at i.
Matches(s, q, i) == i + Len(q) - 1 <= Len(s) /\ SubSeq(s, i, i + Len(q) - 1) = q

LEMMA IndexIs ==
  ASSUME NEW s \in Seq(Byte), NEW q
  PROVE  /\ ContainsText(s, q) <=> \E i \in 1 .. Len(s) : Matches(s, q, i)
         /\ Index(s, q) # 0 => Index(s, q) \in 1 .. Len(s) /\ Matches(s, q, Index(s, q))
<1> DEFINE at == {i \in 1 .. Len(s) : Matches(s, q, i)}
<1>1. Index(s, q) = IF at = {} THEN 0 ELSE CHOOSE i \in at : \A k \in at : i <= k
  BY DEF Index, Matches
<1>2. at \subseteq 1 .. Len(s) /\ \A i \in at : Matches(s, q, i)
  OBVIOUS
<1>3. \A i \in 1 .. Len(s) : Matches(s, q, i) => i \in at
  OBVIOUS
<1> HIDE DEF at
<1>4. CASE at = {}
  <2>1. Index(s, q) = 0
    BY <1>1, <1>4
  <2>2. \A i \in 1 .. Len(s) : ~Matches(s, q, i)
    BY <1>3, <1>4
  <2> QED
    BY <2>1, <2>2 DEF ContainsText
<1>5. CASE at # {}
  <2>1. at \subseteq Nat
    BY <1>2
  <2>2. \E i \in at : \A k \in at : i <= k
    BY <1>5, <2>1, LeastOne
  <2>3. Index(s, q) \in at
    BY <1>1, <1>5, <2>2
  <2>4. Index(s, q) \in 1 .. Len(s) /\ Matches(s, q, Index(s, q))
    BY <1>2, <2>3
  <2>5. Index(s, q) # 0
    BY <2>4
  <2> QED
    BY <2>4, <2>5 DEF ContainsText
<1> QED
  BY <1>4, <1>5

\* What is cut out of a valid text is valid but for its ends.
LEMMA CutOut ==
  ASSUME NEW s \in Seq(Byte), Valid(s), NEW from \in 1 .. Len(s), NEW to \in from .. Len(s),
         NEW t \in Seq(Byte), Len(t) = to - from + 1, \A k \in 1 .. Len(t) : t[k] = s[from + k - 1]
  PROVE  WholeBetween(t)
<1>1. \A i \in 1 .. Len(s) : /\ s[i] = "lead" => i < Len(s) /\ s[i + 1] = "tail"
                             /\ s[i] = "tail" => i > 1 /\ s[i - 1] = "lead"
  <2>1. DOMAIN s = 1 .. Len(s)
    OBVIOUS
  <2> QED
    BY <2>1, Zenon DEF Valid
<1>2. /\ Len(t) \in Nat /\ Len(t) > 0 /\ \A k \in 1 .. Len(t) : from + k - 1 \in 1 .. Len(s)
  OBVIOUS
<1> DEFINE i == IF t[1] = "tail" THEN 1 ELSE 0
           j == IF t[Len(t)] = "lead" THEN 1 ELSE 0
           v == SubSeq(t, 1 + i, Len(t) - j)
<1>3. i \in 0 .. 1 /\ j \in 0 .. 1 /\ (i = 0 <=> t[1] # "tail") /\ (j = 0 <=> t[Len(t)] # "lead")
  OBVIOUS
<1>4. \A k \in 1 .. Len(t) : /\ t[k] = "lead" /\ k < Len(t) => t[k + 1] = "tail"
                             /\ t[k] = "tail" /\ k > 1 => t[k - 1] = "lead"
  <2> SUFFICES ASSUME NEW k \in 1 .. Len(t)
               PROVE  /\ t[k] = "lead" /\ k < Len(t) => t[k + 1] = "tail"
                      /\ t[k] = "tail" /\ k > 1 => t[k - 1] = "lead"
    OBVIOUS
  <2>1. from + k - 1 \in 1 .. Len(s) /\ t[k] = s[from + k - 1]
    BY <1>2
  <2>2. k < Len(t) => t[k + 1] = s[(from + k - 1) + 1]
    BY <1>2
  <2>3. k > 1 => t[k - 1] = s[(from + k - 1) - 1]
    BY <1>2
  <2> QED
    BY <1>1, <2>1, <2>2, <2>3
<1> HIDE DEF i, j
<1>5. CASE 1 + i > Len(t) - j
  <2>1. v = <<>>
    BY <1>2, <1>3, <1>5, SubSeqEmpty
  <2>2. Valid(<<>>)
    BY DEF Valid
  <2> QED
    BY <1>3, <2>1, <2>2 DEF WholeBetween
<1>6. CASE 1 + i <= Len(t) - j
  <2>1. \A k \in 1 + i .. Len(t) - j : t[k] \in Byte
    BY <1>2, <1>3
  <2>2. 1 + i \in Int /\ Len(t) - j \in Int
    BY <1>2, <1>3
  <2> DEFINE m == 1 + i
             n == Len(t) - j
  <2>7. v = SubSeq(t, m, n) /\ m \in Int /\ n \in Int /\ m <= n /\ \A k \in m .. n : t[k] \in Byte
    BY <1>6, <2>1, <2>2
  <2>8. m = 1 + i /\ n = Len(t) - j /\ i \in Nat /\ j \in Nat
    BY <1>3
  <2> HIDE DEF v, m, n
  <2>9. v \in Seq(Byte) /\ Len(v) = n - m + 1 /\ \A k \in 1 .. n - m + 1 : v[k] = t[m + k - 1]
    BY <2>7, SubSeqProperties
  <2>10. Len(v) = Len(t) - j - i
    BY <1>2, <2>8, <2>9
  <2>11. ASSUME NEW k \in 1 .. Len(v) PROVE v[k] = t[i + k] /\ i + k \in 1 .. Len(t)
    <3>1. k \in 1 .. n - m + 1
      BY <2>9
    <3>2. m + k - 1 = i + k /\ i + k \in 1 .. Len(t)
      BY <1>2, <2>8, <2>10
    <3> QED
      BY <2>9, <3>1, <3>2
  <2>3. v \in Seq(Byte) /\ Len(v) = Len(t) - j - i /\ \A k \in 1 .. Len(v) : v[k] = t[i + k] /\ i + k \in 1 .. Len(t)
    BY <2>9, <2>10, <2>11
  <2>4. ASSUME NEW k \in 1 .. Len(v), v[k] = "lead" PROVE k < Len(v) /\ v[k + 1] = "tail"
    <3>1. i + k \in 1 .. Len(t) /\ t[i + k] = "lead"
      BY <2>3, <2>4
    <3>2. k # Len(v)
      <4>1. ASSUME k = Len(v) PROVE FALSE
        <5>1. i + k = Len(t) - j
          BY <1>2, <1>3, <2>3, <4>1
        <5>2. CASE j = 0
          BY <1>2, <1>3, <3>1, <5>1, <5>2
        <5>3. CASE j = 1
          <6>1. t[Len(t)] = "lead" /\ i + k = Len(t) - 1
            BY <1>3, <5>1, <5>3
          <6>2. t[(i + k) + 1] = "tail"
            BY <1>4, <3>1, <6>1
          <6> QED
            BY <1>2, <6>1, <6>2
        <5> QED
          BY <1>3, <5>2, <5>3
      <4> QED
        BY <4>1
    <3>4. k < Len(v) /\ k + 1 \in 1 .. Len(v) /\ i + k < Len(t) /\ i + (k + 1) = (i + k) + 1
      BY <1>2, <2>3, <2>8, <3>2
    <3>3. t[(i + k) + 1] = "tail"
      BY <1>4, <3>1, <3>4
    <3> QED
      BY <2>3, <3>3, <3>4
  <2>5. ASSUME NEW k \in 1 .. Len(v), v[k] = "tail" PROVE k > 1 /\ v[k - 1] = "lead"
    <3>1. i + k \in 1 .. Len(t) /\ t[i + k] = "tail"
      BY <2>3, <2>5
    <3>2. k # 1
      <4>1. ASSUME k = 1 PROVE FALSE
        <5>1. CASE i = 0
          BY <1>3, <3>1, <4>1, <5>1
        <5>2. CASE i = 1
          <6>1. t[1] = "tail" /\ i + k = 2
            BY <1>3, <4>1, <5>2
          <6>2. t[2 - 1] = "lead"
            BY <1>4, <3>1, <6>1
          <6> QED
            BY <6>1, <6>2
        <5> QED
          BY <1>3, <5>1, <5>2
      <4> QED
        BY <4>1
    <3>3. t[(i + k) - 1] = "lead" /\ k - 1 \in 1 .. Len(v) /\ i + (k - 1) = (i + k) - 1
      BY <1>2, <1>3, <1>4, <2>3, <3>1, <3>2
    <3> QED
      BY <2>3, <3>2, <3>3
  <2>6. Valid(v)
    <3>1. DOMAIN v = 1 .. Len(v)
      BY <2>3
    <3>2. \A k \in 1 .. Len(v) : /\ v[k] = "lead" => k < Len(v) /\ v[k + 1] = "tail"
                                 /\ v[k] = "tail" => k > 1 /\ v[k - 1] = "lead"
      BY <2>4, <2>5
    <3> QED
      BY <3>1, <3>2, Zenon DEF Valid
  <2> QED
    BY <1>3, <2>6 DEF v, WholeBetween
<1> QED
  BY <1>2, <1>3, <1>5, <1>6

\* The snippet of a text that holds q holds q, and little more.
LEMMA SnippetShows ==
  ASSUME NEW s \in Seq(Byte), NEW q \in Seq(Byte), q # <<>>, ContainsText(s, q)
  PROVE  /\ FirstSnippet(s, q) \in Seq(Byte) /\ ContainsText(FirstSnippet(s, q), q)
         /\ Len(FirstSnippet(s, q)) <= Len(q) + 2 * Around
         /\ Valid(s) => WholeBetween(FirstSnippet(s, q))
<1> DEFINE i == Index(s, q)
           from == IF i > Around THEN i - Around ELSE 1
           to == Least(i + Len(q) - 1 + Around, Len(s))
           t == SubSeq(s, from, to)
<1>1. i \in 1 .. Len(s) /\ Matches(s, q, i)
  BY IndexIs DEF ContainsText
<1>2. FirstSnippet(s, q) = t
  <2>1. Index(s, q) # 0
    BY <1>1
  <2> QED
    BY <2>1, Zenon DEF FirstSnippet
<1>3. Len(q) \in Nat \ {0} /\ Around \in Nat
  BY EmptySeq, TextAssumption
<1> HIDE DEF i
<1>4. /\ from \in 1 .. i /\ to \in i + Len(q) - 1 .. Len(s)
      /\ from + Around >= i /\ to <= i + Len(q) - 1 + Around
  BY <1>1, <1>3 DEF Matches, Least
<1> HIDE DEF from, to
<1>5. /\ t \in Seq(Byte) /\ Len(t) = to - from + 1
      /\ \A k \in 1 .. to - from + 1 : t[k] = s[from + k - 1]
  <2>1. \A k \in from .. to : s[k] \in Byte
    BY <1>1, <1>4
  <2>2. from \in Int /\ to \in Int /\ from <= to
    BY <1>1, <1>3, <1>4
  <2> QED
    BY <2>1, <2>2, SubSeqProperties
<1> HIDE DEF t
<1>10. Valid(s) => WholeBetween(t)
  <2>1. from \in 1 .. Len(s) /\ to \in from .. Len(s)
    BY <1>1, <1>3, <1>4
  <2> QED
    BY <1>5, <2>1, CutOut
<1> DEFINE j == i - from + 1
<1>6. j \in 1 .. Len(t) /\ j + Len(q) - 1 <= Len(t)
  BY <1>1, <1>3, <1>4, <1>5
<1>7. SubSeq(t, j, j + Len(q) - 1) = q
  <2> DEFINE u == SubSeq(t, j, j + Len(q) - 1)
  <2>1. j \in Int /\ j + Len(q) - 1 \in Int /\ j <= j + Len(q) - 1
    BY <1>1, <1>3, <1>4
  <2>2. \A k \in j .. j + Len(q) - 1 : t[k] \in Byte
    BY <1>5, <1>6, <2>1
  <2>3. u \in Seq(Byte) /\ Len(u) = Len(q) /\ \A k \in 1 .. Len(q) : u[k] = t[j + k - 1]
    BY <1>3, <2>1, <2>2, SubSeqProperties
  <2>4. \A k \in 1 .. Len(q) : q[k] = s[i + k - 1]
    <3>1. i \in Int /\ i + Len(q) - 1 \in Int /\ i <= i + Len(q) - 1
      BY <1>1, <1>3
    <3>2. \A k \in i .. i + Len(q) - 1 : s[k] \in Byte
      BY <1>1, <1>3 DEF Matches
    <3>3. SubSeq(s, i, i + Len(q) - 1) = q
      BY <1>1 DEF Matches
    <3> QED
      BY <1>3, <3>1, <3>2, <3>3, SubSeqProperties
  <2>5. ASSUME NEW k \in 1 .. Len(q) PROVE u[k] = q[k]
    <3>1. j + k - 1 \in 1 .. to - from + 1 /\ from + (j + k - 1) - 1 = i + k - 1
      BY <1>1, <1>3, <1>4, <1>5, <1>6
    <3> HIDE DEF j, u
    <3> QED
      BY <1>5, <2>3, <2>4, <3>1
  <2> HIDE DEF u
  <2>6. u = q
    BY <2>3, <2>5, SeqEqual
  <2> QED
    BY <2>6 DEF u
<1>8. ContainsText(t, q)
  BY <1>5, <1>6, <1>7, IndexIs DEF Matches
<1>9. Len(t) <= Len(q) + 2 * Around
  BY <1>1, <1>3, <1>4, <1>5
<1> QED
  BY <1>2, <1>5, <1>8, <1>9, <1>10

LEMMA ValidTextsAre ==
  ASSUME NEW n, NEW s \in ValidTexts(n)
  PROVE  s \in Seq(Byte) /\ Valid(s)
<1>1. Valid(s) /\ \E m \in 0 .. n : s \in [1 .. m -> Byte]
  BY DEF ValidTexts
<1>2. PICK m \in 0 .. n : s \in [1 .. m -> Byte]
  BY <1>1
<1>3. m \in Nat
  OBVIOUS
<1> QED
  BY <1>1, <1>2, <1>3

\* Whatever the text and the limit, the two loops of the file server's read and of the
\* worker cut it at the same place, which leaves no character in half and no more out
\* than it must; a summary keeps to its limit with its dots; and a snippet shows the
\* match that was found, and may begin and end inside a character (CutsAreWhole).
THEOREM CutsWhole == CutsAreWhole
<1> SUFFICES ASSUME NEW s \in ValidTexts(MaxText)
             PROVE  /\ \A limit \in 0 .. MaxText :
                         LET cut == ReadCut(s, limit)
                         IN  /\ Valid(cut) /\ IsPrefix(cut, s) /\ Len(cut) <= limit
                             /\ \A n \in Len(cut) + 1 .. Least(limit, Len(s)) : ~Valid(Take(s, n))
                             /\ ValidUTF8Prefix(s, limit) = cut
                             /\ Valid(Truncate(s, limit)) /\ Len(Truncate(s, limit)) <= limit
                    /\ \A q \in ValidTexts(2) \ {<<>>} :
                         ContainsText(s, q) =>
                           /\ ContainsText(FirstSnippet(s, q), q)
                           /\ Len(FirstSnippet(s, q)) <= Len(q) + 2 * Around
                           /\ WholeBetween(FirstSnippet(s, q))
  BY Zenon DEF CutsAreWhole
<1>1. s \in Seq(Byte) /\ Valid(s)
  BY ValidTextsAre
<1>2. \A limit \in 0 .. MaxText : limit \in Nat
  BY TextAssumption
<1>3. \A q \in ValidTexts(2) \ {<<>>} : q \in Seq(Byte) /\ q # <<>>
  BY ValidTextsAre
<1> QED
  BY <1>1, <1>2, <1>3, CutIs, SameCut, TruncateIs, SnippetShows

(***************************************************************************)
(* Texts that are read and written in parts                                *)
(***************************************************************************)
Begins(s, t) == Len(s) <= Len(t) /\ \A i \in 1 .. Len(s) : s[i] = t[i]

LEMMA BeginsIs ==
  ASSUME NEW s \in Seq(Byte), NEW t \in Seq(Byte)
  PROVE  Begins(s, t) <=> IsPrefix(s, t)
<1>1. CASE Len(s) <= Len(t)
  <2> DEFINE u == Take(t, Len(s))
  <2>1. u \in Seq(Byte) /\ Len(u) = Len(s) /\ \A i \in 1 .. Len(s) : u[i] = t[i]
    BY <1>1, TakeIs
  <2>2. SubSeq(s, 1, Len(s)) = s /\ SubSeq(t, 1, Len(s)) = u
    BY SubSeqFull DEF Take
  <2> HIDE DEF u
  <2>3. Begins(s, t) => s = u
    <3>1. ASSUME Begins(s, t) PROVE \A i \in 1 .. Len(s) : s[i] = u[i]
      BY <2>1, <3>1 DEF Begins
    <3> QED
      BY <2>1, <3>1, SeqEqual
  <2> QED
    BY <1>1, <2>1, <2>2, <2>3 DEF Begins, IsPrefix
<1>2. CASE ~(Len(s) <= Len(t))
  BY <1>2 DEF Begins, IsPrefix
<1> QED
  BY <1>1, <1>2

\* The beginning of a text.
Starts(s) == \E t \in Texts : IsPrefix(s, t)

LEMMA TextsAre == \A t \in Texts : t \in Seq(Byte) /\ Valid(t) /\ t # Nobody /\ t # <<>>
BY FileAssumption, ValidTextsAre

LEMMA StartsIs ==
  ASSUME NEW s \in Seq(Byte), NEW t \in Seq(Byte), Begins(s, t), Starts(t)
  PROVE  Starts(s)
<1>1. PICK text \in Texts : IsPrefix(t, text) /\ text \in Seq(Byte)
  BY TextsAre DEF Starts
<1>2. Begins(t, text)
  BY <1>1, BeginsIs
<1>3. Begins(s, text)
  BY <1>1, <1>2 DEF Begins
<1> QED
  BY <1>1, <1>3, BeginsIs DEF Starts

\* Texts that lie over each other keep each byte in its place.
LEMMA MixtureIs ==
  ASSUME NEW s \in Seq(Byte), NEW t \in Seq(Byte), Mixture(s), Mixture(t), NEW u \in Seq(Byte),
         \A i \in 1 .. Len(u) : \/ i \in 1 .. Len(s) /\ u[i] = s[i]
                                \/ i \in 1 .. Len(t) /\ u[i] = t[i]
  PROVE  Mixture(u)
<1>1. DOMAIN s = 1 .. Len(s) /\ DOMAIN t = 1 .. Len(t) /\ DOMAIN u = 1 .. Len(u)
  OBVIOUS
<1> QED
  BY <1>1 DEF Mixture

LEMMA TextMixes ==
  ASSUME NEW t \in Texts, NEW s \in Seq(Byte), Begins(s, t)
  PROVE  Mixture(s) /\ Starts(s)
<1>1. t \in Seq(Byte) /\ DOMAIN s = 1 .. Len(s)
  BY TextsAre
<1>2. \A i \in 1 .. Len(s) : i <= Len(t) /\ t[i] = s[i]
  BY <1>1 DEF Begins
<1> QED
  BY <1>1, <1>2, BeginsIs DEF Mixture, Starts

\* What is read next.
LEMMA ReadOn ==
  ASSUME NEW s \in Seq(Byte), NEW t \in Seq(Byte), NEW n \in Len(s) + 1 .. Len(t),
         NEW u, u = s \o SubSeq(t, Len(s) + 1, n)
  PROVE  /\ u \in Seq(Byte) /\ Len(u) = n
         /\ \A i \in 1 .. n : u[i] = IF i <= Len(s) THEN s[i] ELSE t[i]
<1> DEFINE m == Len(s)
           r == SubSeq(t, m + 1, n)
<1>1. m \in Nat /\ n \in Nat /\ m + 1 \in Int /\ m + 1 <= n /\ n <= Len(t)
  OBVIOUS
<1>2. \A k \in m + 1 .. n : t[k] \in Byte
  BY <1>1
<1> HIDE DEF m
<1>3. r \in Seq(Byte) /\ Len(r) = n - (m + 1) + 1 /\ \A k \in 1 .. n - (m + 1) + 1 : r[k] = t[(m + 1) + k - 1]
  BY <1>1, <1>2, SubSeqProperties
<1> HIDE DEF r
<1>4. u = s \o r /\ Len(s) = m
  BY DEF r, m
<1>5. /\ u \in Seq(Byte) /\ Len(u) = Len(s) + Len(r)
      /\ \A i \in 1 .. Len(s) + Len(r) : u[i] = IF i <= Len(s) THEN s[i] ELSE r[i - Len(s)]
  <2>1. r \in Seq(Byte)
    BY <1>3
  <2>2. /\ s \o r \in Seq(Byte) /\ Len(s \o r) = Len(s) + Len(r)
        /\ \A i \in 1 .. Len(s) + Len(r) : (s \o r)[i] = IF i <= Len(s) THEN s[i] ELSE r[i - Len(s)]
    BY <2>1, ConcatProperties
  <2> QED
    BY <1>4, <2>2
<1>6. Len(u) = n
  BY <1>1, <1>3, <1>4, <1>5
<1>7. ASSUME NEW i \in 1 .. n, i > m PROVE r[i - m] = t[i]
  <2>1. i - m \in 1 .. n - (m + 1) + 1 /\ (m + 1) + (i - m) - 1 = i
    BY <1>1, <1>7
  <2> QED
    BY <1>3, <2>1
<1>8. ASSUME NEW i \in 1 .. n PROVE u[i] = IF i <= Len(s) THEN s[i] ELSE t[i]
  <2>1. i \in 1 .. Len(s) + Len(r)
    BY <1>1, <1>3, <1>4, <1>8
  <2>2. u[i] = IF i <= Len(s) THEN s[i] ELSE r[i - Len(s)]
    BY <1>5, <2>1, Zenon
  <2>3. CASE i <= m
    BY <1>4, <2>2, <2>3
  <2>4. CASE i > m
    BY <1>1, <1>4, <1>7, <2>2, <2>4
  <2> QED
    BY <1>1, <2>3, <2>4
<1> QED
  BY <1>5, <1>6, <1>8

\* What is written over it.
LEMMA WriteOver ==
  ASSUME NEW s \in Seq(Byte), NEW t \in Seq(Byte), NEW u, u = s \o SubSeq(t, Len(s) + 1, Len(t))
  PROVE  /\ u \in Seq(Byte) /\ (t = <<>> => u = s)
         /\ \A i \in 1 .. Len(u) : \/ i \in 1 .. Len(s) /\ u[i] = s[i]
                                   \/ i \in 1 .. Len(t) /\ u[i] = t[i]
<1>1. Len(s) \in Nat /\ Len(t) \in Nat
  OBVIOUS
<1>2. CASE Len(t) \in Len(s) + 1 .. Len(t)
  <2>1. /\ u \in Seq(Byte) /\ Len(u) = Len(t)
        /\ \A i \in 1 .. Len(t) : u[i] = IF i <= Len(s) THEN s[i] ELSE t[i]
    BY <1>2, ReadOn
  <2>2. t # <<>>
    BY <1>1, <1>2
  <2> QED
    BY <1>1, <2>1, <2>2
<1>3. CASE Len(t) < Len(s) + 1
  <2>1. SubSeq(t, Len(s) + 1, Len(t)) = <<>>
    BY <1>1, <1>3, SubSeqEmpty
  <2>2. u = s
    BY <2>1, ConcatEmptySeq
  <2> QED
    BY <1>1, <2>2
<1> QED
  BY <1>1, <1>2, <1>3

(***************************************************************************)
(* The invariant                                                           *)
(***************************************************************************)
Editing == {"create", "update"}
Mixed   == \E w \in met : Writes(w)

\* A request that writes has a text; one that says what must be there has looked
\* before it opens the file, and finds what it saw unless another crossed; what one
\* has read is the beginning of what is there, unless it was crossed.
GuardInv ==
  \A r \in Requests :
    /\ step[r] = "none" => call[r] = Nobody
    /\ step[r] \in {"none", "approve", "look"} => bytes[r] = <<>>
    /\ step[r] \in {"approve", "look", "open", "write", "read"} => call[r] \in FileCalls
    /\ step[r] \in {"approve", "open", "write"} => call[r].op \in Editing
    /\ step[r] = "look" /\ call[r].op \in Editing => Guarded(r)
    /\ step[r] = "read" /\ call[r].op \in Editing => call[r].op = "update" /\ Guarded(r)
    /\ answer[r].ok => step[r] = "done" /\ call[r] \in FileCalls
    /\ r \notin met =>
         /\ step[r] = "read" => Begins(bytes[r], disk)
         /\ step[r] = "open" /\ Guarded(r) => disk = Wanted(r)
         /\ step[r] = "write" => disk = <<>> /\ (Guarded(r) => replaced[r] = Wanted(r))

\* The file is there while it is read or written, and holds the beginning of one text
\* unless writes have crossed; each byte of it is where some text has it.
DiskInv ==
  /\ \A r \in Requests : (step[r] \in {"read", "write"} => disk \in Seq(Byte)) /\ Mixture(bytes[r])
  /\ disk # Nobody => Mixture(disk)
  /\ Mixed \/ disk = Nobody \/ Starts(disk)
  /\ writer # Nobody => step[writer] = "done"

FileInv == FileTypeOK /\ GuardInv /\ DiskInv /\ UncrossedWritesAreTrue /\ ReadsAreWhole

LEMMA CallsAre ==
  ASSUME NEW c \in FileCalls
  PROVE  /\ c.op \in Editing => c.text \in Texts
         /\ c.op = "read" => c.limit \in Int
         /\ c.op = "search" => c.query \in Seq(Byte) /\ c.query # <<>>
<1>1. CASE c \in [op : {"create"}, text : Texts] \union [op : {"update"}, text : Texts, expected : Texts \union {Nobody}]
  BY <1>1 DEF Editing
<1>2. CASE c \in [op : {"read"}, limit : -1 .. MaxReadBytes]
  BY <1>2, FileAssumption DEF Editing
<1>3. CASE c \in [op : {"search"}, query : ValidTexts(1) \ {<<>>}]
  <2>1. c.op = "search" /\ c.query \in ValidTexts(1) /\ c.query # <<>>
    BY <1>3
  <2> QED
    BY <2>1, ValidTextsAre DEF Editing
<1>4. CASE c \in [op : {"list", "move"}]
  BY <1>4 DEF Editing
<1> QED
  BY <1>1, <1>2, <1>3, <1>4 DEF FileCalls

\* What is answered to a read or a search is as ReadsAreWhole says.
WholeAnswer(r, text) ==
  /\ call[r].op = "read" =>
       /\ Valid(text) /\ Len(text) <= call[r].limit
       /\ Mixture(text)
       /\ r \in met \/ Mixed \/ Starts(text)
  /\ call[r].op = "search" /\ text # <<>> => ContainsText(text, call[r].query)

LEMMA AnswersAreWhole ==
  ReadsAreWhole <=> \A r \in Requests : call[r] # Nobody /\ answer[r].ok => WholeAnswer(r, answer[r].text)
BY DEF ReadsAreWhole, WholeAnswer, Mixed, Starts

LEMMA AnswersAreWholeThen ==
  ReadsAreWhole' <=>
    \A r \in Requests : call'[r] # Nobody /\ answer'[r].ok => WholeAnswer(r, answer[r].text)'
BY DEF ReadsAreWhole, WholeAnswer, Mixed, Starts

(***************************************************************************)
(* What a step is                                                          *)
(***************************************************************************)
\* What is answered to a request that was served and did not write.
Served(r, text) ==
  \/ call[r].op \in {"search", "list"} /\ text = <<>>
  \/ /\ step[r] = "read" /\ call[r].op = "read" /\ Valid(bytes[r]) /\ call[r].limit >= 0
     /\ text = ReadCut(bytes[r], call[r].limit)
  \/ /\ step[r] = "read" /\ call[r].op = "search" /\ ContainsText(bytes[r], call[r].query)
     /\ text = FirstSnippet(bytes[r], call[r].query)

Looks(r) ==
  \/ Guarded(r) /\ Keeps(r, "approve", "look")
  \/ ~Guarded(r) /\ Keeps(r, "approve", "open")
  \/ Exists /\ call[r].op # "create" /\ Keeps(r, "look", "read")
  \/ Guarded(r) /\ disk = Wanted(r) /\ call[r].op \in Editing /\ Keeps(r, "look", "open")
  \/ Guarded(r) /\ AtEnd(r) /\ bytes[r] = Wanted(r) /\ call[r].op \in Editing /\ Keeps(r, "read", "open")

Grows(r) ==
  /\ step[r] = "read"
  /\ \E n \in Len(bytes[r]) + 1 .. Len(disk) :
       bytes' = [bytes EXCEPT ![r] = bytes[r] \o SubSeq(disk, Len(bytes[r]) + 1, n)]
  /\ UNCHANGED <<disk, call, step, answer, replaced, writer, met>>

Ends(r) ==
  \E from \in {"approve", "look", "open", "read"}, text \in {<<>>} \union Seq(Byte) :
    \/ Returns(r, from, FALSE, <<>>)
    \/ Served(r, text) /\ Returns(r, from, TRUE, text)

Truncates(r) ==
  /\ Moves(r, "open", "write")
  /\ replaced' = [replaced EXCEPT ![r] = disk]
  /\ disk' = <<>>
  /\ writer' = Nobody
  /\ Crosses(r)
  /\ UNCHANGED <<call, bytes, answer>>

\* What is written is all of the text, or a part of it.
Fills(r, n, by, ok, text) ==
  /\ Moves(r, "write", "done")
  /\ disk' = Overwritten(Take(call[r].text, n))
  /\ writer' = by
  /\ Crosses(r)
  /\ Answers(r, ok, text)
  /\ UNCHANGED <<call, bytes, replaced>>
  /\ \/ n = Len(call[r].text) /\ by = r /\ ok = TRUE /\ text = call[r].text
     \/ by = Nobody /\ ok = FALSE /\ text = <<>>

LEMMA ServedIs ==
  ASSUME FileInv, NEW r \in Requests, NEW text, Served(r, text), call[r] \in FileCalls
  PROVE  text \in Seq(Byte)
<1>1. bytes[r] \in Seq(Byte)
  BY DEF FileInv, FileTypeOK
<1>2. CASE text = <<>>
  BY <1>2
<1>3. CASE call[r].op = "read" /\ Valid(bytes[r]) /\ call[r].limit >= 0 /\ text = ReadCut(bytes[r], call[r].limit)
  <2>1. call[r].limit \in Nat
    BY <1>3, CallsAre
  <2> QED
    BY <1>1, <1>3, <2>1, CutIs
<1>4. CASE call[r].op = "search" /\ ContainsText(bytes[r], call[r].query) /\ text = FirstSnippet(bytes[r], call[r].query)
  BY <1>1, <1>4, SnippetShows, CallsAre
<1> QED
  BY <1>2, <1>3, <1>4 DEF Served

LEMMA FileSteps ==
  ASSUME FileInv, FileNext
  PROVE  \E r \in Requests :
           \/ CallFileTool(r) \/ Looks(r) \/ Grows(r) \/ Ends(r) \/ Truncates(r)
           \/ \E n \in 0 .. Len(call[r].text) : \E by, ok, text : Fills(r, n, by, ok, text)
<1> USE DEF Fails
<1>1. PICK r \in Requests :
         \/ CallFileTool(r) \/ Approves(r)
         \/ step[r] = "look" /\ (Escapes(r) \/ Lists(r) \/ StatSize(r) \/ FreePath(r) \/ OpenGuard(r))
         \/ ReadPart(r) \/ Read(r) \/ Search(r) \/ SameHash(r)
         \/ OpenFile(r) \/ WriteText(r)
  BY DEF FileNext
<1>2. \A from \in {"approve", "look", "open", "read"} : Returns(r, from, FALSE, <<>>) => Ends(r)
  BY DEF Ends
<1>3. ASSUME NEW from \in {"look", "read"}, NEW text, Served(r, text), Returns(r, from, TRUE, text) PROVE Ends(r)
  <2>1. step[r] = from /\ call[r] \in FileCalls
    BY <1>3 DEF Returns, Moves, FileInv, GuardInv
  <2>2. text \in Seq(Byte)
    BY <1>3, <2>1, ServedIs
  <2> QED
    BY <1>3, <2>2 DEF Ends
<1>4. CASE Approves(r)
  BY <1>2, <1>4 DEF Approves, Looks
<1>5. CASE step[r] = "look" /\ Escapes(r)
  BY <1>2, <1>5 DEF Escapes
<1>6. CASE step[r] = "look" /\ Lists(r)
  <2>1. CASE call[r].op = "list" /\ Returns(r, "look", TRUE, <<>>)
    BY <1>3, <2>1 DEF Served
  <2>2. CASE call[r].op = "move" /\ Returns(r, "look", FALSE, <<>>)
    BY <1>2, <2>2
  <2> QED
    BY <1>6, <2>1, <2>2 DEF Lists
<1>7. CASE step[r] = "look" /\ StatSize(r)
  <2>1. call[r].op \in {"read", "search"}
    BY <1>7 DEF StatSize
  <2>2. CASE Exists /\ Len(disk) <= MaxReadBytes
    BY <1>7, <2>1, <2>2 DEF StatSize, Looks
  <2>3. CASE ~(Exists /\ Len(disk) <= MaxReadBytes) /\ call[r].op = "search"
    <3>1. Returns(r, "look", TRUE, <<>>)
      BY <1>7, <2>3 DEF StatSize
    <3> QED
      BY <1>3, <2>3, <3>1 DEF Served
  <2>4. CASE ~(Exists /\ Len(disk) <= MaxReadBytes) /\ call[r].op = "read"
    <3>1. Returns(r, "look", FALSE, <<>>)
      BY <1>7, <2>4 DEF StatSize
    <3> QED
      BY <1>2, <3>1
  <2> QED
    BY <2>1, <2>2, <2>3, <2>4
<1>8. CASE step[r] = "look" /\ FreePath(r)
  <2>1. call[r].op = "create"
    BY <1>8 DEF FreePath
  <2>2. CASE Exists
    BY <1>2, <1>8, <2>2 DEF FreePath
  <2>3. CASE ~Exists
    BY <1>8, <2>1, <2>3 DEF FreePath, Looks, Guarded, Wanted, Exists, Editing
  <2> QED
    BY <2>2, <2>3
<1>9. CASE step[r] = "look" /\ OpenGuard(r)
  <2>1. call[r].op = "update"
    BY <1>9 DEF OpenGuard
  <2>2. CASE ~Exists
    BY <1>2, <1>9, <2>2 DEF OpenGuard
  <2>3. CASE Exists
    BY <1>9, <2>1, <2>3 DEF OpenGuard, Looks
  <2> QED
    BY <2>2, <2>3
<1>10. CASE ReadPart(r)
  <2>1. CASE Returns(r, "read", call[r].op = "search", <<>>)
    <3>1. CASE call[r].op = "search"
      <4>1. Returns(r, "read", TRUE, <<>>)
        BY <2>1, <3>1
      <4> QED
        BY <1>3, <3>1, <4>1 DEF Served
    <3>2. CASE call[r].op # "search"
      <4>1. Returns(r, "read", FALSE, <<>>)
        BY <2>1, <3>2
      <4> QED
        BY <1>2, <4>1
    <3> QED
      BY <3>1, <3>2
  <2>2. CASE ~Returns(r, "read", call[r].op = "search", <<>>)
    BY <1>10, <2>2 DEF ReadPart, Grows, FileInv, FileTypeOK
  <2> QED
    BY <2>1, <2>2
<1>11. CASE Read(r)
  <2>1. step[r] = "read"
    BY <1>11 DEF Read, AtEnd
  <2>2. CASE Valid(bytes[r]) /\ call[r].limit >= 0
    BY <1>3, <1>11, <2>1, <2>2 DEF Read, Served
  <2>3. CASE ~(Valid(bytes[r]) /\ call[r].limit >= 0)
    BY <1>2, <1>11, <2>3 DEF Read
  <2> QED
    BY <2>2, <2>3
<1>12. CASE Search(r)
  <2>1. step[r] = "read"
    BY <1>12 DEF Search, AtEnd
  <2>2. CASE Valid(bytes[r]) /\ ContainsText(bytes[r], call[r].query)
    BY <1>3, <1>12, <2>1, <2>2 DEF Search, Served
  <2>3. CASE ~(Valid(bytes[r]) /\ ContainsText(bytes[r], call[r].query))
    BY <1>3, <1>12, <2>3 DEF Search, Served
  <2> QED
    BY <2>2, <2>3
<1>13. CASE SameHash(r)
  <2>1. call[r].op = "update" /\ AtEnd(r) /\ step[r] = "read" /\ Guarded(r)
    BY <1>13 DEF SameHash, AtEnd, FileInv, GuardInv, Editing
  <2>2. CASE bytes[r] = call[r].expected
    BY <1>13, <2>1, <2>2 DEF SameHash, Looks, Wanted, Editing
  <2>3. CASE bytes[r] # call[r].expected
    BY <1>2, <1>13, <2>3 DEF SameHash
  <2> QED
    BY <2>2, <2>3
<1>14. CASE OpenFile(r)
  BY <1>2, <1>14 DEF OpenFile, Truncates
<1>15. CASE WriteText(r)
  <2>1. step[r] = "write" /\ call[r] \in FileCalls /\ call[r].op \in Editing
    BY <1>15 DEF WriteText, Moves, FileInv, GuardInv
  <2> DEFINE text == call[r].text
  <2>2. text \in Seq(Byte)
    BY <2>1, CallsAre, TextsAre
  <2>3. Take(text, Len(text)) = text /\ Len(text) \in 0 .. Len(text)
    BY <2>2, TakeAll
  <2> HIDE DEF text
  <2>4. CASE disk' = Overwritten(text) /\ writer' = r /\ Answers(r, TRUE, text)
    <3>1. Fills(r, Len(text), r, TRUE, text)
      BY <1>15, <2>3, <2>4 DEF WriteText, Fills, text
    <3> QED
      BY <2>3, <3>1 DEF text
  <2>5. ASSUME NEW n \in 0 .. Len(text), disk' = Overwritten(Take(text, n)), writer' = Nobody, Answers(r, FALSE, <<>>)
        PROVE  Fills(r, n, Nobody, FALSE, <<>>)
    BY <1>15, <2>5 DEF WriteText, Fills, text
  <2> QED
    BY <1>15, <2>4, <2>5 DEF WriteText, text
<1> QED
  BY <1>1, <1>4, <1>5, <1>6, <1>7, <1>8, <1>9, <1>10, <1>11, <1>12, <1>13, <1>14, <1>15

(***************************************************************************)
(* Every step keeps the invariant                                          *)
(***************************************************************************)
\* A request begins.
LEMMA CallKeeps ==
  ASSUME FileInv, NEW r \in Requests, CallFileTool(r)
  PROVE  FileInv'
<1> USE DEF FileInv
<1>1. PICK c \in FileCalls :
        /\ Moves(r, "none", IF c.op \in Editing THEN "approve" ELSE "look")
        /\ call' = [call EXCEPT ![r] = c]
        /\ UNCHANGED <<disk, bytes, answer, replaced, writer, met>>
  BY DEF CallFileTool, Editing
<1> DEFINE to == IF c.op \in Editing THEN "approve" ELSE "look"
<1>2. /\ step[r] = "none" /\ step' = [step EXCEPT ![r] = to] /\ to \in {"approve", "look"}
      /\ c.op \in Editing <=> to = "approve"
  BY <1>1 DEF Moves
<1> HIDE DEF to
<1>3. FileTypeOK'
  BY <1>1, <1>2 DEF FileTypeOK, StepSet
<1>4. step'[r] = to /\ call'[r] = c /\ \A q \in Requests \ {r} : step'[q] = step[q] /\ call'[q] = call[q]
  BY <1>1, <1>2 DEF FileTypeOK
<1>5. ~answer[r].ok /\ writer # r /\ call[r] = Nobody /\ bytes[r] = <<>>
  BY <1>2, FileAssumption DEF GuardInv, DiskInv
<1>6. \A q \in Requests \ {r} : /\ Guarded(q)' <=> Guarded(q)
                                /\ Wanted(q)' = Wanted(q) /\ (Writes(q)' <=> Writes(q))
  BY <1>4 DEF Guarded, Wanted, Writes
<1>7. Mixed => Mixed'
  BY <1>1, <1>5, <1>6 DEF Mixed, Writes, FileTypeOK
<1>8. GuardInv'
  BY <1>1, <1>2, <1>4, <1>5, <1>6 DEF GuardInv
<1>9. DiskInv'
  BY <1>1, <1>2, <1>4, <1>5, <1>7, FileAssumption DEF DiskInv, FileTypeOK, Mixture, Starts
<1>10. UncrossedWritesAreTrue'
  BY <1>1, <1>4, <1>5, <1>6 DEF UncrossedWritesAreTrue, FileTypeOK
<1>11. ReadsAreWhole'
  BY <1>1, <1>4, <1>5, <1>7 DEF ReadsAreWhole, Mixed, Mixture
<1> QED
  BY <1>3, <1>8, <1>9, <1>10, <1>11

\* It finds what it may go on with.
LEMMA LookKeeps ==
  ASSUME FileInv, NEW r \in Requests, Looks(r)
  PROVE  FileInv'
<1> USE DEF FileInv
<1>0. ASSUME AtEnd(r), r \notin met PROVE bytes[r] = disk
  <2>1. step[r] = "read" /\ Len(disk) <= Len(bytes[r])
    BY <1>0 DEF AtEnd
  <2>2. disk \in Seq(Byte) /\ bytes[r] \in Seq(Byte) /\ Begins(bytes[r], disk)
    BY <1>0, <2>1 DEF DiskInv, GuardInv, FileTypeOK
  <2>3. Len(disk) = Len(bytes[r]) /\ \A i \in 1 .. Len(bytes[r]) : bytes[r][i] = disk[i]
    BY <2>1, <2>2 DEF Begins
  <2> QED
    BY <2>2, <2>3, SeqEqual
<1>1. PICK from, to \in {"approve", "look", "open", "read"} :
        /\ Keeps(r, from, to) /\ from \in {"approve", "look", "read"} /\ to # "approve"
        /\ to = "look" => Guarded(r) /\ from = "approve"
        /\ to = "open" => call[r].op \in Editing /\ (r \notin met /\ Guarded(r) => disk = Wanted(r))
        /\ to = "read" => Exists /\ from = "look" /\ call[r].op # "create"
  <2>1. step[r] = "approve" => call[r].op \in Editing
    BY DEF GuardInv
  <2>2. \A from, to : Keeps(r, from, to) => step[r] = from
    BY DEF Keeps, Moves
  <2>3. CASE Guarded(r) /\ AtEnd(r) /\ bytes[r] = Wanted(r) /\ call[r].op \in Editing /\ Keeps(r, "read", "open")
    BY <1>0, <2>3
  <2> QED
    BY <2>1, <2>2, <2>3 DEF Looks
<1>2. step[r] = from /\ step' = [step EXCEPT ![r] = to] /\ UNCHANGED <<disk, call, bytes, answer, replaced, writer, met>>
  BY <1>1 DEF Keeps, Moves
<1>3. FileTypeOK'
  BY <1>1, <1>2 DEF FileTypeOK, StepSet
<1>4. step'[r] = to /\ \A q \in Requests \ {r} : step'[q] = step[q]
  BY <1>2 DEF FileTypeOK
<1>5. call[r] \in FileCalls /\ ~answer[r].ok /\ writer # r
  BY <1>1, <1>2, FileAssumption DEF GuardInv, DiskInv
<1>6. \A q \in Requests : /\ Guarded(q)' <=> Guarded(q)
                          /\ Wanted(q)' = Wanted(q) /\ (Writes(q)' <=> Writes(q))
  BY <1>2 DEF Guarded, Wanted, Writes
<1>7. disk # Nobody => disk \in Seq(Byte)
  BY DEF FileTypeOK
<1>8. to = "read" => /\ bytes[r] = <<>> /\ disk \in Seq(Byte) /\ Begins(bytes[r], disk)
                     /\ call[r].op \in Editing => call[r].op = "update" /\ Guarded(r)
  <2>1. <<>> \in Seq(Byte) /\ Len(<<>>) = 0
    OBVIOUS
  <2> QED
    BY <1>1, <1>2, <1>7, <2>1 DEF GuardInv, Exists, Begins, Editing
<1>9. GuardInv'
  <2> SUFFICES ASSUME NEW q \in Requests
               PROVE  /\ step'[q] = "none" => call'[q] = Nobody
                      /\ step'[q] \in {"none", "approve", "look"} => bytes'[q] = <<>>
                      /\ step'[q] \in {"approve", "look", "open", "write", "read"} => call'[q] \in FileCalls
                      /\ step'[q] \in {"approve", "open", "write"} => call'[q].op \in Editing
                      /\ step'[q] = "look" /\ call'[q].op \in Editing => Guarded(q)'
                      /\ step'[q] = "read" /\ call'[q].op \in Editing => call'[q].op = "update" /\ Guarded(q)'
                      /\ answer'[q].ok => step'[q] = "done" /\ call'[q] \in FileCalls
                      /\ q \notin met' =>
                           /\ step'[q] = "read" => Begins(bytes'[q], disk')
                           /\ step'[q] = "open" /\ Guarded(q)' => disk' = Wanted(q)'
                           /\ step'[q] = "write" => disk' = <<>> /\ (Guarded(q)' => replaced'[q] = Wanted(q)')
    BY DEF GuardInv, Begins
  <2>1. CASE q = r
    BY <1>1, <1>2, <1>4, <1>5, <1>6, <1>8, <2>1 DEF GuardInv
  <2>2. CASE q # r
    BY <1>2, <1>4, <1>6, <2>2 DEF GuardInv
  <2> QED
    BY <2>1, <2>2
<1>10. Mixed' <=> Mixed
  BY <1>2, <1>6 DEF Mixed, FileTypeOK
<1>11. DiskInv'
  BY <1>1, <1>2, <1>4, <1>5, <1>8, <1>10, FileAssumption DEF DiskInv, FileTypeOK, Mixture, Starts
<1>12. UncrossedWritesAreTrue'
  BY <1>2, <1>6 DEF UncrossedWritesAreTrue
<1>13. ReadsAreWhole'
  BY <1>2, <1>6, <1>10 DEF ReadsAreWhole, Mixed, Mixture
<1> QED
  BY <1>3, <1>9, <1>11, <1>12, <1>13

\* It reads on.
LEMMA GrowKeeps ==
  ASSUME FileInv, NEW r \in Requests, Grows(r)
  PROVE  FileInv'
<1> USE DEF FileInv
<1>1. PICK n \in Len(bytes[r]) + 1 .. Len(disk) :
        /\ step[r] = "read"
        /\ bytes' = [bytes EXCEPT ![r] = bytes[r] \o SubSeq(disk, Len(bytes[r]) + 1, n)]
        /\ UNCHANGED <<disk, call, step, answer, replaced, writer, met>>
  BY DEF Grows
<1> DEFINE u == bytes[r] \o SubSeq(disk, Len(bytes[r]) + 1, n)
<1>2. disk \in Seq(Byte) /\ bytes[r] \in Seq(Byte) /\ Mixture(bytes[r]) /\ Mixture(disk)
  BY <1>1, FileAssumption DEF DiskInv, FileTypeOK
<1>3. /\ u \in Seq(Byte) /\ Len(u) = n
      /\ \A i \in 1 .. n : u[i] = IF i <= Len(bytes[r]) THEN bytes[r][i] ELSE disk[i]
  BY <1>2, ReadOn
<1>4. bytes'[r] = u /\ \A q \in Requests \ {r} : bytes'[q] = bytes[q]
  BY <1>1 DEF FileTypeOK
<1> HIDE DEF u
<1>5. FileTypeOK'
  <2>1. bytes' \in [Requests -> Seq(Byte)]
    BY <1>1, <1>3 DEF FileTypeOK, u
  <2> QED
    BY <1>1, <2>1 DEF FileTypeOK
<1>6. Mixture(u)
  <2>1. \A i \in 1 .. Len(u) : \/ i \in 1 .. Len(bytes[r]) /\ u[i] = bytes[r][i]
                               \/ i \in 1 .. Len(disk) /\ u[i] = disk[i]
    BY <1>2, <1>3
  <2> QED
    BY <1>2, <1>3, <2>1, MixtureIs
<1>7. Begins(bytes[r], disk) => Begins(u, disk)
  BY <1>2, <1>3 DEF Begins
<1>8. \A q \in Requests : /\ Guarded(q)' <=> Guarded(q)
                          /\ Wanted(q)' = Wanted(q) /\ (Writes(q)' <=> Writes(q))
  BY <1>1 DEF Guarded, Wanted, Writes
<1>9. Mixed' <=> Mixed
  BY <1>1, <1>8 DEF Mixed, FileTypeOK
<1>10. GuardInv'
  <2>1. \A q \in Requests : step[q] = "read" /\ q \notin met => Begins(bytes'[q], disk)
    BY <1>4, <1>7 DEF GuardInv
  <2>2. \A q \in Requests : step[q] \in {"none", "approve", "look"} => bytes'[q] = <<>>
    BY <1>1, <1>4 DEF GuardInv
  <2>3. \A q \in Requests : step[q] = "read" /\ q \notin met => Begins(bytes[q], disk)'
    BY <1>1, <2>1 DEF Begins
  <2> QED
    BY <1>1, <1>8, <2>2, <2>3 DEF GuardInv
<1>11. DiskInv'
  <2>1. \A q \in Requests : Mixture(bytes'[q])
    BY <1>4, <1>6 DEF DiskInv
  <2> QED
    BY <1>1, <1>9, <2>1 DEF DiskInv, Mixture, Starts
<1>12. UncrossedWritesAreTrue'
  BY <1>1, <1>8 DEF UncrossedWritesAreTrue
<1>13. ReadsAreWhole'
  <2>1. \A q \in Requests : call[q] # Nobody /\ answer[q].ok => WholeAnswer(q, answer[q].text)
    BY AnswersAreWhole
  <2>2. \A q \in Requests : WholeAnswer(q, answer[q].text)' <=> WholeAnswer(q, answer[q].text)
    BY <1>1, <1>9 DEF WholeAnswer, Mixture, Starts
  <2> QED
    BY <1>1, <2>1, <2>2, AnswersAreWholeThen
<1> QED
  BY <1>5, <1>10, <1>11, <1>12, <1>13

\* What is served is whole.
LEMMA ServedWhole ==
  ASSUME FileInv, NEW r \in Requests, NEW text, Served(r, text), call[r] \in FileCalls
  PROVE  call[r].op \notin Editing /\ WholeAnswer(r, text)
<1>1. bytes[r] \in Seq(Byte) /\ Mixture(bytes[r])
  BY DEF FileInv, DiskInv, FileTypeOK
<1>2. CASE call[r].op \in {"search", "list"} /\ text = <<>>
  BY <1>2 DEF Editing, WholeAnswer
<1>3. CASE /\ step[r] = "read" /\ call[r].op = "read" /\ Valid(bytes[r]) /\ call[r].limit >= 0
           /\ text = ReadCut(bytes[r], call[r].limit)
  <2>1. call[r].limit \in Nat
    BY <1>3, CallsAre
  <2>2. text \in Seq(Byte) /\ Valid(text) /\ Len(text) <= call[r].limit /\ IsPrefix(text, bytes[r])
    BY <1>1, <1>3, <2>1, CutIs
  <2>3. Begins(text, bytes[r])
    BY <1>1, <2>2, BeginsIs
  <2>4. Mixture(text)
    BY <1>1, <2>2, <2>3, MixtureIs DEF Begins
  <2>5. ASSUME r \notin met, ~Mixed PROVE Starts(text)
    <3>1. disk \in Seq(Byte) /\ Starts(disk) /\ Begins(bytes[r], disk)
      BY <1>3, <2>5, FileAssumption DEF FileInv, DiskInv, GuardInv, Starts
    <3>2. Begins(text, disk)
      BY <1>1, <2>2, <2>3, <3>1 DEF Begins
    <3> QED
      BY <2>2, <3>1, <3>2, StartsIs
  <2> QED
    BY <1>3, <2>2, <2>4, <2>5 DEF Editing, WholeAnswer
<1>4. CASE /\ step[r] = "read" /\ call[r].op = "search" /\ ContainsText(bytes[r], call[r].query)
           /\ text = FirstSnippet(bytes[r], call[r].query)
  BY <1>1, <1>4, SnippetShows, CallsAre DEF Editing, WholeAnswer
<1> QED
  BY <1>2, <1>3, <1>4 DEF Served

\* It is answered without a change.
LEMMA EndKeeps ==
  ASSUME FileInv, NEW r \in Requests, Ends(r)
  PROVE  FileInv'
<1> USE DEF FileInv
<1>1. PICK from \in {"approve", "look", "open", "read"}, ok \in BOOLEAN, text \in Seq(Byte) :
        Returns(r, from, ok, text) /\ (ok => Served(r, text))
  <2>1. <<>> \in Seq(Byte)
    OBVIOUS
  <2> QED
    BY <2>1 DEF Ends
<1>2. /\ step[r] = from /\ step' = [step EXCEPT ![r] = "done"]
      /\ answer' = [answer EXCEPT ![r] = [ok |-> ok, text |-> text]]
      /\ UNCHANGED <<disk, call, bytes, replaced, writer, met>>
  BY <1>1 DEF Returns, Moves, Answers
<1>3. FileTypeOK'
  BY <1>1, <1>2 DEF FileTypeOK, StepSet
<1>4. /\ step'[r] = "done" /\ answer'[r].ok = ok /\ answer'[r].text = text
      /\ \A q \in Requests \ {r} : step'[q] = step[q] /\ answer'[q] = answer[q]
  BY <1>2 DEF FileTypeOK
<1>5. call[r] \in FileCalls
  BY <1>2 DEF GuardInv
<1>6. \A q \in Requests : /\ Guarded(q)' <=> Guarded(q)
                          /\ Wanted(q)' = Wanted(q) /\ (Writes(q)' <=> Writes(q))
  BY <1>2 DEF Guarded, Wanted, Writes
<1>7. GuardInv'
  BY <1>2, <1>4, <1>5, <1>6 DEF GuardInv, Begins
<1>8. Mixed' <=> Mixed
  BY <1>2, <1>6 DEF Mixed, FileTypeOK
<1>9. DiskInv'
  BY <1>2, <1>4, <1>8, FileAssumption DEF DiskInv, FileTypeOK, Mixture, Starts
<1>10. ok => call[r].op \notin Editing /\ WholeAnswer(r, text)
  BY <1>1, <1>5, ServedWhole
<1>11. UncrossedWritesAreTrue'
  BY <1>2, <1>4, <1>6, <1>10 DEF UncrossedWritesAreTrue, Writes, Editing
<1>12. ReadsAreWhole'
  <2>1. \A q \in Requests : call[q] # Nobody /\ answer'[q].ok => WholeAnswer(q, answer'[q].text)
    BY <1>4, <1>10, AnswersAreWhole
  <2> QED
    <3>1. \A q \in Requests : WholeAnswer(q, answer'[q].text) => WholeAnswer(q, answer[q].text)'
      BY <1>2, <1>8 DEF WholeAnswer, Mixture, Starts
    <3> QED
      BY <1>2, <2>1, <3>1, AnswersAreWholeThen
<1> QED
  BY <1>3, <1>7, <1>9, <1>11, <1>12

\* The file is emptied to be written.
LEMMA TruncateKeeps ==
  ASSUME FileInv, NEW r \in Requests, Truncates(r)
  PROVE  FileInv'
<1> USE DEF FileInv
<1>1. /\ step[r] = "open" /\ step' = [step EXCEPT ![r] = "write"]
      /\ replaced' = [replaced EXCEPT ![r] = disk] /\ disk' = <<>> /\ writer' = Nobody
      /\ met' = met \union (Looked \ {r}) /\ UNCHANGED <<call, bytes, answer>>
  BY DEF Truncates, Moves, Crosses
<1>2. Looked \subseteq Requests
  BY DEF Looked
<1>3. FileTypeOK'
  BY <1>1, <1>2 DEF FileTypeOK, StepSet
<1>4. /\ step'[r] = "write" /\ replaced'[r] = disk
      /\ \A q \in Requests \ {r} : step'[q] = step[q] /\ replaced'[q] = replaced[q]
  BY <1>1 DEF FileTypeOK
<1>5. call[r] \in FileCalls /\ call[r].op \in Editing /\ ~answer[r].ok
  BY <1>1 DEF GuardInv
<1>6. <<>> \in Seq(Byte) /\ Mixture(<<>>) /\ Starts(<<>>)
  <2>1. PICK t \in Texts : t \in Seq(Byte)
    BY <1>5, CallsAre, TextsAre
  <2>2. <<>> \in Seq(Byte) /\ Begins(<<>>, t)
    BY <2>1 DEF Begins
  <2> QED
    BY <2>1, <2>2, TextMixes
<1>7. \A q \in Requests : /\ Guarded(q)' <=> Guarded(q)
                          /\ Wanted(q)' = Wanted(q) /\ (Writes(q)' <=> Writes(q))
  BY <1>1 DEF Guarded, Wanted, Writes
<1>8. \A q \in Requests \ {r} : q \notin met' => q \notin met /\ step[q] \notin {"read", "open", "write"}
  BY <1>1 DEF Looked
<1>9. (r \notin met' => r \notin met) /\ (Mixed => Mixed')
  BY <1>1, <1>7 DEF Mixed, FileTypeOK
<1>10. GuardInv'
  BY <1>1, <1>4, <1>5, <1>7, <1>8, <1>9 DEF GuardInv
<1>11. DiskInv'
  BY <1>1, <1>4, <1>6, FileAssumption DEF DiskInv, Mixture, Starts
<1>12. UncrossedWritesAreTrue'
  BY <1>1, <1>4, <1>5, <1>7, <1>8 DEF UncrossedWritesAreTrue
<1>13. ReadsAreWhole'
  BY <1>1, <1>9 DEF ReadsAreWhole, Mixed, Mixture
<1> QED
  BY <1>3, <1>10, <1>11, <1>12, <1>13

\* It is written.
LEMMA FillKeeps ==
  ASSUME FileInv, NEW r \in Requests, NEW n \in 0 .. Len(call[r].text), NEW by, NEW ok, NEW text,
         Fills(r, n, by, ok, text)
  PROVE  FileInv'
<1> USE DEF FileInv
<1> DEFINE all  == call[r].text
           part == Take(all, n)
<1>1. /\ step[r] = "write" /\ step' = [step EXCEPT ![r] = "done"]
      /\ disk' = part \o SubSeq(disk, Len(part) + 1, Len(disk)) /\ writer' = by
      /\ answer' = [answer EXCEPT ![r] = [ok |-> ok, text |-> text]]
      /\ met' = met \union (Looked \ {r}) /\ UNCHANGED <<call, bytes, replaced>>
      /\ \/ n = Len(all) /\ by = r /\ ok = TRUE /\ text = all
         \/ by = Nobody /\ ok = FALSE /\ text = <<>>
  BY DEF Fills, Moves, Crosses, Answers, Overwritten
<1>2. Looked \subseteq Requests
  BY DEF Looked
<1>3. call[r] \in FileCalls /\ call[r].op \in Editing /\ ~answer[r].ok
  BY <1>1 DEF GuardInv
<1>4. all \in Texts /\ all \in Seq(Byte) /\ all # Nobody
  BY <1>3, CallsAre, TextsAre
<1>5. disk \in Seq(Byte) /\ Mixture(disk)
  BY <1>1, FileAssumption DEF DiskInv, FileTypeOK
<1>6. /\ part \in Seq(Byte) /\ Begins(part, all) /\ Mixture(part) /\ Starts(part)
      /\ n = Len(all) => part = all
  <2>1. part \in Seq(Byte) /\ Len(part) = n /\ \A i \in 1 .. n : part[i] = all[i]
    BY <1>4, TakeIs
  <2>2. Begins(part, all)
    BY <1>4, <2>1 DEF Begins
  <2> QED
    BY <1>4, <2>1, <2>2, TextMixes, TakeAll
<1>7. by \in Requests \union {Nobody} /\ ok \in BOOLEAN /\ text \in Seq(Byte) /\ (by # Nobody => by = r /\ part = all)
  <2>1. <<>> \in Seq(Byte)
    OBVIOUS
  <2> QED
    BY <1>1, <1>4, <1>6, <2>1
<1> HIDE DEF all, part
<1>8. /\ disk' \in Seq(Byte) /\ (disk = <<>> => disk' = part)
      /\ \A i \in 1 .. Len(disk') : \/ i \in 1 .. Len(part) /\ disk'[i] = part[i]
                                    \/ i \in 1 .. Len(disk) /\ disk'[i] = disk[i]
  BY <1>1, <1>5, <1>6, WriteOver
<1>9. Mixture(disk)' /\ disk' # Nobody
  <2> DEFINE u == disk'
  <2>1. u \in Seq(Byte) /\ \A i \in 1 .. Len(u) : \/ i \in 1 .. Len(part) /\ u[i] = part[i]
                                                  \/ i \in 1 .. Len(disk) /\ u[i] = disk[i]
    BY <1>8
  <2> HIDE DEF u
  <2>2. Mixture(u)
    BY <1>5, <1>6, <2>1, MixtureIs
  <2> QED
    BY <1>8, <2>2, FileAssumption DEF u, Mixture
<1>10. FileTypeOK'
  BY <1>1, <1>2, <1>7, <1>8 DEF FileTypeOK, StepSet
<1>11. /\ step'[r] = "done" /\ answer'[r].ok = ok
       /\ \A q \in Requests \ {r} : step'[q] = step[q] /\ answer'[q] = answer[q]
  BY <1>1 DEF FileTypeOK
<1>12. \A q \in Requests : /\ Guarded(q)' <=> Guarded(q)
                           /\ Wanted(q)' = Wanted(q) /\ (Writes(q)' <=> Writes(q))
  BY <1>1 DEF Guarded, Wanted, Writes
<1>13. \A q \in Requests \ {r} : q \notin met' => q \notin met /\ step[q] \notin {"read", "open", "write"}
  BY <1>1 DEF Looked
<1>14. (r \notin met' => r \notin met) /\ (Mixed => Mixed')
  BY <1>1, <1>12 DEF Mixed, FileTypeOK
<1>15. r \notin met => disk = <<>> /\ (Guarded(r) => replaced[r] = Wanted(r))
  BY <1>1 DEF GuardInv
<1>16. GuardInv'
  BY <1>1, <1>3, <1>11, <1>12, <1>13 DEF GuardInv
<1>17. DiskInv'
  <2>1. ASSUME ~Mixed' PROVE Starts(disk)'
    <3>1. Writes(r)
      BY <1>3, CallAssumption DEF Writes, Editing
    <3>2. r \notin met
      BY <1>14, <2>1, <3>1 DEF Mixed
    <3>3. disk' = part
      BY <1>8, <1>15, <3>2
    <3> QED
      BY <1>6, <3>3 DEF Starts
  <2>2. \A q \in Requests : (step'[q] \in {"read", "write"} => disk' \in Seq(Byte)) /\ Mixture(bytes[q])
    BY <1>8 DEF DiskInv
  <2>3. writer' # Nobody => step'[writer'] = "done"
    BY <1>1, <1>7, <1>11
  <2> QED
    BY <1>1, <1>9, <2>1, <2>2, <2>3 DEF DiskInv, Mixture
<1>18. UncrossedWritesAreTrue'
  <2>1. writer' # Nobody /\ writer' \notin met' => disk' = call'[writer'].text
    BY <1>1, <1>7, <1>8, <1>14, <1>15 DEF all
  <2>2. \A q \in Requests : Writes(q) /\ answer'[q].ok /\ Guarded(q) /\ q \notin met' => replaced[q] = Wanted(q)
    BY <1>11, <1>13, <1>14, <1>15 DEF UncrossedWritesAreTrue
  <2> QED
    BY <1>1, <1>12, <2>1, <2>2 DEF UncrossedWritesAreTrue
<1>19. ReadsAreWhole'
  BY <1>1, <1>3, <1>11, <1>14 DEF ReadsAreWhole, Editing, Mixed, Mixture
<1> QED
  BY <1>10, <1>16, <1>17, <1>18, <1>19

LEMMA FileInvInit == FileInit => FileInv
<1> SUFFICES ASSUME FileInit PROVE FileInv
  OBVIOUS
<1>1. \A r \in Requests : step[r] = "none" /\ ~answer[r].ok /\ call[r] = Nobody /\ bytes[r] = <<>>
  BY DEF FileInit, NoAnswer
<1>2. FileTypeOK
  BY TextsAre DEF FileInit, FileTypeOK, StepSet, NoAnswer
<1>3. GuardInv
  BY <1>1 DEF GuardInv
<1>4. DiskInv
  <2>1. \A t \in Texts : t \in Seq(Byte) /\ Begins(t, t)
    BY TextsAre DEF Begins
  <2>2. \A t \in Texts : Mixture(t) /\ Starts(t)
    BY <2>1, TextMixes
  <2>3. Mixture(<<>>)
    BY DEF Mixture
  <2> QED
    BY <1>1, <2>2, <2>3 DEF DiskInv, FileInit
<1>5. UncrossedWritesAreTrue /\ ReadsAreWhole
  BY <1>1 DEF UncrossedWritesAreTrue, ReadsAreWhole, FileInit
<1> QED
  BY <1>2, <1>3, <1>4, <1>5 DEF FileInv

LEMMA FileInvNext == FileInv /\ [FileNext]_fileToolVars => FileInv'
<1>1. ASSUME FileInv, FileNext PROVE FileInv'
  BY <1>1, FileSteps, CallKeeps, LookKeeps, GrowKeeps, EndKeeps, TruncateKeeps, FillKeeps
<1>2. ASSUME FileInv, UNCHANGED fileToolVars PROVE FileInv'
  BY <1>2
  DEF fileToolVars, FileInv, FileTypeOK, GuardInv, DiskInv, UncrossedWritesAreTrue, ReadsAreWhole, Guarded,
      Wanted, Writes, Begins, Mixture, Mixed, Starts
<1> QED
  BY <1>1, <1>2

LEMMA FileInvariant == FileSpec => []FileInv
BY FileInvInit, FileInvNext, PTL DEF FileSpec

\* Every variable of the file server keeps to its type, however requests interleave
\* (FileTypeOK; files.go, whose requests share no lock).
THEOREM FileTypeCorrect == FileSpec => []FileTypeOK
BY FileInvariant, PTL DEF FileInv

\* Between its look and its write a request is not alone; but one that no other has
\* crossed has replaced what it was guarded by, and the file holds its text until the
\* next write: the hash an update expects is worth as much as nobody else writes
\* (UncrossedWritesAreTrue; files.go, Create and Update).
THEOREM WritesTrue == FileSpec => []UncrossedWritesAreTrue
BY FileInvariant, PTL DEF FileInv

\* A read meets a file that is being written, texts written over each other, and a
\* write between two of its parts; it returns whole characters within its limit all
\* the same, each byte from its place in some text, and the beginning of one text
\* unless it was crossed, or writes were; a search shows what was searched for
\* (ReadsAreWhole; files.go, Read and Search).
THEOREM ReadsWhole == FileSpec => []ReadsAreWhole
BY FileInvariant, PTL DEF FileInv
=============================================================================
