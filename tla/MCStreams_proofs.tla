-------------------------- MODULE MCStreams_proofs --------------------------
(***************************************************************************)
(* Theorems about the arguments of a call and the consent to it            *)
(* (Arguments, Consent), for every argument of every tool and any bounds   *)
(* of the numbers; and about the parts that are checked beside each other  *)
(* (MCStreams).                                                            *)
(***************************************************************************)
EXTENDS MCStreams, EventStream_proofs, FileTools_proofs, Conversation_proofs

(***************************************************************************)
(* The two ways of a call's arguments                                      *)
(***************************************************************************)
LEMMA RoundIs ==
  ASSUME NEW n \in Nat
  PROVE  Round(n) \in Nat /\ Round(Round(n)) = Round(n) /\ (Round(n) = 0 <=> n = 0)
<1>1. ASSUME NEW m \in Nat, m <= Exact \/ m % 2 = 0 PROVE Round(m) = m
  <2>1. ~(m > Exact /\ m % 4 = 1) /\ ~(m > Exact /\ m % 4 = 3)
    BY <1>1, ArgumentsAssumption
  <2> QED
    BY <1>1, <2>1, Zenon DEF Round
<1>2. CASE n <= Exact \/ n % 2 = 0
  BY <1>1, <1>2
<1>3. CASE n > Exact /\ n % 4 = 1
  <2>1. ~(n <= Exact \/ n % 2 = 0) /\ n % 4 # 3
    BY <1>3, ArgumentsAssumption
  <2>2. Round(n) = n - 1
    BY <1>3, <2>1, Zenon DEF Round
  <2>3. n - 1 \in Nat /\ (n - 1) % 2 = 0 /\ n > 1
    BY <1>3, ArgumentsAssumption
  <2> QED
    BY <1>1, <2>2, <2>3
<1>4. CASE n > Exact /\ n % 4 = 3
  <2>1. ~(n <= Exact \/ n % 2 = 0) /\ n % 4 # 1
    BY <1>4, ArgumentsAssumption
  <2>2. Round(n) = n + 1
    BY <1>4, <2>1, Zenon DEF Round
  <2>3. n + 1 \in Nat /\ (n + 1) % 2 = 0 /\ n > 0
    BY <1>4, ArgumentsAssumption
  <2> QED
    BY <1>1, <2>2, <2>3
<1>5. n <= Exact \/ n % 2 = 0 \/ n % 4 = 1 \/ n % 4 = 3
  OBVIOUS
<1> QED
  BY <1>2, <1>3, <1>4, <1>5, ArgumentsAssumption

\* What the conversions make of a value that is not nested.
Floats(v) == DecodeLeaf(v, "float")
Digits(v) == DecodeLeaf(v, "number")

Plain == {String("plain"), String("replaced"), Null, Empty("list"), Empty("map")}

LEMMA PlainIs ==
  ASSUME NEW p \in Plain
  PROVE  /\ p.kind \in {"text", "null", "empty"} /\ p # Invalid /\ ~Nested(p) /\ p # String("broken") /\ ~MinusZero(p)
         /\ NormalizeLeaf(p) = p /\ NewValue(p) = p /\ EncodeLeaf(p) = p /\ Floats(p) = p /\ Digits(p) = p
<1>1. p.kind \in {"text", "null", "empty"}
  BY DEF Plain, String, Null, Empty
<1>2. p # Invalid /\ ~MinusZero(p)
  BY <1>1 DEF Invalid, MinusZero, Num
<1>3. p # String("broken")
  <2>1. String("broken").kind = "text" /\ String("broken").text = "broken"
    BY DEF String
  <2>2. p.kind = "text" => p.text \in {"plain", "replaced"}
    BY DEF Plain, String, Null, Empty
  <2> QED
    BY <2>1, <2>2
<1>4. ~Nested(p) /\ Floats(p) = p /\ Digits(p) = p
  BY <1>1 DEF Nested, Floats, Digits, DecodeLeaf
<1>5. ~OfNumber(p)
  BY <1>1 DEF OfNumber
<1>6. NormalizeLeaf(p) = p
  BY <1>1, <1>5, Zenon DEF NormalizeLeaf
<1>7. NewValue(p) = p
  BY <1>1, <1>3, Zenon DEF NewValue
<1>8. EncodeLeaf(p) = p
  BY <1>1, <1>3, Zenon DEF EncodeLeaf
<1> QED
  BY <1>1, <1>2, <1>3, <1>4, <1>6, <1>7, <1>8

NumberKinds == {"int", "uint", "float", "number", "loose", "digits"}

LEMMA NumIs ==
  ASSUME NEW kind \in NumberKinds, NEW minus \in BOOLEAN, NEW n \in Nat
  PROVE  LET v == Num(kind, minus, n)
         IN  v.kind = kind /\ v.minus = minus /\ v.n = n /\ v # Invalid /\ v # String("broken") /\ ~Nested(v)
<1> DEFINE v == Num(kind, minus, n)
<1>1. v.kind = kind /\ v.minus = minus /\ v.n = n
  BY DEF Num
<1> HIDE DEF v
<1>2. v # Invalid /\ v # String("broken") /\ ~Nested(v)
  BY <1>1 DEF Invalid, String, Nested, NumberKinds
<1> QED
  BY <1>1, <1>2 DEF v

LEMMA NumSame ==
  ASSUME NEW kind \in NumberKinds, NEW minus, NEW n, NEW other, NEW m
  PROVE  Num(kind, minus, n) = Num(kind, other, m) <=> minus = other /\ n = m
<1>1. Num(kind, minus, n).minus = minus /\ Num(kind, minus, n).n = n
  BY DEF Num
<1>2. Num(kind, other, m).minus = other /\ Num(kind, other, m).n = m
  BY DEF Num
<1> QED
  BY <1>1, <1>2

LEMMA MinusZeroIs ==
  ASSUME NEW kind \in NumberKinds, NEW minus \in BOOLEAN, NEW n
  PROVE  Num(kind, minus, n) = Num(kind, TRUE, 0) <=> minus /\ n = 0
<1>1. CASE minus = TRUE
  <2>1. Num(kind, TRUE, n).n = n /\ Num(kind, TRUE, 0).n = 0
    BY DEF Num
  <2> QED
    BY <1>1, <2>1
<1>2. CASE minus = FALSE
  <2>1. Num(kind, FALSE, n).minus = FALSE /\ Num(kind, TRUE, 0).minus = TRUE
    BY DEF Num
  <2> QED
    BY <1>2, <2>1
<1> QED
  BY <1>1, <1>2

LEMMA ZeroIs == Num("number", TRUE, 0).kind = "number"
BY DEF Num

\* What becomes of a number.
LEMMA NumbersAre ==
  ASSUME NEW minus \in BOOLEAN, NEW n \in Nat
  PROVE  /\ \A kind \in {"number", "loose"} :
              \/ NormalizeLeaf(Num(kind, minus, n)) = Num("int", minus /\ n # 0, n)
              \/ n # 0 /\ NormalizeLeaf(Num(kind, minus, n)) = Float(minus, n)
         /\ NormalizeLeaf(Num("uint", minus, n)) \in {Invalid, Num("uint", minus, n)}
         /\ \A kind \in {"int", "float"} : NormalizeLeaf(Num(kind, minus, n)) = Num(kind, minus, n)
         /\ \A kind \in {"int", "uint", "float"} : NewValue(Num(kind, minus, n)) = Float(minus, n)
         /\ \A kind \in {"int", "uint", "float", "number"} : EncodeLeaf(Num(kind, minus, n)) = Num("digits", minus, n)
         /\ EncodeLeaf(Num("loose", minus, n)) = Invalid
         /\ Floats(Num("digits", minus, n)) = Float(minus, n)
         /\ Digits(Num("digits", minus, n)) = Num("number", minus, n)
<1>0. \A kind \in NumberKinds : /\ Num(kind, minus, n).kind = kind /\ Num(kind, minus, n).minus = minus
                                /\ Num(kind, minus, n).n = n /\ Num(kind, minus, n) # String("broken")
  BY NumIs
<1>1. ASSUME NEW v, v.kind \in {"number", "loose"}, v.minus = minus, v.n = n
      PROVE  \/ NormalizeLeaf(v) = Num("int", minus /\ n # 0, n)
             \/ n # 0 /\ NormalizeLeaf(v) = Float(minus, n)
  <2>1. OfNumber(v)
    BY <1>1 DEF OfNumber
  <2>2. CASE InInt64(v)
    BY <1>1, <2>1, <2>2, Zenon DEF NormalizeLeaf
  <2>3. CASE ~InInt64(v)
    <3>1. n # 0
      BY <1>1, <2>3, ArgumentsAssumption DEF InInt64
    <3>2. NormalizeLeaf(v) = Float(minus, n)
      BY <1>1, <2>1, <2>3, Zenon DEF NormalizeLeaf
    <3> QED
      BY <3>1, <3>2
  <2> QED
    BY <2>2, <2>3
<1>2. ASSUME NEW v, v.kind = "uint" PROVE NormalizeLeaf(v) \in {Invalid, v}
  <2>1. ~OfNumber(v)
    BY <1>2 DEF OfNumber
  <2>2. CASE v.n > MaxInt
    <3>1. NormalizeLeaf(v) = Invalid
      BY <1>2, <2>1, <2>2, Zenon DEF NormalizeLeaf
    <3> QED
      BY <3>1
  <2>3. CASE ~(v.n > MaxInt)
    <3>1. NormalizeLeaf(v) = v
      BY <1>2, <2>1, <2>3, Zenon DEF NormalizeLeaf
    <3> QED
      BY <3>1
  <2> QED
    BY <2>2, <2>3
<1>3. ASSUME NEW v, v.kind \in {"int", "float"} PROVE NormalizeLeaf(v) = v
  <2>1. ~OfNumber(v)
    BY <1>3 DEF OfNumber
  <2> QED
    BY <1>3, <2>1, Zenon DEF NormalizeLeaf
<1>4. ASSUME NEW v, v.kind \in {"int", "uint", "float"}, v.minus = minus, v.n = n, v # String("broken")
      PROVE  NewValue(v) = Float(minus, n)
  BY <1>4, Zenon DEF NewValue
<1>5. ASSUME NEW v, v.kind \in {"int", "uint", "float", "number"}, v.minus = minus, v.n = n, v # String("broken")
      PROVE  EncodeLeaf(v) = Num("digits", minus, n)
  BY <1>5, Zenon DEF EncodeLeaf
<1>6. ASSUME NEW v, v.kind = "loose", v # String("broken") PROVE EncodeLeaf(v) = Invalid
  BY <1>6, Zenon DEF EncodeLeaf
<1>7. ASSUME NEW v, v.kind = "digits", v.minus = minus, v.n = n
      PROVE  Floats(v) = Float(minus, n) /\ Digits(v) = Num("number", minus, n)
  BY <1>7 DEF Floats, Digits, DecodeLeaf
<1>8. \A kind \in {"int", "uint", "float", "number", "loose", "digits"} :
        kind \in NumberKinds
  BY DEF NumberKinds
<1> QED
  BY <1>0, <1>1, <1>2, <1>3, <1>4, <1>5, <1>6, <1>7, <1>8

LEMMA FloatIs ==
  ASSUME NEW minus \in BOOLEAN, NEW n \in Nat
  PROVE  /\ Float(minus, n) = Num("float", minus, Round(n)) /\ Round(n) \in Nat
         /\ Float(minus, Round(n)) = Float(minus, n)
         /\ \A m \in Nat, other \in BOOLEAN :
              Float(minus, n) = Float(other, m) <=> minus = other /\ Round(n) = Round(m)
<1>1. \A m \in Nat, other \in BOOLEAN : Num("float", minus, Round(n)) = Num("float", other, Round(m)) <=> minus = other /\ Round(n) = Round(m)
  BY NumIs, RoundIs DEF NumberKinds
<1> QED
  BY <1>1, RoundIs DEF Float

\* A number on its two ways: f as a Struct has it, g as the request has it, Invalid if
\* the request is not sent.
Ways(l, f, g) ==
  /\ NewValue(NormalizeLeaf(l)) = f
  /\ \/ g = Invalid /\ EncodeLeaf(l) = Invalid
     \/ g # Invalid /\ EncodeLeaf(l) # Invalid /\ Floats(EncodeLeaf(l)) = g

IsDouble(v) == \E minus \in BOOLEAN, n \in Nat : v = Float(minus, n)

\* A leaf that gets into a Struct is a number or plain there and in the request, and
\* the same in both unless it is ambiguous.
LEMMA LeafWay ==
  ASSUME NEW l \in Leaves, NormalizeLeaf(l) # Invalid, NewValue(NormalizeLeaf(l)) # Invalid
  PROVE  /\ ~Nested(l) /\ ~Nested(NormalizeLeaf(l)) /\ ~Nested(EncodeLeaf(l))
         /\ \E f, g : /\ Ways(l, f, g)
                      /\ f \in Plain \/ IsDouble(f)
                      /\ g = Invalid \/ g \in Plain \/ IsDouble(g)
                      /\ f = g <=> ~Ambiguous(l)
<1> DEFINE Goal == /\ ~Nested(l) /\ ~Nested(NormalizeLeaf(l)) /\ ~Nested(EncodeLeaf(l))
                   /\ \E f, g : /\ Ways(l, f, g)
                                /\ f \in Plain \/ IsDouble(f)
                                /\ g = Invalid \/ g \in Plain \/ IsDouble(g)
                                /\ f = g <=> ~Ambiguous(l)
<1>0. \A minus \in BOOLEAN, n \in Nat : IsDouble(Float(minus, n)) /\ Float(minus, n) # Invalid
  <2>1. \A minus \in BOOLEAN, n \in Nat : Float(minus, n) # Invalid
    BY FloatIs, NumIs DEF NumberKinds
  <2> QED
    BY <2>1 DEF IsDouble
<1>1. ASSUME NEW kind \in {"int", "uint", "number", "loose", "float"}, NEW minus \in BOOLEAN, NEW n \in Nat,
             l = Num(kind, minus, n), kind = "int" => ~(minus /\ n = 0)
      PROVE  Goal
  <2>1. /\ l.kind = kind /\ ~Nested(l) /\ l # Invalid
        /\ \A d \in NumberKinds, b \in BOOLEAN : Num(d, b, n) # Invalid /\ ~Nested(Num(d, b, n))
    BY <1>1, NumIs DEF NumberKinds
  <2>2. CASE kind \in {"int", "uint", "float"}
    <3>1. NormalizeLeaf(l) = l
      BY <1>1, <2>2, NumbersAre
    <3>2. NewValue(l) = Float(minus, n) /\ EncodeLeaf(l) = Num("digits", minus, n) /\ Floats(Num("digits", minus, n)) = Float(minus, n)
      BY <1>1, <2>2, NumbersAre
    <3>3. Num("digits", minus, n) # Invalid /\ ~Nested(Num("digits", minus, n))
      BY <2>1 DEF NumberKinds
    <3>4. ~Ambiguous(l)
      <4>1. l # Num("number", TRUE, 0)
        BY <2>1, <2>2, ZeroIs
      <4> QED
        BY <2>1, <2>2, <4>1 DEF Ambiguous
    <3>5. Ways(l, Float(minus, n), Float(minus, n))
      BY <1>0, <3>1, <3>2, <3>3 DEF Ways
    <3> QED
      BY <1>0, <2>1, <3>1, <3>2, <3>3, <3>4, <3>5
  <2>3. CASE kind \in {"number", "loose"}
    <3> DEFINE f == Float(minus /\ n # 0, n)
    <3>1. NewValue(NormalizeLeaf(l)) = f /\ ~Nested(NormalizeLeaf(l))
      <4>1. CASE NormalizeLeaf(l) = Num("int", minus /\ n # 0, n)
        <5>1. NewValue(Num("int", minus /\ n # 0, n)) = Float(minus /\ n # 0, n)
          BY NumbersAre
        <5>2. ~Nested(Num("int", minus /\ n # 0, n))
          BY <2>1 DEF NumberKinds
        <5> QED
          BY <4>1, <5>1, <5>2
      <4>2. CASE n # 0 /\ NormalizeLeaf(l) = Float(minus, n)
        <5>1. Float(minus, n) = Num("float", minus, Round(n)) /\ Round(n) \in Nat /\ Float(minus, Round(n)) = Float(minus, n)
          BY FloatIs
        <5>2. NewValue(Num("float", minus, Round(n))) = Float(minus, Round(n)) /\ ~Nested(Num("float", minus, Round(n)))
          BY <5>1, NumbersAre, NumIs DEF NumberKinds
        <5>3. (minus /\ n # 0) = minus
          BY <4>2
        <5> QED
          BY <4>2, <5>1, <5>2, <5>3
      <4> QED
        BY <1>1, <2>3, <4>1, <4>2, NumbersAre
    <3>2. IsDouble(f) /\ f # Invalid
      BY <1>0
    <3>3. CASE kind = "loose"
      <4>1. EncodeLeaf(l) = Invalid
        BY <1>1, <3>3, NumbersAre
      <4>2. Ambiguous(l)
        BY <2>1, <3>3 DEF Ambiguous
      <4>3. ~Nested(Invalid)
        BY DEF Nested, Invalid
      <4>4. Ways(l, f, Invalid)
        BY <3>1, <4>1 DEF Ways
      <4> HIDE DEF f
      <4> QED
        BY <2>1, <3>1, <3>2, <4>1, <4>2, <4>3, <4>4
    <3>4. CASE kind = "number"
      <4>1. EncodeLeaf(l) = Num("digits", minus, n) /\ Floats(Num("digits", minus, n)) = Float(minus, n)
        BY <1>1, <3>4, NumbersAre
      <4>2. Num("digits", minus, n) # Invalid /\ ~Nested(Num("digits", minus, n))
        BY <2>1 DEF NumberKinds
      <4>3. f = Float(minus, n) <=> ~(minus /\ n = 0)
        <5>1. f = Float(minus, n) <=> (minus /\ n # 0) = minus
          BY FloatIs
        <5> QED
          BY <5>1
      <4>4. Ambiguous(l) <=> minus /\ n = 0
        <5>1. l = Num("number", TRUE, 0) <=> minus /\ n = 0
          BY <1>1, <3>4, MinusZeroIs DEF NumberKinds
        <5> QED
          BY <2>1, <3>4, <5>1 DEF Ambiguous
      <4>5. Ways(l, f, Float(minus, n))
        BY <1>0, <3>1, <4>1, <4>2 DEF Ways
      <4> HIDE DEF f
      <4> QED
        BY <1>0, <2>1, <3>1, <3>2, <4>1, <4>2, <4>3, <4>4, <4>5
    <3> QED
      BY <2>3, <3>3, <3>4
  <2> QED
    BY <2>2, <2>3
<1>2. ASSUME l.kind = "float32", l.minus \in BOOLEAN, l.n \in Nat, l.digits \in Nat, Round(l.n) = l.n
      PROVE  Goal
  <2> DEFINE f == Float(l.minus, l.n)
             g == Float(l.minus, l.digits)
  <2>1. ~OfNumber(l) /\ l # String("broken") /\ ~Nested(l)
    BY <1>2 DEF OfNumber, String, Nested
  <2>2. NormalizeLeaf(l) = Num("float", l.minus, l.n)
    BY <1>2, <2>1, Zenon DEF NormalizeLeaf
  <2>3. NewValue(Num("float", l.minus, l.n)) = f /\ ~Nested(Num("float", l.minus, l.n))
    BY <1>2, NumbersAre, NumIs DEF NumberKinds
  <2>4. EncodeLeaf(l) = Num("digits", l.minus, l.digits)
    BY <1>2, <2>1, Zenon DEF EncodeLeaf
  <2>5. /\ Floats(Num("digits", l.minus, l.digits)) = g
        /\ Num("digits", l.minus, l.digits) # Invalid /\ ~Nested(Num("digits", l.minus, l.digits))
    BY <1>2, NumbersAre, NumIs DEF NumberKinds
  <2>6. f = g <=> ~Ambiguous(l)
    <3>1. f = g <=> Round(l.n) = Round(l.digits)
      BY <1>2, FloatIs
    <3>2. l # Num("number", TRUE, 0)
      BY <1>2, ZeroIs
    <3> HIDE DEF f, g
    <3> QED
      BY <1>2, <3>1, <3>2 DEF Ambiguous
  <2>7. IsDouble(f) /\ IsDouble(g) /\ g # Invalid
    BY <1>0, <1>2
  <2>8. Ways(l, f, g)
    BY <2>2, <2>3, <2>4, <2>5, <2>7 DEF Ways
  <2> HIDE DEF f, g
  <2> QED
    BY <2>1, <2>2, <2>3, <2>4, <2>5, <2>6, <2>7, <2>8
<1>3. ASSUME l \in Plain PROVE Goal
  <2>1. /\ ~Nested(l) /\ NormalizeLeaf(l) = l /\ EncodeLeaf(l) = l /\ l # Invalid
        /\ NewValue(l) = l /\ Floats(l) = l /\ l.kind \in {"text", "null", "empty"}
    BY <1>3, PlainIs
  <2>2. l # Num("number", TRUE, 0)
    BY <2>1, ZeroIs
  <2>3. ~Ambiguous(l)
    BY <2>1, <2>2 DEF Ambiguous
  <2>4. Ways(l, l, l)
    BY <2>1 DEF Ways
  <2> QED
    BY <1>3, <2>1, <2>3, <2>4
<1>4. ASSUME NEW as \in {"list", "map"}, l.kind = "nil", l.as = as PROVE Goal
  <2>1. ~OfNumber(l) /\ l # String("broken") /\ ~Nested(l) /\ Ambiguous(l)
    BY <1>4 DEF OfNumber, String, Nested, Ambiguous
  <2>2. NormalizeLeaf(l) = Empty(as)
    BY <1>4, <2>1, Zenon DEF NormalizeLeaf
  <2>3. EncodeLeaf(l) = Null
    BY <1>4, <2>1, Zenon DEF EncodeLeaf
  <2>4. Empty(as) \in Plain /\ Null \in Plain /\ Empty(as) # Null
    BY DEF Plain, Empty, Null
  <2>5. /\ NewValue(Empty(as)) = Empty(as) /\ ~Nested(Empty(as))
        /\ Floats(Null) = Null /\ Null # Invalid /\ ~Nested(Null)
    BY <2>4, PlainIs
  <2>6. Ways(l, Empty(as), Null)
    BY <2>2, <2>3, <2>5 DEF Ways
  <2> QED
    BY <2>1, <2>2, <2>3, <2>4, <2>5, <2>6
<1>5. ASSUME l = String("broken") PROVE FALSE
  <2>1. l.kind = "text"
    BY <1>5 DEF String
  <2>2. ~OfNumber(l)
    BY <2>1 DEF OfNumber
  <2>3. NormalizeLeaf(l) = l
    BY <2>1, <2>2, Zenon DEF NormalizeLeaf
  <2>4. NewValue(l) = Invalid
    BY <1>5, <2>1, Zenon DEF NewValue
  <2> QED
    BY <2>3, <2>4
<1>6. ASSUME l.kind \in {"nan", "other"} PROVE FALSE
  <2>1. ~OfNumber(l)
    BY <1>6 DEF OfNumber
  <2>2. NormalizeLeaf(l) = Invalid
    BY <1>6, <2>1, Zenon DEF NormalizeLeaf
  <2> QED
    BY <2>2
<1> SUFFICES Goal
  OBVIOUS
<1> HIDE DEF Goal
<1>7. \A n \in 0 .. Largest : n \in Nat /\ Round(n) \in Nat /\ Round(Round(n)) = Round(n)
  BY RoundIs, ArgumentsAssumption
<1>8. CASE \/ l \in {v \in [kind : {"int"}, minus : BOOLEAN, n : 0 .. Largest] : InInt64(v) /\ (v.n = 0 => ~v.minus)}
           \/ l \in [kind : {"uint"}, minus : {FALSE}, n : 0 .. Largest]
           \/ l \in [kind : {"number", "loose"}, minus : BOOLEAN, n : 0 .. Largest]
           \/ l \in [kind : {"float"}, minus : BOOLEAN, n : Doubles]
  <2>1. /\ l.kind \in {"int", "uint", "number", "loose", "float"} /\ l.minus \in BOOLEAN /\ l.n \in Nat
        /\ l = Num(l.kind, l.minus, l.n) /\ (l.kind = "int" => ~(l.minus /\ l.n = 0))
    BY <1>7, <1>8 DEF Doubles, Num
  <2> QED
    BY <1>1, <2>1
<1>9. CASE l \in {v \in [kind : {"float32"}, minus : BOOLEAN, n : Doubles, digits : 0 .. Largest] :
                   v.digits \in {v.n, v.n + 1}}
  <2>1. l.kind = "float32" /\ l.minus \in BOOLEAN /\ l.n \in Doubles /\ l.digits \in 0 .. Largest
    BY <1>9
  <2>2. l.n \in Nat /\ Round(l.n) = l.n /\ l.digits \in Nat
    BY <1>7, <2>1 DEF Doubles
  <2> QED
    BY <1>2, <2>1, <2>2
<1>10. CASE l \in {String(t) : t \in {"plain", "replaced", "broken"}}
  BY <1>3, <1>5, <1>10 DEF Plain
<1>11. CASE l \in [kind : {"nil", "empty"}, as : {"list", "map"}]
  <2>1. l.kind \in {"nil", "empty"} /\ l.as \in {"list", "map"} /\ l = [kind |-> l.kind, as |-> l.as]
    BY <1>11
  <2>2. CASE l.kind = "nil"
    BY <1>4, <2>1, <2>2
  <2>3. CASE l.kind = "empty"
    BY <1>3, <2>1, <2>3 DEF Plain, Empty
  <2> QED
    BY <2>1, <2>2, <2>3
<1>12. CASE l \in [kind : {"null", "nan", "other"}]
  <2>1. l.kind \in {"null", "nan", "other"} /\ l = [kind |-> l.kind]
    BY <1>12
  <2> QED
    BY <1>3, <1>6, <2>1 DEF Plain, Null
<1> QED
  BY <1>8, <1>9, <1>10, <1>11, <1>12 DEF Leaves

\* What is in a Struct, or was read from a request, is not changed by either end; read
\* from JSON and put into a Struct again, only a minus zero is not what it was.
LEMMA StoredLeaf ==
  ASSUME NEW s, s \in Plain \/ IsDouble(s)
  PROVE  /\ s # Invalid /\ ~Nested(s) /\ NormalizeLeaf(s) = s
         /\ EncodeLeaf(s) # Invalid /\ ~Nested(EncodeLeaf(s)) /\ Floats(EncodeLeaf(s)) = s
         /\ Digits(EncodeLeaf(s)) # Invalid /\ ~Nested(Digits(EncodeLeaf(s)))
         /\ NormalizeLeaf(Digits(EncodeLeaf(s))) # Invalid /\ ~Nested(NormalizeLeaf(Digits(EncodeLeaf(s))))
         /\ NewValue(NormalizeLeaf(Digits(EncodeLeaf(s)))) # Invalid
         /\ NewValue(NormalizeLeaf(Digits(EncodeLeaf(s)))) = s <=> ~MinusZero(s)
<1>1. CASE s \in Plain
  BY <1>1, PlainIs
<1>2. CASE IsDouble(s)
  <2>1. PICK minus \in BOOLEAN, k \in Nat : s = Float(minus, k)
    BY <1>2 DEF IsDouble
  <2> DEFINE n == Round(k)
             back == minus /\ n # 0
  <2>2. n \in Nat /\ Round(n) = n /\ s = Num("float", minus, n)
    BY <2>1, RoundIs, FloatIs
  <2> HIDE DEF n
  <2>3. back \in BOOLEAN
    OBVIOUS
  <2>4. \A kind \in {"int", "float", "number", "digits"}, b \in BOOLEAN :
          Num(kind, b, n) # Invalid /\ ~Nested(Num(kind, b, n))
    BY <2>2, NumIs DEF NumberKinds
  <2>5. Float(minus, n) = s
    BY <2>2 DEF Float
  <2>6. NormalizeLeaf(s) = s /\ EncodeLeaf(s) = Num("digits", minus, n)
    BY <2>2, NumbersAre
  <2>7. Floats(Num("digits", minus, n)) = s /\ Digits(Num("digits", minus, n)) = Num("number", minus, n)
    BY <2>2, <2>5, NumbersAre
  <2>8. /\ NormalizeLeaf(Num("number", minus, n)) # Invalid /\ ~Nested(NormalizeLeaf(Num("number", minus, n)))
        /\ NewValue(NormalizeLeaf(Num("number", minus, n))) = Num("float", back, n)
    <3>1. CASE NormalizeLeaf(Num("number", minus, n)) = Num("int", back, n)
      <4>1. NewValue(Num("int", back, n)) = Float(back, n) /\ Float(back, n) = Num("float", back, n)
        BY <2>2, <2>3, NumbersAre DEF Float
      <4> HIDE DEF back
      <4> QED
        BY <2>3, <2>4, <3>1, <4>1
    <3>2. CASE n # 0 /\ NormalizeLeaf(Num("number", minus, n)) = Float(minus, n)
      <4>1. back = minus /\ NewValue(Num("float", minus, n)) = Float(minus, n)
        BY <2>2, <3>2, NumbersAre
      <4> HIDE DEF back
      <4> QED
        BY <2>2, <2>4, <2>5, <3>2, <4>1
    <3> QED
      BY <2>2, <3>1, <3>2, NumbersAre
  <2>9. MinusZero(s) <=> minus /\ n = 0
    <3>1. s = Num("float", TRUE, 0) <=> minus /\ n = 0
      BY <2>2, MinusZeroIs DEF NumberKinds
    <3> QED
      BY <3>1 DEF MinusZero
  <2>10. Num("float", back, n) = s <=> back = minus
    <3> HIDE DEF back
    <3> QED
      BY <2>2, <2>3, NumSame DEF NumberKinds
  <2>11. back = minus <=> ~(minus /\ n = 0)
    BY <2>2
  <2> HIDE DEF back
  <2> QED
    BY <2>2, <2>3, <2>4, <2>6, <2>7, <2>8, <2>9, <2>10, <2>11
<1> QED
  BY <1>1, <1>2

(***************************************************************************)
(* Lists and maps                                                          *)
(***************************************************************************)
\* What the conversions make of a value one level down.
Normalize1(v) == IF Nested(v) THEN Inside(NormalizeLeaf, v) ELSE NormalizeLeaf(v)
NewStruct1(v) == IF Nested(v) THEN Inside(NewValue, v) ELSE NewValue(v)
Encode1(v)    == IF Nested(v) THEN Inside(EncodeLeaf, v) ELSE EncodeLeaf(v)
Floats1(v)    == IF Nested(v) THEN Inside(Floats, v) ELSE Floats(v)
Digits1(v)    == IF Nested(v) THEN Inside(Digits, v) ELSE Digits(v)

\* A list or a map of what f says, or nothing if that is not valid.
Pack(c, f) == [kind |-> c, of |-> f]
Packed(c, f) == IF \E k \in DOMAIN f : f[k] = Invalid THEN Invalid ELSE Pack(c, f)

LEMMA PackIs ==
  ASSUME NEW c \in {"list", "map"}, NEW f
  PROVE  /\ Nested(Pack(c, f)) /\ Pack(c, f).of = f /\ Pack(c, f).kind = c /\ Pack(c, f) # Invalid
         /\ \A g : [Pack(c, f) EXCEPT !.of = g] = Pack(c, g)
<1>1. Pack(c, f).of = f /\ Pack(c, f).kind = c /\ \A g : [Pack(c, f) EXCEPT !.of = g] = Pack(c, g)
  BY DEF Pack
<1>2. Pack(c, f) # Invalid
  BY <1>1 DEF Invalid
<1> QED
  BY <1>1, <1>2 DEF Nested

Floats2(v) == Decode(v, "float")
Digits2(v) == Decode(v, "number")

\* A list or map of leaves.
LEMMA LeavesInside ==
  ASSUME NEW c \in {"list", "map"}, NEW f
  PROVE  /\ Normalize1(Pack(c, f)) = Packed(c, [k \in DOMAIN f |-> NormalizeLeaf(f[k])])
         /\ NewStruct1(Pack(c, f)) = Packed(c, [k \in DOMAIN f |-> NewValue(f[k])])
         /\ Encode1(Pack(c, f)) = Packed(c, [k \in DOMAIN f |-> EncodeLeaf(f[k])])
         /\ Floats1(Pack(c, f)) = Packed(c, [k \in DOMAIN f |-> Floats(f[k])])
         /\ Digits1(Pack(c, f)) = Packed(c, [k \in DOMAIN f |-> Digits(f[k])])
<1> DEFINE v == Pack(c, f)
<1>1. Nested(v) /\ v.of = f /\ \A g : [v EXCEPT !.of = g] = Pack(c, g)
  BY PackIs
<1> HIDE DEF v
<1>2. Normalize1(v) = Packed(c, [k \in DOMAIN f |-> NormalizeLeaf(f[k])])
  BY <1>1 DEF Normalize1, Inside, Packed
<1>3. NewStruct1(v) = Packed(c, [k \in DOMAIN f |-> NewValue(f[k])])
  BY <1>1 DEF NewStruct1, Inside, Packed
<1>4. Encode1(v) = Packed(c, [k \in DOMAIN f |-> EncodeLeaf(f[k])])
  BY <1>1 DEF Encode1, Inside, Packed
<1>5. Floats1(v) = Packed(c, [k \in DOMAIN f |-> Floats(f[k])])
  BY <1>1 DEF Floats1, Inside, Packed
<1>6. Digits1(v) = Packed(c, [k \in DOMAIN f |-> Digits(f[k])])
  BY <1>1 DEF Digits1, Inside, Packed
<1> QED
  BY <1>2, <1>3, <1>4, <1>5, <1>6 DEF v

\* A list or map of what may be nested once.
LEMMA ItemsInside ==
  ASSUME NEW c \in {"list", "map"}, NEW f
  PROVE  /\ Normalize(Pack(c, f)) = Packed(c, [k \in DOMAIN f |-> Normalize1(f[k])])
         /\ NewStruct(Pack(c, f)) = Packed(c, [k \in DOMAIN f |-> NewStruct1(f[k])])
         /\ Encode(Pack(c, f)) = Packed(c, [k \in DOMAIN f |-> Encode1(f[k])])
         /\ Floats2(Pack(c, f)) = Packed(c, [k \in DOMAIN f |-> Floats1(f[k])])
         /\ Digits2(Pack(c, f)) = Packed(c, [k \in DOMAIN f |-> Digits1(f[k])])
<1> DEFINE v == Pack(c, f)
<1>1. Nested(v) /\ v.of = f /\ \A g : [v EXCEPT !.of = g] = Pack(c, g)
  BY PackIs
<1> HIDE DEF v
<1>2. Normalize(v) = Packed(c, [k \in DOMAIN f |-> Normalize1(f[k])])
  <2> DEFINE g == [k \in DOMAIN v.of |-> Normalize1(v.of[k])]
  <2>1. Normalize(v) = IF \E k \in DOMAIN v.of : g[k] = Invalid THEN Invalid ELSE [v EXCEPT !.of = g]
    BY <1>1, Zenon DEF Normalize, Throughout, Normalize1, Inside
  <2>2. g = [k \in DOMAIN f |-> Normalize1(f[k])] /\ DOMAIN g = DOMAIN f
    BY <1>1
  <2> QED
    BY <1>1, <2>1, <2>2 DEF Packed
<1>3. NewStruct(v) = Packed(c, [k \in DOMAIN f |-> NewStruct1(f[k])])
  <2> DEFINE g == [k \in DOMAIN v.of |-> NewStruct1(v.of[k])]
  <2>1. NewStruct(v) = IF \E k \in DOMAIN v.of : g[k] = Invalid THEN Invalid ELSE [v EXCEPT !.of = g]
    BY <1>1, Zenon DEF NewStruct, Throughout, NewStruct1, Inside
  <2>2. g = [k \in DOMAIN f |-> NewStruct1(f[k])] /\ DOMAIN g = DOMAIN f
    BY <1>1
  <2> QED
    BY <1>1, <2>1, <2>2 DEF Packed
<1>4. Encode(v) = Packed(c, [k \in DOMAIN f |-> Encode1(f[k])])
  <2> DEFINE g == [k \in DOMAIN v.of |-> Encode1(v.of[k])]
  <2>1. Encode(v) = IF \E k \in DOMAIN v.of : g[k] = Invalid THEN Invalid ELSE [v EXCEPT !.of = g]
    BY <1>1, Zenon DEF Encode, Throughout, Encode1, Inside
  <2>2. g = [k \in DOMAIN f |-> Encode1(f[k])] /\ DOMAIN g = DOMAIN f
    BY <1>1
  <2> QED
    BY <1>1, <2>1, <2>2 DEF Packed
<1>5. Floats2(v) = Packed(c, [k \in DOMAIN f |-> Floats1(f[k])])
  <2> DEFINE g == [k \in DOMAIN v.of |-> Floats1(v.of[k])]
  <2>1. Floats2(v) = IF \E k \in DOMAIN v.of : g[k] = Invalid THEN Invalid ELSE [v EXCEPT !.of = g]
    BY <1>1, Zenon DEF Floats2, Decode, Throughout, Floats1, Floats, Inside
  <2>2. g = [k \in DOMAIN f |-> Floats1(f[k])] /\ DOMAIN g = DOMAIN f
    BY <1>1
  <2> QED
    BY <1>1, <2>1, <2>2 DEF Packed
<1>6. Digits2(v) = Packed(c, [k \in DOMAIN f |-> Digits1(f[k])])
  <2> DEFINE g == [k \in DOMAIN v.of |-> Digits1(v.of[k])]
  <2>1. Digits2(v) = IF \E k \in DOMAIN v.of : g[k] = Invalid THEN Invalid ELSE [v EXCEPT !.of = g]
    BY <1>1, Zenon DEF Digits2, Decode, Throughout, Digits1, Digits, Inside
  <2>2. g = [k \in DOMAIN f |-> Digits1(f[k])] /\ DOMAIN g = DOMAIN f
    BY <1>1
  <2> QED
    BY <1>1, <2>1, <2>2 DEF Packed
<1> QED
  BY <1>2, <1>3, <1>4, <1>5, <1>6 DEF v

LEMMA PackedIs ==
  ASSUME NEW c \in {"list", "map"}, NEW f
  PROVE  /\ Packed(c, f) # Invalid <=> \A k \in DOMAIN f : f[k] # Invalid
         /\ Packed(c, f) # Invalid => Packed(c, f) = Pack(c, f)
BY PackIs DEF Packed

\* What is said of a leaf, of a list or map of leaves, and of the arguments: it gets
\* into a Struct; the Struct; the request has what the Struct has; the hash tells it
\* apart; what an event gives back of it; the event gives it back; no end changes it;
\* and what becomes of it on both ways can be hashed.
Stored0(v)   == NormalizeLeaf(v) # Invalid /\ NewValue(NormalizeLeaf(v)) # Invalid
StructOf0(v) == NewValue(NormalizeLeaf(v))
Agrees0(v)   == EncodeLeaf(v) # Invalid /\ Floats(EncodeLeaf(v)) = StructOf0(v)
Hashed0(s)   == EncodeLeaf(s) # Invalid /\ Floats(EncodeLeaf(s)) = s
ReadBack0(s) == NewValue(NormalizeLeaf(Digits(EncodeLeaf(s))))
Returns0(v)  == ReadBack0(StructOf0(v)) = StructOf0(v)
Kept0(s) ==
  /\ NormalizeLeaf(s) = s /\ Hashed0(s)
  /\ Digits(EncodeLeaf(s)) # Invalid /\ NormalizeLeaf(Digits(EncodeLeaf(s))) # Invalid /\ ReadBack0(s) # Invalid
Goes0(v) ==
  Stored0(v) =>
    /\ Kept0(StructOf0(v))
    /\ EncodeLeaf(v) # Invalid => Floats(EncodeLeaf(v)) # Invalid /\ Hashed0(Floats(EncodeLeaf(v)))

Stored1(v)   == Normalize1(v) # Invalid /\ NewStruct1(Normalize1(v)) # Invalid
StructOf1(v) == NewStruct1(Normalize1(v))
Agrees1(v)   == Encode1(v) # Invalid /\ Floats1(Encode1(v)) = StructOf1(v)
Hashed1(s)   == Encode1(s) # Invalid /\ Floats1(Encode1(s)) = s
ReadBack1(s) == NewStruct1(Normalize1(Digits1(Encode1(s))))
Returns1(v)  == ReadBack1(StructOf1(v)) = StructOf1(v)
Kept1(s) ==
  /\ Normalize1(s) = s /\ Hashed1(s)
  /\ Digits1(Encode1(s)) # Invalid /\ Normalize1(Digits1(Encode1(s))) # Invalid /\ ReadBack1(s) # Invalid
Goes1(v) ==
  Stored1(v) =>
    /\ Kept1(StructOf1(v))
    /\ Encode1(v) # Invalid => Floats1(Encode1(v)) # Invalid /\ Hashed1(Floats1(Encode1(v)))

Stored2(v)   == Normalize(v) # Invalid /\ NewStruct(Normalize(v)) # Invalid
StructOf2(v) == NewStruct(Normalize(v))
Agrees2(v)   == Encode(v) # Invalid /\ Floats2(Encode(v)) = StructOf2(v)
Hashed2(s)   == Encode(s) # Invalid /\ Floats2(Encode(s)) = s
ReadBack2(s) == NewStruct(Normalize(Digits2(Encode(s))))
Returns2(v)  == ReadBack2(StructOf2(v)) = StructOf2(v)
Kept2(s) ==
  /\ Normalize(s) = s /\ Hashed2(s)
  /\ Digits2(Encode(s)) # Invalid /\ Normalize(Digits2(Encode(s))) # Invalid /\ ReadBack2(s) # Invalid
Goes2(v) ==
  Stored2(v) =>
    /\ Kept2(StructOf2(v))
    /\ Encode(v) # Invalid => Floats2(Encode(v)) # Invalid /\ Hashed2(Floats2(Encode(v)))

\* A hash tells lists and maps apart if it tells their leaves apart.
LEMMA Same1 ==
  ASSUME NEW c \in {"list", "map"}, NEW K, NEW f, DOMAIN f = K, f = [k \in K |-> f[k]],
         \A k \in K : f[k] # Invalid /\ Hashed0(f[k])
  PROVE  Hashed1(Pack(c, f))
<1> DEFINE ef == [k \in K |-> EncodeLeaf(f[k])]
<1>1. DOMAIN ef = K /\ \A k \in K : ef[k] # Invalid /\ Floats(ef[k]) = f[k]
  BY DEF Hashed0
<1>2. Encode1(Pack(c, f)) = Packed(c, ef)
  BY LeavesInside
<1> HIDE DEF ef
<1>3. Encode1(Pack(c, f)) = Pack(c, ef)
  BY <1>1, <1>2, PackedIs
<1>4. Floats1(Pack(c, ef)) = Packed(c, [k \in K |-> Floats(ef[k])])
  BY <1>1, LeavesInside
<1>5. [k \in K |-> Floats(ef[k])] = f
  BY <1>1
<1>6. Floats1(Pack(c, ef)) = Pack(c, f)
  BY <1>4, <1>5, PackedIs
<1> QED
  BY <1>3, <1>6, PackIs DEF Hashed1

\* What holds of leaves holds of a list or map of them.
LEMMA Going1 ==
  ASSUME NEW c \in {"list", "map"}, NEW K, NEW f, DOMAIN f = K, \A k \in K : Goes0(f[k]),
         NEW v, v = Pack(c, f), Stored1(v)
  PROVE  /\ \A k \in K : Stored0(f[k])
         /\ StructOf1(v) = Pack(c, [k \in K |-> StructOf0(f[k])])
         /\ Goes1(v)
         /\ Agrees1(v) <=> \A k \in K : Agrees0(f[k])
         /\ Returns1(v) <=> \A k \in K : Returns0(f[k])
<1> DEFINE nf == [k \in K |-> NormalizeLeaf(f[k])]
           sf == [k \in K |-> StructOf0(f[k])]
           ef == [k \in K |-> EncodeLeaf(f[k])]
           rf == [k \in K |-> Floats(ef[k])]
           jf == [k \in K |-> EncodeLeaf(sf[k])]
           df == [k \in K |-> Digits(jf[k])]
           mf == [k \in K |-> NormalizeLeaf(df[k])]
           bf == [k \in K |-> NewValue(mf[k])]
<1>1. Normalize1(v) = Pack(c, nf) /\ \A k \in K : nf[k] # Invalid
  <2>1. Normalize1(v) = Packed(c, nf) /\ DOMAIN nf = K
    BY LeavesInside
  <2> HIDE DEF nf
  <2> QED
    BY <2>1, PackedIs DEF Stored1
<1>2. StructOf1(v) = Pack(c, sf) /\ \A k \in K : sf[k] # Invalid
  <2>1. DOMAIN nf = K /\ DOMAIN sf = K
    OBVIOUS
  <2>2. [k \in K |-> NewValue(nf[k])] = sf
    BY DEF StructOf0
  <2> HIDE DEF nf, sf
  <2>3. StructOf1(v) = Packed(c, sf)
    BY <1>1, <2>1, <2>2, LeavesInside DEF StructOf1
  <2> QED
    BY <2>1, <2>3, PackedIs DEF Stored1, StructOf1
<1>3. ASSUME NEW k \in K PROVE Stored0(f[k])
  BY <1>1, <1>2 DEF Stored0, StructOf0
<1>4. ASSUME NEW k \in K
      PROVE  /\ sf[k] = StructOf0(f[k]) /\ Kept0(sf[k])
             /\ ef[k] = EncodeLeaf(f[k]) /\ rf[k] = Floats(ef[k])
             /\ ef[k] # Invalid => rf[k] # Invalid /\ Hashed0(rf[k])
             /\ jf[k] = EncodeLeaf(sf[k]) /\ df[k] = Digits(jf[k]) /\ mf[k] = NormalizeLeaf(df[k])
             /\ bf[k] = ReadBack0(sf[k])
             /\ jf[k] # Invalid /\ df[k] # Invalid /\ mf[k] # Invalid /\ bf[k] # Invalid
             /\ Agrees0(f[k]) <=> ef[k] # Invalid /\ rf[k] = sf[k]
             /\ Returns0(f[k]) <=> bf[k] = sf[k]
  <2>1. sf[k] = StructOf0(f[k]) /\ ef[k] = EncodeLeaf(f[k]) /\ rf[k] = Floats(ef[k])
    OBVIOUS
  <2>2. jf[k] = EncodeLeaf(sf[k]) /\ df[k] = Digits(jf[k]) /\ mf[k] = NormalizeLeaf(df[k]) /\ bf[k] = NewValue(mf[k])
    OBVIOUS
  <2>3. Goes0(f[k]) /\ Stored0(f[k])
    BY <1>3
  <2> HIDE DEF nf, sf, ef, rf, jf, df, mf, bf
  <2>4. Kept0(sf[k]) /\ (ef[k] # Invalid => rf[k] # Invalid /\ Hashed0(rf[k]))
    BY <2>1, <2>3 DEF Goes0
  <2>5. bf[k] = ReadBack0(sf[k])
    BY <2>2 DEF ReadBack0
  <2>6. jf[k] # Invalid /\ df[k] # Invalid /\ mf[k] # Invalid /\ bf[k] # Invalid
    BY <2>2, <2>4, <2>5 DEF Kept0, Hashed0
  <2> QED
    BY <2>1, <2>2, <2>4, <2>5, <2>6 DEF Agrees0, Returns0
<1>5. /\ DOMAIN sf = K /\ sf = [k \in K |-> sf[k]] /\ DOMAIN ef = K /\ DOMAIN rf = K /\ rf = [k \in K |-> rf[k]]
      /\ DOMAIN jf = K /\ DOMAIN df = K /\ DOMAIN mf = K /\ DOMAIN bf = K /\ bf = [k \in K |-> bf[k]]
  OBVIOUS
<1>6. /\ Encode1(v) = Packed(c, ef)
      /\ rf = [k \in K |-> Floats(ef[k])]
      /\ jf = [k \in K |-> EncodeLeaf(sf[k])] /\ df = [k \in K |-> Digits(jf[k])]
      /\ mf = [k \in K |-> NormalizeLeaf(df[k])] /\ bf = [k \in K |-> NewValue(mf[k])]
  BY LeavesInside
<1> DEFINE s == Pack(c, sf)
<1> HIDE DEF nf, sf, ef, rf, jf, df, mf, bf
<1>7. Hashed1(s)
  BY <1>2, <1>4, <1>5, Same1 DEF Kept0
<1>8. Normalize1(s) = s
  <2>1. Normalize1(s) = Packed(c, [k \in K |-> NormalizeLeaf(sf[k])])
    BY <1>5, LeavesInside
  <2>2. [k \in K |-> NormalizeLeaf(sf[k])] = sf
    BY <1>4, <1>5 DEF Kept0
  <2> QED
    BY <1>2, <1>5, <2>1, <2>2, PackedIs
<1>9. Encode1(s) = Pack(c, jf)
  <2>1. Encode1(Pack(c, sf)) = Packed(c, [k \in DOMAIN sf |-> EncodeLeaf(sf[k])])
    BY LeavesInside
  <2>2. [k \in DOMAIN sf |-> EncodeLeaf(sf[k])] = jf
    BY <1>5, <1>6
  <2> QED
    BY <1>4, <1>5, <2>1, <2>2, PackedIs
<1>10. Digits1(Pack(c, jf)) = Pack(c, df)
  <2>1. Digits1(Pack(c, jf)) = Packed(c, [k \in DOMAIN jf |-> Digits(jf[k])])
    BY LeavesInside
  <2>2. [k \in DOMAIN jf |-> Digits(jf[k])] = df
    BY <1>5, <1>6
  <2> QED
    BY <1>4, <1>5, <2>1, <2>2, PackedIs
<1>11. Normalize1(Pack(c, df)) = Pack(c, mf)
  <2>1. Normalize1(Pack(c, df)) = Packed(c, [k \in DOMAIN df |-> NormalizeLeaf(df[k])])
    BY LeavesInside
  <2>2. [k \in DOMAIN df |-> NormalizeLeaf(df[k])] = mf
    BY <1>5, <1>6
  <2> QED
    BY <1>4, <1>5, <2>1, <2>2, PackedIs
<1>12. NewStruct1(Pack(c, mf)) = Pack(c, bf)
  <2>1. NewStruct1(Pack(c, mf)) = Packed(c, [k \in DOMAIN mf |-> NewValue(mf[k])])
    BY LeavesInside
  <2>2. [k \in DOMAIN mf |-> NewValue(mf[k])] = bf
    BY <1>5, <1>6
  <2> QED
    BY <1>4, <1>5, <2>1, <2>2, PackedIs
<1>13. ReadBack1(s) = Pack(c, bf)
  BY <1>9, <1>10, <1>11, <1>12 DEF ReadBack1
<1>14. Kept1(s)
  BY <1>7, <1>8, <1>9, <1>10, <1>11, <1>13, PackIs DEF Kept1
<1>15. ASSUME \A k \in K : ef[k] # Invalid
       PROVE  Encode1(v) = Pack(c, ef) /\ Floats1(Encode1(v)) = Pack(c, rf) /\ Hashed1(Pack(c, rf))
  <2>1. Encode1(v) = Pack(c, ef)
    BY <1>5, <1>6, <1>15, PackedIs
  <2>2. Floats1(Pack(c, ef)) = Packed(c, rf)
    BY <1>5, <1>6, LeavesInside
  <2>3. \A k \in K : rf[k] # Invalid /\ Hashed0(rf[k])
    BY <1>4, <1>15
  <2> QED
    BY <1>5, <2>1, <2>2, <2>3, PackedIs, Same1
<1>16. ASSUME NEW k \in K, ef[k] = Invalid PROVE Encode1(v) = Invalid
  BY <1>5, <1>6, <1>16, PackedIs
<1>17. Goes1(v)
  BY <1>2, <1>14, <1>15, <1>16, PackIs DEF Goes1
<1>18. Agrees1(v) <=> \A k \in K : Agrees0(f[k])
  <2>1. CASE \A k \in K : ef[k] # Invalid
    <3>1. Agrees1(v) <=> Pack(c, rf) = s
      BY <1>2, <1>15, <2>1, PackIs DEF Agrees1
    <3>2. Pack(c, rf) = s <=> rf = sf
      BY PackIs
    <3>3. rf = sf <=> \A k \in K : rf[k] = sf[k]
      BY <1>5
    <3> QED
      BY <1>4, <2>1, <3>1, <3>2, <3>3
  <2>2. CASE \E k \in K : ef[k] = Invalid
    BY <1>4, <1>16, <2>2 DEF Agrees1
  <2> QED
    BY <2>1, <2>2
<1>19. Returns1(v) <=> \A k \in K : Returns0(f[k])
  <2>1. Returns1(v) <=> Pack(c, bf) = s
    BY <1>2, <1>13 DEF Returns1
  <2>2. Pack(c, bf) = s <=> bf = sf
    BY PackIs
  <2>3. bf = sf <=> \A k \in K : bf[k] = sf[k]
    BY <1>5
  <2> QED
    BY <1>4, <2>1, <2>2, <2>3
<1> QED
  BY <1>2, <1>3, <1>17, <1>18, <1>19 DEF sf

\* The same one level up.
LEMMA Same2 ==
  ASSUME NEW c \in {"list", "map"}, NEW K, NEW f, DOMAIN f = K, f = [k \in K |-> f[k]],
         \A k \in K : f[k] # Invalid /\ Hashed1(f[k])
  PROVE  Hashed2(Pack(c, f))
<1> DEFINE ef == [k \in K |-> Encode1(f[k])]
<1>1. DOMAIN ef = K /\ \A k \in K : ef[k] # Invalid /\ Floats1(ef[k]) = f[k]
  BY DEF Hashed1
<1>2. Encode(Pack(c, f)) = Packed(c, ef)
  BY ItemsInside
<1> HIDE DEF ef
<1>3. Encode(Pack(c, f)) = Pack(c, ef)
  BY <1>1, <1>2, PackedIs
<1>4. Floats2(Pack(c, ef)) = Packed(c, [k \in K |-> Floats1(ef[k])])
  BY <1>1, ItemsInside
<1>5. [k \in K |-> Floats1(ef[k])] = f
  BY <1>1
<1>6. Floats2(Pack(c, ef)) = Pack(c, f)
  BY <1>4, <1>5, PackedIs
<1> QED
  BY <1>3, <1>6, PackIs DEF Hashed2

\* The same one level up.
LEMMA Going2 ==
  ASSUME NEW c \in {"list", "map"}, NEW K, NEW f, DOMAIN f = K, \A k \in K : Goes1(f[k]),
         NEW v, v = Pack(c, f), Stored2(v)
  PROVE  /\ \A k \in K : Stored1(f[k])
         /\ StructOf2(v) = Pack(c, [k \in K |-> StructOf1(f[k])])
         /\ Goes2(v)
         /\ Agrees2(v) <=> \A k \in K : Agrees1(f[k])
         /\ Returns2(v) <=> \A k \in K : Returns1(f[k])
<1> DEFINE nf == [k \in K |-> Normalize1(f[k])]
           sf == [k \in K |-> StructOf1(f[k])]
           ef == [k \in K |-> Encode1(f[k])]
           rf == [k \in K |-> Floats1(ef[k])]
           jf == [k \in K |-> Encode1(sf[k])]
           df == [k \in K |-> Digits1(jf[k])]
           mf == [k \in K |-> Normalize1(df[k])]
           bf == [k \in K |-> NewStruct1(mf[k])]
<1>1. Normalize(v) = Pack(c, nf) /\ \A k \in K : nf[k] # Invalid
  <2>1. Normalize(v) = Packed(c, nf) /\ DOMAIN nf = K
    BY ItemsInside
  <2> HIDE DEF nf
  <2> QED
    BY <2>1, PackedIs DEF Stored2
<1>2. StructOf2(v) = Pack(c, sf) /\ \A k \in K : sf[k] # Invalid
  <2>1. DOMAIN nf = K /\ DOMAIN sf = K
    OBVIOUS
  <2>2. [k \in K |-> NewStruct1(nf[k])] = sf
    BY DEF StructOf1
  <2> HIDE DEF nf, sf
  <2>3. StructOf2(v) = Packed(c, sf)
    BY <1>1, <2>1, <2>2, ItemsInside DEF StructOf2
  <2> QED
    BY <2>1, <2>3, PackedIs DEF Stored2, StructOf2
<1>3. ASSUME NEW k \in K PROVE Stored1(f[k])
  BY <1>1, <1>2 DEF Stored1, StructOf1
<1>4. ASSUME NEW k \in K
      PROVE  /\ sf[k] = StructOf1(f[k]) /\ Kept1(sf[k])
             /\ ef[k] = Encode1(f[k]) /\ rf[k] = Floats1(ef[k])
             /\ ef[k] # Invalid => rf[k] # Invalid /\ Hashed1(rf[k])
             /\ jf[k] = Encode1(sf[k]) /\ df[k] = Digits1(jf[k]) /\ mf[k] = Normalize1(df[k])
             /\ bf[k] = ReadBack1(sf[k])
             /\ jf[k] # Invalid /\ df[k] # Invalid /\ mf[k] # Invalid /\ bf[k] # Invalid
             /\ Agrees1(f[k]) <=> ef[k] # Invalid /\ rf[k] = sf[k]
             /\ Returns1(f[k]) <=> bf[k] = sf[k]
  <2>1. sf[k] = StructOf1(f[k]) /\ ef[k] = Encode1(f[k]) /\ rf[k] = Floats1(ef[k])
    OBVIOUS
  <2>2. jf[k] = Encode1(sf[k]) /\ df[k] = Digits1(jf[k]) /\ mf[k] = Normalize1(df[k]) /\ bf[k] = NewStruct1(mf[k])
    OBVIOUS
  <2>3. Goes1(f[k]) /\ Stored1(f[k])
    BY <1>3
  <2> HIDE DEF nf, sf, ef, rf, jf, df, mf, bf
  <2>4. Kept1(sf[k]) /\ (ef[k] # Invalid => rf[k] # Invalid /\ Hashed1(rf[k]))
    BY <2>1, <2>3 DEF Goes1
  <2>5. bf[k] = ReadBack1(sf[k])
    BY <2>2 DEF ReadBack1
  <2>6. jf[k] # Invalid /\ df[k] # Invalid /\ mf[k] # Invalid /\ bf[k] # Invalid
    BY <2>2, <2>4, <2>5 DEF Kept1, Hashed1
  <2> QED
    BY <2>1, <2>2, <2>4, <2>5, <2>6 DEF Agrees1, Returns1
<1>5. /\ DOMAIN sf = K /\ sf = [k \in K |-> sf[k]] /\ DOMAIN ef = K /\ DOMAIN rf = K /\ rf = [k \in K |-> rf[k]]
      /\ DOMAIN jf = K /\ DOMAIN df = K /\ DOMAIN mf = K /\ DOMAIN bf = K /\ bf = [k \in K |-> bf[k]]
  OBVIOUS
<1>6. /\ Encode(v) = Packed(c, ef)
      /\ rf = [k \in K |-> Floats1(ef[k])]
      /\ jf = [k \in K |-> Encode1(sf[k])] /\ df = [k \in K |-> Digits1(jf[k])]
      /\ mf = [k \in K |-> Normalize1(df[k])] /\ bf = [k \in K |-> NewStruct1(mf[k])]
  BY ItemsInside
<1> DEFINE s == Pack(c, sf)
<1> HIDE DEF nf, sf, ef, rf, jf, df, mf, bf
<1>7. Hashed2(s)
  BY <1>2, <1>4, <1>5, Same2 DEF Kept1
<1>8. Normalize(s) = s
  <2>1. Normalize(s) = Packed(c, [k \in K |-> Normalize1(sf[k])])
    BY <1>5, ItemsInside
  <2>2. [k \in K |-> Normalize1(sf[k])] = sf
    BY <1>4, <1>5 DEF Kept1
  <2> QED
    BY <1>2, <1>5, <2>1, <2>2, PackedIs
<1>9. Encode(s) = Pack(c, jf)
  <2>1. Encode(Pack(c, sf)) = Packed(c, [k \in DOMAIN sf |-> Encode1(sf[k])])
    BY ItemsInside
  <2>2. [k \in DOMAIN sf |-> Encode1(sf[k])] = jf
    BY <1>5, <1>6
  <2> QED
    BY <1>4, <1>5, <2>1, <2>2, PackedIs
<1>10. Digits2(Pack(c, jf)) = Pack(c, df)
  <2>1. Digits2(Pack(c, jf)) = Packed(c, [k \in DOMAIN jf |-> Digits1(jf[k])])
    BY ItemsInside
  <2>2. [k \in DOMAIN jf |-> Digits1(jf[k])] = df
    BY <1>5, <1>6
  <2> QED
    BY <1>4, <1>5, <2>1, <2>2, PackedIs
<1>11. Normalize(Pack(c, df)) = Pack(c, mf)
  <2>1. Normalize(Pack(c, df)) = Packed(c, [k \in DOMAIN df |-> Normalize1(df[k])])
    BY ItemsInside
  <2>2. [k \in DOMAIN df |-> Normalize1(df[k])] = mf
    BY <1>5, <1>6
  <2> QED
    BY <1>4, <1>5, <2>1, <2>2, PackedIs
<1>12. NewStruct(Pack(c, mf)) = Pack(c, bf)
  <2>1. NewStruct(Pack(c, mf)) = Packed(c, [k \in DOMAIN mf |-> NewStruct1(mf[k])])
    BY ItemsInside
  <2>2. [k \in DOMAIN mf |-> NewStruct1(mf[k])] = bf
    BY <1>5, <1>6
  <2> QED
    BY <1>4, <1>5, <2>1, <2>2, PackedIs
<1>13. ReadBack2(s) = Pack(c, bf)
  BY <1>9, <1>10, <1>11, <1>12 DEF ReadBack2
<1>14. Kept2(s)
  BY <1>7, <1>8, <1>9, <1>10, <1>11, <1>13, PackIs DEF Kept2
<1>15. ASSUME \A k \in K : ef[k] # Invalid
       PROVE  Encode(v) = Pack(c, ef) /\ Floats2(Encode(v)) = Pack(c, rf) /\ Hashed2(Pack(c, rf))
  <2>1. Encode(v) = Pack(c, ef)
    BY <1>5, <1>6, <1>15, PackedIs
  <2>2. Floats2(Pack(c, ef)) = Packed(c, rf)
    BY <1>5, <1>6, ItemsInside
  <2>3. \A k \in K : rf[k] # Invalid /\ Hashed1(rf[k])
    BY <1>4, <1>15
  <2> QED
    BY <1>5, <2>1, <2>2, <2>3, PackedIs, Same2
<1>16. ASSUME NEW k \in K, ef[k] = Invalid PROVE Encode(v) = Invalid
  BY <1>5, <1>6, <1>16, PackedIs
<1>17. Goes2(v)
  BY <1>2, <1>14, <1>15, <1>16, PackIs DEF Goes2
<1>18. Agrees2(v) <=> \A k \in K : Agrees1(f[k])
  <2>1. CASE \A k \in K : ef[k] # Invalid
    <3>1. Agrees2(v) <=> Pack(c, rf) = s
      BY <1>2, <1>15, <2>1, PackIs DEF Agrees2
    <3>2. Pack(c, rf) = s <=> rf = sf
      BY PackIs
    <3>3. rf = sf <=> \A k \in K : rf[k] = sf[k]
      BY <1>5
    <3> QED
      BY <1>4, <2>1, <3>1, <3>2, <3>3
  <2>2. CASE \E k \in K : ef[k] = Invalid
    BY <1>4, <1>16, <2>2 DEF Agrees2
  <2> QED
    BY <2>1, <2>2
<1>19. Returns2(v) <=> \A k \in K : Returns1(f[k])
  <2>1. Returns2(v) <=> Pack(c, bf) = s
    BY <1>2, <1>13 DEF Returns2
  <2>2. Pack(c, bf) = s <=> bf = sf
    BY PackIs
  <2>3. bf = sf <=> \A k \in K : bf[k] = sf[k]
    BY <1>5
  <2> QED
    BY <1>4, <2>1, <2>2, <2>3
<1> QED
  BY <1>2, <1>3, <1>17, <1>18, <1>19 DEF sf

Containers == [kind : {"list", "map"}, of : [1 .. 2 -> Leaves]]

LEMMA LeafIs ==
  ASSUME NEW l \in Leaves
  PROVE  ~Nested(l)
<1>1. \A t : String(t).kind = "text"
  BY DEF String
<1> QED
  BY <1>1 DEF Leaves, Nested

\* A leaf is converted as such one level down, too.
LEMMA NotNested ==
  ASSUME NEW x, ~Nested(x)
  PROVE  /\ Normalize1(x) = NormalizeLeaf(x) /\ NewStruct1(x) = NewValue(x) /\ Encode1(x) = EncodeLeaf(x)
         /\ Floats1(x) = Floats(x) /\ Digits1(x) = Digits(x) /\ Items(x) = {x}
BY DEF Normalize1, NewStruct1, Encode1, Floats1, Digits1, Items

LEMMA StoredIs ==
  ASSUME NEW s, s \in Plain \/ IsDouble(s)
  PROVE  /\ s # Invalid /\ ~Nested(s) /\ Kept0(s) /\ Kept1(s) /\ Hashed0(s) /\ Hashed1(s)
         /\ ReadBack1(s) = ReadBack0(s)
         /\ ReadBack0(s) = s <=> ~MinusZero(s)
<1>1. /\ s # Invalid /\ ~Nested(s) /\ NormalizeLeaf(s) = s
      /\ EncodeLeaf(s) # Invalid /\ ~Nested(EncodeLeaf(s)) /\ Floats(EncodeLeaf(s)) = s
      /\ Digits(EncodeLeaf(s)) # Invalid /\ ~Nested(Digits(EncodeLeaf(s)))
      /\ NormalizeLeaf(Digits(EncodeLeaf(s))) # Invalid /\ ~Nested(NormalizeLeaf(Digits(EncodeLeaf(s))))
      /\ NewValue(NormalizeLeaf(Digits(EncodeLeaf(s)))) # Invalid
      /\ NewValue(NormalizeLeaf(Digits(EncodeLeaf(s)))) = s <=> ~MinusZero(s)
  BY StoredLeaf
<1>2. Kept0(s) /\ Hashed0(s) /\ (ReadBack0(s) = s <=> ~MinusZero(s))
  BY <1>1 DEF Kept0, Hashed0, ReadBack0
<1>3. /\ Normalize1(s) = s /\ Encode1(s) = EncodeLeaf(s) /\ Floats1(EncodeLeaf(s)) = s
      /\ Digits1(EncodeLeaf(s)) = Digits(EncodeLeaf(s))
  BY <1>1, NotNested
<1>4. /\ Normalize1(Digits(EncodeLeaf(s))) = NormalizeLeaf(Digits(EncodeLeaf(s)))
      /\ NewStruct1(NormalizeLeaf(Digits(EncodeLeaf(s)))) = NewValue(NormalizeLeaf(Digits(EncodeLeaf(s))))
  BY <1>1, NotNested
<1>5. Hashed1(s) /\ ReadBack1(s) = ReadBack0(s)
  BY <1>1, <1>3, <1>4 DEF Hashed1, ReadBack1, ReadBack0
<1>6. Kept1(s)
  BY <1>1, <1>3, <1>4, <1>5 DEF Kept1, ReadBack0
<1> QED
  BY <1>1, <1>2, <1>5, <1>6

\* A leaf that gets into a Struct.
LEMMA LeafGoes ==
  ASSUME NEW l \in Leaves, Stored0(l)
  PROVE  /\ ~Nested(l) /\ ~Nested(NormalizeLeaf(l)) /\ ~Nested(EncodeLeaf(l))
         /\ StructOf0(l) \in Plain \/ IsDouble(StructOf0(l))
         /\ EncodeLeaf(l) # Invalid => Floats(EncodeLeaf(l)) \in Plain \/ IsDouble(Floats(EncodeLeaf(l)))
         /\ Agrees0(l) <=> ~Ambiguous(l)
         /\ Returns0(l) <=> ~MinusZero(StructOf0(l))
<1>1. /\ ~Nested(l) /\ ~Nested(NormalizeLeaf(l)) /\ ~Nested(EncodeLeaf(l))
      /\ \E f, g : /\ Ways(l, f, g)
                   /\ f \in Plain \/ IsDouble(f)
                   /\ g = Invalid \/ g \in Plain \/ IsDouble(g)
                   /\ f = g <=> ~Ambiguous(l)
  BY LeafWay DEF Stored0
<1>2. PICK f, g : /\ Ways(l, f, g)
                  /\ f \in Plain \/ IsDouble(f)
                  /\ g = Invalid \/ g \in Plain \/ IsDouble(g)
                  /\ f = g <=> ~Ambiguous(l)
  BY <1>1
<1>3. StructOf0(l) = f
  BY <1>2 DEF Ways, StructOf0
<1>4. f # Invalid /\ (ReadBack0(f) = f <=> ~MinusZero(f))
  BY <1>2, StoredIs
<1>5. CASE g = Invalid /\ EncodeLeaf(l) = Invalid
  BY <1>1, <1>2, <1>3, <1>4, <1>5 DEF Agrees0, Returns0
<1>6. CASE g # Invalid /\ EncodeLeaf(l) # Invalid /\ Floats(EncodeLeaf(l)) = g
  BY <1>1, <1>2, <1>3, <1>4, <1>6 DEF Agrees0, Returns0
<1> QED
  BY <1>2, <1>5, <1>6 DEF Ways

LEMMA LeafGoes0 ==
  ASSUME NEW l \in Leaves
  PROVE  Goes0(l)
BY LeafGoes, StoredIs DEF Goes0

\* An argument, which is a leaf or a list or map of leaves.
LEMMA FieldGoes ==
  ASSUME NEW x \in Leaves \union Containers
  PROVE  /\ Goes1(x)
         /\ Stored1(x) => /\ Agrees1(x) <=> \A l \in Items(x) : ~Ambiguous(l)
                          /\ Returns1(x) <=> \A l \in Items(StructOf1(x)) : ~MinusZero(l)
<1> SUFFICES ASSUME Stored1(x)
             PROVE  /\ Goes1(x)
                    /\ Agrees1(x) <=> \A l \in Items(x) : ~Ambiguous(l)
                    /\ Returns1(x) <=> \A l \in Items(StructOf1(x)) : ~MinusZero(l)
  BY DEF Goes1
<1>1. CASE x \in Leaves
  <2>1. ~Nested(x)
    BY <1>1, LeafIs
  <2>2. Normalize1(x) = NormalizeLeaf(x) /\ Encode1(x) = EncodeLeaf(x) /\ Items(x) = {x}
    BY <2>1, NotNested
  <2>3. ~Nested(NormalizeLeaf(x))
    <3>1. ASSUME Nested(NormalizeLeaf(x)) PROVE FALSE
      <4>1. NormalizeLeaf(x) # Invalid
        BY <2>2 DEF Stored1
      <4>2. CASE NewValue(NormalizeLeaf(x)) # Invalid
        BY <1>1, <3>1, <4>1, <4>2, LeafGoes DEF Stored0
      <4>3. CASE NewValue(NormalizeLeaf(x)) = Invalid
        <5>1. NormalizeLeaf(x) # String("broken") /\ NormalizeLeaf(x).kind \notin {"int", "uint", "float"}
          BY <3>1 DEF Nested, String
        <5>2. NewValue(NormalizeLeaf(x)) = NormalizeLeaf(x)
          BY <5>1, Zenon DEF NewValue
        <5> QED
          BY <4>1, <4>3, <5>2
      <4> QED
        BY <4>2, <4>3
    <3> QED
      BY <3>1
  <2>4. NewStruct1(NormalizeLeaf(x)) = NewValue(NormalizeLeaf(x))
    BY <2>3, NotNested
  <2>5. Stored0(x) /\ StructOf1(x) = StructOf0(x)
    BY <2>2, <2>4 DEF Stored0, Stored1, StructOf0, StructOf1
  <2> DEFINE s == StructOf0(x)
             g == Floats(EncodeLeaf(x))
  <2>6. /\ ~Nested(EncodeLeaf(x))
        /\ s \in Plain \/ IsDouble(s)
        /\ EncodeLeaf(x) # Invalid => g \in Plain \/ IsDouble(g)
        /\ Agrees0(x) <=> ~Ambiguous(x)
        /\ Returns0(x) <=> ~MinusZero(s)
    BY <1>1, <2>5, LeafGoes
  <2>7. Floats1(EncodeLeaf(x)) = g
    BY <2>6, NotNested
  <2>8. Agrees1(x) <=> Agrees0(x)
    BY <2>2, <2>5, <2>7 DEF Agrees0, Agrees1
  <2>9. Returns0(x) <=> ReadBack0(s) = s
    BY DEF Returns0
  <2>10. Returns1(x) <=> ReadBack1(s) = s
    BY <2>5 DEF Returns1
  <2> HIDE DEF s, g
  <2>11. Kept1(s) /\ ~Nested(s) /\ ReadBack1(s) = ReadBack0(s) /\ Items(s) = {s}
    BY <2>6, StoredIs, NotNested
  <2>12. EncodeLeaf(x) # Invalid => g # Invalid /\ Hashed1(g)
    BY <2>6, StoredIs
  <2>13. StructOf1(x) = s
    BY <2>5 DEF s
  <2>14. Goes1(x)
    BY <2>2, <2>7, <2>11, <2>12, <2>13 DEF Goes1
  <2> QED
    BY <2>2, <2>6, <2>8, <2>9, <2>10, <2>11, <2>13, <2>14
<1>2. CASE x \in Containers
  <2>1. PICK c \in {"list", "map"}, f \in [1 .. 2 -> Leaves] : x = Pack(c, f)
    BY <1>2 DEF Containers, Pack
  <2>2. DOMAIN f = 1 .. 2 /\ \A k \in 1 .. 2 : f[k] \in Leaves
    BY <2>1
  <2>3. \A k \in 1 .. 2 : Goes0(f[k])
    BY <2>2, LeafGoes0
  <2> DEFINE K == 1 .. 2
             sf == [k \in K |-> StructOf0(f[k])]
  <2>4. /\ \A k \in K : Stored0(f[k])
        /\ StructOf1(x) = Pack(c, sf)
        /\ Goes1(x)
        /\ Agrees1(x) <=> \A k \in K : Agrees0(f[k])
        /\ Returns1(x) <=> \A k \in K : Returns0(f[k])
    BY <2>1, <2>2, <2>3, Going1
  <2>5. DOMAIN sf = K /\ \A k \in K : sf[k] = StructOf0(f[k])
    OBVIOUS
  <2> HIDE DEF K, sf
  <2>6. \A k \in K : f[k] \in Leaves
    BY <2>2 DEF K
  <2>7. \A k \in K : (Agrees0(f[k]) <=> ~Ambiguous(f[k])) /\ (Returns0(f[k]) <=> ~MinusZero(sf[k]))
    BY <2>4, <2>5, <2>6, LeafGoes
  <2>8. Items(x) = {f[k] : k \in K}
    <3>1. Nested(x) /\ x.of = f
      BY <2>1, PackIs
    <3> QED
      BY <2>2, <3>1 DEF Items, K
  <2>9. Items(StructOf1(x)) = {sf[k] : k \in K}
    <3>1. Nested(StructOf1(x)) /\ StructOf1(x).of = sf
      BY <2>4, PackIs
    <3> QED
      BY <2>5, <3>1 DEF Items
  <2> QED
    BY <2>4, <2>7, <2>8, <2>9
<1> QED
  BY <1>1, <1>2

\* What is said of all arguments of a call together.
LEMMA ArgumentsGo ==
  ASSUME NEW args \in ArgumentSet, NEW struct, struct = ToStruct(args), struct # Invalid,
         NEW request, request = RequestArgs(args)
  PROVE  /\ Kept2(struct)
         /\ request # Invalid => Hashed2(request)
         /\ request = struct <=> \A v \in LeavesOf(args) : ~Ambiguous(v)
         /\ ReadBack2(struct) = struct <=> \A v \in LeavesOf(struct) : ~MinusZero(v)
<1>1. PICK f \in [{"path"} -> Leaves \union Containers] : args = Pack("map", f)
  BY DEF ArgumentSet, Containers, Pack
<1>2. DOMAIN f = {"path"} /\ f["path"] \in Leaves \union Containers
  BY <1>1
<1> DEFINE x  == f["path"]
           sf == [k \in {"path"} |-> StructOf1(f[k])]
<1>3. Stored2(args) /\ struct = StructOf2(args)
  BY DEF Stored2, StructOf2, ToStruct, IfValid
<1>4. Goes1(x) /\ (Stored1(x) => /\ Agrees1(x) <=> \A l \in Items(x) : ~Ambiguous(l)
                                 /\ Returns1(x) <=> \A l \in Items(StructOf1(x)) : ~MinusZero(l))
  BY <1>2, FieldGoes
<1>5. /\ Stored1(x)
      /\ struct = Pack("map", sf)
      /\ Goes2(args)
      /\ Agrees2(args) <=> Agrees1(x)
      /\ Returns2(args) <=> Returns1(x)
  BY <1>1, <1>2, <1>3, <1>4, Going2
<1>6. sf["path"] = StructOf1(x) /\ DOMAIN sf = {"path"}
  OBVIOUS
<1> HIDE DEF x, sf
<1>7. Items(args) = {x} /\ Items(struct) = {StructOf1(x)}
  <2>1. Nested(args) /\ args.of = f /\ Nested(struct) /\ struct.of = sf
    BY <1>1, <1>5, PackIs
  <2> QED
    BY <1>2, <1>6, <2>1 DEF Items, x
<1>8. LeavesOf(args) = Items(x) /\ LeavesOf(struct) = Items(StructOf1(x))
  BY <1>7 DEF LeavesOf
<1>9. /\ Kept2(struct)
      /\ Encode(args) # Invalid => Floats2(Encode(args)) # Invalid /\ Hashed2(Floats2(Encode(args)))
  BY <1>3, <1>5 DEF Goes2
<1>10. /\ Encode(args) = Invalid => request = Invalid
       /\ Encode(args) # Invalid => request = Floats2(Encode(args))
  BY DEF RequestArgs, IfValid, Floats2
<1>11. request = struct <=> Agrees2(args)
  BY <1>3, <1>10 DEF Agrees2
<1>12. ReadBack2(struct) = struct <=> Returns2(args)
  BY <1>3 DEF Returns2
<1> QED
  BY <1>4, <1>5, <1>8, <1>9, <1>10, <1>11, <1>12

\* The hash is taken of the arguments as they are in the Struct, and of the request
\* as it is read; and what it is taken of is the same if it is.
LEMMA HashIs ==
  ASSUME NEW struct, Kept2(struct), NEW request, request # Invalid => Hashed2(request)
  PROVE  /\ MarshalCanonical(struct) = CanonicalJSON(request) <=> request = struct
         /\ MapPayload(MarshalCanonical(struct)) = ReadBack2(struct)
<1>1. struct # Invalid
  <2>1. CASE struct = Invalid
    <3>1. Invalid.kind = "invalid"
      BY DEF Invalid
    <3>2. ~Nested(Invalid) /\ ~OfNumber(Invalid) /\ Invalid # String("broken")
      BY <3>1 DEF Nested, OfNumber, String
    <3>3. EncodeLeaf(Invalid) = Invalid
      BY <3>1, <3>2, Zenon DEF EncodeLeaf
    <3>4. Encode(Invalid) = Invalid
      BY <3>2, <3>3, Zenon DEF Encode, Throughout
    <3> QED
      BY <2>1, <3>4 DEF Kept2, Hashed2
  <2> QED
    BY <2>1
<1>2. MarshalCanonical(struct) = Encode(struct) /\ Encode(struct) # Invalid /\ Floats2(Encode(struct)) = struct
  BY <1>1 DEF MarshalCanonical, IfValid, Kept2, Hashed2
<1>3. MapPayload(Encode(struct)) = ReadBack2(struct)
  BY DEF MapPayload, DecodeObject, ToStruct, IfValid, Digits2, ReadBack2, Kept2
<1>4. Encode(struct) = CanonicalJSON(request) <=> request = struct
  <2>1. CASE request = Invalid
    <3>1. CanonicalJSON(request) = Invalid
      BY <2>1 DEF CanonicalJSON, IfValid
    <3> QED
      BY <1>1, <1>2, <2>1, <3>1
  <2>2. CASE request # Invalid
    <3>1. CanonicalJSON(request) = Encode(request) /\ Floats2(Encode(request)) = request
      BY <2>2 DEF CanonicalJSON, IfValid, Hashed2
    <3> QED
      BY <1>2, <3>1
  <2> QED
    BY <2>1, <2>2
<1> QED
  BY <1>2, <1>3, <1>4

\* Arguments that reach the orchestrator reach the file server with the hash that the
\* user approved exactly if no leaf of them is ambiguous, and what an event stores of
\* them is read back exactly if it holds no minus zero: of all integers, whatever
\* a double holds and an int64 holds (BothWaysAgree; safejson.go, jwt.go).
THEOREM BothWays == BothWaysAgree
<1>1. ASSUME NEW args \in ArgumentSet, NEW struct, struct = ToStruct(args), struct # Invalid
      PROVE  /\ MarshalCanonical(struct) = CanonicalJSON(RequestArgs(args)) <=>
                  \A v \in LeavesOf(args) : ~Ambiguous(v)
             /\ MapPayload(MarshalCanonical(struct)) = struct <=>
                  \A v \in LeavesOf(struct) : ~MinusZero(v)
  BY <1>1, ArgumentsGo, HashIs
<1> QED
  BY <1>1, Zenon DEF BothWaysAgree

\* A leaf that is sent is read as a number or as it was.
LEMMA LeafIsRead ==
  ASSUME NEW l \in Leaves, EncodeLeaf(l) # Invalid
  PROVE  ~Nested(EncodeLeaf(l)) /\ (Floats(EncodeLeaf(l)) \in Plain \/ IsDouble(Floats(EncodeLeaf(l))))
<1> DEFINE Goal == ~Nested(EncodeLeaf(l)) /\ (Floats(EncodeLeaf(l)) \in Plain \/ IsDouble(Floats(EncodeLeaf(l))))
<1>1. ASSUME NEW minus \in BOOLEAN, NEW n \in Nat, EncodeLeaf(l) = Num("digits", minus, n) PROVE Goal
  <2>1. Floats(Num("digits", minus, n)) = Float(minus, n) /\ ~Nested(Num("digits", minus, n))
    BY NumbersAre, NumIs DEF NumberKinds
  <2> QED
    BY <1>1, <2>1 DEF IsDouble
<1>2. ASSUME EncodeLeaf(l) \in Plain PROVE Goal
  BY <1>2, PlainIs
<1> SUFFICES Goal
  OBVIOUS
<1> HIDE DEF Goal
<1>3. CASE \/ l \in {v \in [kind : {"int"}, minus : BOOLEAN, n : 0 .. Largest] : InInt64(v) /\ (v.n = 0 => ~v.minus)}
           \/ l \in [kind : {"uint"}, minus : {FALSE}, n : 0 .. Largest]
           \/ l \in [kind : {"number", "loose"}, minus : BOOLEAN, n : 0 .. Largest]
           \/ l \in [kind : {"float"}, minus : BOOLEAN, n : Doubles]
  <2>1. \A n \in 0 .. Largest : n \in Nat /\ Round(n) \in Nat
    BY RoundIs, ArgumentsAssumption
  <2>2. /\ l.kind \in {"int", "uint", "number", "loose", "float"} /\ l.minus \in BOOLEAN /\ l.n \in Nat
        /\ l = Num(l.kind, l.minus, l.n)
    BY <1>3, <2>1 DEF Doubles, Num
  <2>3. EncodeLeaf(l) = Num("digits", l.minus, l.n)
    BY <2>2, NumbersAre
  <2> QED
    BY <1>1, <2>2, <2>3
<1>4. CASE l \in {v \in [kind : {"float32"}, minus : BOOLEAN, n : Doubles, digits : 0 .. Largest] :
                   v.digits \in {v.n, v.n + 1}}
  <2>1. l.kind = "float32" /\ l.minus \in BOOLEAN /\ l.digits \in Nat
    BY <1>4, ArgumentsAssumption
  <2>2. l # String("broken")
    BY <2>1 DEF String
  <2>3. EncodeLeaf(l) = Num("digits", l.minus, l.digits)
    BY <2>1, <2>2, Zenon DEF EncodeLeaf
  <2> QED
    BY <1>1, <2>1, <2>3
<1>5. CASE l \in {String(t) : t \in {"plain", "replaced", "broken"}}
  <2>1. CASE l = String("broken")
    <3>1. l.kind = "text"
      BY <2>1 DEF String
    <3>2. EncodeLeaf(l) = String("replaced")
      BY <2>1, <3>1, Zenon DEF EncodeLeaf
    <3> QED
      BY <1>2, <3>2 DEF Plain
  <2>2. CASE l \in Plain
    BY <1>2, <2>2, PlainIs
  <2> QED
    BY <1>5, <2>1, <2>2 DEF Plain
<1>6. CASE l \in [kind : {"nil", "empty"}, as : {"list", "map"}] \union [kind : {"null", "nan", "other"}]
  <2>1. /\ l.kind \in {"nil", "empty", "null", "nan", "other"} /\ l # String("broken")
        /\ l.kind = "empty" => l \in Plain
        /\ l.kind = "null" => l \in Plain
    BY <1>6 DEF String, Plain, Empty, Null
  <2>2. CASE l.kind = "nil"
    <3>1. EncodeLeaf(l) = Null
      BY <2>1, <2>2, Zenon DEF EncodeLeaf
    <3> QED
      BY <1>2, <3>1 DEF Plain
  <2>3. CASE l.kind = "nan"
    <3>1. EncodeLeaf(l) = Invalid
      BY <2>1, <2>3, Zenon DEF EncodeLeaf
    <3> QED
      BY <3>1
  <2>4. CASE l.kind = "other"
    <3>1. EncodeLeaf(l) = String("plain")
      BY <2>1, <2>4, Zenon DEF EncodeLeaf
    <3> QED
      BY <1>2, <3>1 DEF Plain
  <2>5. CASE l \in Plain
    BY <1>2, <2>5, PlainIs
  <2> QED
    BY <2>1, <2>2, <2>3, <2>4, <2>5
<1> QED
  BY <1>3, <1>4, <1>5, <1>6 DEF Leaves

LEMMA FewAreHashed ==
  ASSUME NEW few \in FewRequests, few # Invalid
  PROVE  Hashed2(few)
<1>1. PICK l \in Leaves : few = RequestArgs([kind |-> "map", of |-> [field \in {"path"} |-> l]])
  BY DEF FewRequests
<1> DEFINE K  == {"path"}
           f  == [k \in K |-> l]
           ef == [k \in K |-> Encode1(f[k])]
           rf == [k \in K |-> Floats1(ef[k])]
<1>2. few = RequestArgs(Pack("map", f))
  BY <1>1 DEF Pack
<1>3. /\ DOMAIN f = K /\ f["path"] = l
      /\ DOMAIN ef = K /\ ef["path"] = Encode1(l) /\ \A k \in K : ef[k] = ef["path"]
      /\ DOMAIN rf = K /\ rf["path"] = Floats1(ef["path"]) /\ rf = [k \in K |-> rf[k]] /\ \A k \in K : rf[k] = rf["path"]
  OBVIOUS
<1>4. Encode(Pack("map", f)) = Packed("map", ef)
  BY ItemsInside
<1>5. rf = [k \in DOMAIN ef |-> Floats1(ef[k])]
  OBVIOUS
<1> HIDE DEF f, ef, rf
<1>6. few = IF Encode(Pack("map", f)) = Invalid THEN Invalid ELSE Floats2(Encode(Pack("map", f)))
  BY <1>2 DEF RequestArgs, IfValid, Floats2
<1>7. Encode1(l) = EncodeLeaf(l)
  BY LeafIs, NotNested
<1>8. ef["path"] # Invalid /\ Encode(Pack("map", f)) = Pack("map", ef)
  <2>1. Packed("map", ef) # Invalid
    BY <1>4, <1>6
  <2> QED
    BY <1>3, <1>4, <2>1, PackedIs
<1>9. few = Packed("map", rf)
  <2>1. Floats2(Pack("map", ef)) = Packed("map", [k \in DOMAIN ef |-> Floats1(ef[k])])
    BY ItemsInside
  <2>2. few = Floats2(Pack("map", ef))
    BY <1>6, <1>8, PackIs
  <2> QED
    BY <1>5, <2>1, <2>2
<1>10. rf["path"] = Floats(EncodeLeaf(l)) /\ Hashed1(rf["path"]) /\ rf["path"] # Invalid
  <2>1. ~Nested(EncodeLeaf(l)) /\ (Floats(EncodeLeaf(l)) \in Plain \/ IsDouble(Floats(EncodeLeaf(l))))
    BY <1>3, <1>7, <1>8, LeafIsRead
  <2>2. rf["path"] = Floats(EncodeLeaf(l))
    BY <1>3, <1>7, <2>1, NotNested
  <2> QED
    BY <2>1, <2>2, StoredIs
<1>11. few = Pack("map", rf)
  BY <1>3, <1>9, <1>10, PackedIs
<1> QED
  BY <1>3, <1>10, <1>11, Same2

\* The policy table, a tool at a time.
LEMMA PolicyIs ==
  /\ DOMAIN GetPolicy = {"system.time", "system.health", "system.echo", "files.create", "files.update"}
  /\ \A tool \in {"system.time", "system.health", "system.echo"} : GetPolicy[tool] = "safe"
  /\ \A tool \in {"files.create", "files.update"} : GetPolicy[tool] = "approval_required"
BY DEF GetPolicy

\* What is decided of a call fits what the file server does with its request and its
\* token.
Fits(tool, struct, decision, request, token) ==
  /\ decision = "allow" => Serves(tool, NoToken, request, "agent", 0)
  /\ decision = "approval_required" =>
       /\ ~Serves(tool, NoToken, request, "agent", 0)
       /\ \A other \in {"files.create", "files.update"}, agent \in {"agent", "another"}, now \in 0 .. Lifetime + 1 :
            Serves(other, token, request, agent, now) <=>
              other = tool /\ agent = "agent" /\ now <= Lifetime /\ request = struct
       /\ \A few \in FewRequests : Serves(tool, token, few, "agent", 0) <=> few = struct

LEMMA CallFits ==
  ASSUME NEW tool \in ServedTools, NEW args \in ArgumentSet,
         NEW struct, struct = ToStruct(args),
         NEW decision, decision = HandleToolBefore(tool, struct),
         NEW request, request = RequestArgs(args),
         NEW token, token = SignApprovalToken(ApprovalFor("agent", tool, struct), 0)
  PROVE  Fits(tool, struct, decision, request, token)
<1>1. ASSUME decision = "allow" PROVE Serves(tool, NoToken, request, "agent", 0)
  <2>1. tool \in DOMAIN GetPolicy /\ GetPolicy[tool] = "safe"
    BY <1>1 DEF HandleToolBefore
  <2>2. tool \in {"system.time", "system.health", "system.echo"}
    BY <2>1, PolicyIs
  <2> QED
    BY <2>2 DEF Serves, ServedTools, SystemTools
<1>2. ASSUME decision = "approval_required"
      PROVE  /\ ~Serves(tool, NoToken, request, "agent", 0)
             /\ \A other \in {"files.create", "files.update"}, agent \in {"agent", "another"},
                   now \in 0 .. Lifetime + 1 :
                  Serves(other, token, request, agent, now) <=>
                    other = tool /\ agent = "agent" /\ now <= Lifetime /\ request = struct
             /\ \A few \in FewRequests : Serves(tool, token, few, "agent", 0) <=> few = struct
  <2>1. tool \in DOMAIN GetPolicy /\ GetPolicy[tool] # "safe" /\ struct # Invalid
    BY <1>2 DEF HandleToolBefore
  <2>2. tool \in {"files.create", "files.update"}
    BY <2>1, PolicyIs
  <2>3. Kept2(struct) /\ (request # Invalid => Hashed2(request))
    BY <2>1, ArgumentsGo
  <2>4. /\ token.key = "shared" /\ token.aud = "mcp-files" /\ token.sub = "agent" /\ token.tool = tool
        /\ token.args_hash = MarshalCanonical(struct) /\ token.exp = Lifetime
    BY ConsentAssumption DEF SignApprovalToken, ApprovalFor
  <2>5. ~Serves(tool, NoToken, request, "agent", 0)
    BY <2>2 DEF Serves, Validate, VerifyHS256, NoToken
  <2>6. ASSUME NEW sent, sent # Invalid => Hashed2(sent), NEW other \in {"files.create", "files.update"},
               NEW agent \in {"agent", "another"}, NEW now \in 0 .. Lifetime + 1
        PROVE  Serves(other, token, sent, agent, now) <=>
                 other = tool /\ agent = "agent" /\ now <= Lifetime /\ sent = struct
    <3>1. Serves(other, token, sent, agent, now) <=> Validate(token, other, sent, agent, now)
      BY DEF Serves
    <3>2. token.exp >= now <=> now <= Lifetime
      BY <2>4, ConsentAssumption
    <3>3. MarshalCanonical(struct) = CanonicalJSON(sent) <=> sent = struct
      BY <2>3, <2>6, HashIs
    <3> QED
      BY <2>4, <3>1, <3>2, <3>3 DEF Validate, VerifyHS256
  <2>7. ASSUME NEW few \in FewRequests
        PROVE  Serves(tool, token, few, "agent", 0) <=> few = struct
    <3>1. 0 \in 0 .. Lifetime + 1 /\ 0 <= Lifetime
      BY ConsentAssumption
    <3> QED
      BY <2>2, <2>6, <3>1, FewAreHashed
  <2> QED
    BY <2>3, <2>5, <2>6, <2>7
<1> QED
  BY <1>1, <1>2 DEF Fits

\* What the orchestrator lets pass is served without a token, and what it asks the
\* user for is not.  A token serves the tool and the agent that it was signed for,
\* while it lives, and of the requests exactly those that are read as the user was
\* shown them (ConsentFits; policy.go, jwt.go).
THEOREM TokenFits == ConsentFits
<1>1. ASSUME NEW tool \in ServedTools, NEW args \in ArgumentSet
      PROVE  Fits(tool, ToStruct(args), HandleToolBefore(tool, ToStruct(args)), RequestArgs(args),
                  SignApprovalToken(ApprovalFor("agent", tool, ToStruct(args)), 0))
  BY CallFits
<1> QED
  BY <1>1, Zenon DEF ConsentFits, Fits

(***************************************************************************)
(* The parts beside each other                                             *)
(***************************************************************************)
TypesInv == StreamInv /\ ConversationTypeOK /\ Tried /\ FileInv

LEMMA TypesInvAlways == PartSpec => []TypesInv
<1>1. PartInit => TypesInv
  BY StreamInit, TypesInitially, FileInvInit DEF PartInit, TypesInv, ConversationInit, Tried
<1>2. TypesInv /\ [PartNext]_partVars => TypesInv'
  <2>1. [PartNext]_partVars => [Next]_vars /\ [ConversationNext]_conversationVars /\ [FileNext]_fileToolVars
    BY DEF PartNext, partVars
  <2> QED
    BY <2>1, StreamNext, TypesKept, TriedKept, FileInvNext DEF TypesInv
<1> QED
  BY <1>1, <1>2, PTL DEF PartSpec

\* Whichever of the parts moves, every variable has its type (PartTypeOK).
THEOREM PartTypeCorrect == PartSpec => []PartTypeOK
<1>1. TypesInv => PartTypeOK
  BY DEF TypesInv, StreamInv, FileInv, PartTypeOK
<1> QED
  BY <1>1, TypesInvAlways, PTL

\* However a text is cut for a read or a summary, of any size and for any limit, no
\* character is left in half and no more than needed is cut off; a snippet shows its
\* match, and may begin and end inside a character (TextsCutWhole).
THEOREM TextsCutCorrectly == PartSpec => []TextsCutWhole
<1>1. TextsCutWhole
  BY CutsWhole DEF TextsCutWhole
<1> QED
  BY <1>1, PTL

\* The hash that is approved is the hash that is computed exactly if no argument is
\* ambiguous, payloads are read as they were stored but for a minus zero, and a token
\* serves the requests that are read as the user was shown them, and no other
\* (ArgumentsSurvive).
THEOREM ArgumentsSurviveAlways == PartSpec => []ArgumentsSurvive
<1>1. ArgumentsSurvive
  BY BothWays, TokenFits DEF ArgumentsSurvive
<1> QED
  BY <1>1, PTL
=============================================================================
