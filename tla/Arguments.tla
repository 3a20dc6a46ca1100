----------------------------- MODULE Arguments -----------------------------
(***************************************************************************)
(* The arguments of a tool call on their two ways, which should end in the *)
(* same hash.  The worker sends them to the orchestrator as a protobuf     *)
(* Struct, whose numbers are doubles; there they are hashed, the user      *)
(* approves them and the hash is signed.  It sends them to the file server *)
(* as JSON, which the server decodes and hashes itself.  Events go through *)
(* JSON and back, too.  A value is a record of its Go kind; null stands    *)
(* for booleans, and an integer for any number: a sign and a magnitude,    *)
(* scaled down so that a double holds all up to Exact, and above it the    *)
(* even ones.                                                              *)
(***************************************************************************)
EXTENDS Naturals, Sequences

CONSTANTS
  Exact,   \* integers that a double holds exactly, 2^53 in the code
  MaxInt,  \* the largest int64
  Largest  \* bound on the numbers that are tried

ASSUME ArgumentsAssumption ==
  /\ Exact \in Nat /\ MaxInt \in Nat /\ Largest \in Nat
  /\ Exact % 4 = 0 /\ Exact < MaxInt /\ MaxInt < Largest /\ Largest < 2 * Exact + 2

Invalid    == [kind |-> "invalid"]
Null       == [kind |-> "null"]
String(t)  == [kind |-> "text", text |-> t]
Empty(as)  == [kind |-> "empty", as |-> as]

Num(kind, minus, n) == [kind |-> kind, minus |-> minus, n |-> n]

\* A double holds the nearest number it can, and of two the even one.
Round(n) ==
  CASE n <= Exact \/ n % 2 = 0 -> n
    [] n > Exact /\ n % 4 = 1  -> n - 1
    [] n > Exact /\ n % 4 = 3  -> n + 1

Float(minus, n) == Num("float", minus, Round(n))

\* Applies Op to the items of a list or the fields of a map.
Inside(Op(_), v) ==
  LET inner == [k \in DOMAIN v.of |-> Op(v.of[k])]
  IN  IF \E k \in DOMAIN v.of : inner[k] = Invalid THEN Invalid ELSE [v EXCEPT !.of = inner]

\* The conversions recurse through lists and maps.  Values are nested two deep here
\* (ArgumentSet), and so is the recursion: Op converts what is not nested.
Nested(v) == v.kind \in {"list", "map"}
Throughout(Op(_), v) ==
  LET OneDown(w) == IF Nested(w) THEN Inside(Op, w) ELSE Op(w)
  IN  IF Nested(v) THEN Inside(OneDown, v) ELSE Op(v)

\* A json.Number is "number" if it is JSON, too, and "loose" if Go parses it all the
\* same, like "+5".  An integer has no minus zero.
OfNumber(v) == v.kind \in {"number", "loose"}
InInt64(v)  == v.n <= IF v.minus THEN MaxInt + 1 ELSE MaxInt

\* Normalize: what is not JSON, or not a number of its range, is refused, and a nil
\* list or map is made an empty one.
NormalizeLeaf(v) ==
  CASE OfNumber(v) /\ InInt64(v)           -> Num("int", v.minus /\ v.n # 0, v.n)
    [] OfNumber(v) /\ ~InInt64(v)          -> Float(v.minus, v.n)
    [] v.kind = "float32"                  -> Num("float", v.minus, v.n)
    [] v.kind = "uint" /\ v.n > MaxInt     -> Invalid
    [] v.kind = "nil"                      -> Empty(v.as)
    [] v.kind \in {"nan", "other"}         -> Invalid
    [] OTHER                               -> v

Normalize(v) == Throughout(NormalizeLeaf, v)

\* structpb.NewStruct, and NewValue for what is in it.
NewValue(v) ==
  CASE v.kind \in {"int", "uint", "float"} -> Float(v.minus, v.n)
    [] v = String("broken")                  -> Invalid
    [] OTHER                               -> v

NewStruct(v) == Throughout(NewValue, v)

IfValid(Op(_), v) == IF v = Invalid THEN Invalid ELSE Op(v)

\* safejson.ToStruct; the beacon has no arguments if it fails.
ToStruct(v) == IfValid(NewStruct, Normalize(v))

\* encoding/json: a text that is not valid UTF-8 is made so, a float32 has digits of
\* its own, and nil is null.
EncodeLeaf(v) ==
  CASE v.kind \in {"nan", "loose"}                   -> Invalid
    [] v.kind \in {"int", "uint", "float", "number"} -> Num("digits", v.minus, v.n)
    [] v.kind = "float32"                            -> Num("digits", v.minus, v.digits)
    [] v = String("broken")                            -> String("replaced")
    [] v.kind = "other"                              -> String("plain")
    [] v.kind = "nil"                                -> Null
    [] OTHER                                         -> v

Encode(v) == Throughout(EncodeLeaf, v)

\* Its decoder into map[string]any, and with UseNumber.
DecodeLeaf(v, kind) ==
  IF v.kind = "digits"
    THEN IF kind = "float" THEN Float(v.minus, v.n) ELSE Num(kind, v.minus, v.n)
    ELSE v

Decode(v, kind) == Throughout(LAMBDA w : DecodeLeaf(w, kind), v)

\* DecodeObject: digits stay as they are written.
DecodeObject(json) == Decode(json, "number")

\* MarshalCanonical, of the Struct's AsMap; the hash is taken of it.
MarshalCanonical(struct) == IfValid(Encode, Normalize(struct))

\* Mutant: the file server decodes as the worker decodes its answers.
RequestDigits(args) == IfValid(DecodeObject, Encode(args))

\* The request of client.go, decoded by handleMCP; Invalid if it cannot be sent.
RequestArgs(args) == IfValid(LAMBDA json : Decode(json, "float"), Encode(args))

\* canonicalArgsHash of the file server.
CanonicalJSON(args) == IfValid(Encode, args)

\* mapPayload of an event whose payload was stored as JSON.
MapPayload(json) == ToStruct(DecodeObject(json))

Doubles == {Round(n) : n \in 0 .. Largest}
Leaves ==
  {v \in [kind : {"int"}, minus : BOOLEAN, n : 0 .. Largest] : InInt64(v) /\ (v.n = 0 => ~v.minus)}
    \union [kind : {"uint"}, minus : {FALSE}, n : 0 .. Largest]
    \union [kind : {"number", "loose"}, minus : BOOLEAN, n : 0 .. Largest]
    \union [kind : {"float"}, minus : BOOLEAN, n : Doubles]
    \union {v \in [kind : {"float32"}, minus : BOOLEAN, n : Doubles, digits : 0 .. Largest] :
              v.digits \in {v.n, v.n + 1}}
    \union {String(t) : t \in {"plain", "replaced", "broken"}}
    \union [kind : {"nil", "empty"}, as : {"list", "map"}]
    \union [kind : {"null", "nan", "other"}]
ArgumentSet ==
  [kind : {"map"}, of : [{"path"} -> Leaves \union [kind : {"list", "map"}, of : [1 .. 2 -> Leaves]]]]

(***************************************************************************)
(* Properties                                                              *)
(***************************************************************************)
Items(v)    == IF Nested(v) THEN {v.of[k] : k \in DOMAIN v.of} ELSE {v}
LeavesOf(v) == UNION {Items(w) : w \in Items(v)}

MinusZero(v) == v = Num("float", TRUE, 0)

\* What the two ways read differently: the digits of a float32, the json.Number -0
\* and one that is not JSON, and nil.
Ambiguous(v) ==
  \/ v.kind = "float32" /\ Round(v.digits) # v.n
  \/ v = Num("number", TRUE, 0)
  \/ v.kind \in {"loose", "nil"}

\* Arguments that reach the orchestrator reach the file server with the hash that
\* the user approved exactly if nothing in them is ambiguous: integers beyond what
\* a double holds are rounded on both ways, by the one end when it makes a Struct
\* and by the other when it reads JSON.  And an event's payload is read back as it
\* was stored, but for a minus zero.
BothWaysAgree ==
  \A args \in ArgumentSet :
    LET struct == ToStruct(args)
    IN  struct # Invalid =>
          /\ MarshalCanonical(struct) = CanonicalJSON(RequestArgs(args)) <=>
               \A v \in LeavesOf(args) : ~Ambiguous(v)
          /\ MapPayload(MarshalCanonical(struct)) = struct <=>
               \A v \in LeavesOf(struct) : ~MinusZero(v)
=============================================================================
