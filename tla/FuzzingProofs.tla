---------------------------- MODULE FuzzingProofs ----------------------------
(***************************************************************************)
(* Facts about fuzzing, for any widths, sizes, types and bounds.           *)
(* Whatever a generator of parameters is fed with of its own, it is at     *)
(* most twice too long, and mutation repairs it; values keep their types,  *)
(* and children are made of their parents. And in the fuzzer, if the       *)
(* known values of a method fit its slots, so does all that mutation makes *)
(* of fitting values: it never throws, and the test of the method goes     *)
(* round between the queue and the fuzzer's hand.                          *)
(***************************************************************************)
EXTENDS Generators, Fuzzer, SequenceTheorems, TLAPS

AllFit(types, p) == \A i \in DOMAIN types : Fits(types[i], p[i])

(* A test has a value for each slot; what there is of a method whose known   *)
(* values fit, fits.                                                         *)
Parameters(types) ==
    {p \in [DOMAIN types -> Classes] : KnownFits(types) => AllFit(types, p)}
Tests ==
    {t \in [method : Methods, parameters : Seq(Classes)] :
        t.parameters \in Parameters(TypesOf[t.method])}

InHand == fpc \in {"execute", "sleep", "getObject", "fuzz"}

FTypeOK ==
    /\ fpc \in FuzzerPC
    /\ queue \in Seq(Tests)
    /\ InHand => test \in Tests
    /\ returnTo \in {"fuzz", "again"}

(* The queue is filled method by method.                                     *)
FilledInOrder ==
    fpc = "fill" => /\ Len(queue) <= Len(TypesOf)
                    /\ \A i \in DOMAIN queue : queue[i].method = i

FInv == FTypeOK /\ FilledInOrder /\ KeepsFuzzing

(* The classes that generators make (ObjectGenerator.java:29-60).            *)
LEMMA GeneratorClasses ==
  ASSUME NEW type \in TypeNames
  PROVE  GeneratorOf(type) \in Primitives \cup {"String", "array", "object"}
<1>1. CASE type \in DOMAIN ObjectGenerator
  <2>1. type \in {"Byte", "Short", "Integer", "Long", "Float", "Double", "Boolean",
                  "Character", "String", "Object"}
    BY <1>1 DEF ObjectGenerator
  <2>2. ObjectGenerator[type] \in {"byte", "short", "int", "long", "float", "double",
                                   "boolean", "char", "String", "object"}
    BY <2>1 DEF ObjectGenerator
  <2> QED
    BY <1>1, <2>2 DEF GeneratorOf, Primitives
<1>2. CASE type \notin DOMAIN ObjectGenerator
  <2>1. type \in Primitives \cup {"array"}
    BY <1>2 DEF TypeNames
  <2> QED
    BY <1>2, <2>1 DEF GeneratorOf
<1> QED
  BY <1>1, <1>2

(* What is drawn for a slot fits it.                                         *)
LEMMA RandomFits ==
  ASSUME NEW type \in TypeNames, NEW class \in Random(type)
  PROVE  class \in Classes /\ Fits(type, class)
<1>1. GeneratorOf(type) \in Primitives \cup {"String", "array", "object"}
  BY GeneratorClasses
<1>2. class = GeneratorOf(type) \/ (class = "null" /\ GeneratorOf(type) = "object")
  BY DEF Random
<1>3. "object" \notin Primitives
  BY DEF Primitives
<1> QED
  BY <1>1, <1>2, <1>3 DEF Classes, Fits

(* No class of a value is what stands for an exception.                      *)
LEMMA KnownIsClass ==
  ASSUME NEW type
  PROVE  Known(type) \in Classes
BY DEF Known, Classes, Primitives

(* Mutation makes of a value a value or throws; of a value that fits, a      *)
(* value that fits (ObjectGenerator.java:100).                               *)
LEMMA SlotMutationsFit ==
  ASSUME NEW type \in TypeNames, NEW class \in Classes, NEW r \in SlotMutations(type, class)
  PROVE  /\ r \in Classes \cup {Throws}
         /\ Fits(type, class) => r \in Classes /\ Fits(type, r)
<1> DEFINE g == GeneratorOf(type)
<1>1. g \in Primitives \cup {"String", "array", "object"}
  BY GeneratorClasses
<1>2. g \in Classes /\ "null" \in Classes
  BY <1>1 DEF Classes
<1>3. {"String", "array", "object", "null"} \cap Primitives = {}
  BY DEF Primitives
<1>4. CASE g \in Primitives
  <2>1. r \in PrimitiveMutations(g, class)
    BY <1>4 DEF SlotMutations
  <2>2. r \in {g, Throws} /\ (class = g => r = g)
    BY <2>1 DEF PrimitiveMutations
  <2> QED
    BY <1>2, <1>4, <2>2 DEF Fits
<1>5. CASE g = "object"
  <2>1. r \in ObjectMutations(class)
    BY <1>3, <1>5 DEF SlotMutations
  <2>2. GeneratorOf("Object") = "object"
    BY DEF GeneratorOf, ObjectGenerator
  <2>3. r = class \/ r \in {"object", "null"}
    BY <2>1, <2>2 DEF ObjectMutations, Random
  <2> QED
    BY <1>2, <1>3, <1>5, <2>3 DEF Fits
<1>6. CASE g \in {"String", "array"}
  <2>1. r \in NullableMutations(g, class)
    BY <1>3, <1>6 DEF SlotMutations
  <2>2. r \in {g, "null", Throws} /\ (class \in {g, "null"} => r \in {g, "null"})
    BY <2>1 DEF NullableMutations
  <2>3. g \notin Primitives
    BY <1>3, <1>6
  <2>4. Fits(type, class) => class \in {g, "null"}
    BY DEF Fits
  <2> QED
    BY <1>2, <2>2, <2>3, <2>4 DEF Fits
<1> QED
  BY <1>1, <1>4, <1>5, <1>6

(* Random parameters fit (ParametersGenerator.java:67-73).                   *)
LEMMA ParametersRandomFit ==
  ASSUME NEW types \in Seq(TypeNames), NEW p \in ParametersRandom(types)
  PROVE  p \in Parameters(types) /\ AllFit(types, p)
<1>1. DOMAIN p = DOMAIN types /\ p = [i \in DOMAIN types |-> p[i]]
  BY DEF ParametersRandom, Pick
<1>2. ASSUME NEW i \in DOMAIN types
      PROVE  p[i] \in Classes /\ Fits(types[i], p[i])
  <2>1. p[i] \in Random(types[i]) /\ types[i] \in TypeNames
    BY DEF ParametersRandom, Pick
  <2> QED
    BY <2>1, RandomFits
<1> QED
  BY <1>1, <1>2 DEF Parameters, AllFit

(* Mutation of parameters gives a value for each slot, which fits if what    *)
(* there was and the known values fit, or throws over a slot that does not   *)
(* (ParametersGenerator.java:101-145).                                       *)
LEMMA MutationsTyped ==
  ASSUME NEW types \in Seq(TypeNames), NEW p, \A i \in DOMAIN types : p[i] \in Classes,
         NEW r \in ParametersMutations(types, p)
  PROVE  \/ /\ r \in [DOMAIN types -> Classes]
            /\ KnownFits(types) /\ AllFit(types, p) => AllFit(types, r)
         \/ r = Throws /\ ~AllFit(types, p)
<1>1. CASE r \in ParametersRandom(types)
  <2>1. r \in Parameters(types) /\ AllFit(types, r)
    BY <1>1, ParametersRandomFit
  <2> QED
    BY <2>1 DEF Parameters
<1>2. CASE r = [i \in DOMAIN types |-> Known(types[i])]
  <2>1. r \in [DOMAIN types -> Classes]
    BY <1>2, KnownIsClass
  <2>2. KnownFits(types) => AllFit(types, r)
    BY <1>2 DEF KnownFits, AllFit
  <2> QED
    BY <2>1, <2>2
<1>3. CASE \E slots \in {{i} : i \in DOMAIN types} \cup {DOMAIN types} :
              r \in Caught(MutatedSlots(types, p, slots))
  <2>0. PICK slots \in {{i} : i \in DOMAIN types} \cup {DOMAIN types} :
          r \in Caught(MutatedSlots(types, p, slots))
    BY <1>3
  <2>1. PICK q \in MutatedSlots(types, p, slots) :
          r = IF \E i \in DOMAIN q : q[i] = Throws THEN Throws ELSE q
    BY <2>0 DEF Caught
  <2>2. DOMAIN q = DOMAIN types /\ q = [i \in DOMAIN types |-> q[i]]
    BY DEF MutatedSlots, Pick
  <2>3. ASSUME NEW i \in DOMAIN types
        PROVE  /\ q[i] \in Classes \cup {Throws}
               /\ Fits(types[i], p[i]) => q[i] \in Classes /\ Fits(types[i], q[i])
    <3>1. q[i] \in SlotMutations(types[i], p[i]) \/ q[i] = p[i]
      BY DEF MutatedSlots, Pick
    <3>2. types[i] \in TypeNames /\ p[i] \in Classes
      OBVIOUS
    <3> QED
      BY <3>1, <3>2, SlotMutationsFit
  <2>4. CASE \E i \in DOMAIN q : q[i] = Throws
    <3>1. ~AllFit(types, p)
      BY <2>2, <2>3, <2>4, ThrowsAssumption DEF AllFit
    <3> QED
      BY <2>1, <2>4, <3>1
  <2>5. CASE ~ \E i \in DOMAIN q : q[i] = Throws
    <3>1. r = q
      BY <2>1, <2>5
    <3>2. \A i \in DOMAIN types : q[i] \in Classes
      BY <2>2, <2>3, <2>5
    <3>3. AllFit(types, p) => AllFit(types, q)
      BY <2>3 DEF AllFit
    <3> QED
      BY <2>2, <3>1, <3>2, <3>3
  <2> QED
    BY <2>4, <2>5
<1> QED
  BY <1>1, <1>2, <1>3 DEF ParametersMutations

(* So parameters stay parameters, and throw only if the known values do not  *)
(* fit.                                                                      *)
LEMMA MutationsFit ==
  ASSUME NEW types \in Seq(TypeNames), NEW p \in Parameters(types),
         NEW r \in ParametersMutations(types, p)
  PROVE  \/ r \in Parameters(types)
         \/ r = Throws /\ ~KnownFits(types)
<1>1. \A i \in DOMAIN types : p[i] \in Classes
  BY DEF Parameters
<1>2. KnownFits(types) => AllFit(types, p)
  BY DEF Parameters
<1>3. \/ /\ r \in [DOMAIN types -> Classes]
         /\ KnownFits(types) /\ AllFit(types, p) => AllFit(types, r)
      \/ r = Throws /\ ~AllFit(types, p)
  BY <1>1, MutationsTyped
<1> QED
  BY <1>2, <1>3 DEF Parameters

(* A method with its parameters is a test.                                   *)
LEMMA TestMade ==
  ASSUME NEW m \in Methods, NEW p \in Parameters(TypesOf[m])
  PROVE  /\ TypesOf[m] \in Seq(TypeNames)
         /\ [method |-> m, parameters |-> p] \in Tests
<1>1. TypesOf[m] \in Seq(TypeNames)
  BY FuzzerAssumption DEF Methods
<1>2. p \in [1..Len(TypesOf[m]) -> Classes]
  BY <1>1 DEF Parameters
<1>3. p \in Seq(Classes)
  BY <1>1, <1>2, SeqDef
<1> QED
  BY <1>1, <1>3 DEF Tests
-----------------------------------------------------------------------------
(* Lists. A position beyond the end, from which java.util.List would throw,  *)
(* never occurs: each lemma asks for what add and copying need.              *)
LEMMA SliceLength ==
  ASSUME NEW E, NEW s \in Seq(E), NEW from \in Nat, NEW to \in Nat, from <= to, to <= Len(s)
  PROVE  Slice(s, from, to) \in Seq(E) /\ Len(Slice(s, from, to)) = to - from
<1>1. Slice(s, from, to) = [i \in 1..(to - from) |-> s[i + from]]
  BY DEF Slice
<1>2. \A i \in 1..(to - from) : s[i + from] \in E
  OBVIOUS
<1>3. to - from \in Nat
  OBVIOUS
<1>4. Slice(s, from, to) \in [1..(to - from) -> E]
  BY <1>1, <1>2
<1> QED
  BY <1>3, <1>4, SeqDef

(* A list up to a position.                                                 *)
LEMMA SliceFront ==
  ASSUME NEW E, NEW s \in Seq(E), NEW to \in Nat, to <= Len(s)
  PROVE  Slice(s, 0, to) \in Seq(E) /\ Len(Slice(s, 0, to)) = to
<1>1. 0 \in Nat /\ 0 <= to /\ to - 0 = to
  OBVIOUS
<1>2. Slice(s, 0, to) \in Seq(E) /\ Len(Slice(s, 0, to)) = to - 0
  BY <1>1, SliceLength, Zenon
<1> QED
  BY <1>1, <1>2

(* A list from a position on.                                                *)
LEMMA SliceBack ==
  ASSUME NEW E, NEW s \in Seq(E), NEW from \in Nat, from <= Len(s)
  PROVE  Slice(s, from, Len(s)) \in Seq(E) /\ Len(Slice(s, from, Len(s))) = Len(s) - from
<1>1. Len(s) \in Nat /\ Len(s) <= Len(s)
  OBVIOUS
<1> QED
  BY <1>1, SliceLength, Zenon

(* No positions, nothing to copy.                                            *)
LEMMA SliceEmpty ==
  ASSUME NEW E, NEW s \in Seq(E), NEW from \in Nat, NEW to \in Nat, to <= from
  PROVE  Slice(s, from, to) = <<>>
<1>1. Slice(s, from, to) = [i \in 1..(to - from) |-> s[i + from]]
  BY DEF Slice
<1>2. 1..(to - from) = {}
  OBVIOUS
<1> QED
  BY <1>1, <1>2

(* A sequence of n of E.                                                     *)
ListOf(E, n, list) == list \in Seq(E) /\ Len(list) = n

(* One element added makes the list longer by one.                           *)
LEMMA AddAtLength ==
  ASSUME NEW E, NEW list \in Seq(E), NEW position \in Nat, position <= Len(list), NEW e \in E
  PROVE  ListOf(E, Len(list) + 1, AddAt(list, position, e))
<1> DEFINE front == Slice(list, 0, position)
           back == Slice(list, position, Len(list))
<1>1. Len(list) \in Nat
  OBVIOUS
<1>2. front \in Seq(E) /\ Len(front) = position
  BY SliceFront, Zenon
<1>3. back \in Seq(E) /\ Len(back) = Len(list) - position
  BY SliceBack, Zenon
<1> HIDE DEF front, back
<1>4. front \o <<e>> \in Seq(E) /\ Len(front \o <<e>>) = position + 1
  BY <1>2
<1>5. /\ (front \o <<e>>) \o back \in Seq(E)
      /\ Len((front \o <<e>>) \o back) = position + 1 + (Len(list) - position)
  <2> DEFINE start == front \o <<e>>
  <2>1. start \in Seq(E) /\ Len(start) = position + 1
    BY <1>4
  <2> HIDE DEF start
  <2>2. start \o back \in Seq(E) /\ Len(start \o back) = Len(start) + Len(back)
    BY <1>3, <2>1, ConcatProperties, Zenon
  <2>3. Len(start \o back) = position + 1 + (Len(list) - position)
    BY <1>3, <2>1, <2>2
  <2> QED
    BY <2>2, <2>3 DEF start
<1>6. AddAt(list, position, e) = (front \o <<e>>) \o back
  BY DEF AddAt, front, back
<1>7. position + 1 + (Len(list) - position) = Len(list) + 1
  BY <1>1
<1> QED
  BY <1>5, <1>6, <1>7, Zenon DEF ListOf

(* What a run of add needs: the positions to copy from, and one to begin at. *)
CanAdd(E, list, from, to, p) ==
    /\ list \in Seq(E) /\ from \in Nat /\ from <= Len(list)
    /\ p \in Seq(E) /\ to \in Nat /\ to <= Len(p)

(* The list after a run, longer by so many elements.                         *)
RunAdds(E, list, from, to, p, added) ==
    /\ AddRun(list, from, to, p) \in Seq(E)
    /\ Len(AddRun(list, from, to, p)) = Len(list) + added

(* A run of elements makes it longer by their number.                        *)
LEMMA AddRunLength ==
  ASSUME NEW E, NEW list, NEW p, NEW from, NEW to, CanAdd(E, list, from, to, p), from <= to
  PROVE  RunAdds(E, list, from, to, p, to - from)
<1> DEFINE front == Slice(list, 0, from)
           run == Slice(p, from, to)
           back == Slice(list, from, Len(list))
<1>1. /\ list \in Seq(E) /\ from \in Nat /\ from <= Len(list) /\ Len(list) \in Nat
      /\ p \in Seq(E) /\ to \in Nat /\ to <= Len(p)
  BY DEF CanAdd
<1>2. front \in Seq(E) /\ Len(front) = from
  BY <1>1, SliceFront, Zenon
<1>3. back \in Seq(E) /\ Len(back) = Len(list) - from
  BY <1>1, SliceBack, Zenon
<1>4. run \in Seq(E) /\ Len(run) = to - from
  BY <1>1, SliceLength, Zenon
<1> HIDE DEF front, back, run
<1>5. front \o run \in Seq(E) /\ Len(front \o run) = Len(front) + Len(run)
  BY <1>2, <1>4, ConcatProperties, Zenon
<1>6. /\ (front \o run) \o back \in Seq(E)
      /\ Len((front \o run) \o back) = Len(front \o run) + Len(back)
  <2> DEFINE start == front \o run
  <2>1. start \in Seq(E)
    BY <1>5
  <2> HIDE DEF start
  <2>2. start \o back \in Seq(E) /\ Len(start \o back) = Len(start) + Len(back)
    BY <1>3, <2>1, ConcatProperties, Zenon
  <2> QED
    BY <2>2 DEF start
<1>7. AddRun(list, from, to, p) = (front \o run) \o back
  BY DEF AddRun, front, run, back
<1>8. Len((front \o run) \o back) = Len(list) + (to - from)
  BY <1>1, <1>2, <1>3, <1>4, <1>5, <1>6
<1> QED
  BY <1>6, <1>7, <1>8, Zenon DEF RunAdds

(* No position to add at: the list is what it was.                           *)
LEMMA AddNothing ==
  ASSUME NEW E, NEW list, NEW p, NEW from, NEW to, CanAdd(E, list, from, to, p), to <= from
  PROVE  RunAdds(E, list, from, to, p, 0)
<1> DEFINE front == Slice(list, 0, from)
           run == Slice(p, from, to)
           back == Slice(list, from, Len(list))
<1>1. /\ list \in Seq(E) /\ from \in Nat /\ from <= Len(list) /\ Len(list) \in Nat
      /\ p \in Seq(E) /\ to \in Nat /\ to <= Len(p)
  BY DEF CanAdd
<1>2. front \in Seq(E) /\ Len(front) = from
  BY <1>1, SliceFront, Zenon
<1>3. back \in Seq(E) /\ Len(back) = Len(list) - from
  BY <1>1, SliceBack, Zenon
<1>4. run = <<>>
  BY <1>1, SliceEmpty, Zenon
<1> HIDE DEF front, back, run
<1>5. front \o run \in Seq(E) /\ Len(front \o run) = from
  BY <1>2, <1>4
<1>6. /\ (front \o run) \o back \in Seq(E)
      /\ Len((front \o run) \o back) = from + (Len(list) - from)
  <2> DEFINE start == front \o run
  <2>1. start \in Seq(E) /\ Len(start) = from
    BY <1>5
  <2> HIDE DEF start
  <2>2. start \o back \in Seq(E) /\ Len(start \o back) = Len(start) + Len(back)
    BY <1>3, <2>1, ConcatProperties, Zenon
  <2> QED
    BY <1>3, <2>1, <2>2 DEF start
<1>7. AddRun(list, from, to, p) = (front \o run) \o back
  BY DEF AddRun, front, run, back
<1> HIDE DEF front, run, back
<1>8. Len((front \o run) \o back) = Len(list) + 0
  BY <1>1, <1>6
<1> QED
  BY <1>6, <1>7, <1>8, Zenon DEF RunAdds

(* What crossover builds, of parents with a value for each of the n types at *)
(* least. One point gives n parameters, and so do two in order; others give  *)
(* up to twice as many (ParametersGenerator.java:155-166).                   *)
LEMMA SinglePointLength ==
  ASSUME NEW E, NEW p \in Seq(E), NEW q \in Seq(E), NEW n \in Nat, n <= Len(p), n <= Len(q),
         NEW point \in Nat, point < n, NEW x \in E
  PROVE  ListOf(E, n, AddRun(AddAt(Slice(p, 0, point), point, x), point + 1, n, q))
<1> DEFINE front == Slice(p, 0, point)
           first == AddAt(front, point, x)
<1>1. point + 1 \in Nat /\ point + 1 <= n /\ point <= Len(p)
  OBVIOUS
<1>2. front \in Seq(E) /\ Len(front) = point
  BY <1>1, SliceFront, Zenon
<1> HIDE DEF front
<1>3. first \in Seq(E) /\ Len(first) = point + 1
  <2>1. point <= Len(front)
    BY <1>2
  <2>2. ListOf(E, Len(front) + 1, AddAt(front, point, x))
    BY <1>2, <2>1, AddAtLength, Zenon
  <2> QED
    BY <1>2, <2>2 DEF ListOf
<1> HIDE DEF first
<1>4. /\ AddRun(first, point + 1, n, q) \in Seq(E)
      /\ Len(AddRun(first, point + 1, n, q)) = Len(first) + (n - (point + 1))
  <2>1. CanAdd(E, first, point + 1, n, q)
    BY <1>1, <1>3 DEF CanAdd
  <2>2. RunAdds(E, first, point + 1, n, q, n - (point + 1))
    BY <1>1, <2>1, AddRunLength, Zenon
  <2> QED
    BY <2>2 DEF RunAdds
<1>5. Len(AddRun(first, point + 1, n, q)) = n
  BY <1>1, <1>3, <1>4
<1>6. ListOf(E, n, AddRun(first, point + 1, n, q))
  BY <1>4, <1>5 DEF ListOf
<1> QED
  BY <1>6 DEF first, front

TwoPointSize(n, a, b) == IF a < b THEN n ELSE n + (a - b) + 1

(* Two points (lines 167-183).                                               *)
LEMMA TwoPointLength ==
  ASSUME NEW types, NEW E, NEW p \in Seq(E), NEW q \in Seq(E), Len(types) \in Nat,
         Len(types) <= Len(p), Len(types) <= Len(q), NEW x \in E, NEW y \in E,
         NEW a \in Nat, NEW b \in Nat, a < Len(types), b < Len(types)
  PROVE  ListOf(E, TwoPointSize(Len(types), a, b), TwoPointList(types, p, q, a, b, x, y))
<1> DEFINE n == Len(types)
           front == Slice(p, 0, a)
           first == AddAt(front, a, x)
           middle == AddRun(first, a + 1, b, q)
           second == AddAt(middle, b, y)
<1>1. n \in Nat /\ n <= Len(p) /\ n <= Len(q) /\ a < n /\ b < n
  OBVIOUS
<1>2. Len(p) \in Nat /\ Len(q) \in Nat
  OBVIOUS
<1> HIDE DEF n
<1>3. a + 1 \in Nat /\ b + 1 \in Nat /\ a <= Len(p) /\ b <= Len(q) /\ b + 1 <= n
  BY <1>1, <1>2
<1>4. front \in Seq(E) /\ Len(front) = a
  BY <1>3, SliceFront, Zenon
<1> HIDE DEF front
<1>5. first \in Seq(E) /\ Len(first) = a + 1
  <2>1. a <= Len(front)
    BY <1>4
  <2>2. ListOf(E, Len(front) + 1, AddAt(front, a, x))
    BY <1>4, <2>1, AddAtLength, Zenon
  <2> QED
    BY <1>4, <2>2 DEF ListOf
<1> HIDE DEF first, middle, second
<1>6. middle \in Seq(E) /\ Len(middle) = IF a < b THEN b ELSE a + 1
  <2>1. CanAdd(E, first, a + 1, b, q)
    BY <1>3, <1>5 DEF CanAdd
  <2>2. CASE a < b
    <3>1. a + 1 <= b
      BY <2>2
    <3>2. RunAdds(E, first, a + 1, b, q, b - (a + 1))
      BY <2>1, <3>1, AddRunLength, Zenon
    <3>3. middle \in Seq(E) /\ Len(middle) = Len(first) + (b - (a + 1))
      BY <3>2 DEF middle, RunAdds
    <3> QED
      BY <1>5, <2>2, <3>3
  <2>3. CASE ~(a < b)
    <3>1. b <= a + 1
      BY <2>3
    <3>2. RunAdds(E, first, a + 1, b, q, 0)
      BY <2>1, <3>1, AddNothing, Zenon
    <3>3. middle \in Seq(E) /\ Len(middle) = Len(first) + 0
      BY <3>2 DEF middle, RunAdds
    <3> QED
      BY <1>5, <2>3, <3>3
  <2> QED
    BY <2>2, <2>3
<1>7. second \in Seq(E) /\ Len(second) = IF a < b THEN b + 1 ELSE a + 2
  <2>1. b <= Len(middle)
    BY <1>6
  <2>2. ListOf(E, Len(middle) + 1, AddAt(middle, b, y))
    BY <1>6, <2>1, AddAtLength, Zenon
  <2> QED
    BY <1>6, <2>2 DEF second, ListOf
<1>8. /\ AddRun(second, b + 1, n, p) \in Seq(E)
      /\ Len(AddRun(second, b + 1, n, p)) = Len(second) + (n - (b + 1))
  <2>1. CanAdd(E, second, b + 1, n, p)
    BY <1>1, <1>3, <1>7 DEF CanAdd
  <2>2. b + 1 <= n
    BY <1>3
  <2>3. RunAdds(E, second, b + 1, n, p, n - (b + 1))
    BY <2>1, <2>2, AddRunLength, Zenon
  <2> QED
    BY <2>3 DEF RunAdds
<1>9. Len(second) + (n - (b + 1)) = IF a < b THEN n ELSE n + (a - b) + 1
  BY <1>1, <1>7
<1>10. TwoPointList(types, p, q, a, b, x, y) = AddRun(second, b + 1, n, p)
  BY DEF TwoPointList, second, middle, first, front, n
<1>11. ListOf(E, TwoPointSize(n, a, b), TwoPointList(types, p, q, a, b, x, y))
  BY <1>8, <1>9, <1>10, Zenon DEF ListOf, TwoPointSize
<1> QED
  BY <1>11 DEF n
-----------------------------------------------------------------------------
(* What the caller of a generator of parameters has: values for all slots,   *)
(* and at most as many again.                                                *)
N == Len(Types)
Rows == {p \in Seq(Classes) : N <= Len(p) /\ Len(p) <= 2 * N}
Thrown == Classes \cup {Throws}
ThrownRows == {p \in Seq(Thrown) : N <= Len(p) /\ Len(p) <= 2 * N}

(* There is a parameter, and parameters are no exception.                    *)
LEMMA TypesFacts ==
  /\ Types \in Seq(TypeNames) /\ N \in Nat /\ N > 0 /\ DOMAIN Types = 1..N
  /\ Seq(Classes) \subseteq Seq(Thrown)
  /\ Throws \notin Seq(Classes)
<1>1. Types \in Seq(TypeNames) /\ Types # <<>>
  BY TypesAssumption
<1>2. N \in Nat /\ N > 0 /\ DOMAIN Types = 1..N
  BY <1>1 DEF N
<1>3. Seq(Classes) \subseteq Seq(Thrown)
  <2> SUFFICES ASSUME NEW s \in Seq(Classes) PROVE s \in Seq(Thrown)
    OBVIOUS
  <2>1. Classes \subseteq Thrown
    BY DEF Thrown
  <2> QED
    BY <2>1, SeqMonotonic, Zenon
<1> QED
  BY <1>1, <1>2, <1>3, ThrowsAssumption

(* One value of each slot is a row.                                          *)
LEMMA SlotsAreRow ==
  ASSUME NEW E, NEW p \in [DOMAIN Types -> E]
  PROVE  p \in Seq(E) /\ Len(p) = N /\ (E = Classes => p \in Rows)
<1>1. N \in Nat /\ p \in [1..N -> E]
  BY TypesFacts
<1>2. p \in Seq(E) /\ Len(p) = N
  BY <1>1, SeqDef
<1> QED
  BY <1>1, <1>2 DEF Rows

(* The slots of a row.                                                       *)
LEMMA RowSlots ==
  ASSUME NEW p \in Rows
  PROVE  /\ p \in Seq(Classes) /\ p \in Seq(Thrown) /\ N <= Len(p) /\ Len(p) \in Nat
         /\ \A i \in DOMAIN Types : p[i] \in Classes
BY TypesFacts DEF Rows

(* Crossover of two values gives one or throws (ObjectGenerator.java:105).   *)
LEMMA SlotChildrenTyped ==
  ASSUME NEW type \in TypeNames, NEW class1 \in Classes, NEW class2 \in Classes,
         NEW r \in SlotChildren(type, class1, class2)
  PROVE  r \in Thrown
<1> DEFINE g == GeneratorOf(type)
<1>1. g \in Classes
  BY GeneratorClasses DEF Classes
<1>2. CASE g \in Primitives
  BY <1>1, <1>2 DEF SlotChildren, Thrown
<1>3. CASE g \notin Primitives /\ g = "object"
  BY <1>3 DEF SlotChildren, Thrown
<1>4. CASE g \notin Primitives /\ g # "object"
  <2>1. r \in NullableChildren(g, class1, class2)
    BY <1>4 DEF SlotChildren
  <2> QED
    BY <1>1, <2>1 DEF NullableChildren, Thrown
<1> QED
  BY <1>2, <1>3, <1>4

(* What is caught is no exception unless something threw.                    *)
LEMMA CaughtRows ==
  ASSUME NEW R, R \subseteq ThrownRows, NEW r \in Caught(R), r # Throws
  PROVE  r \in Rows
<1>1. r \in R /\ \A i \in DOMAIN r : r[i] # Throws
  BY DEF Caught
<1>2. r \in Seq(Thrown) /\ N <= Len(r) /\ Len(r) <= 2 * N
  BY <1>1 DEF ThrownRows
<1>3. r \in [1..Len(r) -> Thrown] /\ Len(r) \in Nat /\ DOMAIN r = 1..Len(r)
  BY <1>2
<1>4. r \in [1..Len(r) -> Classes]
  BY <1>1, <1>3 DEF Thrown
<1>5. r \in Seq(Classes)
  BY <1>3, <1>4, SeqDef
<1> QED
  BY <1>2, <1>5 DEF Rows

(* The children of two rows are rows (ParametersGenerator.java:148-203).     *)
LEMMA RowChildren ==
  ASSUME NEW p \in Rows, NEW q \in Rows, p # Absent, q # Absent,
         NEW r \in ParametersChildren(Types, p, q), r # Throws
  PROVE  r \in Rows
<1> DEFINE points == 0..(N - 1)
<1>1. \A k \in points : k \in Nat /\ k < N /\ k + 1 \in DOMAIN Types
  BY TypesFacts
<1>2. N \in Nat /\ N > 0 /\ N <= 2 * N
  BY TypesFacts
<1>3. /\ p \in Seq(Thrown) /\ q \in Seq(Thrown) /\ N <= Len(p) /\ N <= Len(q)
      /\ \A i \in DOMAIN Types : p[i] \in Classes /\ q[i] \in Classes /\ Types[i] \in TypeNames
  BY RowSlots, TypesFacts
<1>4. ASSUME NEW i \in DOMAIN Types
      PROVE  /\ SlotChildren(Types[i], p[i], q[i]) \subseteq Thrown
             /\ SlotChildren(Types[i], q[i], p[i]) \subseteq Thrown
  BY <1>3, SlotChildrenTyped
<1>5. \/ r \in Caught(UNION {SinglePoint(Types, p, q, point) : point \in points})
      \/ r \in Caught(UNION {TwoPoint(Types, p, q, a, b) : a \in points, b \in points})
      \/ r \in Caught(Uniform(Types, p, q))
      \/ r \in Arithmetic(Types, p, q)
  BY DEF ParametersChildren, N
<1>6. CASE r \in Caught(UNION {SinglePoint(Types, p, q, point) : point \in points})
  <2>1. ASSUME NEW c \in UNION {SinglePoint(Types, p, q, point) : point \in points}
        PROVE  c \in ThrownRows
    <3>0. PICK k \in points : c \in SinglePoint(Types, p, q, k)
      OBVIOUS
    <3>1. PICK x \in SlotChildren(Types[k + 1], p[k + 1], q[k + 1]) :
            c = AddRun(AddAt(Slice(p, 0, k), k, x), k + 1, N, q)
      BY <3>0 DEF SinglePoint, N
    <3>2. x \in Thrown /\ k \in Nat /\ k < N
      BY <1>1, <1>4, <3>1
    <3>3. c \in Seq(Thrown) /\ Len(c) = N
      <4>1. N <= Len(p) /\ N <= Len(q) /\ N \in Nat
        BY <1>2, <1>3
      <4>2. p \in Seq(Thrown) /\ q \in Seq(Thrown)
        BY <1>3
      <4>3. ListOf(Thrown, N, AddRun(AddAt(Slice(p, 0, k), k, x), k + 1, N, q))
        BY <3>2, <4>1, <4>2, SinglePointLength, Zenon
      <4> QED
        BY <3>1, <4>3, Zenon DEF ListOf
    <3> QED
      BY <1>2, <3>3 DEF ThrownRows
  <2> QED
    BY <1>6, <2>1, CaughtRows
<1>7. CASE r \in Caught(UNION {TwoPoint(Types, p, q, a, b) : a \in points, b \in points})
  <2>1. ASSUME NEW a \in points, NEW b \in points, NEW c \in TwoPoint(Types, p, q, a, b)
        PROVE  c \in ThrownRows
    <3>1. PICK x \in SlotChildren(Types[a + 1], p[a + 1], q[a + 1]),
               y \in SlotChildren(Types[b + 1], q[b + 1], p[b + 1]) :
            c = TwoPointList(Types, p, q, a, b, x, y)
      BY DEF TwoPoint
    <3>2. x \in Thrown /\ y \in Thrown /\ a \in Nat /\ a < N /\ b \in Nat /\ b < N
      BY <1>1, <1>4, <3>1
    <3>3. /\ Len(Types) \in Nat /\ Len(Types) <= Len(p) /\ Len(Types) <= Len(q)
          /\ a < Len(Types) /\ b < Len(Types)
      BY <1>2, <1>3, <3>2 DEF N
    <3>4. /\ TwoPointList(Types, p, q, a, b, x, y) \in Seq(Thrown)
          /\ Len(TwoPointList(Types, p, q, a, b, x, y)) = TwoPointSize(N, a, b)
      <4>1. p \in Seq(Thrown) /\ q \in Seq(Thrown)
        BY <1>3
      <4>2. ListOf(Thrown, TwoPointSize(Len(Types), a, b), TwoPointList(Types, p, q, a, b, x, y))
        BY <3>2, <3>3, <4>1, TwoPointLength, Zenon
      <4> QED
        BY <4>2 DEF ListOf, N
    <3>5. N <= TwoPointSize(N, a, b) /\ TwoPointSize(N, a, b) <= 2 * N
      BY <1>2, <3>2 DEF TwoPointSize
    <3> QED
      BY <3>1, <3>4, <3>5, Zenon DEF ThrownRows
  <2>2. ASSUME NEW c \in UNION {TwoPoint(Types, p, q, a, b) : a \in points, b \in points}
        PROVE  c \in ThrownRows
    <3>1. PICK a \in points, b \in points : c \in TwoPoint(Types, p, q, a, b)
      OBVIOUS
    <3> QED
      BY <2>1, <3>1
  <2> QED
    BY <1>7, <2>2, CaughtRows
<1>8. CASE r \in Caught(Uniform(Types, p, q))
  <2>1. ASSUME NEW c \in Uniform(Types, p, q)
        PROVE  c \in ThrownRows
    <3>1. DOMAIN c = DOMAIN Types /\ c = [i \in DOMAIN Types |-> c[i]]
          /\ \A i \in DOMAIN Types : c[i] \in SlotChildren(Types[i], p[i], q[i])
      BY DEF Uniform, Pick
    <3>2. c \in [DOMAIN Types -> Thrown]
      BY <1>4, <3>1
    <3> QED
      BY <1>2, <3>2, SlotsAreRow DEF ThrownRows
  <2> QED
    BY <1>8, <2>1, CaughtRows
<1>9. CASE r \in Arithmetic(Types, p, q)
  <2>1. DOMAIN r = DOMAIN Types /\ r = [i \in DOMAIN Types |-> r[i]]
        /\ \A i \in DOMAIN Types : r[i] \in {p[i], q[i]}
    BY <1>9 DEF Arithmetic, Pick
  <2>2. r \in [DOMAIN Types -> Classes]
    BY <1>3, <2>1
  <2> QED
    BY <2>2, SlotsAreRow
<1> QED
  BY <1>5, <1>6, <1>7, <1>8, <1>9

(* Whatever is asked of the generator, a result that is kept is a row: drawn, *)
(* mutated or crossed (lines 67-210).                                        *)
LEMMA DrawnRows == ParametersRandom(Types) \subseteq Rows
<1> SUFFICES ASSUME NEW r \in ParametersRandom(Types) PROVE r \in Rows
  OBVIOUS
<1>1. r \in [DOMAIN Types -> Classes]
  BY TypesFacts, ParametersRandomFit DEF Parameters
<1> QED
  BY <1>1, SlotsAreRow

(* Mutation of no parameters is drawing, which asks nothing of them.         *)
LEMMA MutantRows ==
  ASSUME NEW p \in Rows \cup {Absent}, NEW r \in ParametersMutations(Types, p), r # Throws
  PROVE  r \in Rows
<1>1. CASE p = Absent
  BY <1>1, DrawnRows DEF ParametersMutations
<1>2. CASE p \in Rows
  <2>1. r \in [DOMAIN Types -> Classes]
    BY <1>2, RowSlots, TypesFacts, MutationsTyped
  <2> QED
    BY <2>1, SlotsAreRow
<1> QED
  BY <1>1, <1>2

(* With one parent missing, the other is the child, or its slots.            *)
LEMMA OffspringRows ==
  ASSUME NEW p \in Rows \cup {Absent}, NEW q \in Rows \cup {Absent},
         NEW r \in ParametersChildren(Types, p, q), r # Throws
  PROVE  r \in Rows
<1>1. CASE p = Absent /\ q = Absent
  BY <1>1, DrawnRows DEF ParametersChildren
<1>2. CASE (p = Absent \/ q = Absent) /\ ~(p = Absent /\ q = Absent)
  <2>1. PICK other \in Rows : r \in {other, Slice(other, 0, N)}
    BY <1>2 DEF ParametersChildren, N
  <2>2. other \in Seq(Classes) /\ N <= Len(other) /\ N \in Nat /\ N <= 2 * N
    BY RowSlots, TypesFacts
  <2>3. Slice(other, 0, N) \in Seq(Classes) /\ Len(Slice(other, 0, N)) = N
    BY <2>2, SliceFront, Zenon
  <2> QED
    BY <2>1, <2>2, <2>3 DEF Rows
<1>3. CASE p # Absent /\ q # Absent
  BY <1>3, RowChildren
<1> QED
  BY <1>1, <1>2, <1>3
-----------------------------------------------------------------------------
(* What a generator of a primitive type needs of its record: whatever it     *)
(* draws, mutates or crosses is one of its words, and in a uniform crossover *)
(* each bit comes from a parent.                                             *)
Generates(g, W) ==
    /\ g.random \subseteq W /\ g.bound \subseteq W
    /\ \A w \in W : g.inverse[w] \subseteq W /\ g.delta[w] \subseteq W
    /\ \A p \in W, q \in W :
         /\ g.single[<<p, q>>] \subseteq W /\ g.uniform[<<p, q>>] \subseteq W
         /\ BitsFromParents(g.uniform[<<p, q>>], p, q)

(* A mask takes each bit from one of the two (v1 & mask | v2 & ~mask).       *)
LEMMA MixedBits ==
  ASSUME NEW p \in Words, NEW q \in Words, NEW masks
  PROVE  Crossed(p, q, masks) \subseteq Words /\ BitsFromParents(Crossed(p, q, masks), p, q)
<1> SUFFICES ASSUME NEW mask \in masks
             PROVE  /\ Mix(p, q, mask) \in Words
                    /\ (p \cap q) \subseteq Mix(p, q, mask) /\ Mix(p, q, mask) \subseteq (p \union q)
  BY DEF Crossed, BitsFromParents
<1> QED
  BY DEF Mix, Words

(* Arithmetic wraps at the width of the word.                                *)
LEMMA Wraps ==
  /\ \A n : Word(n) \in Words
  /\ \A w, deltas : Plus(w, deltas) \subseteq Words
BY DEF Word, Words, Plus

(* The generator of bytes (ByteGenerator.java).                              *)
LEMMA ByteGenerates == Generates(ByteGenerator, Words)
<1>1. ASSUME NEW w \in Words
      PROVE  ByteGenerator.inverse[w] \subseteq Words /\ ByteGenerator.delta[w] \subseteq Words
  <2>1. ByteGenerator.inverse[w] = {Bits \ w}
    BY DEF ByteGenerator
  <2>2. ByteGenerator.delta[w] = {Flipped(w, b) : b \in Bits}
    BY DEF ByteGenerator
  <2> QED
    BY <2>1, <2>2 DEF Words, Flipped
<1>2. ByteGenerator.random \subseteq Words /\ ByteGenerator.bound \subseteq Words
  BY Wraps DEF ByteGenerator
<1>3. ASSUME NEW p \in Words, NEW q \in Words
      PROVE  /\ ByteGenerator.single[<<p, q>>] = Crossed(p, q, ShiftMasks)
             /\ ByteGenerator.uniform[<<p, q>>] = Crossed(p, q, Words)
  BY DEF ByteGenerator
<1> QED
  BY <1>1, <1>2, <1>3, MixedBits DEF Generates

(* The generators of integers (ShortGenerator.java, IntegerGenerator.java).  *)
LEMMA IntegerGenerates == Generates(IntegerGenerator, Words)
<1>1. /\ IntegerGenerator.random = ByteGenerator.random
      /\ IntegerGenerator.bound = ByteGenerator.bound
      /\ IntegerGenerator.single = ByteGenerator.single
      /\ IntegerGenerator.uniform = ByteGenerator.uniform
  BY DEF IntegerGenerator, ByteGenerator
<1>2. ASSUME NEW w \in Words
      PROVE  IntegerGenerator.inverse[w] \subseteq Words /\ IntegerGenerator.delta[w] \subseteq Words
  <2>1. IntegerGenerator.inverse[w] = {Word(-Signed(w))}
    BY DEF IntegerGenerator, ByteGenerator
  <2>2. IntegerGenerator.delta[w] = Plus(w, -Spread..(Spread - 1))
    BY DEF IntegerGenerator, ByteGenerator
  <2> QED
    BY <2>1, <2>2, Wraps
<1> QED
  BY <1>1, <1>2, ByteGenerates DEF Generates

(* The generator of longs (LongGenerator.java).                              *)
LEMMA LongGenerates == Generates(LongGenerator, Words)
<1>1. /\ LongGenerator.random = IntegerGenerator.random
      /\ LongGenerator.bound = IntegerGenerator.bound
      /\ LongGenerator.inverse = IntegerGenerator.inverse
      /\ LongGenerator.single = IntegerGenerator.single
      /\ LongGenerator.uniform = IntegerGenerator.uniform
  BY DEF LongGenerator, IntegerGenerator, ByteGenerator
<1>2. ASSUME NEW w \in Words
      PROVE  LongGenerator.delta[w] \subseteq Words
  <2>1. LongGenerator.delta[w] = Plus(w, (1 - 3 * Spread)..(Spread - 1))
    BY DEF LongGenerator, IntegerGenerator, ByteGenerator
  <2> QED
    BY <2>1, Wraps
<1> QED
  BY <1>1, <1>2, IntegerGenerates DEF Generates

(* The generator of characters, whose masks are widened bytes                *)
(* (CharacterGenerator.java).                                                *)
LEMMA CharacterGenerates == Generates(CharacterGenerator, Words)
<1> DEFINE Bytes == {Widened(m) : m \in SUBSET (0..(ByteSize - 1))}
           Shifted == {Widened(s..(ByteSize - 1)) : s \in 0..(ByteSize - 1)}
<1>1. ASSUME NEW w \in Words
      PROVE  CharacterGenerator.inverse[w] \subseteq Words /\ CharacterGenerator.delta[w] \subseteq Words
  <2>1. CharacterGenerator.inverse[w] = {Bits \ w}
    BY DEF CharacterGenerator
  <2>2. CharacterGenerator.delta[w] = Plus(w, -Spread..(Spread - 1))
    BY DEF CharacterGenerator
  <2>3. {Bits \ w} \subseteq Words
    BY DEF Words
  <2> QED
    BY <2>1, <2>2, <2>3, Wraps
<1>2. CharacterGenerator.random \subseteq Words /\ CharacterGenerator.bound \subseteq Words
  BY DEF CharacterGenerator
<1>3. ASSUME NEW p \in Words, NEW q \in Words
      PROVE  /\ CharacterGenerator.single[<<p, q>>] = Crossed(p, q, Shifted)
             /\ CharacterGenerator.uniform[<<p, q>>] = Crossed(p, q, Bytes)
  BY DEF CharacterGenerator
<1> HIDE DEF Bytes, Shifted
<1> QED
  BY <1>1, <1>2, <1>3, MixedBits DEF Generates

(* The generators of floating-point numbers (FloatGenerator.java,            *)
(* DoubleGenerator.java).                                                    *)
LEMMA FloatGenerates == Generates(FloatGenerator, Words)
<1> DEFINE Masks == SUBSET (Bits \ {SignBit})
<1>1. /\ FloatGenerator.random \subseteq Words /\ FloatGenerator.bound \subseteq Words
      /\ \A w \in Words : FloatGenerator.inverse[w] = Words /\ FloatGenerator.delta[w] = Words
  BY DEF FloatGenerator, Words
<1>2. ASSUME NEW p \in Words, NEW q \in Words
      PROVE  /\ FloatGenerator.single[<<p, q>>] = Crossed(p, q, ShiftMasks)
             /\ FloatGenerator.uniform[<<p, q>>] = Crossed(p, q, Masks)
  BY DEF FloatGenerator
<1> HIDE DEF Masks
<1> QED
  BY <1>1, <1>2, MixedBits DEF Generates

(* The generator of booleans (BooleanGenerator.java).                        *)
LEMMA BooleanGenerates == Generates(BooleanGenerator, BooleanWords)
<1>1. BooleanGenerator.random \subseteq BooleanWords /\ BooleanGenerator.bound \subseteq BooleanWords
  BY DEF BooleanGenerator, BooleanWords
<1>2. ASSUME NEW w \in BooleanWords
      PROVE  /\ BooleanGenerator.inverse[w] \subseteq BooleanWords
             /\ BooleanGenerator.delta[w] \subseteq BooleanWords
  <2>1. BooleanGenerator.inverse[w] = {Flipped(w, 0)} /\ BooleanGenerator.delta[w] = {Flipped(w, 0)}
    BY DEF BooleanGenerator
  <2> QED
    BY <2>1 DEF Flipped, BooleanWords
<1>3. ASSUME NEW p \in BooleanWords, NEW q \in BooleanWords
      PROVE  /\ BooleanGenerator.single[<<p, q>>] \subseteq BooleanWords
             /\ BooleanGenerator.uniform[<<p, q>>] \subseteq BooleanWords
             /\ BitsFromParents(BooleanGenerator.uniform[<<p, q>>], p, q)
  <2>1. /\ BooleanGenerator.single[<<p, q>>] = {(p \union q) \ (p \cap q)}
        /\ BooleanGenerator.uniform[<<p, q>>] = {p \cap q}
    BY DEF BooleanGenerator
  <2> QED
    BY <2>1 DEF BooleanWords, BitsFromParents
<1> QED
  BY <1>1, <1>2, <1>3 DEF Generates

(* The words of a primitive type.                                            *)
WordsOf(k) == IF k = "boolean" THEN BooleanWords ELSE Words

(* PrimitiveGenerator.build makes one for each type.                         *)
LEMMA BuildGenerates ==
  ASSUME NEW k \in DOMAIN Build
  PROVE  Generates(Build[k], WordsOf(k))
<1>1. k \in Primitives
  BY DEF Build, Primitives
<1>2. CASE k = "boolean"
  <2>1. Build[k] = BooleanGenerator /\ WordsOf(k) = BooleanWords
    BY <1>2 DEF Build, WordsOf
  <2> QED
    BY <2>1, BooleanGenerates
<1>3. CASE k \in {"byte", "short", "int"}
  <2>1. Build[k] \in {ByteGenerator, IntegerGenerator} /\ WordsOf(k) = Words
    BY <1>3 DEF Build, WordsOf, ShortGenerator
  <2> QED
    BY <2>1, ByteGenerates, IntegerGenerates
<1>4. CASE k = "long"
  <2>1. Build[k] = LongGenerator /\ WordsOf(k) = Words
    BY <1>4 DEF Build, WordsOf
  <2> QED
    BY <2>1, LongGenerates
<1>5. CASE k \in {"float", "double"}
  <2>1. Build[k] = FloatGenerator /\ WordsOf(k) = Words
    BY <1>5 DEF Build, WordsOf, DoubleGenerator
  <2> QED
    BY <2>1, FloatGenerates
<1>6. CASE k = "char"
  <2>1. Build[k] = CharacterGenerator /\ WordsOf(k) = Words
    BY <1>6 DEF Build, WordsOf
  <2> QED
    BY <2>1, CharacterGenerates
<1> QED
  BY <1>1, <1>2, <1>3, <1>4, <1>5, <1>6 DEF Primitives
-----------------------------------------------------------------------------
(* Elements of s from one position to before another.                        *)
IsCut(E, s, from, to, c) ==
    /\ c \in Seq(E)
    /\ Len(c) = IF from <= to THEN to - from ELSE 0
    /\ \A i \in 1..(to - from) : c[i] = s[from + i]

(* Java's substring of a string that is long enough.                         *)
LEMMA CutTyped ==
  ASSUME NEW E, NEW s \in Seq(E), NEW from \in Nat, NEW to \in Nat, to <= Len(s)
  PROVE  IsCut(E, s, from, to, Cut(s, from, to))
<1>1. from + 1 \in Int /\ to \in Int
  OBVIOUS
<1>2. \A i \in (from + 1)..to : s[i] \in E
  OBVIOUS
<1> DEFINE m == from + 1
           c == SubSeq(s, m, to)
<1>3. /\ c \in Seq(E)
      /\ Len(c) = IF m <= to THEN to - m + 1 ELSE 0
      /\ \A i \in 1..(to - m + 1) : c[i] = s[m + i - 1]
  <2>1. m \in Int /\ \A i \in m..to : s[i] \in E
    BY <1>1, <1>2
  <2> HIDE DEF m
  <2> QED
    BY <1>1, <2>1, SubSeqProperties
<1>4. c = Cut(s, from, to)
  BY DEF Cut
<1> HIDE DEF c
<1>8. Len(c) = IF from <= to THEN to - from ELSE 0
  BY <1>3
<1>9. \A i \in 1..(to - from) : c[i] = s[from + i]
  BY <1>3
<1> QED
  BY <1>3, <1>4, <1>8, <1>9, Zenon DEF IsCut

(* A sequence of the first n elements of one and the next of another, up to  *)
(* the m-th.                                                                 *)
Joined(child, s, q, n, m) ==
    /\ Len(child) = m
    /\ \A i \in 1..m : child[i] = IF i <= n THEN s[i] ELSE q[i]

(* What follows a start of a sequence in another one of the same positions.  *)
LEMMA Follows ==
  ASSUME NEW E, NEW s \in Seq(E), NEW q \in Seq(E), NEW n \in Nat, NEW m \in Nat,
         Len(s) = n, n <= m, m <= Len(q)
  PROVE  s \o Cut(q, n, m) \in Seq(E) /\ Joined(s \o Cut(q, n, m), s, q, n, m)
<1> DEFINE c == Cut(q, n, m)
<1>1. /\ c \in Seq(E) /\ Len(c) = m - n
      /\ \A i \in 1..(m - n) : c[i] = q[n + i]
  <2>1. /\ c \in Seq(E) /\ Len(c) = IF n <= m THEN m - n ELSE 0
        /\ \A i \in 1..(m - n) : c[i] = q[n + i]
    <3>1. m <= Len(q)
      OBVIOUS
    <3>2. IsCut(E, q, n, m, Cut(q, n, m))
      BY <3>1, CutTyped, Zenon
    <3> QED
      BY <3>2 DEF IsCut
  <2> HIDE DEF c
  <2> QED
    BY <2>1
<1> HIDE DEF c
<1>2. s \o c \in Seq(E) /\ Len(s \o c) = m
  <2>1. c \in Seq(E) /\ Len(c) = m - n
    BY <1>1
  <2>2. s \o c \in Seq(E) /\ Len(s \o c) = Len(s) + Len(c)
    BY <2>1
  <2>3. Len(s) + Len(c) = m
    BY <2>1
  <2> QED
    BY <2>2, <2>3, Zenon
<1>3. ASSUME NEW i \in 1..m
      PROVE  (s \o c)[i] = IF i <= n THEN s[i] ELSE q[i]
  <2>1. CASE i <= n
    BY <1>1, <2>1
  <2>2. CASE ~(i <= n)
    <3>1. i - n \in 1..(m - n) /\ n + (i - n) = i
      BY <2>2
    <3>2. (s \o c)[i] = c[i - n]
      BY <1>1, <2>2
    <3> QED
      BY <1>1, <2>2, <3>1, <3>2
  <2> QED
    BY <2>1, <2>2
<1> QED
  BY <1>2, <1>3 DEF c, Joined

(* A start of a sequence.                                                    *)
LEMMA Starts ==
  ASSUME NEW E, NEW s \in Seq(E), NEW n \in Nat, n <= Len(s)
  PROVE  /\ Cut(s, 0, n) \in Seq(E) /\ Len(Cut(s, 0, n)) = n
         /\ \A i \in 1..n : Cut(s, 0, n)[i] = s[i]
<1> DEFINE c == Cut(s, 0, n)
<1>1. /\ c \in Seq(E) /\ Len(c) = IF 0 <= n THEN n - 0 ELSE 0
      /\ \A i \in 1..(n - 0) : c[i] = s[0 + i]
  <2>1. 0 \in Nat
    OBVIOUS
  <2>2. IsCut(E, s, 0, n, Cut(s, 0, n))
    BY <2>1, CutTyped, Zenon
  <2> QED
    BY <2>2, Zenon DEF IsCut
<1> HIDE DEF c
<1>2. /\ c \in Seq(E) /\ Len(c) = n
      /\ \A i \in 1..n : c[i] = s[i]
  BY <1>1
<1> QED
  BY <1>2 DEF c

(* Two positions in it.                                                      *)
LEMMA CutsTyped ==
  ASSUME NEW E, NEW s \in Seq(E), NEW c \in Cuts(s)
  PROVE  c \in Seq(E) /\ Len(c) < Len(s)
<1>1. PICK a \in Positions(s), b \in Positions(s) : c = Cut(s, a, b)
  BY DEF Cuts
<1>2. a \in Nat /\ b \in Nat /\ b < Len(s) /\ Len(s) \in Nat
  BY DEF Positions
<1>3. c \in Seq(E) /\ Len(c) = IF a <= b THEN b - a ELSE 0
  <2>1. b <= Len(s)
    BY <1>2
  <2>2. IsCut(E, s, a, b, Cut(s, a, b))
    BY <1>2, <2>1, CutTyped, Zenon
  <2> QED
    BY <1>1, <2>2, Zenon DEF IsCut
<1> QED
  BY <1>2, <1>3

(* The arrays and strings below a length are the sequences below it.         *)
LEMMA SomeSequencesAre ==
  ASSUME NEW max \in Nat \ {0}
  PROVE  \A s : s \in SomeSequences(max) <=> s \in Seq(Elements) /\ Len(s) < max
<1>1. ASSUME NEW s \in SomeSequences(max)
      PROVE  s \in Seq(Elements) /\ Len(s) < max
  <2>1. PICK n \in 0..(max - 1) : s \in [1..n -> Elements]
    BY DEF SomeSequences
  <2>2. s \in Seq(Elements) /\ Len(s) = n
    BY <2>1, SeqDef
  <2> QED
    BY <2>1, <2>2
<1>2. ASSUME NEW s \in Seq(Elements), Len(s) < max
      PROVE  s \in SomeSequences(max)
  <2>1. Len(s) \in 0..(max - 1) /\ s \in [1..Len(s) -> Elements]
    BY <1>2
  <2> QED
    BY <2>1 DEF SomeSequences
<1> QED
  BY <1>1, <1>2

(* Arrays are sequences below the greatest size, the empty one among them,   *)
(* and null is none.                                                         *)
LEMMA Arrays ==
  /\ \A s : s \in ArrayRandom <=> s \in Seq(Elements) /\ Len(s) < ArrayMaxSize
  /\ StringRandom \subseteq Seq(Elements)
  /\ <<>> \in ArrayRandom
  /\ Null \notin Seq(Elements)
  /\ ArrayMaxSize \in Nat \ {0} /\ StringMaxSize \in Nat \ {0}
<1>1. ArrayMaxSize \in Nat \ {0} /\ StringMaxSize \in Nat \ {0} /\ Null \notin Seq(Elements)
  BY SizeAssumption
<1>2. \A s : s \in ArrayRandom <=> s \in Seq(Elements) /\ Len(s) < ArrayMaxSize
  BY <1>1, SomeSequencesAre DEF ArrayRandom
<1>3. StringRandom \subseteq Seq(Elements)
  BY <1>1, SomeSequencesAre DEF StringRandom
<1>4. <<>> \in Seq(Elements) /\ Len(<<>>) < ArrayMaxSize
  BY <1>1
<1> QED
  BY <1>1, <1>2, <1>3, <1>4

(* One element replaced.                                                     *)
LEMMA NeighborsTyped ==
  ASSUME NEW s \in Seq(Elements), NEW r \in Neighbors(s)
  PROVE  r \in Seq(Elements) /\ Len(r) = Len(s)
<1>1. PICK i \in DOMAIN s, e \in Elements : r = [s EXCEPT ![i] = e]
  BY DEF Neighbors
<1> QED
  BY <1>1

(* Of two parents one is the longer.                                         *)
LEMMA Lengths ==
  ASSUME NEW p \in Seq(Elements), NEW q \in Seq(Elements)
  PROVE  /\ Longest(p, q) \in Seq(Elements) /\ Shortest(p, q) \in Seq(Elements)
         /\ Len(Shortest(p, q)) <= Len(Longest(p, q))
         /\ \/ Longest(p, q) = p /\ Shortest(p, q) = q
            \/ Longest(p, q) = q /\ Shortest(p, q) = p
         /\ Len(Shortest(p, q)) <= Len(p) /\ Len(Shortest(p, q)) <= Len(q)
<1>1. Len(p) \in Nat /\ Len(q) \in Nat
  OBVIOUS
<1>2. CASE Len(p) > Len(q)
  BY <1>1, <1>2 DEF Longest, Shortest
<1>3. CASE ~(Len(p) > Len(q))
  BY <1>1, <1>3 DEF Longest, Shortest
<1> QED
  BY <1>2, <1>3

(* At positions of the shorter parent, the longer one takes its elements.    *)
LEMMA OverlayTyped ==
  ASSUME NEW long \in Seq(Elements), NEW short \in Seq(Elements), Len(short) <= Len(long),
         NEW f, f \subseteq DOMAIN short
  PROVE  /\ Overlay(long, short, f) \in Seq(Elements)
         /\ Len(Overlay(long, short, f)) = Len(long)
         /\ \A i \in 1..Len(long) :
              Overlay(long, short, f)[i] = IF i \in f THEN short[i] ELSE long[i]
<1>1. Len(long) \in Nat /\ DOMAIN long = 1..Len(long) /\ DOMAIN short = 1..Len(short)
  OBVIOUS
<1>2. Overlay(long, short, f) = [i \in 1..Len(long) |-> IF i \in f THEN short[i] ELSE long[i]]
  BY <1>1 DEF Overlay
<1>3. \A i \in 1..Len(long) : (IF i \in f THEN short[i] ELSE long[i]) \in Elements
  BY <1>1
<1>4. Overlay(long, short, f) \in [1..Len(long) -> Elements]
  BY <1>2, <1>3
<1>5. Overlay(long, short, f) \in Seq(Elements) /\ Len(Overlay(long, short, f)) = Len(long)
  BY <1>1, <1>4, SeqDef
<1> QED
  BY <1>2, <1>5

(* A child is as the crossovers that keep positions make it: no longer than  *)
(* the longer parent, each element from a parent.                            *)
Child(child, p, q) ==
    /\ child \in Seq(Elements) /\ (Len(child) <= Len(p) \/ Len(child) <= Len(q))
    /\ EachFromAParent(child, p, q)

(* Overlays are such children, and so are their starts.                      *)
LEMMA OverlaysAreChildren ==
  ASSUME NEW p \in Seq(Elements), NEW q \in Seq(Elements),
         NEW f, f \subseteq DOMAIN Shortest(p, q),
         NEW n \in Nat, n <= Len(Longest(p, q))
  PROVE  /\ Child(Overlay(Longest(p, q), Shortest(p, q), f), p, q)
         /\ Child(Cut(Overlay(Longest(p, q), Shortest(p, q), f), 0, n), p, q)
<1> DEFINE long == Longest(p, q)
           short == Shortest(p, q)
           r == Overlay(long, short, f)
           c == Cut(r, 0, n)
<1>1. /\ long \in Seq(Elements) /\ short \in Seq(Elements) /\ Len(short) <= Len(long)
      /\ (long = p /\ short = q) \/ (long = q /\ short = p)
  BY Lengths
<1>2. f \subseteq DOMAIN short /\ n <= Len(long)
  OBVIOUS
<1> HIDE DEF long, short
<1>3. /\ r \in Seq(Elements) /\ Len(r) = Len(long)
      /\ \A i \in 1..Len(long) : r[i] = IF i \in f THEN short[i] ELSE long[i]
  BY <1>1, <1>2, OverlayTyped
<1> HIDE DEF r
<1>4. c \in Seq(Elements) /\ Len(c) = n /\ \A i \in 1..n : c[i] = r[i]
  <2>1. n <= Len(r)
    BY <1>2, <1>3
  <2> QED
    BY <1>3, <2>1, Starts
<1> HIDE DEF c
<1>5. ASSUME NEW child \in {r, c}, NEW i \in DOMAIN child
      PROVE  (i \in DOMAIN long /\ child[i] = long[i]) \/ (i \in DOMAIN short /\ child[i] = short[i])
  <2>1. i \in 1..Len(long) /\ child[i] = r[i]
    BY <1>1, <1>2, <1>3, <1>4
  <2>2. i \in DOMAIN long /\ DOMAIN long = 1..Len(long)
    BY <1>1, <2>1
  <2> QED
    BY <1>2, <1>3, <2>1, <2>2
<1>6. Len(r) <= Len(long) /\ Len(c) <= Len(long) /\ long \in {p, q}
  BY <1>1, <1>2, <1>3, <1>4
<1>7. ASSUME NEW child \in {r, c}
      PROVE  Child(child, p, q)
  <2>1. EachFromAParent(child, p, q)
    BY <1>1, <1>5 DEF EachFromAParent
  <2>2. child \in Seq(Elements) /\ (Len(child) <= Len(p) \/ Len(child) <= Len(q))
    BY <1>3, <1>4, <1>6
  <2> QED
    BY <2>1, <2>2 DEF Child
<1> QED
  BY <1>7 DEF c, r, long, short

(* With a parent empty the other one is the child.                           *)
LEMMA OtherIsChild ==
  ASSUME NEW p \in Seq(Elements), NEW q \in Seq(Elements)
  PROVE  Child(OtherParent(p, q), p, q)
<1>1. Null \notin Seq(Elements)
  BY SizeAssumption
<1>2. OtherParent(p, q) \in {p, q}
  BY DEF OtherParent
<1>3. Len(p) \in Nat /\ Len(q) \in Nat
  OBVIOUS
<1>4. Child(p, p, q) /\ Child(q, p, q)
  BY <1>3 DEF Child, EachFromAParent
<1> QED
  BY <1>2, <1>4

(* Positions of a parent are not beyond its end.                             *)
LEMMA PositionsOf ==
  ASSUME NEW s \in Seq(Elements), NEW a \in Positions(s)
  PROVE  a \in Nat /\ a < Len(s) /\ a <= Len(s) /\ a + 1 <= Len(s)
BY DEF Positions

(* Every crossover of arrays keeps positions (ArrayGenerator.java).          *)
LEMMA ArrayChildrenAre ==
  ASSUME NEW p \in Seq(Elements), NEW q \in Seq(Elements), NEW r \in ArrayChildren(p, q)
  PROVE  Child(r, p, q)
<1> DEFINE long == Longest(p, q)
           short == Shortest(p, q)
           average == (Len(long) + Len(short)) \div 2
           length == IF average < ArrayMaxSize THEN average ELSE ArrayMaxSize
<1>1. long \in Seq(Elements) /\ short \in Seq(Elements) /\ Len(short) <= Len(long)
  BY Lengths
<1>2. Null \notin {p, q}
  BY SizeAssumption
<1>3. \/ r = OtherParent(p, q)
      \/ r \in ArraySinglePoint(long, short)
      \/ r \in ArrayTwoPoint(long, short)
      \/ r \in ArrayUniform(long, short)
      \/ r \in ArrayArithmetic(long, short)
  BY <1>2 DEF ArrayChildren
<1>4. \A n \in Nat : n <= Len(short) => 1..n \subseteq DOMAIN short
  BY <1>1
<1>5. ASSUME NEW f, f \subseteq DOMAIN short
      PROVE  Child(Overlay(long, short, f), p, q)
  <2>1. 0 \in Nat /\ 0 <= Len(long)
    BY <1>1
  <2> QED
    BY <1>5, <2>1, OverlaysAreChildren
<1>6. CASE r = OtherParent(p, q)
  BY <1>6, OtherIsChild
<1>7. CASE r \in ArraySinglePoint(long, short)
  <2>1. PICK a \in Positions(short) : r = Overlay(long, short, 1..a)
    BY <1>7 DEF ArraySinglePoint, Overlays
  <2>2. 1..a \subseteq DOMAIN short
    BY <1>1, <1>4, PositionsOf
  <2> QED
    BY <1>5, <2>1, <2>2
<1>8. CASE r \in ArrayTwoPoint(long, short)
  <2>1. PICK a \in Positions(short), b \in Positions(short) : r = Overlay(long, short, (a + 1)..b)
    BY <1>8 DEF ArrayTwoPoint, Overlays
  <2>2. a \in Nat /\ b \in Nat /\ b <= Len(short)
    BY <1>1, PositionsOf
  <2>3. (a + 1)..b \subseteq 1..b /\ 1..b \subseteq DOMAIN short
    BY <1>4, <2>2
  <2> QED
    BY <1>5, <2>1, <2>3
<1>9. CASE r \in ArrayUniform(long, short)
  <2>1. PICK f \in SUBSET DOMAIN short : r = Overlay(long, short, f)
    BY <1>9 DEF ArrayUniform, Overlays
  <2> QED
    BY <1>5, <2>1
<1>10. CASE r \in ArrayArithmetic(long, short)
  <2>1. r = Cut(Overlay(long, short, DOMAIN short), 0, length)
    BY <1>10 DEF ArrayArithmetic
  <2>2. length \in Nat /\ length <= Len(long)
    <3>1. Len(long) \in Nat /\ Len(short) \in Nat /\ Len(short) <= Len(long)
      BY <1>1
    <3> HIDE DEF long, short
    <3>2. average \in Nat /\ average <= Len(long)
      BY <3>1
    <3> HIDE DEF average
    <3> QED
      BY <3>1, <3>2, SizeAssumption
  <2> HIDE DEF length
  <2> QED
    BY <2>1, <2>2, OverlaysAreChildren
<1> QED
  BY <1>3, <1>6, <1>7, <1>8, <1>9, <1>10

(* So do those of strings, but the arithmetic one (StringGenerator.java).    *)
LEMMA StringChildrenAre ==
  ASSUME NEW p \in Seq(Elements), NEW q \in Seq(Elements),
         NEW r \in StringSinglePoint(p, q) \union StringTwoPoint(p, q) \union StringUniform(p, q)
  PROVE  Child(r, p, q)
<1> DEFINE short == Shortest(p, q)
<1>1. /\ short \in Seq(Elements) /\ Len(short) <= Len(p) /\ Len(short) <= Len(q)
      /\ Len(short) \in Nat /\ Len(p) \in Nat /\ Len(q) \in Nat
      /\ DOMAIN p = 1..Len(p) /\ DOMAIN q = 1..Len(q)
  BY Lengths
<1>2. CASE r \in StringSinglePoint(p, q)
  <2>1. PICK a \in Positions(short) : r = Cut(p, 0, a) \o Cut(q, a, Len(q))
    BY <1>2 DEF StringSinglePoint
  <2>2. a \in Nat /\ a <= Len(short)
    BY <1>1, PositionsOf
  <2> HIDE DEF short
  <2>3. a \in Nat /\ a <= Len(p) /\ a <= Len(q)
    BY <1>1, <2>2
  <2> DEFINE front == Cut(p, 0, a)
  <2>4. front \in Seq(Elements) /\ Len(front) = a /\ \A i \in 1..a : front[i] = p[i]
    BY <2>3, Starts
  <2> HIDE DEF front
  <2>5. /\ front \o Cut(q, a, Len(q)) \in Seq(Elements)
        /\ Joined(front \o Cut(q, a, Len(q)), front, q, a, Len(q))
    <3>1. Len(q) <= Len(q)
      BY <1>1
    <3> QED
      BY <1>1, <2>3, <2>4, <3>1, Follows, Zenon
  <2>6. /\ r \in Seq(Elements) /\ Len(r) = Len(q)
        /\ \A i \in 1..Len(q) : r[i] = IF i <= a THEN front[i] ELSE q[i]
    BY <2>1, <2>5 DEF front, Joined
  <2>7. \A i \in DOMAIN r : i \in DOMAIN q /\ (r[i] = q[i] \/ (i \in DOMAIN p /\ r[i] = p[i]))
    <3> SUFFICES ASSUME NEW i \in DOMAIN r
                 PROVE  i \in DOMAIN q /\ (r[i] = q[i] \/ (i \in DOMAIN p /\ r[i] = p[i]))
      OBVIOUS
    <3>1. i \in 1..Len(q) /\ i \in DOMAIN q
      BY <1>1, <2>6
    <3>2. CASE i <= a
      BY <1>1, <2>3, <2>4, <2>6, <3>1, <3>2
    <3>3. CASE ~(i <= a)
      BY <2>6, <3>1, <3>3
    <3> QED
      BY <3>2, <3>3
  <2> QED
    BY <1>1, <2>6, <2>7 DEF Child, EachFromAParent
<1>3. CASE r \in StringTwoPoint(p, q)
  <2>1. PICK a \in Positions(short), b \in Positions(short) :
          a <= b /\ r = Cut(p, 0, a) \o Cut(q, a, b) \o Cut(p, b, Len(p))
    BY <1>3 DEF StringTwoPoint
  <2>2. a \in Nat /\ b \in Nat /\ b <= Len(short)
    BY <1>1, PositionsOf
  <2> HIDE DEF short
  <2>3. a \in Nat /\ b \in Nat /\ a <= b /\ a <= Len(p) /\ b <= Len(p) /\ b <= Len(q)
    BY <1>1, <2>1, <2>2
  <2> DEFINE front == Cut(p, 0, a)
             start == front \o Cut(q, a, b)
  <2>4. front \in Seq(Elements) /\ Len(front) = a /\ \A i \in 1..a : front[i] = p[i]
    BY <2>3, Starts
  <2> HIDE DEF front
  <2>5. /\ start \in Seq(Elements) /\ Len(start) = b
        /\ \A i \in 1..b : start[i] = IF i <= a THEN front[i] ELSE q[i]
    <3>1. start \in Seq(Elements) /\ Joined(start, front, q, a, b)
      BY <2>3, <2>4, Follows, Zenon
    <3> HIDE DEF start
    <3> QED
      BY <3>1 DEF Joined
  <2> HIDE DEF start
  <2>6. /\ start \o Cut(p, b, Len(p)) \in Seq(Elements)
        /\ Joined(start \o Cut(p, b, Len(p)), start, p, b, Len(p))
    <3>1. Len(p) <= Len(p)
      BY <1>1
    <3> QED
      BY <1>1, <2>3, <2>5, <3>1, Follows, Zenon
  <2>7. /\ r \in Seq(Elements) /\ Len(r) = Len(p)
        /\ \A i \in 1..Len(p) : r[i] = IF i <= b THEN start[i] ELSE p[i]
    BY <2>1, <2>6 DEF front, start, Joined
  <2>8. \A i \in DOMAIN r : i \in DOMAIN p /\ (r[i] = p[i] \/ (i \in DOMAIN q /\ r[i] = q[i]))
    <3> SUFFICES ASSUME NEW i \in DOMAIN r
                 PROVE  i \in DOMAIN p /\ (r[i] = p[i] \/ (i \in DOMAIN q /\ r[i] = q[i]))
      OBVIOUS
    <3>1. i \in 1..Len(p) /\ i \in DOMAIN p
      BY <1>1, <2>7
    <3>2. CASE i <= a
      <4>1. i \in 1..a /\ i \in 1..b
        BY <2>3, <3>1, <3>2
      <4>2. r[i] = start[i] /\ start[i] = front[i] /\ front[i] = p[i]
        BY <2>4, <2>5, <2>7, <3>1, <3>2, <4>1
      <4> QED
        BY <3>1, <4>2
    <3>3. CASE ~(i <= a) /\ i <= b
      <4>1. i \in 1..b /\ i \in DOMAIN q
        BY <1>1, <2>3, <3>1, <3>3
      <4>2. r[i] = start[i] /\ start[i] = q[i]
        BY <2>5, <2>7, <3>1, <3>3, <4>1
      <4> QED
        BY <3>1, <4>1, <4>2
    <3>4. CASE ~(i <= b)
      BY <2>7, <3>1, <3>4
    <3> QED
      BY <2>3, <3>2, <3>3, <3>4
  <2> QED
    BY <1>1, <2>7, <2>8 DEF Child, EachFromAParent
<1>4. CASE r \in StringUniform(p, q)
  <2>1. PICK f \in SUBSET DOMAIN short : r = Overlay(Longest(p, q), short, f)
    BY <1>4 DEF StringUniform, Overlays
  <2>2. 0 \in Nat /\ 0 <= Len(Longest(p, q))
    BY Lengths
  <2> QED
    BY <2>1, <2>2, OverlaysAreChildren
<1> QED
  BY <1>2, <1>3, <1>4
-----------------------------------------------------------------------------
(* What each generator makes, and null, or no parameters, where it has none. *)
Made(k) ==
    CASE k = "array" -> ArrayRandom \union {Null}
      [] k = "string" -> Seq(Elements) \union {Null}
      [] k = "parameters" -> Rows \union {Absent}
      [] OTHER -> WordsOf(k)

(* The caller of a generator has two values that it makes.                   *)
GInv == kind \in Kinds /\ values \in [1..2 -> Made(kind)]

(* The generators: the eight of primitive types and three more.              *)
LEMMA KindsAre ==
  ASSUME NEW k \in Kinds
  PROVE  \/ /\ k \in DOMAIN Build /\ k \notin {"array", "string", "parameters"}
            /\ Made(k) = WordsOf(k)
         \/ k = "array" /\ k \notin DOMAIN Build /\ Made(k) = ArrayRandom \union {Null}
         \/ k = "string" /\ k \notin DOMAIN Build /\ Made(k) = Seq(Elements) \union {Null}
         \/ k = "parameters" /\ k \notin DOMAIN Build /\ Made(k) = Rows \union {Absent}
<1>1. {"array", "string", "parameters"} \cap DOMAIN Build = {}
  BY DEF Build
<1>2. CASE k \in DOMAIN Build
  BY <1>1, <1>2 DEF Made
<1>3. CASE k = "array"
  BY <1>1, <1>3 DEF Made
<1>4. CASE k = "string"
  BY <1>1, <1>4 DEF Made
<1>5. CASE k = "parameters"
  BY <1>1, <1>5 DEF Made
<1> QED
  BY <1>2, <1>3, <1>4, <1>5 DEF Kinds

(* What a generator draws is its own.                                        *)
LEMMA DrawnMade ==
  ASSUME NEW k \in Kinds, NEW v \in Drawn(k), Kept(k, v)
  PROVE  v \in Made(k)
<1>1. CASE k \in DOMAIN Build /\ k \notin {"array", "string", "parameters"} /\ Made(k) = WordsOf(k)
  <2>1. v \in Build[k].random
    BY <1>1 DEF Drawn
  <2> QED
    BY <1>1, <2>1, BuildGenerates DEF Generates
<1>2. CASE k = "array" /\ Made(k) = ArrayRandom \union {Null}
  BY <1>2 DEF Drawn
<1>3. CASE k = "string" /\ Made(k) = Seq(Elements) \union {Null}
  BY <1>3, Arrays DEF Drawn
<1>4. CASE k = "parameters" /\ Made(k) = Rows \union {Absent}
  BY <1>4, DrawnRows DEF Drawn
<1> QED
  BY <1>1, <1>2, <1>3, <1>4, KindsAre

(* Mutation of an array gives an array or null (ArrayGenerator.java).        *)
LEMMA ArrayMutants ==
  ASSUME NEW s \in ArrayRandom \union {Null}, NEW r \in ArrayMutations(s)
  PROVE  r \in ArrayRandom \union {Null}
<1>1. CASE s = Null \/ s = <<>>
  BY <1>1 DEF ArrayMutations
<1>2. CASE s # Null /\ s # <<>>
  <2>1. s \in Seq(Elements) /\ Len(s) < ArrayMaxSize /\ Len(s) \in Nat
    BY <1>2, Arrays
  <2>2. r \in ArrayKnown \union Neighbors(s) \union ArrayGrown(s) \union Cuts(s)
    BY <1>2 DEF ArrayMutations, ArrayInverse
  <2>3. CASE r \in ArrayKnown \union ArrayGrown(s)
    BY <2>3, Arrays DEF ArrayKnown, ArrayGrown
  <2>4. CASE r \in Neighbors(s)
    <3>1. r \in Seq(Elements) /\ Len(r) = Len(s)
      BY <2>1, <2>4, NeighborsTyped
    <3> QED
      BY <2>1, <3>1, Arrays
  <2>5. CASE r \in Cuts(s)
    <3>1. r \in Seq(Elements) /\ Len(r) < Len(s) /\ Len(r) \in Nat
      BY <2>1, <2>5, CutsTyped
    <3>2. Len(r) < ArrayMaxSize
      BY <2>1, <3>1, Arrays
    <3> QED
      BY <3>1, <3>2, Arrays
  <2> QED
    BY <2>2, <2>3, <2>4, <2>5
<1> QED
  BY <1>1, <1>2

(* Mutation of a string gives a string or null (StringGenerator.java).       *)
LEMMA StringMutants ==
  ASSUME NEW s \in Seq(Elements) \union {Null}, NEW r \in StringMutations(s)
  PROVE  r \in Seq(Elements) \union {Null}
<1>1. CASE s = Null \/ s = <<>>
  BY <1>1, Arrays DEF StringMutations
<1>2. CASE s # Null /\ s # <<>>
  <2>1. s \in Seq(Elements)
    BY <1>2
  <2>2. \/ r \in KnownValues
        \/ r \in Neighbors(s)
        \/ r \in {s \o t : t \in StringRandom}
        \/ \E t \in {s} \union {s \o t : t \in StringRandom} : r \in Cuts(t)
    BY <1>2 DEF StringMutations, StringInverse
  <2>3. \A t \in {s} \union {s \o t : t \in StringRandom} : t \in Seq(Elements)
    <3>1. \A t \in StringRandom : s \o t \in Seq(Elements)
      BY <2>1, Arrays
    <3> QED
      BY <2>1, <3>1
  <2>4. CASE r \in KnownValues
    BY <2>4, SizeAssumption
  <2>5. CASE r \in Neighbors(s)
    BY <2>1, <2>5, NeighborsTyped
  <2>6. CASE r \in {s \o t : t \in StringRandom}
    BY <2>3, <2>6
  <2>7. CASE \E t \in {s} \union {s \o t : t \in StringRandom} : r \in Cuts(t)
    BY <2>3, <2>7, CutsTyped
  <2> QED
    BY <2>2, <2>4, <2>5, <2>6, <2>7
<1> QED
  BY <1>1, <1>2

(* What a generator makes by mutation of its own is its own.                 *)
LEMMA MutantsMade ==
  ASSUME NEW k \in Kinds, NEW w \in Made(k), NEW v \in Mutants(k, w), Kept(k, v)
  PROVE  v \in Made(k)
<1>1. CASE k \in DOMAIN Build /\ k \notin {"array", "string", "parameters"} /\ Made(k) = WordsOf(k)
  <2>1. v \in Build[k].bound \union Build[k].inverse[w] \union Build[k].delta[w]
    BY <1>1 DEF Mutants, Mutations
  <2> QED
    BY <1>1, <2>1, BuildGenerates DEF Generates
<1>2. CASE k = "array" /\ Made(k) = ArrayRandom \union {Null}
  BY <1>2, ArrayMutants DEF Mutants
<1>3. CASE k = "string" /\ Made(k) = Seq(Elements) \union {Null}
  BY <1>3, StringMutants DEF Mutants
<1>4. CASE k = "parameters" /\ Made(k) = Rows \union {Absent}
  <2>1. v # Throws
    BY <1>4 DEF Kept
  <2> QED
    BY <1>4, <2>1, MutantRows DEF Mutants
<1> QED
  BY <1>1, <1>2, <1>3, <1>4, KindsAre

(* A crossover of arrays gives an array or null.                             *)
LEMMA ArrayOffspring ==
  ASSUME NEW p \in ArrayRandom \union {Null}, NEW q \in ArrayRandom \union {Null},
         NEW r \in ArrayChildren(p, q)
  PROVE  r \in ArrayRandom \union {Null}
<1>1. CASE p = Null \/ q = Null
  BY <1>1 DEF ArrayChildren, OtherParent
<1>2. CASE p # Null /\ q # Null
  <2>1. /\ p \in Seq(Elements) /\ Len(p) < ArrayMaxSize
        /\ q \in Seq(Elements) /\ Len(q) < ArrayMaxSize
    BY <1>2, Arrays
  <2>2. r \in Seq(Elements) /\ (Len(r) <= Len(p) \/ Len(r) <= Len(q))
    BY <2>1, ArrayChildrenAre DEF Child
  <2>3. Len(r) < ArrayMaxSize
    <3>1. Len(r) \in Nat /\ Len(p) \in Nat /\ Len(q) \in Nat /\ ArrayMaxSize \in Nat
      BY <2>1, <2>2, Arrays
    <3> QED
      BY <2>1, <2>2, <3>1
  <2> QED
    BY <2>2, <2>3, Arrays
<1> QED
  BY <1>1, <1>2

(* A crossover of strings gives a string or null.                            *)
LEMMA StringOffspring ==
  ASSUME NEW p \in Seq(Elements) \union {Null}, NEW q \in Seq(Elements) \union {Null},
         NEW r \in StringChildren(p, q)
  PROVE  r \in Seq(Elements) \union {Null}
<1>1. CASE p = Null \/ q = Null
  BY <1>1 DEF StringChildren, OtherParent
<1>2. CASE p # Null /\ q # Null
  <2>1. p \in Seq(Elements) /\ q \in Seq(Elements)
    BY <1>2
  <2>2. \/ r = OtherParent(p, q)
        \/ r \in StringSinglePoint(p, q) \union StringTwoPoint(p, q) \union StringUniform(p, q)
        \/ r \in StringArithmetic(p, q)
    BY <1>2 DEF StringChildren
  <2>3. CASE r \in StringArithmetic(p, q)
    <3> DEFINE both == p \o q
               middle == (Len(p) + Len(q)) \div 2
               half == Cut(both, middle, Len(both))
    <3>1. both \in Seq(Elements) /\ Len(both) = Len(p) + Len(q) /\ Len(both) \in Nat
      BY <2>1
    <3>2. middle \in Nat
      <4>1. Len(p) + Len(q) \in Nat
        BY <2>1
      <4> QED
        BY <4>1
    <3>3. r \in {half, Cut(half, 0, StringMaxSize)} /\ (r # half => StringMaxSize < Len(half))
      BY <2>3, Arrays DEF StringArithmetic
    <3> HIDE DEF both, middle
    <3>4. half \in Seq(Elements)
      <4>1. Len(both) <= Len(both)
        BY <3>1
      <4>2. Len(both) \in Nat
        BY <3>1
      <4>3. IsCut(Elements, both, middle, Len(both), half)
        BY <3>1, <3>2, <4>1, <4>2, CutTyped, Zenon
      <4> QED
        BY <4>3, Zenon DEF IsCut
    <3> HIDE DEF half
    <3>5. StringMaxSize <= Len(half) => Cut(half, 0, StringMaxSize) \in Seq(Elements)
      BY <3>4, Starts, Arrays
    <3> QED
      BY <3>3, <3>4, <3>5, Arrays
  <2> QED
    BY <2>1, <2>2, <2>3, OtherIsChild, StringChildrenAre DEF Child
<1> QED
  BY <1>1, <1>2

(* What a generator makes by crossover of its own is its own.                *)
LEMMA OffspringMade ==
  ASSUME NEW k \in Kinds, NEW p \in Made(k), NEW q \in Made(k), NEW v \in Offspring(k, p, q),
         Kept(k, v)
  PROVE  v \in Made(k)
<1>1. CASE k \in DOMAIN Build /\ k \notin {"array", "string", "parameters"} /\ Made(k) = WordsOf(k)
  <2>1. v \in Build[k].single[<<p, q>>] \union Build[k].uniform[<<p, q>>]
    BY <1>1 DEF Offspring, Children
  <2>2. Build[k].single[<<p, q>>] \subseteq Made(k) /\ Build[k].uniform[<<p, q>>] \subseteq Made(k)
    BY <1>1, BuildGenerates DEF Generates
  <2> QED
    BY <2>1, <2>2
<1>2. CASE k = "array" /\ Made(k) = ArrayRandom \union {Null}
  BY <1>2, ArrayOffspring DEF Offspring
<1>3. CASE k = "string" /\ Made(k) = Seq(Elements) \union {Null}
  BY <1>3, StringOffspring DEF Offspring
<1>4. CASE k = "parameters" /\ Made(k) = Rows \union {Absent}
  <2>1. v # Throws
    BY <1>4 DEF Kept
  <2> QED
    BY <1>4, <2>1, OffspringRows DEF Offspring
<1> QED
  BY <1>1, <1>2, <1>3, <1>4, KindsAre

(* It starts with none; a word of no bits is one of each primitive type.     *)
LEMMA GInitInv == GInit => GInv
<1> SUFFICES ASSUME GInit PROVE GInv
  OBVIOUS
<1>1. kind \in Kinds /\ values = [i \in 1..2 |-> Start(kind)]
  BY DEF GInit
<1>2. Start(kind) \in Made(kind)
  <2>1. kind \in DOMAIN Build => {} \in WordsOf(kind)
    BY DEF WordsOf, Words, BooleanWords
  <2> QED
    BY <1>1, <2>1, KindsAre DEF Start
<1> QED
  BY <1>1, <1>2 DEF GInv

(* One of its two is replaced by a result.                                   *)
LEMMA KeepKeeps ==
  ASSUME GInv, NEW i \in 1..2, NEW results, Keep(i, results),
         \A r \in results : Kept(kind, r) => r \in Made(kind)
  PROVE  GInv'
<1>1. PICK v \in results : Kept(kind, v) /\ values' = [values EXCEPT ![i] = v] /\ kind' = kind
  BY DEF Keep
<1>2. v \in Made(kind) /\ values \in [1..2 -> Made(kind)] /\ kind \in Kinds
  BY <1>1 DEF GInv
<1>3. values' \in [1..2 -> Made(kind)]
  BY <1>1, <1>2
<1> QED
  BY <1>1, <1>2, <1>3 DEF GInv

(* Each operation keeps what the caller has.                                 *)
LEMMA GNextKeeps == GInv /\ [GNext]_gvars => GInv'
<1> SUFFICES ASSUME GInv, [GNext]_gvars PROVE GInv'
  OBVIOUS
<1>1. kind \in Kinds /\ \A i \in 1..2 : values[i] \in Made(kind)
  BY DEF GInv
<1>2. ASSUME NEW i \in 1..2, CallRandom(i)
      PROVE  GInv'
  BY <1>1, <1>2, DrawnMade, KeepKeeps DEF CallRandom
<1>3. ASSUME NEW i \in 1..2, CallMutate(i)
      PROVE  GInv'
  BY <1>1, <1>3, MutantsMade, KeepKeeps DEF CallMutate
<1>4. ASSUME NEW i \in 1..2, CallCrossover(i)
      PROVE  GInv'
  BY <1>1, <1>4, OffspringMade, KeepKeeps DEF CallCrossover
<1>5. CASE UNCHANGED gvars
  BY <1>5 DEF gvars, GInv
<1> QED
  BY <1>2, <1>3, <1>4, <1>5 DEF GNext

(* The values a caller has are always ones its generator makes.              *)
LEMMA OwnValues == GSpec => []GInv
BY GInitInv, GNextKeeps, PTL DEF GSpec


(* Rows have the lengths of ParametersRepaired, and what mutation makes of   *)
(* them is what it says.                                                     *)
LEMMA RowsRepaired == GInv => ParametersRepaired
<1> SUFFICES ASSUME GInv, kind = "parameters", NEW i \in 1..2, values[i] # Absent
             PROVE  /\ Len(values[i]) \in Len(Types)..(2 * Len(Types))
                    /\ \A r \in ParametersMutations(Types, values[i]) :
                         IF r = Throws THEN \E j \in DOMAIN Types : ~Fits(Types[j], values[i][j])
                         ELSE Len(r) = Len(Types)
  BY DEF ParametersRepaired
<1>1. values[i] \in Rows
  <2>1. kind \in Kinds /\ values[i] \in Made(kind)
    BY DEF GInv
  <2> QED
    BY <2>1, KindsAre
<1>2. Len(values[i]) \in N..(2 * N)
  BY <1>1, RowSlots, TypesFacts DEF Rows
<1>3. ASSUME NEW r \in ParametersMutations(Types, values[i])
      PROVE  IF r = Throws THEN \E j \in DOMAIN Types : ~Fits(Types[j], values[i][j])
             ELSE Len(r) = N
  <2>1. \/ r \in [DOMAIN Types -> Classes]
        \/ r = Throws /\ ~AllFit(Types, values[i])
    BY <1>1, <1>3, RowSlots, TypesFacts, MutationsTyped
  <2>2. CASE r \in [DOMAIN Types -> Classes]
    <3>1. r \in Seq(Classes) /\ Len(r) = N
      BY <2>2, SlotsAreRow
    <3> QED
      BY <3>1, TypesFacts
  <2>3. CASE r = Throws /\ ~AllFit(Types, values[i])
    BY <2>3 DEF AllFit
  <2> QED
    BY <2>1, <2>2, <2>3
<1> QED
  BY <1>2, <1>3 DEF N

(* A generator of parameters fed with what it made never gives more than     *)
(* twice too many, and its mutants have the right number and throw only over *)
(* what does not fit (ParametersGenerator.java:67-210).                      *)
THEOREM NeverFarTooMany == GSpec => []ParametersRepaired
BY OwnValues, RowsRepaired, PTL

(* They are of its type.                                                     *)
LEMMA OwnValuesValid == GInv => GTypeOK
<1> SUFFICES ASSUME GInv, NEW i \in 1..2 PROVE Valid(kind, values[i])
  BY DEF GTypeOK, GInv
<1>1. values[i] \in Made(kind) /\ kind \in Kinds
  BY DEF GInv
<1>2. CASE kind \in DOMAIN Build /\ Made(kind) = WordsOf(kind) /\ kind \notin {"array", "string", "parameters"}
  BY <1>1, <1>2 DEF Valid, WordsOf
<1>3. CASE kind = "array" /\ Made(kind) = ArrayRandom \union {Null}
  BY <1>1, <1>3 DEF Valid
<1>4. CASE kind = "string" /\ Made(kind) = Seq(Elements) \union {Null}
  BY <1>1, <1>4 DEF Valid
<1>5. CASE kind = "parameters" /\ Made(kind) = Rows \union {Absent}
  BY <1>1, <1>5 DEF Valid, Rows
<1> QED
  BY <1>1, <1>2, <1>3, <1>4, <1>5, KindsAre

(* In whatever order a generator is asked to draw, mutate and cross what it  *)
(* made before, its results are values of its type, and an array never       *)
(* reaches the greatest size (ArrayGenerator.java, StringGenerator.java and  *)
(* the primitive generators).                                                *)
THEOREM ValuesOfTheirType == GSpec => []GTypeOK
BY OwnValues, OwnValuesValid, PTL

(* Their bits and elements come from the parents.                            *)
LEMMA OwnValuesCross == GInv => ChildrenFromParents
<1> SUFFICES ASSUME GInv PROVE ChildrenFromParents
  OBVIOUS
<1> DEFINE p == values[1]
           q == values[2]
<1>1. p \in Made(kind) /\ q \in Made(kind) /\ kind \in Kinds
  BY DEF GInv
<1> HIDE DEF p, q
<1>2. CASE kind \in DOMAIN Build /\ Made(kind) = WordsOf(kind) /\ kind \notin {"array", "string", "parameters"}
  <2>1. BitsFromParents(Build[kind].uniform[<<p, q>>], p, q)
    BY <1>1, <1>2, BuildGenerates DEF Generates
  <2> QED
    BY <1>2, <2>1 DEF ChildrenFromParents, p, q
<1>3. CASE kind = "array" /\ kind \notin DOMAIN Build /\ Made(kind) = ArrayRandom \union {Null}
  <2>1. ASSUME Null \notin {p, q}, NEW child \in ArrayChildren(p, q)
        PROVE  EachFromAParent(child, p, q)
    <3>1. p \in Seq(Elements) /\ q \in Seq(Elements)
      BY <1>1, <1>3, <2>1, Arrays
    <3> QED
      BY <2>1, <3>1, ArrayChildrenAre DEF Child
  <2> QED
    BY <1>3, <2>1 DEF ChildrenFromParents, p, q
<1>4. CASE kind = "string" /\ kind \notin DOMAIN Build /\ Made(kind) = Seq(Elements) \union {Null}
  <2>1. ASSUME Null \notin {p, q},
               NEW child \in StringSinglePoint(p, q) \union StringTwoPoint(p, q)
                             \union StringUniform(p, q)
        PROVE  EachFromAParent(child, p, q)
    <3>1. p \in Seq(Elements) /\ q \in Seq(Elements)
      BY <1>1, <1>4, <2>1
    <3> QED
      BY <2>1, <3>1, StringChildrenAre DEF Child
  <2> QED
    BY <1>4, <2>1 DEF ChildrenFromParents, p, q
<1>5. CASE kind = "parameters" /\ kind \notin DOMAIN Build
  BY <1>5 DEF ChildrenFromParents
<1> QED
  BY <1>1, <1>2, <1>3, <1>4, <1>5, KindsAre

(* Whatever two values a caller comes to have, each bit of what the uniform  *)
(* crossover of a primitive type makes of them, and each element of what the *)
(* crossovers of arrays and strings that keep positions do, is that of a     *)
(* parent (ValueGenerator.java and the generators).                          *)
THEOREM CrossoverInherits == GSpec => []ChildrenFromParents
BY OwnValues, OwnValuesCross, PTL
-----------------------------------------------------------------------------
(* The first test is still to be made.                                       *)
LEMMA FInitInv == FInit => FInv
<1> SUFFICES ASSUME FInit PROVE FInv
  OBVIOUS
<1>1. Len(TypesOf) \in Nat
  BY FuzzerAssumption
<1>2. FTypeOK
  BY DEF FInit, FTypeOK, FuzzerPC, InHand
<1> QED
  BY <1>1, <1>2 DEF FInit, FInv, FilledInOrder, KeepsFuzzing

(* A test for each method (Fuzzer.java:42-46).                               *)
LEMMA FillKeeps ==
  ASSUME FInv, Fill
  PROVE  FInv'
<1>1. fpc = "fill" /\ queue \in Seq(Tests) /\ Len(queue) <= Len(TypesOf) /\ Len(queue) \in Nat
  BY DEF FInv, FTypeOK, FilledInOrder, Fill
<1>2. \A i \in DOMAIN queue : queue[i].method = i
  BY <1>1 DEF FInv, FilledInOrder
<1>3. Methods = 1..Len(TypesOf) /\ Len(TypesOf) \in Nat
  BY FuzzerAssumption DEF Methods
<1>4. CASE Len(queue) < Len(TypesOf)
  <2> DEFINE m == Len(queue) + 1
  <2>1. PICK p \in ParametersRandom(TypesOf[m]) :
          queue' = Append(queue, [method |-> m, parameters |-> p]) /\ UNCHANGED fpc
    BY <1>4 DEF Fill
  <2>2. m \in Methods
    BY <1>1, <1>3, <1>4
  <2>3. TypesOf[m] \in Seq(TypeNames)
    BY <2>2, FuzzerAssumption DEF Methods
  <2>4. [method |-> m, parameters |-> p] \in Tests
    BY <2>2, <2>3, ParametersRandomFit, TestMade
  <2>5. queue' \in Seq(Tests) /\ Len(queue') = m /\ DOMAIN queue' = 1..m
    BY <1>1, <2>1, <2>4
  <2>6. \A i \in DOMAIN queue' : queue'[i].method = i
    BY <1>1, <1>2, <2>1, <2>5
  <2>7. FTypeOK'
    BY <1>1, <2>1, <2>5 DEF FInv, FTypeOK, Fill, InHand
  <2>8. FilledInOrder'
    BY <1>1, <1>3, <1>4, <2>5, <2>6 DEF FilledInOrder
  <2>9. KeepsFuzzing'
    BY <1>1, <2>1 DEF KeepsFuzzing
  <2> QED
    BY <2>7, <2>8, <2>9 DEF FInv
<1>5. CASE ~(Len(queue) < Len(TypesOf))
  <2>1. fpc' = "take" /\ UNCHANGED <<queue, test, returnTo>>
    BY <1>5 DEF Fill
  <2>2. DOMAIN queue = Methods
    BY <1>1, <1>3, <1>5
  <2>3. KeepsFuzzing'
    BY <1>2, <2>1, <2>2 DEF KeepsFuzzing, HasTest
  <2>4. FTypeOK' /\ FilledInOrder'
    BY <2>1 DEF FInv, FTypeOK, FilledInOrder, FuzzerPC, InHand
  <2> QED
    BY <2>3, <2>4 DEF FInv
<1> QED
  BY <1>4, <1>5

(* The first test of the queue comes in hand (lines 53-61).                  *)
LEMMA TakeKeeps ==
  ASSUME FInv, Take
  PROVE  FInv'
<1>1. fpc = "take" /\ queue \in Seq(Tests) /\ UNCHANGED returnTo
  BY DEF FInv, FTypeOK, Take
<1>2. CASE fpc' = "done" /\ UNCHANGED <<test, queue>>
  BY <1>1, <1>2 DEF FInv, FTypeOK, FilledInOrder, KeepsFuzzing, FuzzerPC, InHand
<1>3. CASE queue # <<>> /\ fpc' = "execute" /\ test' = Head(queue) /\ queue' = Tail(queue)
  <2>1. Len(queue) \in Nat \ {0} /\ test' = queue[1] /\ test' \in Tests /\ queue' \in Seq(Tests)
    BY <1>1, <1>3
  <2>2. DOMAIN queue' = 1..(Len(queue) - 1) /\ \A i \in DOMAIN queue' : queue'[i] = queue[i + 1]
    BY <1>1, <1>3, <2>1
  <2>3. FTypeOK' /\ FilledInOrder'
    BY <1>1, <1>3, <2>1 DEF FInv, FTypeOK, FilledInOrder, FuzzerPC, InHand
  <2>4. KeepsFuzzing'
    <3> SUFFICES ASSUME NEW m \in Methods, KnownFits(TypesOf[m]) PROVE HasTest(m)'
      BY DEF KeepsFuzzing
    <3>1. PICK i \in DOMAIN queue : queue[i].method = m
      BY <1>1 DEF FInv, KeepsFuzzing, HasTest
    <3>2. CASE i = 1
      BY <1>3, <2>1, <3>1, <3>2 DEF HasTest
    <3>3. CASE i # 1
      <4>1. i - 1 \in DOMAIN queue' /\ queue'[i - 1] = queue[i]
        BY <1>1, <2>1, <2>2, <3>1, <3>3
      <4> QED
        BY <3>1, <4>1 DEF HasTest
    <3> QED
      BY <3>2, <3>3
  <2> QED
    BY <2>3, <2>4 DEF FInv
<1> QED
  BY <1>2, <1>3 DEF Take

(* Deaths of the service and restorations, in any number, leave queue and    *)
(* hand alone (lines 63-77 and 97-140).                                      *)
LEMMA InHandKeeps ==
  ASSUME FInv, InHand,
         fpc' \in {"execute", "sleep", "getObject", "fuzz", "done"},
         returnTo' \in {"fuzz", "again"}, UNCHANGED <<queue, test>>
  PROVE  FInv'
BY DEF FInv, FTypeOK, FilledInOrder, KeepsFuzzing, HasTest, FuzzerPC, InHand

(* Where they go is never back to the queue.                                 *)
LEMMA HandleDeathKeeps ==
  ASSUME FInv, Survive \/ Kill \/ FindDead \/ Restore \/ FailToRestore \/ GetObject \/ LoseService
  PROVE  FInv'
<1>1. InHand /\ UNCHANGED <<queue, test>>
  BY DEF Survive, Kill, FindDead, Restore, FailToRestore, GetObject, LoseService, InHand
<1>2. returnTo \in {"fuzz", "again"}
  BY DEF FInv, FTypeOK
<1>3. /\ fpc' \in {"execute", "sleep", "getObject", "fuzz", "done"}
      /\ returnTo' \in {"fuzz", "again"}
  <2>1. CASE Survive \/ Restore \/ LoseService
    BY <1>2, <2>1 DEF Survive, Restore, LoseService
  <2>2. CASE Kill \/ FindDead
    BY <2>2 DEF Kill, FindDead, HandleDeath
  <2>3. CASE FailToRestore
    BY <1>2, <2>3 DEF FailToRestore
  <2>4. CASE GetObject
    BY <1>2, <2>4 DEF GetObject, HandleDeath
  <2> QED
    BY <2>1, <2>2, <2>3, <2>4
<1> QED
  BY <1>1, <1>3, InHandKeeps

(* The test in hand goes back to the queue, unless it cannot be fuzzed       *)
(* (lines 81-87).                                                            *)
LEMMA FuzzKeeps ==
  ASSUME FInv, Fuzz
  PROVE  FInv'
<1>1. fpc = "fuzz" /\ fpc' = "take" /\ UNCHANGED <<test, returnTo>>
  BY DEF Fuzz
<1>2. queue \in Seq(Tests) /\ test \in Tests /\ returnTo \in {"fuzz", "again"}
  BY <1>1 DEF FInv, FTypeOK, InHand
<1>3. test.method \in Methods /\ test.parameters \in Parameters(TypesOf[test.method])
  BY <1>2 DEF Tests
<1>4. TypesOf[test.method] \in Seq(TypeNames)
  BY <1>3, TestMade
<1>5. PICK r \in ParametersMutations(TypesOf[test.method], test.parameters) :
        queue' = IF r = Throws THEN queue
                 ELSE Append(queue, [method |-> test.method, parameters |-> r])
  BY DEF Fuzz
<1>6. \/ r \in Parameters(TypesOf[test.method])
      \/ r = Throws /\ ~KnownFits(TypesOf[test.method])
  BY <1>3, <1>4, MutationsFit
<1>7. CASE r = Throws
  <2>1. UNCHANGED queue
    BY <1>5, <1>7
  <2>2. ~KnownFits(TypesOf[test.method])
    <3>1. Throws \notin Parameters(TypesOf[test.method])
      <4>1. Parameters(TypesOf[test.method]) \subseteq Seq(Classes)
        BY <1>3, TestMade DEF Tests
      <4> QED
        BY <4>1, ThrowsAssumption
    <3> QED
      BY <1>6, <1>7, <3>1
  <2>3. KeepsFuzzing'
    BY <1>1, <2>1, <2>2 DEF FInv, KeepsFuzzing, HasTest
  <2> QED
    BY <1>1, <1>2, <2>1, <2>3 DEF FInv, FTypeOK, FilledInOrder, FuzzerPC, InHand
<1>8. CASE r # Throws
  <2> DEFINE t == [method |-> test.method, parameters |-> r]
  <2>1. t \in Tests /\ t.method = test.method
    BY <1>3, <1>6, <1>8, TestMade
  <2>2. queue' = Append(queue, t)
    BY <1>5, <1>8
  <2>3. /\ queue' \in Seq(Tests) /\ DOMAIN queue' = 1..(Len(queue) + 1)
        /\ queue'[Len(queue) + 1] = t
        /\ DOMAIN queue = 1..Len(queue) /\ Len(queue) \in Nat
        /\ \A i \in DOMAIN queue : queue'[i] = queue[i]
    BY <1>2, <2>1, <2>2
  <2>4. KeepsFuzzing'
    <3> SUFFICES ASSUME NEW m \in Methods, KnownFits(TypesOf[m]) PROVE HasTest(m)'
      BY DEF KeepsFuzzing
    <3>1. (\E i \in DOMAIN queue : queue[i].method = m) \/ test.method = m
      BY <1>1 DEF FInv, KeepsFuzzing, HasTest
    <3>2. \E i \in DOMAIN queue' : queue'[i].method = m
      BY <2>1, <2>3, <3>1
    <3> QED
      BY <3>2 DEF HasTest
  <2> QED
    BY <1>1, <1>2, <2>3, <2>4 DEF FInv, FTypeOK, FilledInOrder, FuzzerPC, InHand
<1> QED
  BY <1>7, <1>8

(* FInv is inductive.                                                        *)
LEMMA FNextKeeps == FInv /\ [FNext]_fvars => FInv'
<1> SUFFICES ASSUME FInv, [FNext]_fvars PROVE FInv'
  OBVIOUS
<1>1. CASE Fill
  BY <1>1, FillKeeps
<1>2. CASE Take
  BY <1>2, TakeKeeps
<1>3. CASE Survive \/ Kill \/ FindDead \/ Restore \/ FailToRestore \/ GetObject \/ LoseService
  BY <1>3, HandleDeathKeeps
<1>4. CASE Fuzz
  BY <1>4, FuzzKeeps
<1>5. CASE Die \/ Restart \/ UNCHANGED fvars
  <2>1. UNCHANGED <<fpc, queue, test, returnTo>>
    BY <1>5 DEF Die, Restart, fvars
  <2> QED
    BY <2>1 DEF FInv, FTypeOK, FilledInOrder, KeepsFuzzing, HasTest, InHand
<1> QED
  BY <1>1, <1>2, <1>3, <1>4, <1>5 DEF FNext, FuzzerStep

(* A method whose known values fit its slots has a test in the queue or in   *)
(* hand until run ends, however often the service dies (Fuzzer.java:53-140). *)
THEOREM NoTestLost == FSpec => []KeepsFuzzing
<1>1. FSpec => []FInv
  BY FInitInv, FNextKeeps, PTL DEF FSpec
<1>2. FInv => KeepsFuzzing
  BY DEF FInv
<1> QED
  BY <1>1, <1>2, PTL
=============================================================================
