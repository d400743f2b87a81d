------------------------- MODULE ParametersGenerator -------------------------
(* generator/ParametersGenerator: the parameters of a method, and the objects  *)
(* among them (generator/object). Of a value only the class is kept: "int" is  *)
(* an Integer and so on, "array" an array of the slot's type, "object" an      *)
(* object of the class asked for, "null" no object. Types, a sequence, are the *)
(* types of a method's parameters.                                             *)
EXTENDS Integers, Sequences

CONSTANTS Absent,  \* the null reference to an array of parameters
          Throws   \* a GenerateException instead of a result

\* ObjectGenerator: which generator makes the objects of a class.
ObjectGenerator ==
    [Byte |-> "byte", Short |-> "short", Integer |-> "int", Long |-> "long",
     Float |-> "float", Double |-> "double", Boolean |-> "boolean",
     Character |-> "char", String |-> "String", Object |-> "object"]

\* The generator of a slot: PrimitiveGenerator.build names one per primitive
\* type, an array has its ArrayGenerator, any other class its ObjectGenerator.
Primitives == {"byte", "short", "int", "long", "float", "double", "boolean", "char"}
GeneratorOf(type) == IF type \in DOMAIN ObjectGenerator THEN ObjectGenerator[type] ELSE type

TypeNames == Primitives \union DOMAIN ObjectGenerator \union {"array"}
Classes == Primitives \union {"String", "array", "object", "null"}

ASSUME ThrowsAssumption == Throws \notin Classes \union Seq(Classes)

\* GenericObjectGenerator may find no constructor that works.
Random(type) ==
    {GeneratorOf(type)} \union (IF GeneratorOf(type) = "object" THEN {"null"} ELSE {})

\* What the generator of a slot accepts: the boxes are unboxed, so no null.
Fits(type, class) ==
    \/ class = GeneratorOf(type)
    \/ class = "null" /\ GeneratorOf(type) \notin Primitives

\* One of the choices for each slot.
Pick(choices) ==
    {r \in [DOMAIN choices -> UNION {choices[i] : i \in DOMAIN choices}] :
        \A i \in DOMAIN choices : r[i] \in choices[i]}

ParametersRandom(types) == Pick([i \in DOMAIN types |-> Random(types[i])])

\* KNOWN: false for a boolean, the Integer 0 for any other primitive type, null
\* for an object.
Known(type) ==
    IF type \notin Primitives THEN "null"
    ELSE IF type = "boolean" THEN "boolean" ELSE "int"

\* The generator of a primitive type casts and unboxes its argument, which
\* throws for another class and for null, unless it draws a bound value, which
\* needs no argument.
PrimitiveMutations(generator, class) ==
    IF class = generator THEN {generator} ELSE {generator, Throws}

\* Strings and arrays: null becomes a random value and a value may become null.
NullableMutations(generator, class) ==
    IF class = "null" THEN {generator}
    ELSE IF class = generator THEN {generator, "null"} ELSE {Throws}

\* GenericObjectGenerator draws a missing object anew and calls the setters of
\* the one it gets, whatever its class is: a setter that does not apply throws,
\* and that is ignored.
ObjectMutations(class) == IF class = "null" THEN Random("Object") ELSE {class}

SlotMutations(type, class) ==
    LET generator == GeneratorOf(type)
    IN IF generator \in Primitives THEN PrimitiveMutations(generator, class)
       ELSE IF generator = "object" THEN ObjectMutations(class)
       ELSE NullableMutations(generator, class)

\* Crossover of strings and arrays with null returns the other parent. A cast
\* throws for a parent that is no string, the length of what is no array only
\* if the other parent is there.
NullableChildren(generator, class1, class2) ==
    IF class1 = "null" /\ (generator = "array" \/ class2 \in {generator, "null"}) THEN {class2}
    ELSE IF class2 = "null" /\ (generator = "array" \/ class1 = generator) THEN {class1}
    ELSE IF class1 = generator /\ class2 = generator THEN {generator} ELSE {Throws}

SlotChildren(type, class1, class2) ==
    LET generator == GeneratorOf(type)
    IN IF generator \in Primitives
         THEN IF class1 = generator /\ class2 = generator THEN {generator} ELSE {Throws}
       ELSE IF generator = "object" THEN {class1, class2}
       ELSE NullableChildren(generator, class1, class2)

\* A result with a slot that throws is no result.
Caught(results) == {IF \E i \in DOMAIN r : r[i] = Throws THEN Throws ELSE r : r \in results}

\* Mutant: all values of the mutant are copied.
CopiedSlots(types, p, slots) ==
    Pick([i \in DOMAIN p |-> IF i \in slots THEN SlotMutations(types[i], p[i]) ELSE {p[i]}])

\* NEIGHBOR mutates one slot, INVERSE all; the others are copied, and what is
\* beyond the last slot is not.
MutatedSlots(types, p, slots) ==
    Pick([i \in DOMAIN types |-> IF i \in slots THEN SlotMutations(types[i], p[i]) ELSE {p[i]}])

ParametersMutations(types, p) ==
    IF p = Absent THEN ParametersRandom(types)
    ELSE {[i \in DOMAIN types |-> Known(types[i])]} \union
         UNION {Caught(MutatedSlots(types, p, slots)) :
                    slots \in {{i} : i \in DOMAIN types} \union {DOMAIN types}}
-----------------------------------------------------------------------------
\* crossover builds a list; positions count from 0 as in java.util.List, whose
\* add(position, element) moves the elements from the position on.

Slice(list, from, to) == SubSeq(list, from + 1, to)

\* add(i, p[i]) for i from from to to - 1.
AddRun(list, from, to, p) ==
    Slice(list, 0, from) \o Slice(p, from, to) \o Slice(list, from, Len(list))

AddAt(list, position, element) ==
    Slice(list, 0, position) \o <<element>> \o Slice(list, position, Len(list))

\* SINGLE_POINT: p before the point, a child at it, q after it.
SinglePoint(types, p, q, point) ==
    {AddRun(AddAt(Slice(p, 0, point), point, x), point + 1, Len(types), q) :
        x \in SlotChildren(types[point + 1], p[point + 1], q[point + 1])}

\* TWO_POINT: p, a child at point1, q, a child at point2, and p again. The
\* points come in no order: at or before point1, the second child and what
\* follows it are inserted into what is there.
TwoPointList(types, p, q, point1, point2, x, y) ==
    LET first == AddAt(Slice(p, 0, point1), point1, x)
        middle == AddRun(first, point1 + 1, point2, q)
    IN AddRun(AddAt(middle, point2, y), point2 + 1, Len(types), p)

TwoPoint(types, p, q, point1, point2) ==
    {TwoPointList(types, p, q, point1, point2, x, y) :
        x \in SlotChildren(types[point1 + 1], p[point1 + 1], q[point1 + 1]),
        y \in SlotChildren(types[point2 + 1], q[point2 + 1], p[point2 + 1])}

\* UNIFORM: a child in every slot. ARITHMETIC: either parent in every slot.
Uniform(types, p, q) ==
    Pick([i \in DOMAIN types |-> SlotChildren(types[i], p[i], q[i])])
Arithmetic(types, p, q) ==
    Pick([i \in DOMAIN types |-> {p[i], q[i]}])

\* With a parent that is missing, what throws is caught and the other parent is
\* the child, or its slots if ARITHMETIC happens to read no other; with none,
\* random parameters are.
ParametersChildren(types, p, q) ==
    LET points == 0..(Len(types) - 1)
    IN IF p = Absent /\ q = Absent THEN ParametersRandom(types)
       ELSE IF p = Absent \/ q = Absent THEN LET other == IF p = Absent THEN q ELSE p
                                          IN {other, Slice(other, 0, Len(types))}
       ELSE Caught(UNION {SinglePoint(types, p, q, point) : point \in points})
            \union Caught(UNION {TwoPoint(types, p, q, a, b) : a \in points, b \in points})
            \union Caught(Uniform(types, p, q))
            \union Arithmetic(types, p, q)
=============================================================================
