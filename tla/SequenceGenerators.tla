-------------------------- MODULE SequenceGenerators --------------------------
(* generator/ArrayGenerator and generator/object/StringGenerator: arrays and   *)
(* strings are sequences of Elements, or Null. What a generator can return is  *)
(* the set of its results over its random numbers. Positions count from 0 as   *)
(* in the code where they are drawn, Cut is Java's substring.                  *)
EXTENDS Integers, Sequences

CONSTANTS Elements,       \* what a component or a character can be
          Null,           \* the null reference
          ArrayMaxSize,   \* ConfigurationManager.getArrayMaxSize()
          StringMaxSize,  \* ConfigurationManager.getStringMaxSize()
          KnownValues     \* the strings of StringGenerator.knownValues, Null among them

ASSUME SizeAssumption ==
    /\ ArrayMaxSize \in Nat \ {0}
    /\ StringMaxSize \in Nat \ {0}
    /\ KnownValues \subseteq Seq(Elements) \union {Null}
    /\ Null \notin Seq(Elements)

Cut(s, from, to) == SubSeq(s, from + 1, to)
Positions(s) == 0..(Len(s) - 1)

\* Two positions drawn at random make a cut that never has the last element.
Cuts(s) == {Cut(s, a, b) : a \in Positions(s), b \in Positions(s)}

SomeSequences(max) == UNION {[1..n -> Elements] : n \in 0..(max - 1)}

\* One element is replaced by what its generator makes of it.
Neighbors(s) == {[s EXCEPT ![i] = e] : i \in DOMAIN s, e \in Elements}

Longest(p, q) == IF Len(p) > Len(q) THEN p ELSE q
Shortest(p, q) == IF Len(p) > Len(q) THEN q ELSE p

\* The longer parent with the elements of the other one at some positions.
Overlay(long, short, positions) ==
    [i \in DOMAIN long |-> IF i \in positions THEN short[i] ELSE long[i]]
Overlays(long, short, fields) == {Overlay(long, short, f) : f \in fields}

\* A crossover with a parent that is missing or empty throws, where it draws
\* a position or asks for a length, and the handler returns the other parent.
OtherParent(p, q) ==
    IF p = Null \/ (q # Null /\ p = <<>>) THEN q ELSE p
-----------------------------------------------------------------------------
\* ArrayGenerator

ArrayRandom == SomeSequences(ArrayMaxSize)

\* KNOWN: null or an empty array.
ArrayKnown == {Null, <<>>}

\* Mutant: the array that grows is returned, and its size is not limited.
ArrayReturned(s) == {s \o t : t \in UNION {[1..n -> Elements] : n \in 1..Len(s)}}

\* INVERSE: the array that grows is filled, and then lost: the case ends
\* without a return. The array that shrinks is returned.
ArrayGrown(s) == {Null}
ArrayInverse(s) == ArrayGrown(s) \union Cuts(s)

ArrayMutations(s) ==
    IF s = Null \/ s = <<>> THEN ArrayRandom
    ELSE ArrayKnown \union Neighbors(s) \union ArrayInverse(s)

\* SINGLE_POINT: the shorter parent up to a point.
ArraySinglePoint(long, short) ==
    Overlays(long, short, {1..point : point \in Positions(short)})

\* TWO_POINT: the shorter parent between the points, if they come in order.
ArrayTwoPoint(long, short) ==
    Overlays(long, short,
             {(p1 + 1)..p2 : p1 \in Positions(short), p2 \in Positions(short)})

\* UNIFORM: either parent at each position of the shorter one.
ArrayUniform(long, short) == Overlays(long, short, SUBSET DOMAIN short)

\* ARITHMETIC: the average length; first the shorter parent, then the longer.
ArrayArithmetic(long, short) ==
    LET average == (Len(long) + Len(short)) \div 2
        length == IF average < ArrayMaxSize THEN average ELSE ArrayMaxSize
    IN {Cut(Overlay(long, short, DOMAIN short), 0, length)}

ArrayChildren(p, q) ==
    IF p = Null \/ q = Null THEN {OtherParent(p, q)}
    ELSE LET long == Longest(p, q)
             short == Shortest(p, q)
         IN UNION {IF short = <<>> THEN {OtherParent(p, q)}
                   ELSE ArraySinglePoint(long, short) \union ArrayTwoPoint(long, short),
                   ArrayUniform(long, short),
                   ArrayArithmetic(long, short)}
-----------------------------------------------------------------------------
\* StringGenerator

StringRandom == SomeSequences(StringMaxSize)

\* INVERSE: a longer string if that fits; else a cut of the one that would
\* not fit, or of the string itself.
StringInverse(s) ==
    LET longer == {s \o r : r \in StringRandom}
        fits == {t \in longer : Len(t) <= StringMaxSize}
    IN fits \union UNION {Cuts(t) : t \in {s} \union (longer \ fits)}

StringMutations(s) ==
    IF s = Null \/ s = <<>> THEN StringRandom
    ELSE KnownValues \union Neighbors(s) \union StringInverse(s)

\* SINGLE_POINT: the first parent up to a point, then the second.
StringSinglePoint(p, q) ==
    {Cut(p, 0, point) \o Cut(q, point, Len(q)) : point \in Positions(Shortest(p, q))}

\* Mutant: the points are taken as they are drawn.
StringUnordered(p, q) ==
    {Cut(p, 0, a) \o Cut(q, a, b) \o Cut(p, b, Len(p)) :
        a \in Positions(Shortest(p, q)), b \in Positions(Shortest(p, q))}

\* TWO_POINT: the second parent between the points, taken in order.
StringTwoPoint(p, q) ==
    LET points == Positions(Shortest(p, q))
    IN UNION {{Cut(p, 0, a) \o Cut(q, a, b) \o Cut(p, b, Len(p)) : b \in {c \in points : a <= c}} :
                a \in points}

\* UNIFORM: either parent at each position of the shorter one, then the longer.
StringUniform(p, q) ==
    Overlays(Longest(p, q), Shortest(p, q), SUBSET DOMAIN Shortest(p, q))

\* ARITHMETIC: the second half of the parents one after the other, cut short.
StringArithmetic(p, q) ==
    LET half == Cut(p \o q, (Len(p) + Len(q)) \div 2, Len(p \o q))
    IN {IF Len(half) > StringMaxSize THEN Cut(half, 0, StringMaxSize) ELSE half}

StringChildren(p, q) ==
    IF p = Null \/ q = Null THEN {OtherParent(p, q)}
    ELSE UNION {IF Shortest(p, q) = <<>> THEN {OtherParent(p, q)}
                ELSE StringSinglePoint(p, q) \union StringTwoPoint(p, q),
                StringUniform(p, q),
                StringArithmetic(p, q)}
=============================================================================
