------------------------- MODULE PrimitiveGenerators -------------------------
(* generator/primitive: how values of the primitive types are drawn, mutated  *)
(* and crossed. A value is the set of its bits that are one, so masks are     *)
(* sets and & | ^ ~ are set operations; arithmetic wraps at WordSize bits.    *)
(* A generator is a record: the values it draws (random, bound), what it      *)
(* makes of one value (inverse, delta) and of two (single, uniform), each as  *)
(* the set of the results its random numbers can lead to.                     *)
EXTENDS Integers

CONSTANTS WordSize,  \* bits of the type: 8 to 64, one width for all types here
          ByteSize,  \* bits of the byte that CharacterGenerator keeps its masks in
          Spread     \* 16: deltas are drawn from -16 to 15

ASSUME WidthAssumption ==
    /\ WordSize \in Nat \ {0}
    /\ ByteSize \in 1..WordSize
    /\ Spread \in Nat \ {0}

Bits == 0..(WordSize - 1)
SignBit == WordSize - 1
Words == SUBSET Bits

\* The two's complement word of an integer, and the integer of a word.
Word(n) == {b \in Bits : (n \div 2^b) % 2 = 1}
Signed(w) == CHOOSE n \in -(2^SignBit)..(2^SignBit - 1) : Word(n) = w

\* v1 & mask | v2 & ~mask
Mix(v1, v2, mask) == (v1 \cap mask) \union (v2 \ mask)
Crossed(v1, v2, masks) == {Mix(v1, v2, mask) : mask \in masks}

\* All ones shifted left by a random number of bits.
ShiftMasks == {s..SignBit : s \in Bits}

\* A byte that is widened: its top bit fills the bits above it.
Widened(mask) ==
    mask \union {b \in ByteSize..SignBit : ByteSize - 1 \in mask}

Flipped(w, b) == (w \ {b}) \union ({b} \ w)
Plus(w, deltas) == {Word(Signed(w) + d) : d \in deltas}

BooleanWords == SUBSET {0}
SmallestAndGreatest == {-1, 0, 1, 2^SignBit - 1, -(2^SignBit)}

BooleanGenerator ==
    [random  |-> BooleanWords,
     bound   |-> {{}},
     inverse |-> [w \in BooleanWords |-> {Flipped(w, 0)}],
     delta   |-> [w \in BooleanWords |-> {Flipped(w, 0)}],
     single  |-> [p \in BooleanWords \X BooleanWords |->
                    {(p[1] \union p[2]) \ (p[1] \cap p[2])}],
     uniform |-> [p \in BooleanWords \X BooleanWords |-> {p[1] \cap p[2]}]]

ByteGenerator ==
    [random  |-> Words,
     bound   |-> {Word(n) : n \in SmallestAndGreatest},
     inverse |-> [w \in Words |-> {Bits \ w}],
     delta   |-> [w \in Words |-> {Flipped(w, b) : b \in Bits}],
     single  |-> [p \in Words \X Words |-> Crossed(p[1], p[2], ShiftMasks)],
     uniform |-> [p \in Words \X Words |-> Crossed(p[1], p[2], Words)]]

\* The least integer is its own negative.
IntegerGenerator ==
    [ByteGenerator EXCEPT
       !.inverse = [w \in Words |-> {Word(-Signed(w))}],
       !.delta   = [w \in Words |-> Plus(w, -Spread..(Spread - 1))]]

ShortGenerator == IntegerGenerator

\* nextLong() % 32 keeps the sign of the random number: deltas from -47.
LongGenerator ==
    [IntegerGenerator EXCEPT
       !.delta = [w \in Words |-> Plus(w, (1 - 3 * Spread)..(Spread - 1))]]

\* nextInt(MAX_VALUE) is never MAX_VALUE. The surrogates among the bounds are
\* ordinary words here; the masks are bytes.
CharacterGenerator ==
    LET Bytes == {Widened(m) : m \in SUBSET (0..(ByteSize - 1))}
        Shifted == {Widened(s..(ByteSize - 1)) : s \in 0..(ByteSize - 1)}
    IN [random  |-> Words \ {Bits},
        bound   |-> Words,
        inverse |-> [w \in Words |-> {Bits \ w}],
        delta   |-> [w \in Words |-> Plus(w, -Spread..(Spread - 1))],
        single  |-> [p \in Words \X Words |-> Crossed(p[1], p[2], Shifted)],
        uniform |-> [p \in Words \X Words |-> Crossed(p[1], p[2], Bytes)]]

\* Floating-point arithmetic may give any number. A random number is not
\* negative, and its bits are the mask of the uniform crossover.
FloatGenerator ==
    LET Drawn == SUBSET (Bits \ {SignBit})
    IN [random  |-> Drawn,
        bound   |-> Words,
        inverse |-> [w \in Words |-> Words],
        delta   |-> [w \in Words |-> Words],
        single  |-> [p \in Words \X Words |-> Crossed(p[1], p[2], ShiftMasks)],
        uniform |-> [p \in Words \X Words |-> Crossed(p[1], p[2], Drawn)]]

DoubleGenerator == FloatGenerator

\* PrimitiveGenerator.build
Build ==
    [byte |-> ByteGenerator, short |-> ShortGenerator, int |-> IntegerGenerator,
     long |-> LongGenerator, float |-> FloatGenerator, double |-> DoubleGenerator,
     boolean |-> BooleanGenerator, char |-> CharacterGenerator]

\* ValueGenerator.mutate and crossover draw the strategy, then its result.
Mutations(generator, w) ==
    generator.bound \union generator.inverse[w] \union generator.delta[w]
Children(generator, v1, v2) ==
    generator.single[<<v1, v2>>] \union generator.uniform[<<v1, v2>>]
=============================================================================
