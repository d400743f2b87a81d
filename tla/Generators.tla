------------------------------ MODULE Generators ------------------------------
(* A caller of one generator: it keeps two values, asks for random ones,       *)
(* mutates them and crosses them, in any order, so that what one operation     *)
(* returns is the argument of the next.                                        *)
EXTENDS PrimitiveGenerators, SequenceGenerators, ParametersGenerator

CONSTANTS Types,        \* the types of the parameters that are generated
          StringBound   \* bound of the model: longer strings are not kept

ASSUME TypesAssumption == Types \in Seq(TypeNames) /\ Types # <<>>

VARIABLES kind,   \* which generator
          values  \* its two values

gvars == <<kind, values>>

Kinds == DOMAIN Build \union {"array", "string", "parameters"}

\* No value yet: null, which the generators of primitive types never see.
Start(k) == IF k \in DOMAIN Build THEN {} ELSE IF k = "parameters" THEN Absent ELSE Null

Drawn(k) ==
    CASE k = "array" -> ArrayRandom
      [] k = "string" -> StringRandom
      [] k = "parameters" -> ParametersRandom(Types)
      [] OTHER -> Build[k].random

Mutants(k, v) ==
    CASE k = "array" -> ArrayMutations(v)
      [] k = "string" -> StringMutations(v)
      [] k = "parameters" -> ParametersMutations(Types, v)
      [] OTHER -> Mutations(Build[k], v)

Offspring(k, v1, v2) ==
    CASE k = "array" -> ArrayChildren(v1, v2)
      [] k = "string" -> StringChildren(v1, v2)
      [] k = "parameters" -> ParametersChildren(Types, v1, v2)
      [] OTHER -> Children(Build[k], v1, v2)

\* A generator that throws leaves the caller with the values it has.
Kept(k, v) == IF k = "string" /\ v # Null THEN Len(v) <= StringBound ELSE v # Throws

Keep(i, results) ==
    \E v \in results :
        /\ Kept(kind, v)
        /\ values' = [values EXCEPT ![i] = v]
        /\ UNCHANGED kind

CallRandom(i) == Keep(i, Drawn(kind))
CallMutate(i) == Keep(i, Mutants(kind, values[i]))
CallCrossover(i) == Keep(i, Offspring(kind, values[1], values[2]))

GInit ==
    /\ kind \in Kinds
    /\ values = [i \in 1..2 |-> Start(kind)]

GNext == \E i \in 1..2 : CallRandom(i) \/ CallMutate(i) \/ CallCrossover(i)

GSpec == GInit /\ [][GNext]_gvars
-----------------------------------------------------------------------------
Valid(k, v) ==
    CASE k = "array" -> v \in ArrayRandom \union {Null}
      [] k = "string" -> v = Null \/ v \in Seq(Elements)
      [] k = "parameters" -> v = Absent \/ v \in Seq(Classes)
      [] k = "boolean" -> v \in BooleanWords
      [] OTHER -> v \in Words

\* Every value is one of its type; an array stays shorter than the greatest
\* size, whatever is done to it.
GTypeOK ==
    /\ kind \in Kinds
    /\ \A i \in 1..2 : Valid(kind, values[i])

\* ValueGenerator: in a uniform crossover "each bit is chosen from either
\* parent". So it is for the bits of every primitive type, and for the elements
\* of arrays and strings in every crossover that keeps positions.
EachFromAParent(child, p, q) ==
    \A i \in DOMAIN child :
        \/ i \in DOMAIN p /\ child[i] = p[i]
        \/ i \in DOMAIN q /\ child[i] = q[i]

BitsFromParents(children, p, q) ==
    \A child \in children : (p \cap q) \subseteq child /\ child \subseteq (p \union q)

ChildrenFromParents ==
    LET p == values[1]
        q == values[2]
    IN CASE kind \in DOMAIN Build -> BitsFromParents(Build[kind].uniform[<<p, q>>], p, q)
         [] kind = "array" /\ Null \notin {p, q} ->
              \A child \in ArrayChildren(p, q) : EachFromAParent(child, p, q)
         [] kind = "string" /\ Null \notin {p, q} /\ <<>> \notin {p, q} ->
              \A child \in StringSinglePoint(p, q) \union StringTwoPoint(p, q)
                           \union StringUniform(p, q) : EachFromAParent(child, p, q)
         [] OTHER -> TRUE

\* Parameters have one value per type, except what a two-point crossover makes
\* of points that are not in order, which is at most twice as long; the next
\* mutation has the right number again, and throws only over a slot that holds
\* what its generator does not accept.
ParametersRepaired ==
    kind = "parameters" =>
        \A i \in 1..2 : values[i] # Absent =>
            /\ Len(values[i]) \in Len(Types)..(2 * Len(Types))
            /\ \A r \in ParametersMutations(Types, values[i]) :
                 IF r = Throws THEN \E j \in DOMAIN Types : ~Fits(Types[j], values[i][j])
                 ELSE Len(r) = Len(Types)
=============================================================================
