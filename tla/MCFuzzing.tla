------------------------------ MODULE MCFuzzing ------------------------------
(* The generators, the objects they make, the fuzzer loop, the service         *)
(* manager's helper and the look-ups of methods in one run: a behaviour        *)
(* exercises one of them and leaves the others alone, so their states add up.  *)
EXTENDS Generators, GenericObjects, Fuzzer, MethodLookup, Services

VARIABLE part

KnownStrings == {Null, <<>>, <<"a">>, <<"a", "a", "a", "a", "a">>}
GeneratedTypes == <<"byte", "Object", "Integer">>
MethodTypes == <<<<"byte", "Object">>, <<"int", "String">>, <<"Integer">>>>

\* Classes that take each other, themselves and a number; the same with arrays
\* and with arrays of arrays.
Takes(dimensions) ==
    [c \in ClassNames |->
        CASE c = "Parcel" -> {<<>>, <<Type("Parcel", dimensions)>>, <<Type("Bundle", 0), Type("int", 0)>>}
          [] c = "Bundle" -> {<<Type("Uri", 0), Type("Uri", dimensions)>>, <<Type("Parcel", 0)>>}
          [] c = "Uri" -> {<<Type("int", dimensions)>>, <<Type("Bundle", 0), Type("Parcel", 0)>>}]
GivenWorlds == {Takes(0), Takes(1), Takes(2)}

\* A class with a superclass, and what they do with animals and dogs, whatever
\* has no name, and null.
NamesOfTypes ==
    [t \in {"null", "Animal", "Dog", "Nameless"} |-> IF t = "Nameless" THEN "null" ELSE t]
Fitting == ({"null", "Animal", "Dog", "Nameless"} \X {"Animal"}) \union {<<"null", "Dog">>, <<"Dog", "Dog">>}
Method(class, private, types) == [class |-> class, name |-> "feed", private |-> private, types |-> types]
Superclasses == [c \in {"Zoo", "Park"} |-> IF c = "Zoo" THEN <<"Zoo", "Park">> ELSE <<"Park">>]
DeclaredMethods ==
    [c \in {"Zoo", "Park"} |->
        IF c = "Zoo" THEN <<Method("Zoo", TRUE, <<"Dog">>)>>
        ELSE <<Method("Park", TRUE, <<>>), Method("Park", FALSE, <<"Animal">>)>>]

vars == <<part, gvars, ovars, fvars, lvars, mvars>>

GeneratorsInit == part = "generators" /\ GInit
GeneratorsRest == kind = "array" /\ values = [i \in 1..2 |-> Null]
FuzzerInit == part = "fuzzer" /\ FInit
FuzzerRest ==
    /\ fpc = "done" /\ experiment = 0 /\ queue = <<>> /\ test = NoTest
    /\ trials = 0 /\ returnTo = "fuzz" /\ up = TRUE /\ live = TRUE

Generate == part = "generators" /\ GNext /\ UNCHANGED <<part, ovars, fvars, lvars, mvars>>
Make == part = "objects" /\ ONext /\ UNCHANGED <<part, gvars, fvars, lvars, mvars>>
Loop == part = "fuzzer" /\ FNext /\ UNCHANGED <<part, gvars, ovars, lvars, mvars>>
LookUp == part = "lookup" /\ LNext /\ UNCHANGED <<part, gvars, ovars, fvars, mvars>>
Serve == part = "services" /\ MNext /\ UNCHANGED <<part, gvars, ovars, fvars, lvars>>

FuzzingInit ==
    /\ \/ GeneratorsInit /\ FuzzerRest
       \/ GeneratorsRest /\ FuzzerInit
       \/ GeneratorsRest /\ FuzzerRest /\ part \in {"objects", "lookup", "services"}
    /\ OInit /\ LInit /\ MInit
    /\ part # "objects" => world = Takes(0) /\ marks = <<{"Uri"}>>
    /\ part # "services" => life = [s \in ServiceNames |-> 0]
FuzzingNext == Generate \/ Make \/ Loop \/ LookUp \/ Serve

FuzzingSpec ==
    /\ FuzzingInit
    /\ [][FuzzingNext]_vars
    /\ WF_vars(FuzzerStep /\ UNCHANGED <<part, gvars, ovars, lvars, mvars>>)
    /\ MFairness
=============================================================================
