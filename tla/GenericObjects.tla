---------------------------- MODULE GenericObjects ----------------------------
(* generator/object/GenericObjectGenerator.random: an object of a class from   *)
(* its public constructors, whose parameters may take objects in turn. The     *)
(* set classSetForDeadLock holds the classes that are being made, so that none *)
(* is made of itself; ArrayGenerator and ObjectGenerator hand it on.           *)
EXTENDS Integers, Sequences, SequencesExt

CONSTANTS ClassNames,
          Primitive,   \* any type whose generator needs no other
          Worlds,      \* the constructors that each class may have
          ArraySize,   \* the arrays drawn are shorter
          StackSize    \* frames the stack of the thread has room for

\* A type: a class, or arrays of it of one or more dimensions. A constructor is
\* the sequence of the types of its parameters.
Type(class, dimensions) == [class |-> class, dimensions |-> dimensions]
Constructors == Seq([class : ClassNames \union {Primitive}, dimensions : Nat])

ASSUME ObjectsAssumption ==
    /\ Worlds \subseteq [ClassNames -> SUBSET Constructors]
    /\ Primitive \notin ClassNames

VARIABLES world,   \* the classes that are given
          stack,   \* the calls of random that are under way
          marks    \* classSetForDeadLock, for each set in use

ovars == <<world, stack, marks>>

\* A call of random: the constructors still to try, the parameters of the one
\* it tries still to make, and for the first of these the elements.
Call(class, set) ==
    [class |-> class, set |-> set, todo |-> world[class], trying |-> FALSE,
     parameters |-> <<>>, elements |-> -1]

OInit ==
    /\ world \in Worlds
    /\ \E class \in ClassNames : marks = <<{class}>> /\ stack = <<Call(class, 1)>>

Top == Last(stack)
SetTop(call) == stack' = [stack EXCEPT ![Len(stack)] = call]
Slot == Head(Top.parameters)
NextSlot(call) == [call EXCEPT !.parameters = Tail(@), !.elements = -1]
Abandon(call) == [call EXCEPT !.trying = FALSE, !.parameters = <<>>, !.elements = -1]

\* Mutant: only the class itself is looked for.
OwnClass(constructor) ==
    \E i \in DOMAIN constructor : constructor[i] = Type(Top.class, 0)

\* The name of an array type is in no set.
PotentialDeadlock(constructor) ==
    \E i \in DOMAIN constructor :
        constructor[i].dimensions = 0 /\ constructor[i].class \in marks[Top.set]

\* Without parameters, ParametersGenerator throws: such constructors are passed
\* over as well.
TryConstructor ==
    /\ stack # <<>> /\ ~Top.trying
    /\ \E constructor \in Top.todo :
        LET next == [Top EXCEPT !.todo = @ \ {constructor}]
        IN  SetTop(IF PotentialDeadlock(constructor) \/ constructor = <<>> THEN next
                   ELSE [next EXCEPT !.trying = TRUE, !.parameters = constructor])
    /\ UNCHANGED <<world, marks>>

InSlot == stack # <<>> /\ Top.trying /\ Top.parameters # <<>>

MakePrimitive ==
    /\ InSlot /\ Slot.class = Primitive
    /\ SetTop(NextSlot(Top))
    /\ UNCHANGED <<world, marks>>

\* ArrayGenerator.random draws the length; arrays of arrays are elements too.
DrawLength ==
    /\ InSlot /\ Slot.class # Primitive /\ Slot.dimensions > 0 /\ Top.elements = -1
    /\ \E length \in 0..ArraySize - 1 :
          SetTop(IF length = 0 THEN NextSlot(Top) ELSE [Top EXCEPT !.elements = length])
    /\ UNCHANGED <<world, marks>>

ToMake == InSlot /\ Slot.class # Primitive /\ (Slot.dimensions = 0 \/ Top.elements > 0)

\* An object, or an element. The generator of an array of arrays is made without
\* the set: its objects get a new one.
MakeObject ==
    /\ ToMake /\ Len(stack) < StackSize
    /\ IF Slot.dimensions > 1
         THEN /\ marks' = Append(marks, {Slot.class})
              /\ stack' = Append(stack, Call(Slot.class, Len(marks) + 1))
         ELSE /\ marks' = [marks EXCEPT ![Top.set] = @ \union {Slot.class}]
              /\ stack' = Append(stack, Call(Slot.class, Top.set))
    /\ UNCHANGED world

\* StackOverflowError, caught where the constructor was tried.
Overflow ==
    /\ ToMake /\ Len(stack) = StackSize
    /\ SetTop(Abandon(Top))
    /\ UNCHANGED <<world, marks>>

\* newInstance, or the exception it throws: the other constructors are tried
\* all the same.
NewInstance ==
    /\ stack # <<>> /\ Top.trying /\ Top.parameters = <<>>
    /\ SetTop(Abandon(Top))
    /\ UNCHANGED <<world, marks>>

\* The class is taken from the set, even if a call further down made it too; the
\* object, or null, is the parameter or the element.
Return ==
    /\ stack # <<>> /\ ~Top.trying /\ Top.todo = {}
    /\ LET below == Front(stack)
           owner == below # <<>> => Last(below).set # Top.set
           left == [marks EXCEPT ![Top.set] = @ \ {Top.class}]
       IN  /\ marks' = IF owner THEN Front(left) ELSE left
           /\ stack' = IF below = <<>> THEN <<>>
                       ELSE [below EXCEPT ![Len(below)] =
                                IF @.elements > 1 THEN [@ EXCEPT !.elements = @ - 1]
                                ELSE NextSlot(@)]
    /\ UNCHANGED world

ONext ==
    \/ TryConstructor \/ MakePrimitive \/ DrawLength \/ MakeObject \/ Overflow
    \/ NewInstance \/ Return

OSpec == OInit /\ [][ONext]_ovars
-----------------------------------------------------------------------------
NoArrays ==
    \A class \in ClassNames : \A constructor \in world[class] :
        \A i \in DOMAIN constructor : constructor[i].dimensions = 0

\* As long as no constructor takes an array, no object is made for one of its
\* own class, however far down, so that the stack never runs out: the sets do
\* what they are named for. An array of its class is all it takes to defeat them.
NotOfItself ==
    NoArrays => \A i, j \in DOMAIN stack : stack[i].class = stack[j].class => i = j
=============================================================================
