--------------------------- MODULE ReflectionProofs ---------------------------
(***************************************************************************)
(* What the tracker does by reflection, for any classes, methods and       *)
(* services: the objects that are made for parameters are not made of      *)
(* themselves, but for arrays; the services to test are described as what  *)
(* they are; and the methods found in a cache are those a search finds.    *)
(***************************************************************************)
EXTENDS GenericObjects, Services, MethodLookup, SequenceTheorems, FiniteSetTheorems, TLAPS

(* Without arrays there is one set, which holds the classes of the calls     *)
(* under way, and what a call has still to make is of other classes.         *)
CallRecords ==
    [class : ClassNames, set : {1}, todo : SUBSET Constructors, trying : BOOLEAN,
     parameters : Constructors, elements : {-1}]

Classless(parameters, classes) ==
    \A i \in DOMAIN parameters :
        parameters[i].dimensions = 0 /\ parameters[i].class \notin classes

ClassesTo(n) == {stack[k].class : k \in 1..n}

Plain ==
    /\ stack \in Seq(CallRecords)
    /\ stack # <<>> => marks = <<ClassesTo(Len(stack))>>
    /\ \A i \in 1..Len(stack) : /\ stack[i].todo \subseteq world[stack[i].class]
                                /\ Classless(stack[i].parameters, ClassesTo(i))
                                /\ i < Len(stack) => stack[i].parameters # <<>>
    /\ \A i, j \in 1..Len(stack) : stack[i].class = stack[j].class => i = j

OInv == world \in Worlds /\ (NoArrays => Plain)

(* What is left of parameters without a class.                               *)
LEMMA TailPlain ==
  ASSUME NEW parameters \in Constructors, parameters # <<>>, NEW classes,
         Classless(parameters, classes)
  PROVE  Tail(parameters) \in Constructors /\ Classless(Tail(parameters), classes)
<1>1. /\ Tail(parameters) \in Constructors /\ Len(Tail(parameters)) = Len(parameters) - 1
      /\ \A i \in 1..Len(Tail(parameters)) : Tail(parameters)[i] = parameters[i + 1]
  BY HeadTailProperties DEF Constructors
<1>2. /\ DOMAIN parameters = 1..Len(parameters) /\ Len(parameters) \in Nat
      /\ DOMAIN Tail(parameters) = 1..Len(Tail(parameters))
  BY <1>1, LenProperties DEF Constructors
<1> QED
  BY <1>1, <1>2 DEF Classless

(* What is known of the call on top.                                         *)
LEMMA TopPlain ==
  ASSUME Plain, stack # <<>>
  PROVE  /\ stack \in Seq(CallRecords) /\ Len(stack) \in Nat \ {0}
         /\ Top \in CallRecords /\ Top.todo \subseteq world[Top.class]
         /\ Classless(Top.parameters, ClassesTo(Len(stack)))
         /\ marks = <<ClassesTo(Len(stack))>>
<1>1. stack \in Seq(CallRecords) /\ Len(stack) \in Nat \ {0} /\ marks = <<ClassesTo(Len(stack))>>
  BY EmptySeq DEF Plain
<1>2. Len(stack) \in 1..Len(stack) /\ Top = stack[Len(stack)]
  BY <1>1 DEF Top, Last
<1>3. Top \in CallRecords
  BY <1>1, <1>2, ElementOfSeq
<1>4. \A i \in 1..Len(stack) : /\ stack[i].todo \subseteq world[stack[i].class]
                               /\ Classless(stack[i].parameters, ClassesTo(i))
  BY DEF Plain
<1> HIDE DEF Top
<1> QED
  BY <1>1, <1>2, <1>3, <1>4

(* A step that only changes the call on top.                                 *)
LEMMA TopKeeps ==
  ASSUME Plain, stack # <<>>, NEW call \in CallRecords,
         call.class = Top.class, call.todo \subseteq Top.todo,
         Classless(call.parameters, ClassesTo(Len(stack))),
         SetTop(call), UNCHANGED <<world, marks>>
  PROVE  Plain'
<1> DEFINE n == Len(stack)
<1>1. stack \in Seq(CallRecords) /\ n \in Nat \ {0}
  BY EmptySeq DEF Plain
<1>2. /\ stack' \in Seq(CallRecords) /\ Len(stack') = n
      /\ \A i \in 1..n : stack'[i] = IF i = n THEN call ELSE stack[i]
  BY <1>1, ExceptSeq DEF SetTop
<1>3. \A i \in 1..n : stack'[i].class = stack[i].class
  BY <1>1, <1>2 DEF Top, Last
<1>4. \A i \in 1..n : ClassesTo(i)' = ClassesTo(i)
  BY <1>1, <1>3 DEF ClassesTo
<1>5. stack' # <<>> => marks' = <<ClassesTo(Len(stack))>>'
  BY <1>1, <1>2, <1>4 DEF Plain
<1>6. ASSUME NEW i \in 1..n
      PROVE  /\ stack'[i].todo \subseteq world[stack'[i].class]
             /\ Classless(stack'[i].parameters, ClassesTo(i))
             /\ i < n => stack'[i].parameters # <<>>
  <2>1. /\ stack[i].todo \subseteq world[stack[i].class]
        /\ Classless(stack[i].parameters, ClassesTo(i))
        /\ i < n => stack[i].parameters # <<>>
    BY <1>6 DEF Plain
  <2>2. CASE i = n
    <3>1. stack'[i] = call /\ call.todo \subseteq world[call.class]
      BY <1>2, <2>1, <2>2, TopPlain
    <3> QED
      BY <2>2, <3>1
  <2>3. CASE i # n
    BY <1>2, <2>1, <2>3
  <2> QED
    BY <2>2, <2>3
<1>7. \A i, j \in 1..n : stack'[i].class = stack'[j].class => i = j
  BY <1>3 DEF Plain
<1> QED
  BY <1>2, <1>4, <1>5, <1>6, <1>7 DEF Plain

(* The constructors tried take no class that is being made                   *)
(* (GenericObjectGenerator.java:58-79).                                      *)
LEMMA TryKeeps == OInv /\ NoArrays /\ TryConstructor => Plain'
<1> SUFFICES ASSUME OInv, NoArrays, TryConstructor PROVE Plain'
  OBVIOUS
<1>1. Plain /\ stack # <<>>
  BY DEF OInv, TryConstructor
<1>2. /\ Top \in CallRecords /\ Top.todo \subseteq world[Top.class] /\ Top.class \in ClassNames
      /\ Classless(Top.parameters, ClassesTo(Len(stack)))
      /\ marks[Top.set] = ClassesTo(Len(stack))
  <2>1. Top.set = 1 /\ Top.class \in ClassNames
    BY <1>1, TopPlain DEF CallRecords
  <2> QED
    BY <1>1, <2>1, TopPlain
<1>3. PICK constructor \in Top.todo :
        SetTop(IF PotentialDeadlock(constructor) \/ constructor = <<>>
               THEN [Top EXCEPT !.todo = @ \ {constructor}]
               ELSE [[Top EXCEPT !.todo = @ \ {constructor}]
                        EXCEPT !.trying = TRUE, !.parameters = constructor])
  BY DEF TryConstructor
<1>4. UNCHANGED <<world, marks>>
  BY DEF TryConstructor
<1>5. CASE PotentialDeadlock(constructor) \/ constructor = <<>>
  <2> DEFINE call == [Top EXCEPT !.todo = @ \ {constructor}]
  <2>1. /\ call \in CallRecords /\ call.class = Top.class /\ call.todo \subseteq Top.todo
        /\ call.parameters = Top.parameters
    BY <1>2 DEF CallRecords
  <2>2. SetTop(call)
    BY <1>3, <1>5
  <2> HIDE DEF call
  <2> QED
    BY <1>1, <1>2, <1>4, <2>1, <2>2, TopKeeps
<1>6. CASE ~PotentialDeadlock(constructor) /\ constructor # <<>>
  <2> DEFINE call == [[Top EXCEPT !.todo = @ \ {constructor}]
                         EXCEPT !.trying = TRUE, !.parameters = constructor]
  <2>1. constructor \in Constructors /\ constructor \in world[Top.class]
    BY <1>2, <1>3 DEF CallRecords
  <2>2. /\ call \in CallRecords /\ call.class = Top.class /\ call.todo \subseteq Top.todo
        /\ call.parameters = constructor
    BY <1>2, <2>1 DEF CallRecords
  <2>3. Classless(constructor, ClassesTo(Len(stack)))
    BY <1>2, <1>6, <2>1 DEF NoArrays, Classless, PotentialDeadlock
  <2>4. SetTop(call)
    BY <1>3, <1>6
  <2> HIDE DEF call
  <2> QED
    BY <1>1, <1>4, <2>2, <2>3, <2>4, TopKeeps
<1> QED
  BY <1>5, <1>6

(* Parameters that need no call, and calls that end with an error            *)
(* (GenericObjectGenerator.java:85-99).                                      *)
LEMMA SlotKeeps ==
  OInv /\ NoArrays /\ (MakePrimitive \/ Overflow \/ NewInstance) => Plain'
<1> SUFFICES ASSUME OInv, NoArrays, MakePrimitive \/ Overflow \/ NewInstance PROVE Plain'
  OBVIOUS
<1>1. Plain /\ stack # <<>>
  BY DEF OInv, MakePrimitive, Overflow, NewInstance, ToMake, InSlot
<1>2. Top \in CallRecords /\ Classless(Top.parameters, ClassesTo(Len(stack)))
  BY <1>1, TopPlain
<1>3. UNCHANGED <<world, marks>>
  BY DEF MakePrimitive, Overflow, NewInstance
<1>4. CASE MakePrimitive
  <2>1. Top.parameters \in Constructors /\ Top.parameters # <<>>
    BY <1>2, <1>4 DEF CallRecords, MakePrimitive, InSlot
  <2>2. /\ Tail(Top.parameters) \in Constructors
        /\ Classless(Tail(Top.parameters), ClassesTo(Len(stack)))
    BY <1>2, <2>1, TailPlain
  <2>3. /\ NextSlot(Top) \in CallRecords /\ NextSlot(Top).class = Top.class
        /\ NextSlot(Top).todo \subseteq Top.todo
        /\ NextSlot(Top).parameters = Tail(Top.parameters)
    BY <1>2, <2>2 DEF NextSlot, CallRecords
  <2>4. SetTop(NextSlot(Top))
    BY <1>4 DEF MakePrimitive
  <2> QED
    BY <1>1, <1>3, <2>2, <2>3, <2>4, TopKeeps
<1>5. CASE Overflow \/ NewInstance
  <2>1. /\ Abandon(Top) \in CallRecords /\ Abandon(Top).class = Top.class
        /\ Abandon(Top).todo \subseteq Top.todo /\ Abandon(Top).parameters = <<>>
    BY <1>2, EmptySeq DEF Abandon, CallRecords, Constructors
  <2>2. Classless(<<>>, ClassesTo(Len(stack)))
    BY DEF Classless
  <2>3. SetTop(Abandon(Top))
    BY <1>5 DEF Overflow, NewInstance
  <2> QED
    BY <1>1, <1>3, <2>1, <2>2, <2>3, TopKeeps
<1> QED
  BY <1>4, <1>5

(* An object is made for a parameter of a class that is not being made       *)
(* (GenericObjectGenerator.java:50, 85).                                     *)
LEMMA MakeKeeps == OInv /\ NoArrays /\ MakeObject => Plain'
<1> SUFFICES ASSUME OInv, NoArrays, MakeObject PROVE Plain'
  OBVIOUS
<1> DEFINE n == Len(stack)
           call == Call(Slot.class, 1)
<1>1. Plain /\ stack # <<>> /\ Top.trying /\ Top.parameters # <<>> /\ Slot.class # Primitive
  BY DEF OInv, MakeObject, ToMake, InSlot
<1>2. /\ stack \in Seq(CallRecords) /\ n \in Nat \ {0} /\ Top \in CallRecords
      /\ Classless(Top.parameters, ClassesTo(n)) /\ marks = <<ClassesTo(n)>>
  BY <1>1, TopPlain
<1>3. Slot \in [class : ClassNames \cup {Primitive}, dimensions : Nat]
      /\ Slot.dimensions = 0 /\ Slot.class \notin ClassesTo(n) /\ Slot.class \in ClassNames
  <2>1. Top.parameters \in Constructors
    BY <1>2 DEF CallRecords
  <2> DEFINE types == [class : ClassNames \cup {Primitive}, dimensions : Nat]
  <2>2. Top.parameters \in Seq(types) /\ Top.parameters # <<>>
    BY <1>1, <2>1 DEF Constructors
  <2> HIDE DEF types
  <2>3. 1 \in DOMAIN Top.parameters /\ Head(Top.parameters) = Top.parameters[1]
    BY <2>2
  <2>4. Top.parameters[1] \in types
    BY <2>2, <2>3
  <2>5. /\ Slot = Top.parameters[1]
        /\ Slot \in [class : ClassNames \cup {Primitive}, dimensions : Nat]
    BY <2>3, <2>4 DEF Slot, types
  <2> QED
    BY <1>1, <1>2, <2>3, <2>5 DEF Classless
<1>4. /\ stack' = Append(stack, call) /\ marks' = <<ClassesTo(n) \cup {Slot.class}>>
      /\ world' = world
  <2>1. Top.set = 1
    BY <1>2 DEF CallRecords
  <2> QED
    BY <1>2, <1>3, <2>1 DEF MakeObject
<1>5. call \in CallRecords /\ call.class = Slot.class /\ call.parameters = <<>>
      /\ call.todo = world[call.class]
  <2>1. world[Slot.class] \in SUBSET Constructors
    BY <1>3, ObjectsAssumption DEF OInv
  <2> QED
    BY <1>3, <2>1, EmptySeq DEF Call, CallRecords, Constructors
<1> HIDE DEF call
<1>6. /\ stack' \in Seq(CallRecords) /\ Len(stack') = n + 1
      /\ \A i \in 1..n : stack'[i] = stack[i]
      /\ stack'[n + 1] = call
  BY <1>2, <1>4, <1>5, AppendProperties
<1>7. \A i \in 1..n : ClassesTo(i)' = ClassesTo(i)
  <2>1. \A i \in 1..n : \A k \in 1..i : stack'[k] = stack[k]
    BY <1>2, <1>6
  <2> QED
    BY <2>1 DEF ClassesTo
<1>8. ClassesTo(Len(stack))' = ClassesTo(n) \cup {Slot.class}
  <2>1. \A k \in 1..n + 1 : k \in 1..n \/ k = n + 1
    BY <1>2
  <2>2. \A k \in 1..n : k \in 1..n + 1
    BY <1>2
  <2>3. n + 1 \in 1..n + 1 /\ stack'[n + 1].class = Slot.class
    BY <1>2, <1>5, <1>6
  <2>4. ClassesTo(Len(stack))' = {stack'[k].class : k \in 1..n + 1}
    BY <1>6 DEF ClassesTo
  <2>5. ClassesTo(n) = {stack'[k].class : k \in 1..n}
    BY <1>6 DEF ClassesTo
  <2>6. ASSUME NEW x \in {stack'[k].class : k \in 1..n + 1}
        PROVE  x \in ClassesTo(n) \cup {Slot.class}
    <3>1. PICK k \in 1..n + 1 : x = stack'[k].class
      BY <2>6
    <3> QED
      BY <2>1, <2>3, <2>5, <3>1
  <2>7. ASSUME NEW x \in ClassesTo(n) \cup {Slot.class}
        PROVE  x \in {stack'[k].class : k \in 1..n + 1}
    <3>1. CASE x = Slot.class
      BY <2>3, <3>1
    <3>2. CASE x \in ClassesTo(n)
      <4>1. PICK k \in 1..n : x = stack'[k].class
        BY <2>5, <3>2
      <4> QED
        BY <2>2, <4>1
    <3> QED
      BY <2>7, <3>1, <3>2
  <2> QED
    BY <2>4, <2>6, <2>7
<1>9. ASSUME NEW i \in 1..n + 1
      PROVE  /\ stack'[i].todo \subseteq world[stack'[i].class]
             /\ Classless(stack'[i].parameters, ClassesTo(i)')
             /\ i < n + 1 => stack'[i].parameters # <<>>
  <2>1. CASE i = n + 1
    BY <1>5, <1>6, <2>1 DEF Classless
  <2>2. CASE i # n + 1
    <3>1. i \in 1..n /\ stack'[i] = stack[i] /\ ClassesTo(i)' = ClassesTo(i)
      BY <1>2, <1>6, <1>7, <1>9, <2>2
    <3>2. /\ stack[i].todo \subseteq world[stack[i].class]
          /\ Classless(stack[i].parameters, ClassesTo(i))
          /\ i < n => stack[i].parameters # <<>>
      BY <1>1, <3>1 DEF Plain
    <3>3. i = n => stack[i].parameters # <<>>
      BY <1>1 DEF Top, Last
    <3> QED
      BY <1>2, <3>1, <3>2, <3>3
  <2> QED
    BY <2>1, <2>2
<1>10. ASSUME NEW i \in 1..n + 1, NEW j \in 1..n + 1, stack'[i].class = stack'[j].class
       PROVE  i = j
  <2>1. \A k \in 1..n : stack[k].class # Slot.class
    BY <1>3 DEF ClassesTo
  <2>2. \A k, l \in 1..n : stack[k].class = stack[l].class => k = l
    BY <1>1 DEF Plain
  <2> QED
    BY <1>2, <1>5, <1>6, <1>10, <2>1, <2>2
<1>11. marks' = <<ClassesTo(Len(stack))'>>
  BY <1>4, <1>8
<1>12. n + 1 = Len(stack')
  BY <1>6
<1>13. (\A i \in 1..Len(stack) :
           /\ stack[i].todo \subseteq world[stack[i].class]
           /\ Classless(stack[i].parameters, ClassesTo(i))
           /\ i < Len(stack) => stack[i].parameters # <<>>)'
  BY <1>4, <1>9, <1>12
<1>14. (\A i, j \in 1..Len(stack) : stack[i].class = stack[j].class => i = j)'
  BY <1>10, <1>12
<1>15. (stack # <<>> => marks = <<ClassesTo(Len(stack))>>)'
  BY <1>11
<1>16. (stack \in Seq(CallRecords))'
  BY <1>6
<1> QED
  BY <1>13, <1>14, <1>15, <1>16 DEF Plain

(* What was made leaves the set, and the call below goes on                  *)
(* (GenericObjectGenerator.java:105).                                        *)
LEMMA ReturnKeeps == OInv /\ NoArrays /\ Return => Plain'
<1> SUFFICES ASSUME OInv, NoArrays, Return PROVE Plain'
  OBVIOUS
<1> DEFINE n == Len(stack)
           below == Front(stack)
<1>1. Plain /\ stack # <<>> /\ world' = world
  BY DEF OInv, Return
<1>2. /\ stack \in Seq(CallRecords) /\ n \in Nat \ {0} /\ Top \in CallRecords
      /\ marks = <<ClassesTo(n)>> /\ Top = stack[n]
  BY <1>1, TopPlain DEF Top, Last
<1>3. /\ below \in Seq(CallRecords) /\ Len(below) = n - 1
      /\ \A i \in 1..n - 1 : below[i] = stack[i]
  <2>1. \A i \in 1..n - 1 : stack[i] \in CallRecords
    BY <1>2, ElementOfSeq
  <2> QED
    BY <1>2, <2>1, SubSeqProperties DEF Front
<1>4. CASE below = <<>>
  <2>1. stack' = <<>>
    BY <1>4 DEF Return
  <2> QED
    BY <1>1, <2>1, EmptySeq DEF Plain
<1>5. CASE below # <<>>
  <2>1. n - 1 \in 1..n - 1 /\ n - 1 \in Nat
    BY <1>2, <1>3, <1>5, EmptySeq
  <2> DEFINE call == NextSlot(stack[n - 1])
  <2>2. /\ stack[n - 1] \in CallRecords /\ stack[n - 1].parameters # <<>>
        /\ stack[n - 1].todo \subseteq world[stack[n - 1].class]
        /\ Classless(stack[n - 1].parameters, ClassesTo(n - 1))
    <3>1. stack[n - 1] \in CallRecords
      BY <1>2, <2>1, ElementOfSeq
    <3> QED
      BY <1>1, <2>1, <3>1 DEF Plain
  <2>3. stack[n - 1].set = 1 /\ Top.set = 1 /\ stack[n - 1].elements = -1
        /\ stack[n - 1].parameters \in Constructors
    BY <1>2, <2>2 DEF CallRecords
  <2>4. /\ call \in CallRecords /\ call.class = stack[n - 1].class
        /\ call.todo = stack[n - 1].todo /\ Classless(call.parameters, ClassesTo(n - 1))
    <3>1. /\ Tail(stack[n - 1].parameters) \in Constructors
          /\ Classless(Tail(stack[n - 1].parameters), ClassesTo(n - 1))
      BY <2>2, <2>3, TailPlain
    <3> QED
      BY <2>2, <3>1 DEF NextSlot, CallRecords
  <2>5. /\ stack' = [below EXCEPT ![n - 1] = call]
        /\ marks' = <<ClassesTo(n) \ {Top.class}>>
    <3>1. Last(below).set = Top.set /\ below[n - 1] = stack[n - 1]
      BY <1>3, <2>1, <2>3 DEF Last
    <3>2. stack' = [below EXCEPT ![n - 1] = IF @.elements > 1 THEN [@ EXCEPT !.elements = @ - 1]
                                            ELSE NextSlot(@)]
      BY <1>3, <1>5 DEF Return
    <3>3. marks' = [marks EXCEPT ![Top.set] = @ \ {Top.class}]
      BY <1>5, <3>1 DEF Return
    <3> QED
      BY <1>2, <2>3, <3>1, <3>2, <3>3
  <2> HIDE DEF call, below
  <2>6. /\ stack' \in Seq(CallRecords) /\ Len(stack') = n - 1
        /\ \A i \in 1..n - 1 : stack'[i] = IF i = n - 1 THEN call ELSE stack[i]
    BY <1>3, <2>1, <2>4, <2>5, ExceptSeq
  <2>7. \A i \in 1..n - 1 : stack'[i].class = stack[i].class
    BY <2>4, <2>6
  <2>8. \A i \in 1..n - 1 : ClassesTo(i)' = ClassesTo(i)
    BY <2>1, <2>7 DEF ClassesTo
  <2>9. marks' = <<ClassesTo(n - 1)>>
    <3>1. \A k \in 1..n - 1 : stack[k].class # Top.class
      BY <1>1, <1>2 DEF Plain
    <3>2. ClassesTo(n) \ {Top.class} = ClassesTo(n - 1)
      BY <1>2, <3>1 DEF ClassesTo
    <3> QED
      BY <2>5, <3>2
  <2>10. ASSUME NEW i \in 1..n - 1
         PROVE  /\ stack'[i].todo \subseteq world[stack'[i].class]
                /\ Classless(stack'[i].parameters, ClassesTo(i))
                /\ i < n - 1 => stack'[i].parameters # <<>>
    <3>1. /\ stack[i].todo \subseteq world[stack[i].class]
          /\ Classless(stack[i].parameters, ClassesTo(i))
          /\ stack[i].parameters # <<>>
      BY <1>1, <1>2 DEF Plain
    <3>2. CASE i = n - 1
      BY <2>4, <2>6, <3>1, <3>2
    <3>3. CASE i # n - 1
      BY <2>6, <3>1, <3>3
    <3> QED
      BY <3>2, <3>3
  <2>11. \A i, j \in 1..n - 1 : stack'[i].class = stack'[j].class => i = j
    BY <1>1, <1>2, <2>7 DEF Plain
  <2> QED
    BY <1>1, <2>1, <2>6, <2>8, <2>9, <2>10, <2>11 DEF Plain
<1> QED
  BY <1>4, <1>5

(* As long as no constructor takes an array, no object is made for one of    *)
(* its own class: classSetForDeadLock does what it is named for              *)
(* (GenericObjectGenerator.java:48-108).                                     *)
THEOREM NoneOfItself == OSpec => []NotOfItself
<1>1. OInit => OInv
  <2> SUFFICES ASSUME OInit, NoArrays PROVE Plain
    BY DEF OInit, OInv
  <2>1. PICK class \in ClassNames : marks = <<{class}>> /\ stack = <<Call(class, 1)>>
    BY DEF OInit
  <2> DEFINE call == Call(class, 1)
  <2>2. call \in CallRecords /\ call.class = class /\ call.todo = world[class]
        /\ call.parameters = <<>>
    <3>1. world[class] \in SUBSET Constructors
      BY ObjectsAssumption DEF OInit
    <3> QED
      BY <3>1, EmptySeq DEF Call, CallRecords, Constructors
  <2>3. stack = <<call>>
    BY <2>1
  <2> HIDE DEF call
  <2>4. stack \in Seq(CallRecords) /\ Len(stack) = 1 /\ stack[1] = call
    BY <2>2, <2>3
  <2>5. ClassesTo(1) = {class}
    BY <2>2, <2>4 DEF ClassesTo
  <2> QED
    BY <2>1, <2>2, <2>4, <2>5 DEF Plain, Classless
<1>2. OInv /\ [ONext]_ovars => OInv'
  <2> SUFFICES ASSUME OInv, [ONext]_ovars PROVE OInv'
    OBVIOUS
  <2>1. world' = world
    BY DEF ONext, TryConstructor, MakePrimitive, DrawLength, MakeObject, Overflow, NewInstance,
       Return, ovars
  <2>2. NoArrays' => NoArrays
    BY <2>1 DEF NoArrays
  <2>3. ASSUME NoArrays PROVE ~DrawLength
    <3> SUFFICES ASSUME DrawLength PROVE FALSE
      OBVIOUS
    <3>1. Plain /\ stack # <<>> /\ Top.parameters # <<>> /\ Slot.dimensions > 0
      BY <2>3 DEF OInv, DrawLength, InSlot
    <3>2. Top.parameters \in Constructors /\ Classless(Top.parameters, ClassesTo(Len(stack)))
      BY <3>1, TopPlain DEF CallRecords
    <3>3. Slot = Top.parameters[1] /\ 1 \in DOMAIN Top.parameters
      BY <3>1, <3>2, HeadTailProperties, EmptySeq, LenProperties DEF Slot, Constructors
    <3> QED
      BY <3>1, <3>2, <3>3 DEF Classless
  <2>4. CASE UNCHANGED ovars
    BY <2>4 DEF ovars, OInv, NoArrays, Plain, ClassesTo
  <2>5. ASSUME NoArrays, ONext PROVE Plain'
    BY <2>3, <2>5, TryKeeps, SlotKeeps, MakeKeeps, ReturnKeeps DEF ONext
  <2> QED
    BY <2>1, <2>2, <2>4, <2>5 DEF OInv
<1>3. OInv => NotOfItself
  <2> SUFFICES ASSUME OInv, NoArrays PROVE NotOfItself
    BY DEF NotOfItself
  <2>1. DOMAIN stack = 1..Len(stack)
    BY LenProperties DEF OInv, Plain
  <2> QED
    BY <2>1 DEF OInv, Plain, NotOfItself
<1> QED
  BY <1>1, <1>2, <1>3, PTL DEF OSpec
-----------------------------------------------------------------------------
(* Services.                                                                 *)

Descriptions == [name : ServiceNames, type : {"Java", "Native"}] \union {NoInfo}
Binders == [service : ServiceNames, life : Nat]

MTypeOK ==
    /\ life \in [ServiceNames -> Nat]
    /\ listed \in Seq(ServiceNames)
    /\ infos \in Seq(Descriptions)
    /\ Len(infos) <= Len(listed)

(* A service that was listed and has not died since runs. So getService has  *)
(* found its binder, which is alive, while it is described.                  *)
ListedRun == \A i \in DOMAIN listed : listed[i] \notin ended => Runs(listed[i])

InTheList == mpc \in {"next", "describe", "thrown", "done"}

Described ==
    /\ ~InTheList => listed = <<>> /\ infos = <<>>
    /\ mpc \in {"describe", "thrown"} => Len(infos) < Len(listed)
    /\ mpc = "describe" =>
          /\ binder \in Binders
          /\ binder.service = Following
          /\ Following \notin ended => Alive(binder)

MInv == MTypeOK /\ ListedRun /\ Described /\ DescriptionsTell

(* Who is next is in the list.                                               *)
LEMMA FollowingListed ==
  ASSUME MTypeOK, Len(infos) < Len(listed)
  PROVE  /\ Len(infos) \in Nat /\ Len(infos) + 1 \in DOMAIN listed
         /\ Following = listed[Len(infos) + 1] /\ Following \in ServiceNames
<1>1. /\ Len(infos) \in Nat /\ Len(listed) \in Nat /\ DOMAIN listed = 1..Len(listed)
  BY LenProperties DEF MTypeOK
<1>2. Len(infos) + 1 \in 1..Len(listed)
  BY <1>1
<1> QED
  BY <1>1, <1>2, ElementOfSeq DEF MTypeOK, Following

(* The service manager's list names services that run.                       *)
LEMMA ListingKeeps ==
  ASSUME MInv, ListServices
  PROVE  MInv'
<1> DEFINE running == {s \in ServiceNames : Runs(s)}
<1>1. IsFiniteSet(running)
  BY ServicesAssumption, FS_Subset
<1>2. Cardinality(running) \in Nat
  BY <1>1, FS_CardinalityType
<1>3. listed' \in [1..Cardinality(running) -> running]
  BY DEF ListServices, SetToSeqs
<1>4. DOMAIN listed' = 1..Cardinality(running)
      /\ \A i \in DOMAIN listed' : listed'[i] \in running
  BY <1>3
<1>5. \A i \in DOMAIN listed' : listed'[i] \in ServiceNames /\ Runs(listed'[i])
  BY <1>4
<1>6. listed' \in [1..Cardinality(running) -> ServiceNames]
  BY <1>3
<1>7. listed' \in Seq(ServiceNames)
  BY <1>2, <1>6, SeqDef, Zenon
<1> HIDE DEF running
<1>8. mpc = "idle" /\ mpc' = "next" /\ life' = life /\ infos' = infos /\ ended' = {}
  BY DEF ListServices, MGoto
<1>9. infos = <<>>
  BY <1>8 DEF MInv, Described, InTheList
<1>10. Len(infos') = 0 /\ DOMAIN infos' = {} /\ Len(listed') >= 0
  BY <1>5, <1>7, <1>8, <1>9, EmptySeq, LenProperties
<1>11. (MTypeOK)'
  BY <1>5, <1>7, <1>8, <1>9, <1>10 DEF MInv, MTypeOK
<1>12. (ListedRun)'
  BY <1>5, <1>7, <1>8 DEF ListedRun, Runs
<1>13. (Described)'
  BY <1>8 DEF Described, InTheList
<1>14. (DescriptionsTell)'
  BY <1>8, <1>10 DEF DescriptionsTell
<1> QED
  BY <1>11, <1>12, <1>13, <1>14 DEF MInv

(* A service that has not died since it was listed has a binder that lives.  *)
LEMMA GetListedKeeps ==
  ASSUME MInv, GetListed
  PROVE  MInv'
<1>1. /\ mpc = "next" /\ Len(infos) < Len(listed)
      /\ UNCHANGED <<life, listed, infos, ended>>
      /\ binder' \in GetService(Following)
      /\ mpc' = IF binder' = NoBinder THEN "thrown" ELSE "describe"
  BY DEF GetListed
<1>2. Len(infos) + 1 \in DOMAIN listed /\ Following = listed[Len(infos) + 1]
      /\ Following \in ServiceNames
  BY <1>1, FollowingListed DEF MInv
<1>3. Following' = Following
  BY <1>1 DEF Following
<1>4. (MTypeOK)' /\ (ListedRun)'
  BY <1>1 DEF MInv, MTypeOK, ListedRun, Runs
<1>5. binder' # NoBinder => binder' \in Binders /\ binder'.service = Following
  BY <1>1, <1>2 DEF GetService, Binders, MInv, MTypeOK, Runs
<1>6. ASSUME Following \notin ended
      PROVE  /\ binder' = [service |-> Following, life |-> life[Following]]
             /\ Runs(Following)
  BY <1>1, <1>2, <1>6 DEF MInv, ListedRun, GetService
<1>7. Following \notin ended => binder' # NoBinder /\ Alive(binder')
  BY <1>2, <1>6, ServicesAssumption DEF Alive, MInv, MTypeOK
<1>8. Following \notin ended => Alive(binder)'
  BY <1>1, <1>7 DEF Alive, Runs
<1>9. (Described)'
  BY <1>1, <1>3, <1>5, <1>8 DEF Described, InTheList
<1>10. (DescriptionsTell)'
  BY <1>1, <1>3, <1>7 DEF MInv, DescriptionsTell
<1> QED
  BY <1>4, <1>9, <1>10 DEF MInv

(* One more description, of the service that follows.                        *)
LEMMA OneMoreTold ==
  ASSUME MInv, NEW info \in Descriptions, Len(infos) < Len(listed),
         infos' = Append(infos, info), mpc' = "next", UNCHANGED <<life, listed, ended>>,
         info # NoInfo =>
            /\ info.name = Following
            /\ info.type = "Java" => Following \in InJava
            /\ info.type = "Native" /\ Following \in InJava => Following \in ended
  PROVE  MInv'
<1>1. infos \in Seq(Descriptions) /\ Len(infos) \in Nat /\ Len(listed) \in Nat
      /\ Following = listed[Len(infos) + 1]
  BY FollowingListed, LenProperties DEF MInv, MTypeOK
<1>2. /\ infos' \in Seq(Descriptions) /\ Len(infos') = Len(infos) + 1
      /\ DOMAIN infos' = 1..Len(infos) + 1
      /\ \A i \in 1..Len(infos) : infos'[i] = infos[i]
      /\ infos'[Len(infos) + 1] = info
  BY <1>1, AppendProperties, LenProperties
<1>3. (MTypeOK)' /\ (ListedRun)'
  BY <1>1, <1>2 DEF MInv, MTypeOK, ListedRun, Runs
<1>4. (Described)'
  BY DEF Described, InTheList
<1>5. DOMAIN infos = 1..Len(infos)
  BY <1>1, LenProperties
<1>6. ASSUME NEW i \in 1..Len(infos) + 1, infos'[i] # NoInfo
      PROVE  /\ infos'[i].name = listed[i]
             /\ infos'[i].type = "Java" => listed[i] \in InJava
             /\ infos'[i].type = "Native" /\ listed[i] \in InJava => listed[i] \in ended
  <2>1. CASE i \in 1..Len(infos)
    BY <1>2, <1>5, <1>6, <2>1 DEF MInv, DescriptionsTell
  <2>2. CASE i = Len(infos) + 1
    BY <1>1, <1>2, <1>6, <2>2
  <2> QED
    BY <1>1, <2>1, <2>2
<1>7. (DescriptionsTell)'
  BY <1>1, <1>2, <1>6 DEF DescriptionsTell
<1> QED
  BY <1>3, <1>4, <1>7 DEF MInv

(* The type is Java if the service answers and its class is found.           *)
LEMMA DescribingKeeps ==
  ASSUME MInv, Refused \/ DescribeService
  PROVE  MInv'
<1>1. CASE Refused
  BY <1>1, OneMoreTold DEF Refused, MGoto, Descriptions
<1>2. CASE DescribeService
  <2> DEFINE info == [name |-> binder.service,
                      type |-> IF Alive(binder) /\ binder.service \in InJava
                               THEN "Java" ELSE "Native"]
  <2>1. /\ mpc = "describe" /\ mpc' = "next" /\ infos' = Append(infos, info)
        /\ UNCHANGED <<life, listed, ended>>
    BY <1>2 DEF DescribeService, MGoto
  <2>2. /\ Len(infos) < Len(listed) /\ binder \in Binders /\ binder.service = Following
        /\ Following \notin ended => Alive(binder)
    BY <2>1 DEF MInv, Described
  <2>3. info \in Descriptions
    BY <2>2 DEF Descriptions, Binders
  <2>4. /\ info.name = Following
        /\ info.type = "Java" => Following \in InJava
        /\ info.type = "Native" /\ Following \in InJava => Following \in ended
    BY <2>2
  <2> HIDE DEF info
  <2> QED
    BY <2>1, <2>2, <2>3, <2>4, OneMoreTold
<1> QED
  BY <1>1, <1>2

(* What happens to stubs does not matter to descriptions.                    *)
LEMMA StubsKeep ==
  ASSUME MInv, UNCHANGED <<life, listed, infos, ended>>,
         \/ ~InTheList /\ mpc' \in {"idle", "link", "stub", "make"}
         \/ UNCHANGED <<mpc, binder>>
         \/ mpc = "next" /\ mpc' = "done"
  PROVE  MInv'
<1>1. (MTypeOK)' /\ (ListedRun)'
  BY DEF MInv, MTypeOK, ListedRun, Runs
<1>2. (Described)' /\ (DescriptionsTell)'
  BY DEF MInv, Described, DescriptionsTell, InTheList, Following, Alive, Runs
<1> QED
  BY <1>1, <1>2 DEF MInv

(* A service that dies is one that died since; another does not change.      *)
LEMMA LivesKeep ==
  ASSUME MInv, NEW s \in ServiceNames, ServiceDies(s) \/ ServiceStarts(s)
  PROVE  MInv'
<1>1. /\ life' = [life EXCEPT ![s] = @ + 1]
      /\ UNCHANGED <<mpc, listed, infos, binder>>
      /\ ended' = ended \/ ended' = ended \union {s}
      /\ s \in ended' \/ ~Runs(s)
  BY DEF ServiceDies, ServiceStarts
<1>2. (MTypeOK)'
  BY <1>1 DEF MInv, MTypeOK
<1>3. \A t \in ServiceNames : t # s => life'[t] = life[t] /\ (Runs(t)' <=> Runs(t))
  BY <1>1 DEF MInv, MTypeOK, Runs
<1>4. ASSUME NEW i \in DOMAIN listed, listed[i] \notin ended'
      PROVE  Runs(listed[i])'
  <2>1. listed[i] \in ServiceNames /\ listed[i] \notin ended /\ Runs(listed[i])
    BY <1>1, <1>4, LenProperties, ElementOfSeq DEF MInv, MTypeOK, ListedRun
  <2>2. listed[i] # s
    BY <1>1, <1>4, <2>1
  <2> QED
    BY <1>1, <1>3, <2>1, <2>2
<1>5. (ListedRun)'
  BY <1>1, <1>4 DEF ListedRun
<1>6. Following' = Following
  BY <1>1 DEF Following
<1>7. ASSUME mpc = "describe", Following \notin ended' PROVE Alive(binder)'
  <2>1. /\ binder \in Binders /\ binder.service = Following /\ Following \notin ended
        /\ Runs(Following) /\ life[Following] = binder.life
    BY <1>1, <1>7 DEF MInv, Described, Alive
  <2>2. Following # s
    BY <1>1, <1>7, <2>1
  <2>3. Following \in ServiceNames
    BY <2>1 DEF Binders
  <2> QED
    BY <1>1, <1>3, <2>1, <2>2, <2>3 DEF Alive, Runs
<1>8. (Described)'
  BY <1>1, <1>6, <1>7 DEF MInv, Described, InTheList
<1>9. (DescriptionsTell)'
  BY <1>1, <1>6 DEF MInv, DescriptionsTell
<1> QED
  BY <1>2, <1>5, <1>8, <1>9 DEF MInv

(* Descriptions are of the services listed, in their order, and only a       *)
(* service that died meanwhile is described as what it is not, or ends the   *)
(* list (ServiceManagerHelper.java:32-83).                                   *)
THEOREM DescriptionsHold == MSpec => []DescriptionsTell
<1>1. MInit => MInv
  <2> SUFFICES ASSUME MInit PROVE MInv
    OBVIOUS
  <2>1. /\ Len(listed) = 0 /\ Len(infos) = 0 /\ DOMAIN infos = {} /\ DOMAIN listed = {}
        /\ listed \in Seq(ServiceNames) /\ infos \in Seq(Descriptions)
    BY EmptySeq, LenProperties DEF MInit
  <2> QED
    BY <2>1 DEF MInit, MInv, MTypeOK, ListedRun, Described, InTheList, DescriptionsTell
<1>2. MInv /\ [MNext]_mvars => MInv'
  <2> SUFFICES ASSUME MInv, [MNext]_mvars PROVE MInv'
    OBVIOUS
  <2>1. CASE Parsed
    BY <2>1, StubsKeep DEF Parsed, MGoto
  <2>2. CASE LinkToDeath \/ AskDescriptor \/ AsInterface \/ StubFails
    BY <2>2, StubsKeep DEF LinkToDeath, AskDescriptor, AsInterface, StubFails, MGoto, InTheList
  <2>3. ASSUME NEW s \in ServiceNames, GetStub(s) PROVE MInv'
    BY <2>3, StubsKeep DEF GetStub, InTheList
  <2>4. ASSUME NEW c \in 1..MaxStubs, BinderDied(c) PROVE MInv'
    BY <2>4, StubsKeep DEF BinderDied
  <2>5. CASE UNCHANGED mvars
    BY <2>5, StubsKeep DEF mvars
  <2> QED
    BY <2>1, <2>2, <2>3, <2>4, <2>5, ListingKeeps, GetListedKeeps, DescribingKeeps, LivesKeep
    DEF MNext
<1>3. MInv => DescriptionsTell
  BY DEF MInv
<1> QED
  BY <1>1, <1>2, <1>3, PTL DEF MSpec
-----------------------------------------------------------------------------
(* MethodLookup. What is cached is what a search would have found for types   *)
(* of these names.                                                            *)
SameNames(call, types) == types \in Arguments /\ Named(types) = Named(call.types)
WithTypes(call, types) == [call EXCEPT !.types = types]

CacheFresh ==
    \A call \in Calls : Key(call) \in DOMAIN methodCache =>
        \E types : /\ SameNames(call, types)
                   /\ methodCache[Key(call)] = Searched(WithTypes(call, types))

LInv == CacheFresh /\ (asked # NotAsked => asked \in Calls) /\ LookupsFresh

(* Types that are those of a parameter list are known by their names.         *)
LEMMA ParametersNamed ==
  ASSUME NEW class \in DOMAIN Declared, NEW m \in ToSet(Declared[class]),
         m.types \in Arguments,
         NEW types \in Arguments, Named(types) = Named(m.types)
  PROVE  types = m.types
<1>1. PICK n \in 0..MaxArguments : m.types \in [1..n -> ArgumentTypes]
  BY DEF Arguments
<1>2. PICK k \in 0..MaxArguments : types \in [1..k -> ArgumentTypes]
  BY DEF Arguments
<1>3. DOMAIN Named(types) = 1..k /\ DOMAIN Named(m.types) = 1..n
  BY <1>1, <1>2 DEF Named
<1>4. DOMAIN types = DOMAIN m.types
  BY <1>1, <1>2, <1>3
<1>5. ASSUME NEW i \in DOMAIN m.types PROVE types[i] = m.types[i]
  <2>1. CanonicalName[types[i]] = Named(types)[i] /\ CanonicalName[m.types[i]] = Named(m.types)[i]
    BY <1>4, <1>5 DEF Named
  <2>2. types[i] \in ArgumentTypes
    BY <1>2, <1>4, <1>5
  <2> QED
    BY <1>5, <2>1, <2>2, LookupAssumption
<1> QED
  BY <1>1, <1>2, <1>4, <1>5

(* So the names decide which method is declared exactly so, if any is.        *)
LEMMA ExactByNames ==
  ASSUME NEW call \in Calls, NEW types, SameNames(call, types)
  PROVE  Exact(WithTypes(call, types)) = Exact(call)
<1> DEFINE other == WithTypes(call, types)
<1>1. /\ other.class = call.class /\ other.name = call.name /\ other.types = types
      /\ types \in Arguments /\ call.types \in Arguments /\ call.class \in DOMAIN Declared
      /\ Named(types) = Named(call.types)
  BY DEF Calls, WithTypes, SameNames
<1> HIDE DEF other
<1>2. ASSUME NEW m \in DeclaredAs(call) PROVE types = call.types
  <2>1. m \in ToSet(Declared[call.class]) /\ m.types = call.types
    BY <1>2 DEF DeclaredAs
  <2> QED
    BY <1>1, <2>1, ParametersNamed
<1>3. ASSUME NEW m \in DeclaredAs(other) PROVE types = call.types
  <2>1. m \in ToSet(Declared[call.class]) /\ m.types = types
    BY <1>1, <1>3 DEF DeclaredAs
  <2> QED
    BY <1>1, <2>1, ParametersNamed
<1>4. CASE DeclaredAs(call) = {} /\ DeclaredAs(other) = {}
  BY <1>4 DEF Exact, other
<1>5. CASE types = call.types
  <2>1. DeclaredAs(other) = DeclaredAs(call)
    BY <1>1, <1>5 DEF DeclaredAs
  <2> QED
    BY <2>1 DEF Exact, other
<1> QED
  BY <1>2, <1>3, <1>4, <1>5

(* An exact look-up finds the method that is declared exactly so, from the    *)
(* cache as well.                                                             *)
LEMMA CachedExact ==
  ASSUME CacheFresh, NEW call \in Calls, call.kind = "exact", Key(call) \in DOMAIN methodCache
  PROVE  methodCache[Key(call)] = Exact(call)
<1>1. PICK types : /\ SameNames(call, types)
                   /\ methodCache[Key(call)] = Searched(WithTypes(call, types))
  BY DEF CacheFresh
<1>2. WithTypes(call, types).kind = "exact"
  BY DEF WithTypes, Calls
<1> QED
  BY <1>1, <1>2, ExactByNames DEF Searched

(* The key of a call has its kind, class and name, and the names of the types. *)
LEMMA KeysTell ==
  ASSUME NEW call \in Calls, NEW other \in Calls, Key(call) = Key(other)
  PROVE  other = WithTypes(call, other.types) /\ SameNames(call, other.types)
<1>1. /\ call.kind = other.kind /\ call.class = other.class /\ call.name = other.name
      /\ Named(call.types) = Named(other.types)
  BY DEF Key
<1> QED
  BY <1>1 DEF Calls, WithTypes, SameNames

(* An entry that is a search's result for a call serves all calls of its key. *)
LEMMA EntryServes ==
  ASSUME NEW call \in Calls, NEW other \in Calls, Key(call) = Key(other)
  PROVE  \E types : SameNames(call, types) /\ Searched(other) = Searched(WithTypes(call, types))
BY KeysTell

(* What a call is answered from the cache, and from a search.                 *)
LEMMA AnswerFresh ==
  ASSUME NEW call \in Calls, NEW result, Ask(call, result),
         \E types : SameNames(call, types) /\ result = Searched(WithTypes(call, types))
  PROVE  (asked # NotAsked => asked \in Calls)' /\ LookupsFresh'
BY DEF Ask, LookupsFresh, SameNames, WithTypes

(* A call's own types have its names.                                         *)
LEMMA OwnTypes ==
  ASSUME NEW call \in Calls
  PROVE  SameNames(call, call.types) /\ WithTypes(call, call.types) = call
BY DEF SameNames, WithTypes, Calls

(* A call the cache answers is answered with what a search found once.        *)
LEMMA RecallKeeps ==
  ASSUME LInv, NEW call \in Calls, Recall(call)
  PROVE  LInv'
<1>1. Ask(call, methodCache[Key(call)]) /\ Key(call) \in DOMAIN methodCache /\ UNCHANGED methodCache
  BY DEF Recall
<1>2. CacheFresh'
  BY <1>1 DEF LInv, CacheFresh
<1>3. \E types : /\ SameNames(call, types)
                 /\ methodCache[Key(call)] = Searched(WithTypes(call, types))
  BY <1>1 DEF LInv, CacheFresh
<1> QED
  BY <1>1, <1>2, <1>3, AnswerFresh DEF LInv

(* An exact search enters what it found under the key of its own types.       *)
LEMMA ExactKeeps ==
  ASSUME LInv, NEW call \in Calls, FindMethodExact(call)
  PROVE  LInv'
<1>1. /\ call.kind = "exact" /\ Ask(call, Exact(call))
      /\ methodCache' = Put(methodCache, Key(call), Exact(call))
  BY DEF FindMethodExact
<1>2. Exact(call) = Searched(call)
  BY <1>1 DEF Searched
<1>3. CacheFresh'
  <2> SUFFICES ASSUME NEW c \in Calls, Key(c) \in DOMAIN methodCache'
               PROVE  \E types : /\ SameNames(c, types)
                                 /\ methodCache'[Key(c)] = Searched(WithTypes(c, types))
    BY DEF CacheFresh
  <2>1. CASE Key(c) = Key(call)
    <3>1. methodCache'[Key(c)] = Searched(call)
      BY <1>1, <1>2, <2>1 DEF Put
    <3> QED
      BY <2>1, <3>1, EntryServes
  <2>2. CASE Key(c) # Key(call)
    <3>1. Key(c) \in DOMAIN methodCache /\ methodCache'[Key(c)] = methodCache[Key(c)]
      BY <1>1, <2>2 DEF Put
    <3> QED
      BY <3>1 DEF LInv, CacheFresh
  <2> QED
    BY <2>1, <2>2
<1> QED
  BY <1>1, <1>2, <1>3, OwnTypes, AnswerFresh DEF LInv

(* Best matches: the exact method is found first, in the cache or not.        *)
LEMMA BestKeeps ==
  ASSUME LInv, NEW call \in Calls, FindMethodBestMatch(call)
  PROVE  LInv'
<1> DEFINE exactCall == [call EXCEPT !.kind = "exact"]
           known == Key(exactCall) \in DOMAIN methodCache
           exact == IF known THEN methodCache[Key(exactCall)] ELSE Exact(call)
           best == IF exact # NoMethod THEN exact ELSE BestMatch(call)
<1>1. /\ call.kind = "bestmatch" /\ Ask(call, best)
      /\ methodCache' = Put(Put(methodCache, Key(exactCall), exact), Key(call), best)
  BY DEF FindMethodBestMatch
<1>2. /\ exactCall \in Calls /\ exactCall.kind = "exact"
      /\ exactCall.class = call.class /\ exactCall.name = call.name /\ exactCall.types = call.types
  BY DEF Calls
<1> HIDE DEF exactCall
<1>3. Exact(exactCall) = Exact(call)
  BY <1>2 DEF Exact, DeclaredAs
<1>4. exact = Exact(call)
  BY <1>2, <1>3, CachedExact DEF LInv
<1>5. exact = Searched(exactCall)
  BY <1>2, <1>3, <1>4 DEF Searched
<1>6. best = Searched(call)
  BY <1>1, <1>4 DEF Searched
<1> HIDE DEF known, exact, best
<1>7. CacheFresh'
  <2> SUFFICES ASSUME NEW c \in Calls, Key(c) \in DOMAIN methodCache'
               PROVE  \E types : /\ SameNames(c, types)
                                 /\ methodCache'[Key(c)] = Searched(WithTypes(c, types))
    BY DEF CacheFresh
  <2>1. CASE Key(c) = Key(call)
    <3>1. methodCache'[Key(c)] = best
      BY <1>1, <2>1 DEF Put
    <3> QED
      BY <1>6, <2>1, <3>1, EntryServes
  <2>2. CASE Key(c) # Key(call) /\ Key(c) = Key(exactCall)
    <3>1. methodCache'[Key(c)] = exact
      BY <1>1, <2>2 DEF Put
    <3> QED
      BY <1>2, <1>5, <2>2, <3>1, EntryServes
  <2>3. CASE Key(c) # Key(call) /\ Key(c) # Key(exactCall)
    <3>1. Key(c) \in DOMAIN methodCache /\ methodCache'[Key(c)] = methodCache[Key(c)]
      BY <1>1, <2>3 DEF Put
    <3> QED
      BY <3>1 DEF LInv, CacheFresh
  <2> QED
    BY <2>1, <2>2, <2>3
<1> QED
  BY <1>1, <1>6, <1>7, OwnTypes, AnswerFresh DEF LInv

(* A look-up returns what a search without the cache returns for types of     *)
(* these names, whatever was asked before and found or not                    *)
(* (ReflectHelper.java:74-169).                                               *)
THEOREM LookupsHold == LSpec => []LookupsFresh
<1>1. LInit => LInv
  BY DEF LInit, LInv, CacheFresh, LookupsFresh
<1>2. LInv /\ [LNext]_lvars => LInv'
  <2>1. ASSUME LInv, UNCHANGED lvars PROVE LInv'
    BY <2>1 DEF LInv, CacheFresh, LookupsFresh, lvars
  <2> QED
    BY <2>1, RecallKeeps, ExactKeeps, BestKeeps DEF LNext
<1>3. LInv => LookupsFresh
  BY DEF LInv
<1> QED
  BY <1>1, <1>2, <1>3, PTL DEF LSpec
===============================================================================
