----------------------------- MODULE MethodLookup -----------------------------
(* utils/ReflectHelper: look-ups of methods, exact or best match, with a cache *)
(* that every caller shares and that keeps failures too. Its keys are names:   *)
(* null and a class without a canonical name, as one that is anonymous, give   *)
(* the same.                                                                   *)
EXTENDS Integers, Sequences, SequencesExt

CONSTANTS CanonicalName,  \* what a type puts in a key; null is among the types
          Assignable,     \* pairs of types: ClassUtils.isAssignable with boxing
          Lineage,        \* for each class, the classes from itself upwards
          Declared,       \* for each class, its methods as reflection lists them
          MethodNames,
          MaxArguments,   \* bound of the model: arguments of a call
          MaxLookups,     \* bound of the model: calls
          NoMethod, NotAsked

ArgumentTypes == DOMAIN CanonicalName

\* A type that shares its name with another is no parameter of a method.
ASSUME LookupAssumption ==
    \A class \in DOMAIN Declared : \A m \in ToSet(Declared[class]) :
        /\ m # NoMethod
        /\ \A i \in DOMAIN m.types : \A t \in ArgumentTypes :
               CanonicalName[t] = CanonicalName[m.types[i]] => t = m.types[i]

VARIABLES methodCache,  \* a function from keys to methods or NoMethod, for null
          asked,        \* the last call
          answer,       \* what it returned; NoMethod stands for NoSuchMethodError
          lookups

lvars == <<methodCache, asked, answer, lookups>>

Arguments == UNION {[1..n -> ArgumentTypes] : n \in 0..MaxArguments}
Calls == [kind : {"exact", "bestmatch"}, class : DOMAIN Declared, name : MethodNames, types : Arguments]

LInit == methodCache = <<>> /\ asked = NotAsked /\ answer = NoMethod /\ lookups = 0

Named(types) == [i \in DOMAIN types |-> CanonicalName[types[i]]]

\* Mutant: exact and best matches under one key.
KeyOfNames(call) == <<"any", call.class, call.name, Named(call.types)>>

Key(call) == <<call.kind, call.class, call.name, Named(call.types)>>

\* getDeclaredMethod
DeclaredAs(call) ==
    {m \in ToSet(Declared[call.class]) : m.name = call.name /\ m.types = call.types}
Exact(call) == IF DeclaredAs(call) = {} THEN NoMethod ELSE CHOOSE m \in DeclaredAs(call) : TRUE

Accepts(m, call) ==
    /\ m.name = call.name
    /\ Len(m.types) = Len(call.types)
    /\ \A i \in DOMAIN m.types : <<call.types[i], m.types[i]>> \in Assignable

\* The first that fits, from the class upwards; no private method of others.
First(methods) == IF methods = <<>> THEN NoMethod ELSE Head(methods)
BestMatch(call) ==
    First(FlattenSeq([i \in DOMAIN Lineage[call.class] |->
        SelectSeq(Declared[Lineage[call.class][i]],
                  LAMBDA m : Accepts(m, call) /\ (i = 1 \/ ~m.private))]))

Searched(call) ==
    IF call.kind = "bestmatch" /\ Exact(call) = NoMethod THEN BestMatch(call) ELSE Exact(call)

Put(cache, key, method) ==
    [k \in DOMAIN cache \union {key} |-> IF k = key THEN method ELSE cache[k]]

Ask(call, result) ==
    /\ lookups < MaxLookups /\ lookups' = lookups + 1
    /\ asked' = call
    /\ answer' = result

\* A key that is known answers at once, with the error if its method is null.
Recall(call) ==
    /\ Key(call) \in DOMAIN methodCache
    /\ Ask(call, methodCache[Key(call)])
    /\ UNCHANGED methodCache

FindMethodExact(call) ==
    /\ call.kind = "exact" /\ Key(call) \notin DOMAIN methodCache
    /\ Ask(call, Exact(call))
    /\ methodCache' = Put(methodCache, Key(call), Exact(call))

\* findMethodBestMatch asks for the exact match first, and so fills or finds
\* the key of that one too.
FindMethodBestMatch(call) ==
    LET exactCall == [call EXCEPT !.kind = "exact"]
        known == Key(exactCall) \in DOMAIN methodCache
        exact == IF known THEN methodCache[Key(exactCall)] ELSE Exact(call)
        best == IF exact # NoMethod THEN exact ELSE BestMatch(call)
    IN  /\ call.kind = "bestmatch" /\ Key(call) \notin DOMAIN methodCache
        /\ Ask(call, best)
        /\ methodCache' = Put(Put(methodCache, Key(exactCall), exact), Key(call), best)

LNext == \E call \in Calls : Recall(call) \/ FindMethodExact(call) \/ FindMethodBestMatch(call)

LSpec == LInit /\ [][LNext]_lvars
-----------------------------------------------------------------------------
\* Whatever was asked before, a look-up returns what a search without the cache
\* returns for types of these names: for the very types, if names tell them
\* apart. What null was answered may be answered for an anonymous class.
LookupsFresh ==
    asked # NotAsked =>
        \E types \in Arguments :
            /\ Named(types) = Named(asked.types)
            /\ answer = Searched([asked EXCEPT !.types = types])
=============================================================================
