------------------------------- MODULE BlockIds -------------------------------
(* arch/*/stalker.cpp and ThreadCoverageInfo in agent/types.cpp: the number    *)
(* under which a block is counted. A 32-bit agent halves the address; a 64-bit *)
(* one mixes the hash of the module's name with half the offset in it, but     *)
(* shifts the 32-bit hash by its own width, which is undefined.                *)
EXTENDS Integers, FiniteSets

CONSTANTS Modules,    \* moduleMap as initFridaContext took it: [hash, base, size]
          Addresses,  \* where branches are; some in modules that are not in the map
          HashMask,   \* the greatest 32-bit number, in the model's width
          ExclusiveOr(_, _),  \* ^ on words
          CountSize,  \* one more than the greatest Count
          MaxBlocks   \* bound of the model: executions

ASSUME BlocksAssumption ==
    /\ Modules \subseteq [hash : 0..HashMask, base : Nat, size : Nat]
    /\ \A m, n \in Modules : m # n => m.base + m.size <= n.base \/ n.base + n.size <= m.base
    /\ HashMask \in Nat /\ Addresses \subseteq Nat
    /\ CountSize \in Nat \ {0} /\ MaxBlocks \in Nat

\* Nothing is lost of a number that another is mixed in.
ASSUME XorAssumption ==
    \A hash \in 0..HashMask : \A m \in Modules : \A a, b \in 0..m.size :
        ExclusiveOr(hash, a) = ExclusiveOr(hash, b) => a = b

VARIABLES arch,          \* what the agent was built for
          shifted,       \* what is left of a hash that is shifted by 32
          blockCounter,  \* counts of one thread: a set of [id, count]
          counted,       \* history: a set of [id, address] since reset
          executed       \* blocks executed

bvars == <<arch, shifted, blockCounter, counted, executed>>

BInit ==
    /\ arch \in {"armeabi-v7a", "arm64-v8a"}
    /\ shifted \in {"nothing", "all"}
    /\ blockCounter = {} /\ counted = {} /\ executed = 0

\* gum_module_map_find
Found(address) == {m \in Modules : address \in m.base .. m.base + m.size - 1}

\* Thumb instructions lie at even addresses, those of ARM64 at multiples of 4.
Aligned(address) == address % (IF arch = "arm64-v8a" THEN 4 ELSE 2) = 0

HashPart(hash) == IF shifted = "all" THEN hash ELSE 0

\* Mutant: two bits of the offset are dropped where Thumb needs one.
AlignedAddress(address, module) ==
    IF arch = "arm64-v8a"
    THEN ExclusiveOr(HashPart(module.hash), (address - module.base) \div 2)
    ELSE address \div 4

ShortAddress(address, module) ==
    IF arch = "arm64-v8a"
    THEN ExclusiveOr(HashPart(module.hash), (address - module.base) \div 2)
    ELSE address \div 2

\* Count is an unsigned word.
IncCounter(id) ==
    LET old == {c \in blockCounter : c.id = id}
    IN  blockCounter' = (blockCounter \ old) \union
            {[id |-> id, count |-> IF old = {} THEN 1
                                   ELSE ((CHOOSE c \in old : TRUE).count + 1) % CountSize]}

\* A thread runs a block: those of modules that are not in the map count nothing.
TrackBlock(address) ==
    /\ executed < MaxBlocks /\ executed' = executed + 1
    /\ Aligned(address)
    /\ IF Found(address) = {}
         THEN UNCHANGED <<blockCounter, counted>>
         ELSE LET id == ShortAddress(address, CHOOSE m \in Found(address) : TRUE)
              IN  /\ IncCounter(id)
                  /\ counted' = counted \union {[id |-> id, address |-> address]}
    /\ UNCHANGED <<arch, shifted>>

Reset ==
    /\ blockCounter # {}
    /\ blockCounter' = {} /\ counted' = {}
    /\ UNCHANGED <<arch, shifted, executed>>

BNext == Reset \/ \E address \in Addresses : TrackBlock(address)

BSpec == BInit /\ [][BNext]_bvars
-----------------------------------------------------------------------------
\* Whatever the shift leaves of the hash, blocks that share a count are in
\* different modules of a 64-bit process: within a module, and in a 32-bit
\* process anywhere, each block is counted for itself.
BlocksApart ==
    \A c, d \in counted :
        c.id = d.id /\ c.address # d.address =>
            arch = "arm64-v8a" /\ Found(c.address) # Found(d.address)
=============================================================================
