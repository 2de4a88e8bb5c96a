----------------------------- MODULE Registers -----------------------------
(***************************************************************************)
(* The register map (registers/register-map.ts, the checks of              *)
(* devices/stored-files.ts on its file): which reads fetch a group, and    *)
(* how a real value becomes words and words a value.                       *)
(*                                                                         *)
(* A map is loaded, and settings are written and read back through it.     *)
(* Real values are counted in the finest scale, so that a scale is a       *)
(* number of them; a word holds WordSize values, of which the upper half   *)
(* is negative to an int16.                                                *)
(***************************************************************************)
EXTENDS Integers, Sequences, FiniteSets, SequencesExt, FiniteSetsExt, Functions

CONSTANTS
    Names,
    Addresses,        \* where registers may start
    WordSize,         \* 2^16
    Scales,           \* of the registers, in the finest
    WriteValues,      \* real values asked to be written
    MAX_BLOCK,        \* words of one read
    MAX_BRIDGED_GAP,
    MaxEncodes,
    Maps              \* the files' definitions, per name

\* A definition: where it is matters to the reads, its type to values.
Definition ==
    [address : Addresses, type : {"uint16", "int16", "uint32"},
     group : {"settings", "telemetry"}, verified : BOOLEAN, scale : Scales]

ASSUME RegistersAssumption ==
    /\ Maps \subseteq [Names -> Definition]
    /\ Addresses \subseteq Nat /\ WriteValues \subseteq Int
    /\ WordSize % 2 = 0 /\ {WordSize, MAX_BLOCK} \cup Scales \subseteq Nat \ {0}
    /\ MAX_BLOCK >= 2 /\ {MAX_BRIDGED_GAP, MaxEncodes} \subseteq Nat

VARIABLES
    map,      \* the definitions of the file, per name
    loaded,   \* "no", "refused" or "yes"
    stored,   \* the device's words, per address
    told,     \* per name: the value last taken, where one was
    writes

registerVars == <<map, loaded, stored, told, writes>>

wordCount(d) == IF d.type = "uint32" THEN 2 ELSE 1
EndOf(d) == d.address + wordCount(d)

RegistersInit ==
    /\ map \in Maps
    /\ loaded = "no" /\ told = <<>> /\ writes = 0
    /\ stored = [a \in 0..(Max(Addresses) + 1) |-> 0]

(***************************************************************************)
(* Loading: registers may not overlap.                                      *)
(***************************************************************************)
ByAddress(m, n) == map[m].address < map[n].address
InOrder(S) == SetToSortSeq(S, ByAddress)

(* A plausible bug: two registers at one address are refused, and nothing   *)
(* else is.                                                                 *)
OverlapsAtStart(m, n) == map[m].address = map[n].address

Overlaps(m, n) == map[m].address <= map[n].address /\ map[n].address < EndOf(map[m])

parseRegisterFile ==
    /\ loaded = "no"
    /\ loaded' = IF \E m, n \in Names : m # n /\ Overlaps(m, n)
                 THEN "refused" ELSE "yes"
    /\ UNCHANGED <<map, stored, told, writes>>

(***************************************************************************)
(* The reads of a group: in address order each register joins the read      *)
(* before it when it follows at once, or after a gap that may be bridged,   *)
(* and the read stays small enough.                                         *)
(***************************************************************************)
list(group) == InOrder({n \in Names : map[n].group = group})

(* A plausible bug: a gap is bridged also over a register of another group. *)
BridgeableAcross(end, n, previous) ==
    LET d == map[n] IN
    \/ d.address = end
    \/ d.address - end <= MAX_BRIDGED_GAP /\ map[previous].verified /\ d.verified

Bridgeable(end, n, previous) ==
    LET d == map[n] IN
    \/ d.address = end
    \/ /\ d.address - end <= MAX_BRIDGED_GAP
       /\ map[previous].verified /\ d.verified
       /\ ~\E o \in Names : end <= map[o].address /\ map[o].address < d.address

(* A plausible bug: the width of the register that joins is left out of the *)
(* limit.                                                                   *)
FitsReadByStart(block, d) == d.address - block.address + 1 <= MAX_BLOCK

FitsRead(block, d) == EndOf(d) - block.address <= MAX_BLOCK

blocks(group) ==
    LET names == list(group)
        Join(sofar, n) ==
            LET d == map[n]
                fresh == [address |-> d.address, count |-> wordCount(d)]
            IN  IF sofar.blocks = <<>>
                THEN [blocks |-> <<fresh>>, previous |-> n]
                ELSE LET last == Last(sofar.blocks)
                         joins == /\ Bridgeable(last.address + last.count, n, sofar.previous)
                                  /\ FitsRead(last, d)
                     IN  [previous |-> n,
                          blocks |-> IF joins
                            THEN Append(Front(sofar.blocks),
                                        [last EXCEPT !.count = EndOf(d) - last.address])
                            ELSE Append(sofar.blocks, fresh)]
    IN  FoldLeft(Join, [blocks |-> <<>>, previous |-> 0], names).blocks

(***************************************************************************)
(* Values and words.                                                       *)
(***************************************************************************)
Half == WordSize \div 2
Range16(d) == IF d.type = "int16" THEN (-Half)..(Half - 1)
              ELSE IF d.type = "uint16" THEN 0..(WordSize - 1)
              ELSE 0..(WordSize * WordSize - 1)

\* A value the register's resolution does not hold, or its words, is refused.
Encodable(d, value) == value % d.scale = 0 /\ value \div d.scale \in Range16(d)

toWords(d, raw) ==
    IF d.type = "uint32" THEN <<raw \div WordSize, raw % WordSize>>
    ELSE <<IF raw < 0 THEN raw + WordSize ELSE raw>>

(* A plausible bug: a word's sign is that of an int16 from one too many on. *)
decodeSignLate(d, words) ==
    d.scale * (IF d.type = "uint32" THEN words[1] * WordSize + words[2]
               ELSE IF d.type = "int16" /\ words[1] > Half THEN words[1] - WordSize
               ELSE words[1])

decode(d, words) ==
    d.scale * (IF d.type = "uint32" THEN words[1] * WordSize + words[2]
               ELSE IF d.type = "int16" /\ words[1] >= Half THEN words[1] - WordSize
               ELSE words[1])

\* A setting is written, if it is verified and can hold the value.
encode(n, value) ==
    LET d == map[n] words == toWords(d, value \div d.scale) IN
    /\ loaded = "yes" /\ writes < MaxEncodes
    /\ d.group = "settings" /\ d.verified /\ Encodable(d, value)
    /\ stored' = [a \in DOMAIN stored |->
                  IF a \in d.address..(EndOf(d) - 1) THEN words[a - d.address + 1] ELSE stored[a]]
    /\ told' = [m \in DOMAIN told \union {n} |-> IF m = n THEN value ELSE told[m]]
    /\ writes' = writes + 1
    /\ UNCHANGED <<map, loaded>>

RegistersNext ==
    \/ parseRegisterFile
    \/ \E n \in Names, value \in WriteValues : encode(n, value)

\* What a read of a block gives: every register that lies inside it.
decodeBlock(block) ==
    LET inside == {n \in Names : /\ block.address <= map[n].address
                                 /\ EndOf(map[n]) <= block.address + block.count}
    IN  [n \in inside |-> decode(map[n], [i \in 1..wordCount(map[n]) |->
                                            stored[map[n].address + i - 1]])]

-----------------------------------------------------------------------------
Reads == ToSet(blocks("settings"))
Covered(b) == b.address..(b.address + b.count - 1)
Words(n) == map[n].address..(EndOf(map[n]) - 1)
Group == {n \in Names : map[n].group = "settings"}

\* Registers in a row that one read may fetch.
OneRead(names) ==
    /\ EndOf(map[Last(names)]) - map[names[1]].address <= MAX_BLOCK
    /\ \A i \in 2..Len(names) :
          LET d == map[names[i]] before == map[names[i - 1]] IN
          \/ d.address = EndOf(before)
          \/ /\ d.address - EndOf(before) <= MAX_BRIDGED_GAP /\ before.verified /\ d.verified
             /\ ~\E o \in Names \ Group : map[o].address \in EndOf(before)..(d.address - 1)

\* The ways to cut the group into reads, by where a read begins.
Cuts == LET names == list("settings") IN
    {S \in SUBSET DOMAIN names :
        /\ names # <<>> => 1 \in S
        /\ \A i \in S : OneRead(SubSeq(names, i, Min((S \cup {Len(names) + 1}) \ (1..i)) - 1))}

(* The reads of a group hold each of its registers whole, once, and no word *)
(* of another group's; none is larger than the device answers; and no way   *)
(* to cut the group into such reads has fewer (register-map.ts:138-172).    *)
ReadsCover ==
    loaded = "yes" =>
       /\ \A n \in Group : Cardinality({b \in Reads : Words(n) \subseteq Covered(b)}) = 1
       /\ \A n \in Names \ Group, b \in Reads : Words(n) \intersect Covered(b) = {}
       /\ \A b \in Reads : b.count <= MAX_BLOCK
       /\ Len(blocks("settings")) = Min({Cardinality(S) : S \in Cuts})

(* A value taken for a setting is what its next read gives, whatever was    *)
(* written around it since (register-map.ts:230-321).                       *)
ReadsBackWritten ==
    loaded = "yes" => \A n \in DOMAIN told : \A b \in Reads :
        n \in DOMAIN decodeBlock(b) => decodeBlock(b)[n] = told[n]

RegistersKept == ReadsCover /\ ReadsBackWritten
=============================================================================
