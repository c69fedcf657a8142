------------------------ MODULE UserObjectExporter --------------------------
(***************************************************************************)
(* The table that gives kernel objects the handles a process knows them by *)
(* (IOFWUserObjectExporter).  Each operation runs with the table's lock    *)
(* held.  A handle is a slot's number from 1; 0 is no handle.              *)
(***************************************************************************)
EXTENDS Naturals, Sequences

CONSTANTS
    NoObject,
    InitialCapacity,    \* 8 in the code
    MaxCapacity         \* 0xFFFE in the code

ExporterAssumption ==
    InitialCapacity \in Nat \ {0} /\ MaxCapacity \in Nat /\ InitialCapacity <= MaxCapacity
ASSUME ExporterAssumption

EmptyExporter == <<>>

FreeSlots(fObjects) == {i \in DOMAIN fObjects : fObjects[i] = NoObject}

(* A full table grows by half, and in the end not at all.                  *)
newCapacity(capacity) ==
    LET half == capacity + (capacity \div 2)
    IN  IF half > MaxCapacity THEN MaxCapacity ELSE half

Grown(fObjects) ==
    LET capacity == IF fObjects = EmptyExporter THEN InitialCapacity
                    ELSE IF FreeSlots(fObjects) = {} THEN newCapacity(Len(fObjects))
                    ELSE Len(fObjects)
    IN  [i \in 1..capacity |->
            IF i \in DOMAIN fObjects THEN fObjects[i] ELSE NoObject]

(* The handle that a new object gets: that of the first free slot.         *)
NewHandle(fObjects) ==
    LET free == FreeSlots(Grown(fObjects))
    IN  IF free = {} THEN 0
        ELSE CHOOSE i \in free : \A j \in free : i <= j

addObject(fObjects, obj) ==
    IF NewHandle(fObjects) = 0 THEN fObjects
    ELSE [Grown(fObjects) EXCEPT ![NewHandle(fObjects)] = obj]

lookupObject(fObjects, handle) ==
    IF handle \in DOMAIN fObjects THEN fObjects[handle] ELSE NoObject

removeObject(fObjects, handle) ==
    IF handle \in DOMAIN fObjects
    THEN [fObjects EXCEPT ![handle] = NoObject]
    ELSE fObjects

Handles(fObjects, obj) == {i \in DOMAIN fObjects : fObjects[i] = obj}

Exported(fObjects) == {fObjects[i] : i \in DOMAIN fObjects} \ {NoObject}
=============================================================================
