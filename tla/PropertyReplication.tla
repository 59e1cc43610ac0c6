------------------------- MODULE PropertyReplication -------------------------
(***************************************************************************)
(* Objects with properties, and how a change of a property's value reaches *)
(* the replication handlers: each value index of a property has a subject, *)
(* the list of its observers; CMetaSystem::registerProperty adds an        *)
(* observer that calls the handlers registered under the UID of the        *)
(* property it was made for.                                               *)
(*                                                                         *)
(* A property is known by its place <<object, key>>: the address observers *)
(* refer to.  Values are left out, but for the objects an object-typed     *)
(* property holds, which it owns.                                          *)
(***************************************************************************)
EXTENDS Integers, FiniteSets, SequencesExt

CONSTANTS Objects,    \* addresses of objects and property maps
          Keys,       \* property ids, numbered in the order of the map
          Maps,       \* the maps a caller creates objects with: functions from
                      \* ids to a [type, capacity, replicate]
          Added,      \* the <<id, type>> of the properties added to objects
          Modes,      \* arguments of setReplicationMode, Replicate being TRUE,
          Writables,  \* and of setWriteable
          MaxCapacity, \* bound on the values of a property
          None,       \* null; in a place: of a property that is destroyed
          MaxUid,     \* the UIDs are 0..MaxUid; 0 is none
          MaxGenerated, \* bound on the UIDs generated
          MaxObjects, \* bound on the objects alive
          MaxHandlers \* bound on the handlers registered under a UID

ASSUME ObjectsAssumption == Objects \subseteq Nat /\ IsFiniteSet(Objects)
ASSUME KeysAssumption == Keys \subseteq Nat /\ IsFiniteSet(Keys)
ASSUME SwitchesAssumption == Modes \subseteq BOOLEAN /\ Writables \subseteq BOOLEAN
ASSUME BoundsAssumption == /\ MaxCapacity > 0
                           /\ {MaxCapacity, MaxUid, MaxGenerated, MaxObjects, MaxHandlers} \subseteq Nat
                           /\ MaxGenerated <= MaxUid

VARIABLES heap,     \* [Objects -> None or a function from ids to properties or None]
          ids,      \* [Objects -> UID of the object, 0 where there is none]
          uid,      \* sPropertyUID, the last UID generated
          handlers, \* [0..MaxUid -> the places handlers were registered for]
          report    \* the last call of setValue and what it called, or None

vars == <<heap, ids, uid, handlers, report>>

Indices == 1..MaxCapacity
Destroyed == <<None, None>>
Places == (Objects \X Keys) \cup {Destroyed}

(* origin and kept are history: the properties it was copied from that     *)
(* were registered by then, and how many of its first indices have kept    *)
(* the subjects they had when the property was registered.                 *)
ValueTypes == {"int8", "int16", "object"}
Property == [type : ValueTypes, uid : Nat, name : Keys \cup {0}, capacity : Indices,
             replicate : BOOLEAN, writable : BOOLEAN, subjects : Seq(Seq(Places)),
             values : Seq(Objects \cup {None}), origin : SUBSET Places,
             kept : 0..MaxCapacity]
PropertyMap == [Keys -> Property \cup {None}]
Heap == [Objects -> PropertyMap \cup {None}]

ASSUME NoneAssumption == None \notin Nat \cup Objects \cup Property \cup PropertyMap
ASSUME MapsAssumption ==
    \A map \in Maps :
        /\ DOMAIN map \subseteq Keys
        /\ \A k \in DOMAIN map : map[k] \in [type : ValueTypes, capacity : Indices, replicate : BOOLEAN]
ASSUME AddedAssumption == Added \subseteq Keys \X ValueTypes

Live(h) == {o \in Objects : h[o] # None}
KeysOf(object) == {k \in Keys : object[k] # None}
At(h, p) == h[p[1]][p[2]]
PlacesOf(h, S) == {p \in S \X Keys : At(h, p) # None}

(* The objects in the values of object-typed properties, and an object     *)
(* with all that is in it: nothing is deeper than there are objects.       *)
Inner(h, o) == (UNION {ToSet(h[o][k].values) : k \in KeysOf(h[o])}) \ {None}
Outermost(h) == Live(h) \ UNION {Inner(h, o) : o \in Live(h)}
Tree(h, o) ==
    LET upTo[n \in 0..Cardinality(Objects)] ==
            IF n = 0 THEN {o} ELSE UNION {{x} \cup Inner(h, x) : x \in upTo[n - 1]}
    IN  upTo[Cardinality(Objects)]
HasSlot(h) == Live(h) # Objects
FreeSlot(h) == CHOOSE o \in Objects : h[o] = None /\ \A n \in Objects : h[n] = None => o <= n
-----------------------------------------------------------------------------
(* A property as a caller makes it.                                        *)
Made(template, number, name) ==
    [type |-> template.type, uid |-> number, name |-> name, capacity |-> template.capacity,
     replicate |-> template.replicate, writable |-> TRUE,
     subjects |-> [i \in 1..template.capacity |-> <<>>],
     values |-> IF template.type = "object"
                THEN [i \in 1..template.capacity |-> None] ELSE <<>>,
     origin |-> {}, kept |-> 0]

(* Mutant: of several values only the first is observed.                   *)
RegisteredFirst(property, place) ==
    IF ~property.replicate THEN property
    ELSE [property EXCEPT !.subjects[1] = Append(@, place), !.kept = property.capacity]

(* Mutant: there are two observers.                                        *)
RegisteredTwice(property, place) ==
    IF ~property.replicate THEN property
    ELSE [property EXCEPT !.subjects = [i \in DOMAIN @ |-> @[i] \o <<place, place>>],
                          !.kept = property.capacity]

(* registerProperty observes every index, if the mode says so by then; at  *)
(* throws where a subject is missing.                                      *)
Registered(property, place) ==
    IF ~property.replicate THEN property
    ELSE [property EXCEPT !.subjects = [i \in DOMAIN @ |->
                              IF i <= property.capacity THEN Append(@[i], place) ELSE @[i]],
                          !.kept = property.capacity]
Registrable(property) == property.replicate => property.capacity <= Len(property.subjects)

(* What follows goes from one [heap, ids, uid, ok, made] to the next; ok   *)
(* is FALSE once an exception is thrown, made the object a clone returns.  *)
RegisterAll(s, o) ==
    [s EXCEPT !.heap[o] = [k \in Keys |-> IF @[k] = None THEN None ELSE Registered(@[k], <<o, k>>)],
              !.ok = @ /\ \A k \in KeysOf(s.heap[o]) : Registrable(s.heap[o][k])]

(* Mutant: the properties keep the UIDs of those they were copied from.    *)
RenumberedNot(s, o) == s

(* setPropertyUID with a new UID for every property of o.                  *)
Renumbered(s, o) ==
    LET keys == KeysOf(s.heap[o])
    IN  [s EXCEPT !.heap[o] = [k \in Keys |-> IF k \notin keys THEN None ELSE
                      [@[k] EXCEPT !.uid = s.uid + Cardinality({j \in keys : j <= k})]],
                  !.uid = @ + Cardinality(keys)]

(* The objects in dead end, with their properties: who still refers to     *)
(* these refers to freed memory.                                           *)
Forget(places, dead) == [i \in DOMAIN places |-> IF places[i] \in dead THEN Destroyed ELSE places[i]]
Cut(property, dead) ==
    [property EXCEPT !.subjects = [i \in DOMAIN @ |-> Forget(@[i], dead)],
                     !.origin = @ \ dead]
Purged(h, dead) ==
    [o \in Objects |-> IF h[o] = None THEN None ELSE
        [k \in Keys |-> IF h[o][k] = None THEN None ELSE Cut(h[o][k], dead)]]
Without(h, S) == [o \in Objects |-> IF o \in S THEN None ELSE h[o]]
Freed(s, S) == [s EXCEPT !.heap = Purged(Without(@, S), PlacesOf(@, S)),
                         !.ids = [o \in Objects |-> IF o \in S THEN 0 ELSE @[o]]]

Resized(seq, n, filler) == [i \in 1..n |-> IF i <= Len(seq) THEN seq[i] ELSE filler]

(* The copy constructor takes UID, mode and subjects along, observers      *)
(* included, and clones the objects among as many values as the capacity   *)
(* says; a map is copied property by property.  clones is what a clone of  *)
(* an object further in gives.                                             *)
Copy(property, place) ==
    [property EXCEPT !.origin = IF property.kept > 0 THEN @ \cup {place} ELSE @, !.kept = 0,
                     !.values = IF property.type = "object"
                                THEN [i \in 1..property.capacity |-> None] ELSE @]
Copies(h, from) ==
    [k \in Keys |-> IF h[from][k] = None THEN None ELSE Copy(h[from][k], <<from, k>>)]
Copied(h, from) ==
    {v \in KeysOf(h[from]) \X Indices :
        LET p == h[from][v[1]]
        IN  v[2] \in DOMAIN p.values /\ v[2] <= p.capacity /\ p.values[v[2]] # None}
CopyValue(clones, s, from, to, v) ==
    LET clone == clones[<<s, s.heap[from][v[1]].values[v[2]]>>]
    IN  IF ~s.ok THEN s
        ELSE IF ~clone.ok THEN clone
        ELSE [clone EXCEPT !.heap[to][v[1]].values[v[2]] = clone.made]
CopyMap(clones, s, from, to) ==
    LET slots == SetToSeq(Copied(s.heap, from))
        copied[n \in 0..Len(slots)] ==
            IF n = 0 THEN [s EXCEPT !.heap[to] = Copies(s.heap, from)]
            ELSE CopyValue(clones, copied[n - 1], from, to, slots[n])
    IN  copied[Len(slots)]

(* clone copies the map into a local one, gives the copies new UIDs, and   *)
(* create copies and registers them.  An exception ends all of it: that of *)
(* at, or that there is no memory left.                                    *)
Thrown(s) == [s EXCEPT !.ok = FALSE]
CreateCopy(clones, s, local, number) ==
    LET made  == FreeSlot(s.heap)
        copy  == CopyMap(clones, s, local, made)
        final == RegisterAll(copy, made)
    IN  IF ~HasSlot(s.heap) THEN Thrown(s)
        ELSE IF ~copy.ok THEN copy
        ELSE [Freed(final, Tree(final.heap, local)) EXCEPT !.ids[made] = number, !.made = made]
Cloned(clones, s, o) ==
    LET local == FreeSlot(s.heap)
        copy  == CopyMap(clones, [s EXCEPT !.uid = @ + 1], o, local)
    IN  IF ~HasSlot(s.heap) THEN Thrown(s)
        ELSE IF ~copy.ok THEN copy
        ELSE CreateCopy(clones, Renumbered(copy, local), local, s.uid + 1)

State == [heap : Heap, ids : [Objects -> Nat], uid : Nat, ok : BOOLEAN, made : Objects \cup {None}]
CloneObject(s, o) ==
    LET clones[n \in 0..Cardinality(Objects)] ==
            [x \in State \X Objects |->
                IF n = 0 THEN Thrown(x[1]) ELSE Cloned(clones[n - 1], x[1], x[2])]
    IN  clones[Cardinality(Objects)][<<s, o>>]

Now == [heap |-> heap, ids |-> ids, uid |-> uid, ok |-> TRUE, made |-> None]
Room(o) == /\ uid < MaxGenerated
           /\ Cardinality(Live(heap)) + Cardinality(Tree(heap, o)) <= MaxObjects
Fits(s) == s.uid <= MaxGenerated /\ Cardinality(Live(s.heap)) <= MaxObjects
-----------------------------------------------------------------------------
Init == /\ heap = [o \in Objects |-> None]
        /\ ids = [o \in Objects |-> 0]
        /\ uid = 0
        /\ handlers = [u \in 0..MaxUid |-> <<>>]
        /\ report = None

(* CMetaObject::create with a map of the caller: its properties have the   *)
(* UID 0 and no name (0) they were default-constructed with.               *)
Create(map) ==
    LET o == FreeSlot(heap)
        properties == [k \in Keys |-> IF k \in DOMAIN map THEN Made(map[k], 0, 0) ELSE None]
        s == RegisterAll([Now EXCEPT !.heap[o] = properties, !.ids[o] = uid + 1, !.uid = @ + 1], o)
    IN  /\ HasSlot(heap)
        /\ Fits(s)
        /\ heap' = s.heap /\ ids' = s.ids /\ uid' = s.uid
        /\ report' = None
        /\ UNCHANGED handlers

(* addProperty registers before its caller can set capacity and mode.      *)
AddProperty(o, k, type) ==
    /\ uid < MaxGenerated
    /\ heap[o][k] = None
    /\ LET property == Made([type |-> type, capacity |-> 1, replicate |-> FALSE],
                             uid + 1, k)
       IN  heap' = [heap EXCEPT ![o][k] = Registered(property, <<o, k>>)]
    /\ uid' = uid + 1
    /\ report' = None
    /\ UNCHANGED <<ids, handlers>>

Handling(dead) == [u \in 0..MaxUid |-> Forget(handlers[u], dead)]

(* The owner of objects or properties that end: handlers stay registered.  *)
End(h, S, places) ==
    LET dead == places \cup PlacesOf(heap, S)
    IN  /\ heap' = Purged(Without(h, S), dead)
        /\ ids' = [o \in Objects |-> IF o \in S THEN 0 ELSE ids[o]]
        /\ handlers' = Handling(dead)
        /\ report' = None
        /\ UNCHANGED uid

Destroy(o) == End(heap, Tree(heap, o), {})

InTrees(S) == UNION {Tree(heap, o) : o \in S}

RemoveProperty(o, k) ==
    /\ End([heap EXCEPT ![o][k] = None],
           InTrees(ToSet(heap[o][k].values) \ {None}),
           {<<o, k>>})

(* setCapacity: a shorter list loses its observers, new indices have none. *)
Capacious(property, n) ==
    [property EXCEPT !.capacity = n,
                     !.subjects = Resized(@, n, <<>>),
                     !.values = IF property.type = "object" THEN Resized(@, n, None) ELSE @,
                     !.kept = IF n < @ THEN n ELSE @]
SetCapacity(o, k, n) ==
    LET p == heap[o][k]
        dropped == {p.values[i] : i \in {j \in DOMAIN p.values : j > n}} \ {None}
    IN  End([heap EXCEPT ![o][k] = Capacious(p, n)], InTrees(dropped), {})

SetReplicationMode(o, k, mode) ==
    /\ heap' = [heap EXCEPT ![o][k].replicate = mode]
    /\ report' = None
    /\ UNCHANGED <<ids, uid, handlers>>

SetWriteable(o, k, writable) ==
    /\ heap' = [heap EXCEPT ![o][k].writable = writable]
    /\ report' = None
    /\ UNCHANGED <<ids, uid, handlers>>

(* registerReplicationCallback: the subjects of the map are int8 subjects, *)
(* default-constructed, and for any other type the visit does nothing.     *)
Register(o, k) ==
    LET p == heap[o][k]
    IN  /\ Len(handlers[p.uid]) < MaxHandlers
        /\ handlers' = IF p.type = "int8"
                       THEN [handlers EXCEPT ![p.uid] = Append(@, <<o, k>>)] ELSE handlers
        /\ report' = None
        /\ UNCHANGED <<heap, ids, uid>>

(* Mutant: an observer takes the last UID generated.                       *)
UidsReadLast(subject) == {[j \in DOMAIN subject |-> uid]}

(* An observer asks the property it was made for its UID; of a destroyed   *)
(* property it reads any, None being one without handlers.                 *)
UidsRead(subject) ==
    LET stale == {j \in DOMAIN subject : subject[j] = Destroyed}
        used  == {u \in 0..MaxUid : handlers[u] # <<>>} \cup {None}
    IN  {[j \in DOMAIN subject |-> IF j \in stale THEN any[j] ELSE At(heap, subject[j]).uid]
            : any \in [stale -> used]}
Called(u) == IF u = None THEN <<>>
             ELSE [n \in 1..Len(handlers[u]) |-> [uid |-> u, handler |-> n]]
Calls(p, read) == IF p.type # "int8" THEN <<>>
                  ELSE FlattenSeq([j \in DOMAIN read |-> Called(read[j])])

(* setValue stores the value and notifies the subject of the index; after  *)
(* a deserialization there may be none, and at throws.                     *)
SetValue(o, k, i) ==
    LET p == heap[o][k]
        subject == IF i \in DOMAIN p.subjects THEN p.subjects[i] ELSE <<>>
    IN  /\ p.type # "object"
        /\ p.writable
        /\ i <= p.capacity
        /\ \E read \in UidsRead(subject) :
              report' = [of |-> <<o, k>>, index |-> i, calls |-> Calls(p, read)]
        /\ UNCHANGED <<heap, ids, uid, handlers>>

(* The value of an object-typed property is a clone of the argument.  A    *)
(* clone that throws leaves the counter advanced and nothing else.         *)
SetObject(o, k, i, source) ==
    /\ heap[o][k].type = "object"
    /\ heap[o][k].writable
    /\ i \in DOMAIN heap[o][k].values /\ i <= heap[o][k].capacity
    /\ Room(source)
    /\ LET s    == CloneObject(Now, source)
           gone == InTrees({heap[o][k].values[i]} \ {None})
           t    == Freed([s EXCEPT !.heap[o][k].values[i] = s.made], gone)
       IN  /\ Fits(s)
           /\ uid' = s.uid
           /\ report' = None
           /\ IF s.ok THEN /\ heap' = t.heap /\ ids' = t.ids
                            /\ handlers' = Handling(PlacesOf(heap, gone))
                      ELSE UNCHANGED <<heap, ids, handlers>>

(* The argument is null: the object that was held ends.                    *)
ClearObject(o, k, i) ==
    LET p == heap[o][k]
    IN  /\ p.type = "object"
        /\ p.writable
        /\ i \in DOMAIN p.values /\ i <= p.capacity
        /\ End([heap EXCEPT ![o][k].values[i] = None], InTrees({p.values[i]} \ {None}), {})

Clone(o) ==
    /\ Room(o)
    /\ LET s == CloneObject(Now, o)
       IN  /\ Fits(s)
           /\ uid' = s.uid
           /\ report' = None
           /\ IF s.ok THEN heap' = s.heap /\ ids' = s.ids ELSE UNCHANGED <<heap, ids>>
           /\ UNCHANGED handlers

OnProperty(o, k) ==
    \/ RemoveProperty(o, k)
    \/ \E n \in Indices : SetCapacity(o, k, n)
    \/ \E b \in Modes : SetReplicationMode(o, k, b)
    \/ \E b \in Writables : SetWriteable(o, k, b)
    \/ Register(o, k)
    \/ \E i \in Indices : \/ SetValue(o, k, i) \/ ClearObject(o, k, i)
                       \/ \E source \in Live(heap) : SetObject(o, k, i, source)

Next ==
    \/ \E map \in Maps : Create(map)
    \/ \E o \in Live(heap) :
        \/ \E new \in Added : AddProperty(o, new[1], new[2])
        \/ Clone(o)
        \/ \E k \in KeysOf(heap[o]) : OnProperty(o, k)
    \/ \E o \in Outermost(heap) : Destroy(o)

Spec == Init /\ [][Next]_vars
-----------------------------------------------------------------------------
Everywhere == PlacesOf(heap, Live(heap))

(* A subject is missing only after a deserialization, and never where the  *)
(* property was registered; a handler is that of an int8 property.         *)
TypeOK ==
    /\ heap \in Heap
    /\ \A place \in Everywhere :
          LET p == At(heap, place) IN p.uid <= MaxUid /\ p.kept <= Len(p.subjects)
    /\ uid \in 0..MaxGenerated
    /\ \A o \in Objects : ids[o] \in IF heap[o] = None THEN {0} ELSE 0..MaxUid
    /\ \A u \in 0..MaxUid : \A i \in DOMAIN handlers[u] :
          handlers[u][i] # Destroyed => At(heap, handlers[u][i]).type = "int8"

Times(seq, x) == Cardinality({j \in DOMAIN seq : seq[j] = x})

(* However properties are copied, resized and destroyed, a property        *)
(* observes itself once at every index it has had since it was registered  *)
(* to be replicated, and at no other: not where it has grown, not if its   *)
(* mode was set later.                                                     *)
ObservesItself ==
    \A place \in Everywhere :
        LET p == At(heap, place)
        IN  \A i \in DOMAIN p.subjects :
                Times(p.subjects[i], place) = IF i <= p.kept THEN 1 ELSE 0

(* Copies keep the observers of what they were copied from, so a subject   *)
(* leads to properties the change did not happen to; but to no others than *)
(* the property and those it descends from, and to each of these once.     *)
ObserversAreOrigins ==
    \A place \in Everywhere :
        LET p == At(heap, place)
        IN  \A i \in DOMAIN p.subjects :
                /\ ToSet(p.subjects[i]) \subseteq p.origin \cup {place, Destroyed}
                /\ \A q \in p.origin : Times(p.subjects[i], q) <= 1

Certain(p, i) == i <= p.kept /\ Destroyed \notin ToSet(p.subjects[i])

(* If no observer is left of a destroyed property, setValue on an index    *)
(* that is observed calls each handler registered under the UID of the     *)
(* property exactly once, in spite of the observers the property shares.   *)
CalledOnce ==
    report # None =>
        LET p == At(heap, report.of)
        IN  p.type = "int8" /\ Certain(p, report.index) =>
                \A n \in DOMAIN handlers[p.uid] :
                    Times(report.calls, [uid |-> p.uid, handler |-> n]) = 1

(* And then the handlers it calls are registered under the UID of the      *)
(* property or of one it descends from.                                    *)
CallsOwnOrOrigins ==
    report # None =>
        LET p == At(heap, report.of)
        IN  Certain(p, report.index) =>
                \A j \in DOMAIN report.calls :
                    report.calls[j].uid \in {p.uid} \cup {At(heap, q).uid : q \in p.origin}

(* "The handler to be forwarded to on value change, if the property was to *)
(* be replicated": a change of a property whose mode says so reaches the   *)
(* handlers registered for it.                                             *)
ReplicatesChanges ==
    report # None =>
        LET p == At(heap, report.of)
        IN  p.replicate =>
                \A n \in DOMAIN handlers[p.uid] : handlers[p.uid][n] = report.of =>
                    Times(report.calls, [uid |-> p.uid, handler |-> n]) > 0
=============================================================================
