---------------------------- MODULE PropertyState ----------------------------
(***************************************************************************)
(* The state of property_server, CState: initialize reads the document of  *)
(* a machine with a CPropertyDeserializer in its dynamic mode, which also  *)
(* compiles a map from paths to the properties it has read, and registers  *)
(* a replication handler for every property in the map.                    *)
(*                                                                         *)
(* A document is an object [uid, properties], with properties a function   *)
(* from ids to properties or None, or Missing; a property is [type, uid,   *)
(* name, capacity, replicate, writable, list], with list its objects and   *)
(* nulls, or Missing if what is there is no list.                          *)
(***************************************************************************)
EXTENDS PropertyReplication

CONSTANTS Documents, \* contents of the file
          Continued, \* those the run goes on with: a bound
          Missing

VARIABLES file,    \* the document initialize found, or None
          root,    \* mRoot
          pathMap, \* mPathMap, as a set of pairs <<path, place>>
          outcome  \* of initialize

stateVars == <<file, root, pathMap, outcome>>
allVars == <<vars, stateVars>>

(* Objects in objects are no deeper than there are objects.                *)
Depths == 0..Cardinality(Objects)
PropertiesOf(types, lists) ==
    [type : types, uid : 0..MaxUid, name : Keys \cup {0}, capacity : Indices,
     replicate : BOOLEAN, writable : BOOLEAN, list : lists \cup {Missing}]
DocumentProperties(inner) == PropertiesOf({"object"}, Seq(inner \cup {None}))
                             \cup PropertiesOf(ValueTypes \ {"object"}, {<<>>})
DocumentsTo(m) ==
    LET documents[n \in 0..m] ==
            IF n = 0 THEN {Missing} ELSE
            {Missing} \cup
            [uid : 0..MaxUid,
             properties : [Keys -> DocumentProperties(documents[n - 1]) \cup {None}] \cup {Missing}]
    IN  documents[m]

ASSUME NumberedAssumption == Keys = 1..Cardinality(Keys)
ASSUME DocumentsAssumption == Documents \subseteq DocumentsTo(Cardinality(Objects))
-----------------------------------------------------------------------------
(* What CPropertySerializer writes of an object: all it can be read back   *)
(* from.  Subjects and handlers are not part of a document.                *)
WrittenProperty(inner, p) ==
    [type |-> p.type, uid |-> p.uid, name |-> p.name, capacity |-> p.capacity,
     replicate |-> p.replicate, writable |-> p.writable,
     list |-> [i \in DOMAIN p.values |-> IF p.values[i] = None THEN None ELSE inner[p.values[i]]]]
WrittenTo(s) ==
    LET objects[n \in Depths] ==
            [o \in Objects |->
                IF n = 0 \/ s.heap[o] = None THEN Missing ELSE
                [uid |-> s.ids[o],
                 properties |-> [k \in Keys |->
                                    IF s.heap[o][k] = None THEN None
                                    ELSE WrittenProperty(objects[n - 1], s.heap[o][k])]]]
    IN  objects
Written(s, o) == WrittenTo(s)[Cardinality(Objects)][o]
-----------------------------------------------------------------------------
(* Reading adds to the state of the heap that of the deserializer: the     *)
(* adjacency lists, as the edges in the order they are added, the stack of *)
(* nodes being read, and the property each UID refers to.                  *)
References == SUBSET (Nat \X (Objects \X Keys))
Reader == [heap : Heap, ids : [Objects -> Nat], uid : Nat, ok : BOOLEAN,
           made : Objects \cup {None}, edges : Seq(Nat \X Nat), stack : Seq(Nat),
           references : References]
Reading(s) == [heap |-> s.heap, ids |-> s.ids, uid |-> s.uid, ok |-> s.ok, made |-> s.made,
               edges |-> <<>>, stack |-> <<>>, references |-> {}]

PushAdjacencyLevel(s, node) ==
    [s EXCEPT !.edges = IF s.stack = <<>> THEN @ ELSE Append(@, <<Last(s.stack), node>>),
              !.stack = Append(@, node)]
(* Mutant: a node stays on the stack.                                      *)
PopAdjacencyLevelNever(s) == s
PopAdjacencyLevel(s) == [s EXCEPT !.stack = Front(@)]

(* Mutant: the UID in the document is not used.                            *)
NumberOfNew(s, given) == s.uid + 1

(* The UID a document gives, or a new one for 0.                           *)
Numbered(s, given) == IF given = 0 THEN [s EXCEPT !.uid = @ + 1] ELSE s
NumberOf(s, given) == IF given = 0 THEN s.uid + 1 ELSE given

KeysListed(document) == IF document.properties = Missing THEN {} ELSE KeysOf(document.properties)

(* createEmptyProperty for each property found, and create.                *)
CreateEmpty(s, document, o) ==
    LET Empty(p) == [Made([type |-> p.type, capacity |-> 1, replicate |-> FALSE], p.uid, 0)
                        EXCEPT !.values = <<>>]
        found == [k \in Keys |-> IF k \in KeysListed(document) THEN Empty(document.properties[k])
                                 ELSE None]
    IN  [s EXCEPT !.heap[o] = found, !.ids[o] = NumberOf(s, document.uid)]

(* readPropertyImpl overwrites the attributes of the property; subjects    *)
(* stay as they are.  inner reads the objects in its list.                 *)
Attributes(property, p) ==
    [property EXCEPT !.uid = p.uid, !.name = p.name, !.capacity = p.capacity,
                     !.replicate = p.replicate, !.writable = p.writable]
ReadValue(inner, s, o, k, v) ==
    LET read == IF v = None THEN [s EXCEPT !.made = None] ELSE inner[<<s, v>>]
    IN  IF read.ok THEN [read EXCEPT !.heap[o][k].values = Append(@, read.made)] ELSE read
ReadProperty(inner, s, o, k, p) ==
    LET pushed == PushAdjacencyLevel(Numbered(s, p.uid), NumberOf(s, p.uid))
        values[i \in 0..Len(p.list)] ==
            IF i = 0 THEN [pushed EXCEPT !.heap[o][k] = Attributes(@, p)]
            ELSE IF ~values[i - 1].ok THEN values[i - 1]
            ELSE ReadValue(inner, values[i - 1], o, k, p.list[i])
    IN  IF p.list = Missing THEN Thrown(pushed) ELSE PopAdjacencyLevel(values[Len(p.list)])

(* The references after those to the properties of o are added, by UID: a  *)
(* later one replaces an earlier one.                                      *)
Referring(references, h, o) ==
    LET keys == KeysOf(h[o])
        Uid(k) == h[o][k].uid
        last == {k \in keys : \A j \in keys : Uid(j) = Uid(k) => j <= k}
    IN  {r \in references : \A k \in keys : r[1] # Uid(k)} \cup {<<Uid(k), <<o, k>>>> : k \in last}

(* readObjectFwd.  Without a list of properties, beginProperties fails; a  *)
(* property that cannot be read fails the object, and those before it are  *)
(* still referred to by nothing.                                           *)
ReadMap(inner, s, document) ==
    LET o     == FreeSlot(s.heap)
        begun == PushAdjacencyLevel(Numbered(CreateEmpty(s, document, o), document.uid),
                                    NumberOf(s, document.uid))
        upTo[k \in 0..Cardinality(Keys)] ==
            IF k = 0 THEN begun
            ELSE IF ~upTo[k - 1].ok \/ k \notin KeysListed(document) THEN upTo[k - 1]
            ELSE ReadProperty(inner, upTo[k - 1], o, k, document.properties[k])
        read == upTo[Cardinality(Keys)]
    IN  IF document = Missing \/ ~HasSlot(s.heap) THEN Thrown(s)
        ELSE IF document.properties = Missing THEN Thrown(begun)
        ELSE IF ~read.ok THEN read
        ELSE PopAdjacencyLevel([read EXCEPT !.references = Referring(@, read.heap, o), !.made = o])

ReadObject(s, document) ==
    LET read[n \in Depths] ==
            [x \in Reader \X DocumentsTo(n) |->
                IF n = 0 THEN Thrown(x[1]) ELSE ReadMap(read[n - 1], x[1], x[2])]
    IN  read[Cardinality(Objects)][<<s, document>>]
-----------------------------------------------------------------------------
(* compilePathMap: depth first, each node once.  A node is a property if   *)
(* its UID refers to one; a node without adjacent ones is taken for a leaf *)
(* property, and at throws if it is none.  A path is a sequence of names   *)
(* and, in between, of positions among the nodes of a property.  further   *)
(* goes on from adjacent nodes.                                            *)
Search == [visited : SUBSET Nat, map : SUBSET (Seq(Nat) \X (Objects \X Keys)), ok : BOOLEAN]
Referred(s, node) == (CHOOSE r \in s.references : r[1] = node)[2]
AdjacentBefore(s, node, i) == {j \in 1..(i - 1) : s.edges[j][1] = node}
Visit(further, s, c, node, path) ==
    LET isProperty == \E r \in s.references : r[1] = node
        here == IF isProperty THEN Append(path, At(s.heap, Referred(s, node)).name) ELSE path
        Below(i) == IF isProperty THEN Append(here, Cardinality(AdjacentBefore(s, node, i))) ELSE here
        along[i \in 0..Len(s.edges)] ==
            IF i = 0 THEN [c EXCEPT !.visited = @ \cup {node}]
            ELSE IF s.edges[i][1] # node THEN along[i - 1]
            ELSE further[<<along[i - 1], s.edges[i][2], Below(i)>>]
    IN  IF node \in c.visited THEN c
        ELSE IF \E i \in 1..Len(s.edges) : s.edges[i][1] = node THEN along[Len(s.edges)]
        ELSE IF ~isProperty THEN Thrown(along[0])
        ELSE IF \E entry \in c.map : entry[1] = here THEN along[0]
        ELSE [along[0] EXCEPT !.map = @ \cup {<<here, Referred(s, node)>>}]

(* No node is deeper than there are edges.                                 *)
PathMap(s) ==
    LET visits[n \in 0..(Len(s.edges) + 1)] ==
            [x \in Search \X Nat \X Seq(Nat) |->
                IF n = 0 THEN Thrown(x[1]) ELSE Visit(visits[n - 1], s, x[1], x[2], x[3])]
    IN  visits[Len(s.edges) + 1][<<[visited |-> {}, map |-> {}, ok |-> TRUE], s.ids[s.made], <<>>>>]
-----------------------------------------------------------------------------
StateInit == /\ Init
             /\ file = None /\ root = None /\ pathMap = {} /\ outcome = "none"

(* CState::initialize.  Memory suffices for the document: a bound.         *)
Initialize(document) ==
    LET s == ReadObject(Reading(Now), document)
        c == PathMap(s)
        OfUid(u) == {place \in {entry[2] : entry \in c.map} :
                          At(s.heap, place).type = "int8" /\ At(s.heap, place).uid = u}
    IN  /\ outcome = "none"
        /\ s.uid <= MaxGenerated
        /\ HasSlot(s.heap)
        /\ file' = document
        /\ uid' = s.uid
        /\ report' = None
        /\ IF s.ok /\ c.ok
           THEN /\ outcome' = "initialized"
                /\ root' = s.made /\ pathMap' = c.map
                /\ heap' = s.heap /\ ids' = s.ids
                /\ handlers' = [u \in 0..MaxUid |-> handlers[u] \o SetToSeq(OfUid(u))]
           ELSE /\ outcome' = IF s.ok THEN "thrown" ELSE "failed"
                /\ UNCHANGED <<heap, ids, handlers, root, pathMap>>

(* The program starts with it; the state keeps its root.                   *)
StateNext ==
    \/ uid = 0 /\ \E document \in Documents : Initialize(document)
    \/ /\ file \in Continued \cup {None}
       /\ Next
       /\ root # None => heap'[root] # None
       /\ UNCHANGED stateVars

StateSpec == StateInit /\ [][StateNext]_allVars
-----------------------------------------------------------------------------
(* The UIDs in a document.                                                 *)
UidsIn(inner, p) == {p.uid} \cup UNION {inner[p.list[i]] : i \in {i \in DOMAIN p.list : p.list[i] # None}}
UidsTo(m) ==
    LET uids[n \in 0..m] ==
            [d \in DocumentsTo(n) |->
                IF d = Missing THEN {} ELSE
                {d.uid} \cup UNION {UidsIn(uids[n - 1], d.properties[k]) :
                                       k \in {k \in KeysListed(d) : d.properties[k].list # Missing}}]
    IN  uids[m]

(* A document is regular if every object has properties, their names       *)
(* differ, no null comes before an object, and all UIDs are given and      *)
(* differ: in an object, in a list of objects, and between the two.        *)
RegularProperty(uids, inner, p) ==
    /\ p.list # Missing
    /\ p.uid # 0
    /\ \A i \in DOMAIN p.list : p.list[i] # None =>
          /\ p.list[i] \in inner
          /\ p.uid \notin uids[p.list[i]]
          /\ \A j \in 1..(i - 1) : p.list[j] # None /\ uids[p.list[i]] \cap uids[p.list[j]] = {}
RegularMap(uids, inner, d) ==
    /\ d # Missing /\ KeysListed(d) # {}
    /\ d.uid # 0
    /\ \A k \in KeysListed(d) :
          /\ RegularProperty(uids, inner, d.properties[k])
          /\ d.uid \notin UidsIn(uids, d.properties[k])
          /\ \A j \in KeysListed(d) \ {k} :
                /\ d.properties[j].name # d.properties[k].name
                /\ UidsIn(uids, d.properties[j]) \cap UidsIn(uids, d.properties[k]) = {}
Regular(document) ==
    LET regular[n \in Depths] ==
            IF n = 0 THEN {}
            ELSE {d \in DocumentsTo(n) : RegularMap(UidsTo(n - 1), regular[n - 1], d)}
    IN  document \in regular[Cardinality(Objects)]

(* The leaf properties below an object, each with the names and, for the   *)
(* values of an object-typed property, the indices on the way to it.       *)
LeavesOf(inner, h, o, k, path) ==
    LET p == h[o][k]
        here == Append(path, p.name)
        filled == {i \in DOMAIN p.values : p.values[i] # None}
    IN  IF filled = {} THEN {<<here, <<o, k>>>>}
        ELSE UNION {inner[<<p.values[i], Append(here, i - 1)>>] : i \in filled}
Leaves(h, o) ==
    LET below[n \in Depths] ==
            [x \in Live(h) \X Seq(Nat) |->
                IF n = 0 THEN {} ELSE
                UNION {LeavesOf(below[n - 1], h, x[1], k, x[2]) : k \in KeysOf(h[x[1]])}]
    IN  below[Cardinality(Objects)][<<o, <<>>>>]

(* A regular document is read, and its paths are those of its leaves, each *)
(* with the index of the value it goes through: visiting a node once and   *)
(* counting nodes instead of values loses and misplaces none.  Each leaf   *)
(* of type int8 has a handler of its own.                                  *)
PathsLeadToLeaves ==
    [][file' # file /\ Regular(file') =>
        /\ outcome' = "initialized" /\ pathMap' = Leaves(heap', root')
        /\ \A leaf \in Leaves(heap', root') :
              LET p == At(heap', leaf[2])
              IN  p.type = "int8" => handlers'[p.uid] = <<leaf[2]>>]_allVars

(* However an object came to be what it is, what is written of it can be   *)
(* read, and is written again the same, if the document is regular and     *)
(* memory suffices for the objects in it.                                  *)
WrittenIsRead ==
    \A o \in Outermost(heap) :
        LET document == Written(Now, o)
            s == ReadObject(Reading(Now), document)
        IN  Regular(document) /\ HasSlot(s.heap) =>
                s.ok /\ PathMap(s).ok /\ Written(s, s.made) = document
=============================================================================
