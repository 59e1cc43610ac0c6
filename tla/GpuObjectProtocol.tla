-------------------------- MODULE GpuObjectProtocol --------------------------
(***************************************************************************)
(* What the graphics API may be asked to do with the object behind a       *)
(* resource: an object is created when there is none, destroyed when there *)
(* is one, data is staged in a live object only, and copied to the device  *)
(* from staged data only.                                                  *)
(***************************************************************************)
CONSTANT Dynamic                \* the resources with an object of the graphics API

VARIABLES
    object,                     \* "none" or "live"
    staged,                     \* resources whose data was written to staging memory
    filled                      \* resources whose data was copied to the device

vars == <<object, staged, filled>>

Init ==
    /\ object = [r \in Dynamic |-> "none"]
    /\ staged = {}
    /\ filled = {}

Create(r) ==
    /\ object[r] = "none"
    /\ object' = [object EXCEPT ![r] = "live"]
    /\ UNCHANGED <<staged, filled>>

Stage(r) ==
    /\ object[r] = "live"
    /\ staged' = staged \cup {r}
    /\ UNCHANGED <<object, filled>>

Transfer(r) ==
    /\ object[r] = "live" /\ r \in staged
    /\ filled' = filled \cup {r}
    /\ UNCHANGED <<object, staged>>

Destroy(r) ==
    /\ object[r] = "live"
    /\ object' = [object EXCEPT ![r] = "none"]
    /\ staged' = staged \ {r}
    /\ filled' = filled \ {r}

Next == \E r \in Dynamic : Create(r) \/ Stage(r) \/ Transfer(r) \/ Destroy(r)

Spec == Init /\ [][Next]_vars
==============================================================================
