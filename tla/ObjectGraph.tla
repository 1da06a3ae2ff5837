---------------------------- MODULE ObjectGraph ----------------------------
(***************************************************************************)
(* What the heap of crates/monty/src/heap/mod.rs promises the interpreter: *)
(* a graph of objects that keep their identity and contents for as long as *)
(* they can be reached from a reference the interpreter holds or an open   *)
(* reader.  There are no counts, colours, slots or stacks here.  Memory is *)
(* taken back in one step, and only from a set of objects nothing outside  *)
(* that set refers to.  Heap is shown to implement this module.            *)
(***************************************************************************)
EXTENDS Integers, Sequences

CONSTANTS Objects, Places, Classes, Nil

VARIABLES
    live,      \* the objects that exist
    contents,  \* the references each of them holds
    holds,     \* the reference in each of the interpreter's places
    reading,   \* readers open on each object
    named      \* the type object of each host class
graph == <<live, contents, holds, reading, named>>

Init ==
    /\ live = {}
    /\ contents = [x \in Objects |-> <<>>]
    /\ holds = [r \in Places |-> Nil]
    /\ reading = [x \in Objects |-> 0]
    /\ named = [k \in Classes |-> Nil]

Make(r, x) ==
    /\ holds[r] = Nil /\ x \notin live
    /\ live' = live \cup {x}
    /\ holds' = [holds EXCEPT ![r] = x]
    /\ UNCHANGED <<contents, reading>>

New(r, x) == Make(r, x) /\ UNCHANGED named

(* A host class has one type object while anything refers to that object.  *)
NewNamed(r, x, k) ==
    /\ named[k] = Nil
    /\ Make(r, x)
    /\ named' = [named EXCEPT ![k] = x]

(* The place r, which is empty, gets a copy of a reference held elsewhere. *)
Copy(r, x) ==
    /\ holds[r] = Nil
    /\ holds' = [holds EXCEPT ![r] = x]
    /\ UNCHANGED <<live, contents, reading, named>>
CopyHeld(r, q) == holds[q] # Nil /\ Copy(r, holds[q])
CopyNamed(r, k) == named[k] # Nil /\ Copy(r, named[k])
CopyOut(r, q) ==
    /\ holds[q] # Nil
    /\ \E i \in DOMAIN contents[holds[q]] : Copy(r, contents[holds[q]][i])

Put(r, q) ==
    /\ r # q /\ holds[r] # Nil /\ holds[q] # Nil
    /\ contents' = [contents EXCEPT ![holds[q]] = Append(@, holds[r])]
    /\ holds' = [holds EXCEPT ![r] = Nil]
    /\ UNCHANGED <<live, reading, named>>

TakeOut(r, q) ==
    /\ holds[r] = Nil /\ holds[q] # Nil /\ contents[holds[q]] # <<>>
    /\ LET s == contents[holds[q]] IN
       /\ holds' = [holds EXCEPT ![r] = s[Len(s)]]
       /\ contents' = [contents EXCEPT ![holds[q]] = SubSeq(s, 1, Len(s) - 1)]
    /\ UNCHANGED <<live, reading, named>>

Forget(r) ==
    /\ holds[r] # Nil
    /\ holds' = [holds EXCEPT ![r] = Nil]
    /\ UNCHANGED <<live, contents, reading, named>>

Open(r) ==
    /\ holds[r] # Nil
    /\ reading' = [reading EXCEPT ![holds[r]] = @ + 1]
    /\ UNCHANGED <<live, contents, holds, named>>

Close(x) ==
    /\ x \in live /\ reading[x] > 0
    /\ reading' = [reading EXCEPT ![x] = @ - 1]
    /\ UNCHANGED <<live, contents, holds, named>>

(* Nothing that stays refers to anything that goes.                        *)
Unreferenced(S) ==
    /\ \A r \in Places : holds[r] \notin S
    /\ \A x \in S : reading[x] = 0
    /\ \A p \in live \ S : \A i \in DOMAIN contents[p] : contents[p][i] \notin S

Reclaim(S) ==
    /\ S # {} /\ S \subseteq live /\ Unreferenced(S)
    /\ live' = live \ S
    /\ contents' = [x \in Objects |-> IF x \in S THEN <<>> ELSE contents[x]]
    /\ named' = [k \in Classes |-> IF named[k] \in S THEN Nil ELSE named[k]]
    /\ UNCHANGED <<holds, reading>>

Next ==
    \/ \E r \in Places :
         \/ \E x \in Objects : New(r, x) \/ \E k \in Classes : NewNamed(r, x, k)
         \/ \E k \in Classes : CopyNamed(r, k)
         \/ \E q \in Places : \/ CopyHeld(r, q) \/ Put(r, q) \/ TakeOut(r, q)
                              \/ CopyOut(r, q)
         \/ Forget(r) \/ Open(r)
    \/ \E x \in Objects : Close(x)
    \/ \E S \in SUBSET Objects : Reclaim(S)

Spec == Init /\ [][Next]_graph

=============================================================================
