--------------------------- MODULE ENIReservation ---------------------------
(***************************************************************************)
(* What the allocator promises, without processes or caches: a network     *)
(* interface is reserved for one AWSMachine before the AWSMachine gets it, *)
(* and stays reserved for it as long as the AWSMachine has it.             *)
(***************************************************************************)
CONSTANTS ENI, Machine,
          Free,     \* the holder of an interface that nobody reserved
          Dynamic,  \* an AWSMachine without a pool interface
          Absent    \* no AWSMachine

VARIABLES holder,   \* the AWSMachine that each interface is reserved for
          attached  \* the interface that each AWSMachine has

vars == <<holder, attached>>

Init == /\ holder = [e \in ENI |-> Free]
        /\ attached = [m \in Machine |-> Absent]

Reserve(e, m) == /\ holder[e] = Free
                 /\ holder' = [holder EXCEPT ![e] = m]
                 /\ UNCHANGED attached

Create(m, a) == /\ attached[m] = Absent
                /\ a \in ENI => holder[a] = m
                /\ attached' = [attached EXCEPT ![m] = a]
                /\ UNCHANGED holder

Attach(m, e) == /\ attached[m] # Absent
                /\ holder[e] = m
                /\ attached' = [attached EXCEPT ![m] = e]
                /\ UNCHANGED holder

Remove(m) == /\ attached[m] # Absent
             /\ attached' = [attached EXCEPT ![m] = Absent]
             /\ UNCHANGED holder

Release(e) == /\ holder[e] # Free
              /\ \A m \in Machine : attached[m] # e
              /\ holder' = [holder EXCEPT ![e] = Free]
              /\ UNCHANGED attached

Next == \/ \E e \in ENI, m \in Machine : Reserve(e, m)
        \/ \E m \in Machine, a \in ENI \cup {Dynamic} : Create(m, a)
        \/ \E m \in Machine, e \in ENI : Attach(m, e)
        \/ \E m \in Machine : Remove(m)
        \/ \E e \in ENI : Release(e)

Spec == Init /\ [][Next]_vars
=============================================================================
