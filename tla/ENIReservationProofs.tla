------------------------ MODULE ENIReservationProofs ------------------------
(***************************************************************************)
(* What ENIReservation is worth: its steps, none of which mentions two     *)
(* AWSMachines, keep every interface to one of them.  What implements it   *)
(* promises as much.                                                       *)
(***************************************************************************)
EXTENDS ENIReservation, TLAPS

ReservationTypeOK ==
    /\ holder \in [ENI -> Machine \cup {Free}]
    /\ attached \in [Machine -> ENI \cup {Dynamic, Absent}]

(* An AWSMachine has only an interface that is reserved for it: the claim  *)
(* is created before the AWSMachine gets the interface, and deleted after  *)
(* it is gone.                                                             *)
AttachedIsHeld ==
    \A m \in Machine : attached[m] \in ENI => holder[attached[m]] = m

(* No two AWSMachines have the same interface. *)
NoneShared ==
    \A m, n \in Machine :
        attached[m] \in ENI /\ attached[m] = attached[n] => m = n

ReservationInv == ReservationTypeOK /\ AttachedIsHeld

LEMMA ReservationInit ==
    ASSUME Absent \notin ENI, Init
    PROVE  ReservationInv
  BY DEF Init, ReservationInv, ReservationTypeOK, AttachedIsHeld

LEMMA ReservationNext ==
    ASSUME Free \notin Machine, Absent \notin ENI, ReservationInv, [Next]_vars
    PROVE  ReservationInv'
<1> USE DEF ReservationInv, ReservationTypeOK, AttachedIsHeld
<1>1. ASSUME NEW e \in ENI, NEW m \in Machine, Reserve(e, m)
      PROVE  ReservationInv'
  BY <1>1 DEF Reserve
<1>2. ASSUME NEW m \in Machine, NEW a \in ENI \cup {Dynamic}, Create(m, a)
      PROVE  ReservationInv'
  BY <1>2 DEF Create
<1>3. ASSUME NEW m \in Machine, NEW e \in ENI, Attach(m, e)
      PROVE  ReservationInv'
  BY <1>3 DEF Attach
<1>4. ASSUME NEW m \in Machine, Remove(m) PROVE ReservationInv'
  BY <1>4 DEF Remove
<1>5. ASSUME NEW e \in ENI, Release(e) PROVE ReservationInv'
  BY <1>5 DEF Release
<1>6. CASE UNCHANGED vars
  BY <1>6 DEF vars
<1> QED
  BY <1>1, <1>2, <1>3, <1>4, <1>5, <1>6 DEF Next

(* An interface that an AWSMachine has is reserved for that AWSMachine, as *)
(* long as "nobody" is not an AWSMachine and "none" is not an interface.   *)
THEOREM ReservationSafety ==
    ASSUME Free \notin Machine, Absent \notin ENI
    PROVE  Spec => []ReservationInv
  BY ReservationInit, ReservationNext, PTL DEF Spec

(* So whatever implements ENIReservation gives no interface to two         *)
(* AWSMachines.                                                            *)
THEOREM ReservationsExclude ==
    ASSUME Free \notin Machine, Absent \notin ENI
    PROVE  Spec => []NoneShared
<1>1. ReservationInv => NoneShared
  BY DEF ReservationInv, AttachedIsHeld, NoneShared
<1> QED
  BY <1>1, ReservationSafety, PTL
=============================================================================
