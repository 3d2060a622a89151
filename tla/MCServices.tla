------------------------------ MODULE MCServices -------------------------------
(* Four services that share no state, checked in one run: a behaviour is that   *)
(* of one of them, chosen at the start, while the others stay as they begin.    *)
EXTENDS Conversation, AddressCheck, ConfidentialAccess, AcquisitionCapacity, TLC

VARIABLE part    \* the service that this behaviour is of

servicesVars == <<part, threadVars, checkVars, accessVars, capacityVars>>

ServicesInit ==
  /\ part \in {"thread", "check", "access", "capacity"}
  /\ ThreadInit /\ CheckInit /\ AccessInit /\ CapacityInit
  \* the others begin in one way only
  /\ part # "check" => channel = "phone"
  /\ part # "access" => ~switch

ServicesNext ==
  \/ part = "thread" /\ ThreadNext /\ UNCHANGED <<part, checkVars, accessVars, capacityVars>>
  \/ part = "check" /\ CheckNext /\ UNCHANGED <<part, threadVars, accessVars, capacityVars>>
  \/ part = "access" /\ AccessNext /\ UNCHANGED <<part, threadVars, checkVars, capacityVars>>
  \/ part = "capacity" /\ CapacityNext /\ UNCHANGED <<part, threadVars, checkVars, accessVars>>

ServicesSpec == ServicesInit /\ [][ServicesNext]_servicesVars

\* The state of each of the four has its type.
ServicesTypeOK == ThreadTypeOK /\ CheckTypeOK /\ AccessTypeOK /\ CapacityTypeOK

\* Requests are served alike, and so are the two parties, who are the two buyers as well
Alike == {p @@ q : p \in Permutations(Callers), q \in Permutations(Parties)}
================================================================================
