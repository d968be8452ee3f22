----------------------------- MODULE PortLease -----------------------------
(***************************************************************************)
(* What the port pool promises its clients, without saying how: a port is  *)
(* leased to one client at a time, a lease starts only when nobody has the *)
(* port and ends only when its one holder gives it up.                     *)
(***************************************************************************)
CONSTANTS
  Ports,     \* the ports that can be leased
  Clients    \* who can hold them

VARIABLE owners   \* port -> the set of clients that hold it

Init == owners = [p \in Ports |-> {}]

Lease(c, p) ==
  /\ owners[p] = {}
  /\ owners' = [owners EXCEPT ![p] = {c}]

GiveUp(c, p) ==
  /\ owners[p] = {c}
  /\ owners' = [owners EXCEPT ![p] = {}]

Next == \E c \in Clients, p \in Ports : Lease(c, p) \/ GiveUp(c, p)

Spec == Init /\ [][Next]_owners
=============================================================================
