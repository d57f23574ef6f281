----------------------------- MODULE PowerBudget -----------------------------
(***************************************************************************)
(* The allocator of charging power (internal/power/allocation.go): ports   *)
(* with a limit each, and a budget that they share.  Its methods hold one  *)
(* mutex throughout, so each call is one step.  Clients choose the ids of  *)
(* allocations and may repeat a call.                                      *)
(***************************************************************************)
EXTENDS Nothing, Integers, FiniteSets, Functions

CONSTANTS
  Ports,     \* ids of the ports
  MaxWatts,  \* port -> its limit
  TotalCap,  \* the budget of all ports
  Ids,       \* ids that clients give their allocations
  Amounts,   \* watts that clients ask for
  InUse      \* watts that a port may be registered with

\* What NewAllocator requires of its configuration.
ASSUME LimitsPositive == MaxWatts \in [Ports -> Nat \ {0}] /\ TotalCap \in Nat \ {0}

ASSUME PortsAreFinite == None \notin Ports /\ IsFiniteSet(Ports)

ASSUME WattsAreNumbers == Amounts \subseteq Int /\ InUse \subseteq Nat

VARIABLES
  current,  \* port -> CurrentWatts
  enabled,  \* the ports that are enabled: fixed
  initial,  \* history: port -> the watts it was registered with
  active    \* id -> its allocation, or NoAllocation

powerVars == <<current, enabled, initial, active>>

NoAllocation == [port |-> None, watts |-> 0]

Allocation == [port : Ports, watts : Nat \ {0}]

PowerTypeOK ==
  /\ {current, initial} \subseteq [Ports -> Nat]
  /\ enabled \subseteq Ports
  /\ active \in [Ids -> Allocation \cup {NoAllocation}]

\* A port may be registered with watts that are in use already.
PowerInit ==
  /\ current \in [Ports -> InUse]
  /\ initial = current
  /\ enabled \in SUBSET Ports
  /\ active = [id \in Ids |-> NoAllocation]

-----------------------------------------------------------------------------
UsedWatts == SumFunctionOnSet(current, Ports)

Fits(p, watts) ==
  /\ p \in enabled
  /\ watts + current[p] <= MaxWatts[p]
  /\ UsedWatts + watts <= TotalCap

Reserve(id, p, watts) ==
  /\ current' = [current EXCEPT ![p] = @ + watts]
  /\ active' = [active EXCEPT ![id] = [port |-> p, watts |-> watts]]
  /\ UNCHANGED <<enabled, initial>>

\* Defect: an id that is in use is not looked up.
Allocate_Again(id, p, watts) ==
  /\ watts > 0 /\ Fits(p, watts)
  /\ Reserve(id, p, watts)

\* A repeated call, with the same request or another one, changes nothing.
Allocate(id, p, watts) ==
  /\ watts > 0 /\ active[id] = NoAllocation /\ Fits(p, watts)
  /\ Reserve(id, p, watts)

Release(id) ==
  LET a == active[id]
      left == current[a.port] - a.watts
  IN  /\ a # NoAllocation
      /\ current' = [current EXCEPT ![a.port] = IF left < 0 THEN 0 ELSE left]
      /\ active' = [active EXCEPT ![id] = NoAllocation]
      /\ UNCHANGED <<enabled, initial>>

PowerNext ==
  \E id \in Ids :
    \/ \E p \in Ports, watts \in Amounts : Allocate(id, p, watts)
    \/ Release(id)

PowerSpec == PowerInit /\ [][PowerNext]_powerVars

-----------------------------------------------------------------------------
On(p) == {id \in Ids : active[id].port = p}

\* The watts of a port are those it was registered with and those of the
\* allocations that are active on it: whatever was repeated, refused or
\* released in any order, nothing is lost and nothing is counted twice.
PortsAddUp ==
  \A p \in Ports :
    current[p] = initial[p] + SumFunctionOnSet([id \in Ids |-> active[id].watts], On(p))

\* No allocation takes its port or all ports together above the limit.
WithinLimits ==
  /\ \A p \in Ports : On(p) # {} => current[p] <= MaxWatts[p]
  /\ (\E p \in Ports : On(p) # {}) => UsedWatts <= TotalCap

BudgetKept == PortsAddUp /\ WithinLimits
=============================================================================
