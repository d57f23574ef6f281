------------------------------ MODULE MCSafety ------------------------------
(***************************************************************************)
(* What must never happen, in the components that share no state with one  *)
(* another: shards, handshakes, the power budget and the decision rules.   *)
(* The first state chooses the component that a behaviour is about; the    *)
(* others stay in theirs.                                                  *)
(***************************************************************************)
EXTENDS MCShard, HandshakeFlow, PowerBudget, DecisionRules

VARIABLE part  \* the component this behaviour is about

allVars == <<part, vars, handshakeVars, powerVars, ruleVars>>

ChosenInit ==
  /\ part \in {"shard", "handshake", "power", "rules"}
  /\ Init
  /\ HandshakeInit
  /\ IF part = "power" THEN PowerInit
     ELSE /\ current = [p \in Ports |-> 0] /\ initial = current
          /\ enabled = Ports
          /\ active = [id \in Ids |-> NoAllocation]
  /\ IF part = "rules" THEN RuleInit ELSE question = [kind |-> "none"] /\ answer = <<>>

ChosenNext ==
  /\ UNCHANGED part
  /\ \/ part = "shard" /\ Next /\ UNCHANGED <<handshakeVars, powerVars, ruleVars>>
     \/ part = "handshake" /\ HandshakeNext /\ UNCHANGED <<vars, powerVars, ruleVars>>
     \/ part = "power" /\ PowerNext /\ UNCHANGED <<vars, handshakeVars, ruleVars>>
     \/ part = "rules" /\ RuleNext /\ UNCHANGED <<vars, handshakeVars, powerVars>>

ChosenSpec == ChosenInit /\ [][ChosenNext]_allVars

-----------------------------------------------------------------------------
\* Two ports, each within the budget and both together beyond it.
CONSTANTS p1, p2

MCMaxWatts == p1 :> 2 @@ p2 :> 3

\* The battery warns, throttles and shuts down before the adapter does.
MCBattery == [warn |-> 1, throttle |-> 2, shutdown |-> 4]
MCAdapter == [warn |-> 2, throttle |-> 3, shutdown |-> 5]

SafetySymmetry == Permutations(Writers) \cup Permutations(Forms) \cup Permutations(Requests)
=============================================================================
