--------------------------- MODULE ExecutionIntent ---------------------------
(***************************************************************************)
(* What the execution control API promises about one execution: requests   *)
(* change the intent until the run is terminal or cancelled for good, an   *)
(* external call begins only while the committed intent is "active", and   *)
(* the run ends once, as cancelled if that was the intent when it ended.   *)
(***************************************************************************)
EXTENDS Integers

CONSTANT Node
VARIABLES
    intent,   \* the last acknowledged control request
    phase,    \* the recorded phase of the run
    effects   \* effects[n]: external calls that node n has begun

vars == <<intent, phase, effects>>
ControlState == {"active", "paused", "cancel_requested"}
TerminalPhase == {"completed", "failed", "cancelled"}

Init ==
    /\ intent = "active"
    /\ phase = "running"
    /\ effects = [n \in Node |-> 0]

Request(target) ==
    /\ phase \notin TerminalPhase
    /\ intent # "cancel_requested"
    /\ intent' = target
    /\ UNCHANGED <<phase, effects>>

Begin(n) ==
    /\ phase \notin TerminalPhase
    /\ intent = "active"
    /\ effects' = [effects EXCEPT ![n] = @ + 1]
    /\ UNCHANGED <<intent, phase>>

Settle(outcome) ==
    /\ phase \notin TerminalPhase
    /\ phase' = IF intent = "cancel_requested" THEN "cancelled" ELSE outcome
    /\ UNCHANGED <<intent, effects>>

Next ==
    \/ \E target \in ControlState : Request(target)
    \/ \E n \in Node : Begin(n)
    \/ \E outcome \in TerminalPhase : Settle(outcome)

Spec == Init /\ [][Next]_vars

=============================================================================
