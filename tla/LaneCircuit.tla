----------------------------- MODULE LaneCircuit -----------------------------
(***************************************************************************)
(* What the docstring of lib/provider_health.py promises of one lane: a    *)
(* circuit that opens on failures, lets probes through after a cooldown,   *)
(* and closes on any success.  No execution starts on an open circuit.     *)
(***************************************************************************)
EXTENDS Naturals

VARIABLES circuit,  \* "closed", "open" or "half_open"
          running   \* executions of the lane

circuitVars == <<circuit, running>>

CircuitInit == circuit = "closed" /\ running = 0

StartOne == circuit # "open" /\ running' = running + 1 /\ UNCHANGED circuit
EndWith(next) == running > 0 /\ running' = running - 1 /\ circuit' = next
EndOne == EndWith(circuit) \/ EndWith("open") \/ EndWith("closed")
CoolDown == circuit = "open" /\ circuit' = "half_open" /\ UNCHANGED running

CircuitNext == StartOne \/ EndOne \/ CoolDown

CircuitSpec == CircuitInit /\ [][CircuitNext]_circuitVars
=============================================================================
