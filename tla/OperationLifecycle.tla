-------------------------- MODULE OperationLifecycle --------------------------
(* What the operation contract promises about one Vector_Operation, whatever
   the driver does to get there: the durable phase of an operation moves along
   the lifecycle of operation_contract.OperationState and nothing else, a
   terminal phase is final across restarts, and "resolved" is reached only by
   an operation whose effect has been applied. Several operations may move in
   one step: one world event ends every operation it concerns. *)

CONSTANT Ops                       \* operation identities (op_id)

VARIABLES phase,                   \* [Ops -> Phases], what a restart would find
          applied                  \* [Ops -> BOOLEAN], the effect has run

vars == <<phase, applied>>

Live     == {"pending", "suspended"}
Terminal == {"resolved", "expired", "cancelled", "discarded"}
Phases   == {"none", "pending", "suspended", "resolved", "expired", "cancelled", "discarded"}

\* The moves of one operation. Pausing, resuming, cancelling and discarding are
\* open to any live operation; only a pending one expires; resolution waits for
\* the effect, which may itself have paused the operation (an effect that
\* destroys its own owner's lab).
Moves(o) ==
  \/ phase[o] = "none"       /\ phase'[o] = "pending"
  \/ phase[o] = "pending"    /\ phase'[o] \in {"suspended", "expired"}
  \/ phase[o] = "suspended"  /\ phase'[o] = "pending"
  \/ phase[o] \in Live       /\ phase'[o] \in {"cancelled", "discarded"}
  \/ phase[o] \in Live       /\ phase'[o] = "resolved" /\ applied[o]

Stays(o) == phase'[o] = phase[o]

\* The effect runs only for an operation that is pending when it starts.
Applies(o) == applied'[o] = applied[o] \/ (applied'[o] /\ phase[o] = "pending")

Init == phase = [o \in Ops |-> "none"] /\ applied = [o \in Ops |-> FALSE]

Next == /\ phase' \in [Ops -> Phases]
        /\ applied' \in [Ops -> BOOLEAN]
        /\ \A o \in Ops : (Stays(o) \/ Moves(o)) /\ Applies(o)

Spec == Init /\ [][Next]_vars

===============================================================================
