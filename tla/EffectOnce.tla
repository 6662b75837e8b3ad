----------------------------- MODULE EffectOnce -----------------------------
(***************************************************************************)
(* What a run promises about a tool call whose effect cannot be repeated:  *)
(* the effect of a call identity is performed at most once, the call       *)
(* settles once, after its effect, and never changes its settled outcome.  *)
(* ToolReceipts is shown to implement this specification.                  *)
(***************************************************************************)
EXTENDS Naturals

CONSTANT Ordinary        \* call identities whose effect has no replay protocol

VARIABLES
    performed,           \* call -> how often its effect was started
    outcome              \* call -> what every later request of it is answered

ovars == <<performed, outcome>>

Settled == {"completed", "failed"}

\* A call inherited from an older run may be settled, or begun with an unknown
\* effect, before this specification starts; it is then never performed.
Init ==
    /\ performed = [c \in Ordinary |-> 0]
    /\ outcome \in [Ordinary -> {"open", "unknown"} \union Settled]

Perform(c) ==
    /\ outcome[c] = "open"
    /\ performed[c] = 0
    /\ performed' = [performed EXCEPT ![c] = 1]
    /\ outcome' = [outcome EXCEPT ![c] = "unknown"]

Settle(c, s) ==
    /\ outcome[c] = "unknown"
    /\ performed[c] = 1
    /\ outcome' = [outcome EXCEPT ![c] = s]
    /\ UNCHANGED performed

Next == \E c \in Ordinary : Perform(c) \/ \E s \in Settled : Settle(c, s)

Spec == Init /\ [][Next]_ovars
=============================================================================
