------------------------------ MODULE ToolGate ------------------------------
(***************************************************************************)
(* What a policy proxy promises, whatever its policy and its transport:    *)
(* every message is held until it is ruled on, exactly one ruling is made, *)
(* a cleared message is offered to the server once, a refused one never,   *)
(* and the client of a refused one is told so, once.  Guard implements it. *)
(***************************************************************************)
EXTENDS Naturals

CONSTANT Calls

VARIABLES
    fate,       \* the ruling on a call, or how far it is from one
    delivered,  \* how often the server received it
    answer      \* what the client was told

gateVars == <<fate, delivered, answer>>

Fates == {"unseen", "held", "cleared", "refused", "offered"}

GateTypeOK == /\ fate \in [Calls -> Fates] /\ delivered \in [Calls -> {0, 1}]
              /\ answer \in [Calls -> {"none", "refusal", "other"}]

GateInit == /\ fate = [c \in Calls |-> "unseen"]
            /\ delivered = [c \in Calls |-> 0]
            /\ answer = [c \in Calls |-> "none"]

\* A message arrives; one that is not a tool call needs no ruling.
Submit(c) == /\ fate[c] = "unseen"
             /\ \E f \in {"held", "cleared"} : fate' = [fate EXCEPT ![c] = f]
             /\ UNCHANGED <<delivered, answer>>

Rule(c) == /\ fate[c] = "held"
           /\ \E f \in {"cleared", "refused"} : fate' = [fate EXCEPT ![c] = f]
           /\ UNCHANGED <<delivered, answer>>

\* The one attempt to pass the message on; the server may be gone.
Offer(c) == /\ fate[c] = "cleared"
            /\ fate' = [fate EXCEPT ![c] = "offered"]
            /\ \E n \in {0, 1} : delivered' = [delivered EXCEPT ![c] = n]
            /\ UNCHANGED answer

TellRefusal(c) == /\ fate[c] = "refused" /\ answer[c] = "none"
                  /\ answer' = [answer EXCEPT ![c] = "refusal"]
                  /\ UNCHANGED <<fate, delivered>>

\* The server's answer, or word that it could not be reached.
Relay(c) == /\ fate[c] = "offered" /\ answer[c] = "none"
            /\ answer' = [answer EXCEPT ![c] = "other"]
            /\ UNCHANGED <<fate, delivered>>

GateNext == \E c \in Calls : Submit(c) \/ Rule(c) \/ Offer(c) \/ TellRefusal(c) \/ Relay(c)

\* Cleared messages are offered and refusals told.  A ruling may wait for a
\* person, and nothing makes the server answer.
GateFairness == \A c \in Calls : WF_gateVars(Offer(c) \/ TellRefusal(c))
GateSpec == GateInit /\ [][GateNext]_gateVars /\ GateFairness

\* No server sees what a client was told is refused.
RefusalKept == \A c \in Calls : answer[c] = "refusal" => delivered[c] = 0
=============================================================================
