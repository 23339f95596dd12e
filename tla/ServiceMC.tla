----------------------------- MODULE ServiceMC ------------------------------
(***************************************************************************)
(* Four things that have nothing in common but the process: a provider of  *)
(* scores, the reporter, the process itself, and a digest that is cut into *)
(* messages.  A run explores them one at a time: a behaviour is one of the *)
(* part it began with, and the others rest.                                *)
(***************************************************************************)
EXTENDS Provider, Heartbeat, Supervisor, Messages

ASSUME ServiceAssumption == (1..3) \X (1..2) \subseteq Paragraphs

VARIABLES
  part,     \* "provider", "reporter", "process" or "digest"
  digest    \* the blocks of a digest, which games add one by one

partVars == <<part, digest>>

Init == /\ part \in {"provider", "reporter", "process", "digest"} /\ digest = <<>>
        /\ ProviderInit /\ HeartbeatInit /\ SupervisorInit

\* A block has one or two paragraphs; some are longer than a message.
Shapes == UNION {[1..n -> {1, 2, 3, 7}] : n \in 1..2}
Block(i, shape) == [j \in DOMAIN shape |-> [of |-> <<i, j>>, from |-> 1, to |-> shape[j]]]

AddToDigest ==
  /\ Len(digest) < 3
  /\ \E shape \in Shapes : digest' = Append(digest, Block(Len(digest) + 1, shape))

Next ==
  /\ UNCHANGED part
  /\ \/ /\ part = "provider" /\ ProviderNext
        /\ UNCHANGED <<digest, heartbeatVars, supervisorVars>>
     \/ /\ part = "reporter" /\ HeartbeatNext
        /\ UNCHANGED <<digest, providerVars, supervisorVars>>
     \/ /\ part = "process" /\ SupervisorNext
        /\ UNCHANGED <<digest, providerVars, heartbeatVars>>
     \/ /\ part = "digest" /\ AddToDigest
        /\ UNCHANGED <<providerVars, heartbeatVars, supervisorVars>>

Spec == Init /\ [][Next]_<<partVars, providerVars, heartbeatVars, supervisorVars>>
             /\ (part = "process" => SupervisorFairness)

\* A digest is cut into messages that Telegram takes, without a byte lost, doubled
\* or moved, as few as can be between its blocks (DigestParts and splitMessage).
DigestsAreCutWell == CutAsItShouldBe(digest)

OffsetsMC == <<0, 4, 5, 9, 9>>
ParagraphsMC == (1..3) \X (1..2)
=============================================================================
