---------------------------- MODULE Publication ----------------------------
(***************************************************************************)
(* What a transaction promises to the owner of its outputs: they are       *)
(* published once, after the last step, or discarded once, never both; and *)
(* the resource it borrows is kept from the first step until it ends.      *)
(***************************************************************************)
EXTENDS Naturals

CONSTANT Steps            \* steps the publication is made of

VARIABLES outcome,        \* "pending", "published", "discarded"
          steps,          \* steps whose effects are staged
          held            \* the resource is retained

pvars == <<outcome, steps, held>>

PInit == outcome = "pending" /\ steps = 0 /\ held = FALSE

Hold == /\ outcome = "pending" /\ steps = 0 /\ ~held
        /\ held' = TRUE
        /\ UNCHANGED <<outcome, steps>>

Step == /\ outcome = "pending" /\ steps < Steps
        /\ steps' = steps + 1
        /\ UNCHANGED <<outcome, held>>

Publish == /\ outcome = "pending" /\ steps = Steps
           /\ outcome' = "published"
           /\ UNCHANGED <<steps, held>>

\* The last finished step may be the one that is thrown away.
Discard == /\ outcome = "pending"
           /\ outcome' = "discarded"
           /\ steps' \in {steps, steps + 1} /\ steps' <= Steps
           /\ UNCHANGED held

\* The resource goes only after the outcome is known.
Drop == /\ outcome # "pending" /\ held
        /\ held' = FALSE
        /\ UNCHANGED <<outcome, steps>>

DiscardAndDrop == /\ outcome = "pending" /\ held
                  /\ outcome' = "discarded" /\ held' = FALSE
                  /\ UNCHANGED steps

PNext == Hold \/ Step \/ Publish \/ Discard \/ Drop \/ DiscardAndDrop

PSpec == PInit /\ [][PNext]_pvars
=============================================================================
