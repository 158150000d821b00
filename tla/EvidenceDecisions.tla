------------------------- MODULE EvidenceDecisions -------------------------
(***************************************************************************)
(* What selective dispatch promises, without journals, pointers, retries   *)
(* or processes (docs/CURRENT_DISPATCH.md, docs/CURRENT_DELIVERY.md):      *)
(* evidence arrives, and every piece of it ends as history, as set aside,  *)
(* or as done; one decision at a time is open; a decision is applied       *)
(* together with the acknowledgement of its evidence, and only to the very *)
(* plans it was made on; a person may drop it.                             *)
(***************************************************************************)
EXTENDS Naturals

CONSTANTS Evidence, Nothing

VARIABLES
  disposition,   \* of each piece of evidence
  started,       \* has the watch opened its first decision?
  open,          \* the open decision: evidence, whether it answers for it, plans
  plans          \* version of the plans people and decisions write

vars == <<disposition, started, open, plans>>

Waiting == {e \in Evidence : disposition[e] = "PENDING"}

Init ==
  /\ disposition = [e \in Evidence |-> "NONE"]
  /\ started = FALSE
  /\ open = Nothing
  /\ plans = 0

Arrive(S) ==
  /\ \A e \in S : disposition[e] = "NONE"
  /\ disposition' = [e \in Evidence |-> IF e \in S THEN "PENDING" ELSE disposition[e]]
  /\ UNCHANGED <<started, open, plans>>

SetAside(e) ==
  /\ started /\ open = Nothing
  /\ e \in Waiting
  /\ disposition' = [disposition EXCEPT ![e] = "SUPPRESSED"]
  /\ UNCHANGED <<started, open, plans>>

(* Only the first decision files everything else that waits as history. *)
Open(e) ==
  /\ open = Nothing
  /\ started \/ e \in Waiting
  /\ open' = [evidence |-> e, answers |-> e \in Waiting, plans |-> plans]
  /\ started' = TRUE
  /\ disposition' = IF started THEN disposition
                    ELSE [d \in Evidence |-> IF d \in Waiting \ {e} THEN "HISTORY"
                                             ELSE disposition[d]]
  /\ UNCHANGED plans

Apply ==
  /\ open # Nothing
  /\ open.plans = plans
  /\ disposition' = IF open.answers
                    THEN [disposition EXCEPT ![open.evidence] = "DONE"] ELSE disposition
  /\ plans' > plans
  /\ open' = Nothing
  /\ UNCHANGED started

Drop ==
  /\ open # Nothing
  /\ open' = Nothing
  /\ UNCHANGED <<disposition, started, plans>>

Edit ==
  /\ plans' = plans + 1
  /\ UNCHANGED <<disposition, started, open>>

Next ==
  \/ \E S \in SUBSET Evidence : Arrive(S)
  \/ \E e \in Evidence : SetAside(e) \/ Open(e)
  \/ Apply \/ Drop \/ Edit

Spec == Init /\ [][Next]_vars
============================================================================
