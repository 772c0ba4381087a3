--------------------------- MODULE MutationOutcome ---------------------------
(***************************************************************************)
(* What synchronisation promises of every mutation a device makes: one      *)
(* outcome, decided once; an effect exactly if it is applied, and only      *)
(* once; and the device is told that outcome and no other.                  *)
(***************************************************************************)
EXTENDS Naturals

CONSTANT Mutations

VARIABLES
    outcome,    \* outcome[m]: "none" until it is decided
    effects,    \* effects[m]: how often it took effect
    heard       \* heard[m]: what the device was told, "none" before

outcomeVars == <<outcome, effects, heard>>

Outcomes == {"applied", "conflict", "rejected"}

OutcomeInit ==
    /\ outcome = [m \in Mutations |-> "none"]
    /\ effects = [m \in Mutations |-> 0]
    /\ heard   = [m \in Mutations |-> "none"]

Decide(m, result) ==
    /\ outcome[m] = "none"
    /\ outcome' = [outcome EXCEPT ![m] = result]
    /\ effects' = [effects EXCEPT ![m] = IF result = "applied" THEN @ + 1 ELSE @]
    /\ UNCHANGED heard

Tell(M) ==
    /\ \A m \in M : outcome[m] # "none"
    /\ heard' = [m \in Mutations |-> IF m \in M THEN outcome[m] ELSE heard[m]]
    /\ UNCHANGED <<outcome, effects>>

OutcomeNext ==
    \/ \E m \in Mutations, result \in Outcomes : Decide(m, result)
    \/ \E M \in SUBSET Mutations : Tell(M)

OutcomeSpec == OutcomeInit /\ [][OutcomeNext]_outcomeVars
=============================================================================
