--------------------------- MODULE SteeringPromise ---------------------------
(***************************************************************************)
(* What a run promises the user who steers it, without locks, phases,      *)
(* leases or queues: guidance is accepted until the run is answered, the   *)
(* guidance accepted so far is applied all at once, and the one answer is  *)
(* an answer to the newest guidance.  RunControl implements it.            *)
(***************************************************************************)
EXTENDS Naturals

CONSTANT FirstObjective  \* number of the objective the run starts with

VARIABLES accepted,  \* number of the newest accepted objective
          applied,   \* number of the newest objective the context contains
          answer     \* the objectives answered: none, or exactly one

promiseVars == <<accepted, applied, answer>>

PromiseInit == /\ accepted = FirstObjective
               /\ applied = FirstObjective
               /\ answer = {}

Accept == /\ answer = {}
          /\ accepted' = accepted + 1
          /\ UNCHANGED <<applied, answer>>

Apply == /\ answer = {}
         /\ applied # accepted
         /\ applied' = accepted
         /\ UNCHANGED <<accepted, answer>>

Answer == /\ answer = {}
          /\ applied = accepted
          /\ answer' = {accepted}
          /\ UNCHANGED <<accepted, applied>>

PromiseNext == Accept \/ Apply \/ Answer

PromiseSpec == PromiseInit /\ [][PromiseNext]_promiseVars
=============================================================================
