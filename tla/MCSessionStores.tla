--------------------------- MODULE MCSessionStores ---------------------------
(***************************************************************************)
(* What is stored of a session, for TLC: the catalog of sessions, the rows *)
(* derived from their events, and the queue of one of them.  The three     *)
(* protocols share no variable, so a behaviour exercises one of them while *)
(* the others rest, and their state spaces add up.                         *)
(***************************************************************************)
EXTENDS SessionCatalog, EventProjections, SessionQueue, TLC

CONSTANTS FirstSession, FirstProject  \* listed at the start

VARIABLE store  \* the protocol at work

StoresInit == /\ store \in {"catalog", "projections", "queue"}
              /\ CatalogInit /\ ProjectionInit /\ Init
              /\ issued = {FirstSession, FirstProject} /\ listed = {FirstProject}

StoresNext ==
  /\ \/ store = "catalog" /\ CatalogNext /\ UNCHANGED <<projectionVars, vars>>
     \/ store = "projections" /\ ProjectionNext /\ UNCHANGED <<catalogVars, vars>>
     \/ store = "queue" /\ Next /\ UNCHANGED <<catalogVars, projectionVars>>
  /\ UNCHANGED store

StoresSpec ==
  StoresInit /\ [][StoresNext]_<<store, catalogVars, projectionVars, vars>>

\* Sessions, threads, messages and dispatchers are only compared.  Threads of
\* the catalog and dispatchers never meet and share their names, so that one
\* protocol at rest breaks no symmetry of another; the sessions of the log are
\* named like the projects for the same reason.
Symmetry == Permutations(SessionIds \ {FirstSession})
              \cup Permutations(CatalogThreads) \cup Permutations(Messages)
=============================================================================
