------------------------- MODULE RuntimeRefinement -------------------------
(***************************************************************************)
(* The Runtime seen by its callers.  Only runtime.store is visible through *)
(* the getters, so the store implements the ledger of AtomicLedger.        *)
(***************************************************************************)
EXTENDS Runtime

Atomic == INSTANCE AtomicLedger WITH ledger <- store

\* The steps of executeTx, seen through the store, are groups that happen as a
\* whole or not at all, in the order in which they were submitted.
Atomicity == Atomic!Spec
=============================================================================
