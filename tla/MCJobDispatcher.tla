--------------------------- MODULE MCJobDispatcher ---------------------------
(***************************************************************************)
(* Small instances of JobDispatcher.  A client needs at most one handshake *)
(* and two tunnel workers, so MCMaxWorkers never run out and the bound     *)
(* blocks no step.  With two clients that is too many states: there        *)
(* FewWorkers cuts the behaviours that create more than MaxWorkers - 1     *)
(* workers, which leaves every interleaving of the two connections up to   *)
(* there.                                                                  *)
(***************************************************************************)
EXTENDS JobDispatcher

MCMaxWorkers == WorkersCount + 3 * MaxClients

FewWorkers == workerID < MaxWorkers
=============================================================================
