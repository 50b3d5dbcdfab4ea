------------------------ MODULE MCDatabaseWorkerPool ------------------------
(* One or two workers, a few one-way statements and two QueryCallbacks:    *)
(* t waits for a transaction, q for a result and may chain a second query. *)
EXTENDS DatabaseWorkerPool
=============================================================================
