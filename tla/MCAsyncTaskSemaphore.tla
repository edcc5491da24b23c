------------------------ MODULE MCAsyncTaskSemaphore ------------------------
(* Threads that compete for the permits of AsyncTaskSemaphore.             *)
EXTENDS AsyncTaskSemaphore

CONSTANTS c1, c2, c3

MCThreeCallers == {c1, c2, c3}

=============================================================================
