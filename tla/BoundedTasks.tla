---------------------------- MODULE BoundedTasks ----------------------------
(***************************************************************************)
(* What AsyncTaskSemaphore promises to the runtime it protects: "limiting  *)
(* the number of asynchronous tasks" (quik/quik_client.rs).  Tasks start   *)
(* and finish, and never more than Permits of them are outstanding.        *)
(***************************************************************************)
EXTENDS Naturals

CONSTANT Permits

VARIABLE outstanding   \* tasks spawned and not yet released

Init == outstanding = 0

Start  == outstanding < Permits /\ outstanding' = outstanding + 1
Finish == outstanding > 0 /\ outstanding' = outstanding - 1

Next == Start \/ Finish

Spec == Init /\ [][Next]_outstanding

=============================================================================
