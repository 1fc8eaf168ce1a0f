----------------------------- MODULE MCTasksApp ------------------------------
(***************************************************************************)
(* TasksApp from fixed caches, so that two calls can overlap in every way. *)
(***************************************************************************)
EXTENDS TasksApp

(* One task in the cache, one key free for a new task. *)
OneTaskInit ==
    /\ AppInit
    /\ remoteDocs = [d \in Doc |-> IF d = 1 THEN "todo" ELSE "unborn"]

(* Both tasks in the cache, one of them completed. *)
TwoTasksInit ==
    /\ AppInit
    /\ remoteDocs = [d \in Doc |-> IF d = 1 THEN "todo" ELSE "done"]

(* Everything a user can do. *)
OneTaskSpec == OneTaskInit /\ [][AppNext]_vars

(* The list only: deletes, toggles and tabs. *)
ListSpec == TwoTasksInit /\ [][ListGestures \/ Events]_vars
=============================================================================
