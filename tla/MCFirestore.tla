----------------------------- MODULE MCFirestore -----------------------------
(***************************************************************************)
(* The Firestore client on its own: any caller, any server.                *)
(***************************************************************************)
EXTENDS Firestore
=============================================================================
