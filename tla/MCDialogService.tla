--------------------------- MODULE MCDialogService ---------------------------
(***************************************************************************)
(* DialogService on its own, every caller free to call at any time.        *)
(***************************************************************************)
EXTENDS DialogService
=============================================================================
