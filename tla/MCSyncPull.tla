----------------------------- MODULE MCSyncPull -----------------------------
(* One tab, one item and one variant: nothing races the pull.              *)
EXTENDS SyncPull
=============================================================================
