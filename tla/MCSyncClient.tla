---------------------------- MODULE MCSyncClient ----------------------------
(* The instance of SyncClient. *)
EXTENDS SyncClient

LastNode == {N}
AllVersions == 0..V
=============================================================================
