---- MODULE MCSyncTask ----
(* SyncTask for TLC: requests nested up to three deep, one payload of each   *)
(* size.  MCSyncTask.cfg is the browser, MCSyncTaskNode.cfg Node.  *)
EXTENDS SyncTask
====
