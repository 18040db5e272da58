------------------------ MODULE MCLibStorageTransport ------------------------
(* LibStorageTransport with few requests. *)
EXTENDS LibStorageTransport
==============================================================================
