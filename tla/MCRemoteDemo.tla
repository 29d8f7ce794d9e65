---------------------------- MODULE MCRemoteDemo ----------------------------
(* RemoteDemo with up to two deployments of one account. *)
EXTENDS RemoteDemo
=============================================================================
