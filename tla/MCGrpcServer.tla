---------------------------- MODULE MCGrpcServer ----------------------------
(* Model values for the checks of GrpcServer. *)
EXTENDS GrpcServer
CONSTANTS h1, h2
=============================================================================
