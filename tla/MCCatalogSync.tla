---------------------------- MODULE MCCatalogSync ----------------------------
(* CatalogSync on a small instance: its constants are given by the .cfg files. *)
(* Writers and variants are interchangeable, but no symmetry is declared: the  *)
(* run checks liveness.                                                        *)
EXTENDS CatalogSync, TLC
=============================================================================
