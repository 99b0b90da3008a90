--------------------------- MODULE MCProvisioning ---------------------------
(***************************************************************************)
(* Two servers at one cloud, whose creates bring the same key of the user. *)
(***************************************************************************)
EXTENDS Provisioning

CONSTANTS a, b

MCServers == {a, b}
=============================================================================
