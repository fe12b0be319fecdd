---------------------------- MODULE MCRoleApply ----------------------------
(***************************************************************************)
(* RoleApply for TLC.                                                      *)
(***************************************************************************)
EXTENDS RoleApply
=============================================================================
