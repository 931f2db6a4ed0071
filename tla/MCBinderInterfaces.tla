------------------------ MODULE MCBinderInterfaces -------------------------
(***************************************************************************)
(* One call of each proxy method on small argument domains: one permission *)
(* and one package name, a pid array of up to two pids, states 0 and 2, an *)
(* exception with an empty and with a non-empty message.                  *)
(***************************************************************************)
EXTENDS BinderInterfaces
=============================================================================
