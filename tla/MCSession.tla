------------------------------- MODULE MCSession -------------------------------
(***************************************************************************)
(* The instance of Session for TLC: two tabs, an operator and a reviewer.  *)
(***************************************************************************)
EXTENDS Session, TLC

CONSTANTS u1, u2

RoleOf == u1 :> "operator" @@ u2 :> "reviewer"
===============================================================================
