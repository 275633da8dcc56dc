------------------------------ MODULE MCWorkbench ------------------------------
(***************************************************************************)
(* The instance of Workbench for TLC: the page of the manifests, empty at  *)
(* first, with one record that is created, edited, moved and deleted.      *)
(***************************************************************************)
EXTENDS Workbench

\* Nothing in the list yet.
EmptyList == [c \in Records |-> AbsentRow]

\* Room for two writes after the creation: somebody else's and the page's own.
VersionBound == [c \in Records |-> 3]
===============================================================================
