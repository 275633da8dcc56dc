----------------------------- MODULE MCOvertaking -----------------------------
(***************************************************************************)
(* Instances of Overtaking for TLC: the seeds and bounds of MCCompliance,  *)
(* and those under which a request can be overtaken on what it looked up.  *)
(***************************************************************************)
EXTENDS Overtaking, MCCompliance

\* TM-002 in transit with its parties in order, no check yet: one can be entered
\* about it or about a manifest that is entered later.
SeedInTransit == SeedWith("active", "verified", "in_transit", "")

\* A carrier changes while a manifest that names it is submitted and dispatched.
WriteDispatch == [c \in Records |->
    IF c \in Generators THEN 1 ELSE IF c \in Carriers THEN 2 ELSE 3]

\* The seeded manifest moves while checks are entered, fail and are escalated.
WriteDecisions == [c \in Records |->
    IF c \in Checks THEN 3
    ELSE IF c \in Manifests /\ c = First(Manifests) THEN 2 ELSE 1]
===============================================================================
