----------------------------- MODULE MCCompliance -----------------------------
(***************************************************************************)
(* Instances of Compliance for TLC: the rows the server starts with (taken *)
(* from what database.Seed inserts) and a bound on the version of each     *)
(* row, which says which records a run lets requests write to.             *)
(***************************************************************************)
EXTENDS ComplianceProperties, TLC

SomeLinks(c) == IF Links(c) = {} THEN <<>> ELSE CHOOSE links \in Links(c) : TRUE

SeedRow(c, status) ==
    [life |-> "live", status |-> status, version |-> 1,
     expiry |-> IF c \in Permits THEN MaxTime + 1 ELSE 0, links |-> SomeLinks(c)]

First(kind) == CHOOSE c \in kind : TRUE

\* One record of each kind is there ("" for none), the others can be created.
SeedWith(generator, carrier, manifest, check) ==
    [c \in Records |->
        LET status == CASE c \in Generators -> IF c = First(Generators) THEN generator ELSE ""
                        [] c \in Carriers   -> IF c = First(Carriers) THEN carrier ELSE ""
                        [] c \in Manifests  -> IF c = First(Manifests) THEN manifest ELSE ""
                        [] OTHER            -> IF c = First(Checks) THEN check ELSE ""
        IN IF status = "" THEN AbsentRow ELSE SeedRow(c, status)]

\* WG-001 active, CP-002 verified, TM-001 draft.
SeedDraft == SeedWith("active", "verified", "draft", "")

\* WG-001 active, CP-002 verified, TM-002 submitted, CC-001 pending.
SeedSubmitted == SeedWith("active", "verified", "submitted", "pending")

\* No record yet: a generator can be entered under a new code.
SeedNothing == SeedWith("", "", "", "")

\* The bounds: which kinds of records are edited and moved, and how often.
BoundWith(permit, manifest, check) ==
    [c \in Records |-> IF c \in Permits THEN permit
                       ELSE IF c \in Manifests THEN manifest ELSE check]

WriteManifests == BoundWith(1, 4, 1)
WriteAll       == BoundWith(2, 3, 2)

\* Request slots are interchangeable.
AnyRequest == Permutations(Requests)
===============================================================================
