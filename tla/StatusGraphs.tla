----------------------------- MODULE StatusGraphs -----------------------------
(***************************************************************************)
(* The four aggregates of the service, their status graphs and the rules   *)
(* about which records may be edited or deleted                            *)
(* (backend/internal/constants/status.go and the guards of the services).  *)
(*                                                                         *)
(* A record is identified by its code: codes carry a unique index and no   *)
(* operation ever changes one.  Each constant is the set of the codes of   *)
(* one aggregate.                                                          *)
(***************************************************************************)

CONSTANTS
    Generators,   \* codes of waste generators
    Carriers,     \* codes of carrier profiles
    Manifests,    \* codes of transfer manifests
    Checks        \* codes of compliance checks

ASSUME KindsAreDisjoint ==
    /\ Generators \cap Carriers = {}
    /\ Generators \cap Manifests = {}
    /\ Generators \cap Checks = {}
    /\ Carriers \cap Manifests = {}
    /\ Carriers \cap Checks = {}
    /\ Manifests \cap Checks = {}

Permits == Generators \cup Carriers
Records == Permits \cup Manifests \cup Checks

-------------------------------------------------------------------------------
(* A graph is its set of edges <<from, to>>, one line per source status.   *)

WasteGeneratorTransitions ==
    ({"active"} \X {"restricted", "suspended", "expired"})
      \cup ({"restricted"} \X {"active", "suspended", "expired"})
      \cup ({"suspended"} \X {"active", "expired"})

CarrierProfileTransitions ==
    ({"pending"} \X {"verified", "restricted"})
      \cup ({"verified"} \X {"restricted", "expired"})
      \cup ({"restricted"} \X {"pending", "expired"})

TransferManifestTransitions ==
    ({"draft"} \X {"submitted"})
      \cup ({"submitted"} \X {"in_transit", "rejected"})
      \cup ({"in_transit"} \X {"received", "rejected"})

ComplianceCheckTransitions ==
    ({"pending"} \X {"pass", "fail"})
      \cup ({"fail"} \X {"escalated"})

CanTransition(graph, from, to) == <<from, to>> \in graph

GeneratorStatuses == {"active", "restricted", "suspended", "expired"}
CarrierStatuses   == {"pending", "verified", "restricted", "expired"}
ManifestStatuses  == {"draft", "submitted", "in_transit", "received", "rejected"}
CheckStatuses     == {"pending", "pass", "fail", "escalated"}

-------------------------------------------------------------------------------
(* The same rules, looked up by code.                                      *)

Graph(c) == IF c \in Generators THEN WasteGeneratorTransitions
            ELSE IF c \in Carriers THEN CarrierProfileTransitions
            ELSE IF c \in Manifests THEN TransferManifestTransitions
            ELSE ComplianceCheckTransitions

Statuses(c) == IF c \in Generators THEN GeneratorStatuses
               ELSE IF c \in Carriers THEN CarrierStatuses
               ELSE IF c \in Manifests THEN ManifestStatuses
               ELSE CheckStatuses

InitialStatus(c) == IF c \in Generators THEN "active"
                    ELSE IF c \in Manifests THEN "draft"
                    ELSE "pending"

\* A manifest is edited and deleted as a draft, a check while it is pending;
\* the services put no such condition on generators and carriers.
Open(c, status) == c \in Permits \/ status = InitialStatus(c)

\* The audit trail writes "" for the status before a creation and "deleted"
\* for the status after a deletion; neither is a status of a record.
AnyStatus == GeneratorStatuses \cup CarrierStatuses
               \cup ManifestStatuses \cup CheckStatuses
===============================================================================
