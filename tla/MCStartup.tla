------------------------------ MODULE MCStartup -------------------------------
(* An instance of Startup for TLC: users, which nobody deletes, and one of  *)
(* the four tables of records, of which one demo row of two may be deleted. *)
EXTENDS Startup

DemoTables == <<"users", "generators">>

DemoSeeds == [users |-> {"admin"}, generators |-> {"WG-001", "WG-002"}]

DemoCodes == [users |-> {"admin"}, generators |-> {"WG-001", "WG-002", "WG-900"}]

DemoDeletable == [users |-> {}, generators |-> {"WG-001", "WG-900"}]
===============================================================================
