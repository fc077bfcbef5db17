---------------------------- MODULE MCDiscovery ----------------------------
(***************************************************************************)
(* Instances of Discovery for TLC: one container that is away, up, up with *)
(* another port, or stopped.                                               *)
(***************************************************************************)
EXTENDS Discovery, TLC

MCRoutesOf == [v \in Views |-> CASE v = "up" -> 1 [] v = "moved" -> 2 [] OTHER -> NoRoute]
MCCleaned == [v \in Views |-> IF v = "stopped" THEN "away" ELSE v]

=============================================================================
