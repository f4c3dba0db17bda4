----------------------------- MODULE MCUpdater -----------------------------
(* Instances of Updater for TLC.                                           *)
EXTENDS Updater

CONSTANTS pkg, before, added

ShipsDef == [r \in Release |-> <<{pkg, before}, {pkg, added}, {pkg, before, added}>>[r]]
=============================================================================
