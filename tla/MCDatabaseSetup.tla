-------------------------- MODULE MCDatabaseSetup --------------------------
(* Values of the sequences, and symmetry, for the model checker.           *)
EXTENDS DatabaseSetup, TLC

CONSTANTS hysteria2, server, client, legacyServer

ThreeSeeds == <<hysteria2, server, client>>
OnePair == <<[legacy |-> legacyServer, current |-> server]>>

Identities == Permutations(Isolate)
=============================================================================
