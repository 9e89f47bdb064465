----------------------------- MODULE KeyedState -----------------------------
(* What an entity's keyed state rests on outside its activations: the blobs  *)
(* that binaries of several versions read and write, and the physical keys   *)
(* its events run under.  The two share nothing.                             *)
EXTENDS StateMigration, KeySharding

keyedVars == <<migrationVars, shardVars>>

KeyedNext ==
    \/ MigrationNext /\ UNCHANGED shardVars
    \/ ShardNext /\ UNCHANGED migrationVars

KeyedSpec == MigrationInit /\ ShardInit /\ [][KeyedNext]_keyedVars

(* Keyed state and keys keep their meaning over deployments and retries:     *)
(* blobs are what they claim to be (core/migration.py), and a sharded key    *)
(* keeps its shard and returns to its owner (keys.py).                       *)
KeyedStateCarriesOver == StampMatchesLayout /\ RetriesKeepTheShard /\ RegroupsToOwner
=============================================================================
