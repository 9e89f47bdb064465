---------------------------- MODULE KeySharding ----------------------------
(***************************************************************************)
(* Hot-key sharding (keys.py) around the keyed stage it feeds.  An event   *)
(* of a logical key runs under a physical key, key#index, and the intents  *)
(* it stages carry that key in their intent_ids.  A bundle may fail after  *)
(* its intents are out and be retried, on another worker.  Keys are        *)
(* sequences of symbols, so that a logical key may itself hold the         *)
(* delimiter.                                                              *)
(***************************************************************************)
EXTENDS Integers, FiniteSets, SequencesExt

CONSTANTS
    LogicalKeys,    \* sequences of symbols
    Events,         \* records [id, key, digest]: an event and its payload's hash
    Shards,         \* n
    Workers         \* worker processes; each has a counter, and a hash() salt

ASSUME ShardAssumption ==
    /\ LogicalKeys \subseteq Seq(Int)
    /\ \A e \in Events : e.key \in LogicalKeys /\ e.digest \in Nat
    /\ \A e, f \in Events : e.id = f.id => e = f
    /\ Shards \in Nat \ {0} /\ Workers \subseteq Nat

VARIABLES
    assignment, \* "hash" or "round_robin"
    counter,    \* per worker: _ROUND_ROBIN
    waiting,    \* events not yet committed
    staged      \* intents out, by committed and failed bundles: [event, key]

shardVars == <<assignment, counter, waiting, staged>>

Delimiter == -1

ShardInit ==
    /\ assignment \in {"hash", "round_robin"} /\ counter = [w \in Workers |-> 0]
    /\ waiting = Events /\ staged = {}

-----------------------------------------------------------------------------
physical_key(key, index) == key \o <<Delimiter, index>>

shard_key_salted(key, digest, worker) == physical_key(key, (digest + worker) % Shards)

(* shard_key: a function of the payload and n alone, not of the worker.      *)
shard_key(key, digest, worker) == physical_key(key, digest % Shards)

unshard_key_first(key) ==
    SubSeq(key, 1, (CHOOSE i \in DOMAIN key : key[i] = Delimiter
                        /\ \A j \in 1..(i - 1) : key[j] # Delimiter) - 1)

(* unshard_key: rpartition at the delimiter; one suffix comes off.           *)
unshard_key(key) ==
    SubSeq(key, 1, (CHOOSE i \in DOMAIN key : key[i] = Delimiter
                        /\ \A j \in (i + 1)..Len(key) : key[j] # Delimiter) - 1)

(* _ShardElement._index_key                                                  *)
index_key(e, worker) ==
    IF assignment = "hash" THEN shard_key(e.key, e.digest, worker)
    ELSE physical_key(e.key, counter[worker] % Shards)

counted(worker) ==
    IF assignment = "hash" THEN counter ELSE [counter EXCEPT ![worker] = (@ + 1) % Shards]

-----------------------------------------------------------------------------
(* A bundle on some worker runs the event under its physical key and stages  *)
(* an intent; it commits, or fails and is retried.                           *)
RunEvent(e, worker) ==
    LET run == [event |-> e.id, key |-> index_key(e, worker)] IN
    /\ e \in waiting
    /\ counter' = counted(worker)
    /\ staged' = staged \cup {run}
    /\ waiting' \in {waiting, waiting \ {e}}
    /\ UNCHANGED assignment

ShardNext == \E e \in Events, w \in Workers : RunEvent(e, w)

-----------------------------------------------------------------------------
(* Under hash assignment the retries of an event, on whichever workers they  *)
(* run, stage their intents under one physical key: the effector sees one    *)
(* intent_id.                                                                *)
RetriesKeepTheShard ==
    assignment = "hash" => \A a, b \in staged : a.event = b.event => a.key = b.key

(* Regrouping by unshard_key brings an event's output back to the logical    *)
(* key it came from, though the key holds a delimiter or looks sharded.      *)
RegroupsToOwner ==
    \A run \in staged : \E e \in Events : e.id = run.event /\ unshard_key(run.key) = e.key
=============================================================================
