----------------------------- MODULE DedupStore -----------------------------
(***************************************************************************)
(* The three-state claim protocol of effector/dedup.py and its stores.     *)
(* claim, complete and release are each one atomic operation of the store  *)
(* (SET NX PX and two scripts in Redis, CheckAndMutateRow in Bigtable, one *)
(* loop iteration in memory).  A record whose expiry has come reads as     *)
(* absent; it is kept here until it is replaced, which no caller can tell. *)
(***************************************************************************)
EXTENDS Integers

CONSTANTS
    IntentIds,   \* the intent_ids of the topic
    LeaseMs,     \* EffectorConfig.lease_ms
    ResultTtlMs, \* EffectorConfig.result_ttl_ms
    OwnerOnly    \* TRUE: Bigtable, whose owner predicate does not read the lease

ASSUME StoreAssumption ==
    /\ LeaseMs \in Nat \ {0}
    /\ ResultTtlMs \in Nat \ {0}
    /\ OwnerOnly \in BOOLEAN

VARIABLES
    records,   \* intent_id -> {} or {record}
    clock,     \* unix time, in lease units
    tokens,    \* ownership tokens issued so far (uuid4, so never repeated)
    lapses     \* per intent: claims granted over a record that had run out

store == <<records, tokens, lapses>>

Terminal_untagged(result, expires) ==
    [tag |-> "", token |-> 0, result |-> result, expires |-> expires]

(* _Record, or the value and expiry of a Redis key, or the cells of a row.   *)
Claim(token, expires) == [tag |-> "claim", token |-> token, result |-> {}, expires |-> expires]
Terminal(result, expires) == [tag |-> "done", token |-> 0, result |-> result, expires |-> expires]

(* Faulty variants carry the suffix of what is wrong with them; only the     *)
(* mutation checks use them.                                                 *)
live_claims_only(i) == {r \in records[i] : clock < r.expires /\ r.tag = "claim"}

(* _live, the key expiry of Redis and _live_expiry_filter.                   *)
live(i) == {r \in records[i] : clock < r.expires}

(* The owner predicate of complete and release.                              *)
owns(i, token) ==
    \E r \in (IF OwnerOnly THEN records[i] ELSE live(i)) :
        r.tag = "claim" /\ r.token = token

done(i)      == {r \in live(i) : r.tag = "done"}
in_flight(i) == \E r \in live(i) : r.tag = "claim"

(* claim answering Claimed: the token is tokens'.                            *)
claim(i) ==
    /\ live(i) = {}
    /\ tokens' = tokens + 1
    /\ records' = [records EXCEPT ![i] = {Claim(tokens + 1, clock + LeaseMs)}]
    /\ lapses' = [lapses EXCEPT ![i] = 
                                 IF \E r \in records[i] : r.expires <= clock THEN @ + 1 ELSE @]

(* complete and release, for a caller whose token still owns the claim.      *)
complete(i, token, result) ==
    /\ owns(i, token)
    /\ records' = [records EXCEPT ![i] = {Terminal(result, clock + ResultTtlMs)}]
    /\ UNCHANGED <<tokens, lapses>>

release(i, token) ==
    /\ records' = [records EXCEPT ![i] = IF owns(i, token) THEN {} ELSE @]
    /\ UNCHANGED <<tokens, lapses>>

StoreInit ==
    /\ records = [i \in IntentIds |-> {}]
    /\ clock = 1
    /\ tokens = 0
    /\ lapses = [i \in IntentIds |-> 0]
=============================================================================
