--------------------------- MODULE DedupBackends ---------------------------
(***************************************************************************)
(* The three stores of effector/dedup.py at the grain of their calls, for  *)
(* one intent_id: InMemoryDedupStore, whose methods never await;           *)
(* RedisDedupStore, a SET NX PX followed by a GET, and two scripts; and    *)
(* BigtableDedupStore, whose columns are versioned, whose conditional      *)
(* mutations carry a time the caller read before the call, and which reads *)
(* the row again after a predicate hit.  Calls overlap, arrive late, fail, *)
(* and their callers die.  Clocks of different Bigtable callers agree.     *)
(***************************************************************************)
EXTENDS Integers, SequencesExt

CONSTANTS
    Stores,      \* the backends to consider
    Callers,     \* effector workers on this intent
    Lease,       \* lease_ms
    Ttl,         \* ttl_ms
    MaxGrants,   \* bound: claims granted
    MaxClock     \* bound: the time

ASSUME BackendAssumption ==
    /\ Stores \subseteq {"memory", "redis", "bigtable"}
    /\ Lease \in Nat \ {0} /\ Ttl \in Nat \ {0}
    /\ MaxGrants \in Nat /\ MaxClock \in Nat

VARIABLES
    db,          \* the backend in use
    now,         \* unix time
    kv,          \* memory, Redis: {} or {[tag, payload, expires]}
    row,         \* Bigtable: per column of family d its versions, the latest last
    call,        \* per caller: the call under way, [op, token, now]
    held,        \* per caller: the tokens it believes it owns
    granted,     \* tokens handed out; they are named in the order of the grants
    closed,      \* accepted complete and release calls, [token, how]
    answer       \* the last Done a claim answered: {} or {[result, expires, asked]}

backendVars == <<db, now, kv, row, call, held, granted, closed, answer>>

Idle == [op |-> "idle", token |-> 0, now |-> 0]
Columns == {"claim", "owner", "result", "rexp"}

BackendInit ==
    /\ db \in Stores
    /\ now = 1 /\ kv = {} /\ row = [c \in Columns |-> <<>>]
    /\ call = [c \in Callers |-> Idle]
    /\ held = [c \in Callers |-> {}]
    /\ granted = 0 /\ closed = {} /\ answer = {}

-----------------------------------------------------------------------------
(* _encode_claim and _encode_done: a tag in front of the token or result.    *)
_encode_claim(token, expires) == [tag |-> "C", payload |-> token, expires |-> expires]
_encode_done(result, expires) == [tag |-> "D", payload |-> result, expires |-> expires]

(* _live and Redis's key expiry: an expired record reads as absent.          *)
_live == {r \in kv : now < r.expires}

latest(column) == IF row[column] = <<>> THEN {} ELSE {Last(row[column])}

(* The latest cell of an expiry column, against the caller's time.           *)
_live_expiry_filter(column, at) == \E e \in latest(column) : at < e

_taken_filter(at) == _live_expiry_filter("claim", at) \/ _live_expiry_filter("rexp", at)

owner_filter_any_version(token) == token \in Range(row["owner"])

_owner_filter(token) == token \in latest("owner")

read_state_any(at) ==
    {[result |-> r, expires |-> e] : r \in latest("result"), e \in latest("rexp")}

(* A live terminal record wins over any claim cell; an expired one does not. *)
_read_state(at) ==
    {[result |-> r, expires |-> e] : r \in latest("result"), e \in {x \in latest("rexp") : at < x}}

(* What the scripts compare, and the memory store's complete and release.    *)
script_owns(token) == \E r \in _live : r = _encode_claim(token, r.expires)

(* The GET after a lost SET, and the record in the memory store's hand.      *)
terminal_value == {[result |-> r.payload, expires |-> r.expires] : r \in {x \in _live : x.tag = "D"}}

taken(at) == IF db = "bigtable" THEN _taken_filter(at) ELSE _live # {}
owns(token) == IF db = "bigtable" THEN _owner_filter(token) ELSE script_owns(token)
read_result(at) == IF db = "bigtable" THEN _read_state(at) ELSE terminal_value

-----------------------------------------------------------------------------
(* A worker calls claim, or presents a token it holds.  Bigtable's claim and *)
(* complete read the clock here, before the call goes out.                   *)
Call(c, op, token) ==
    /\ call[c].op = "idle"
    /\ call' = [call EXCEPT ![c] = [op |-> op, token |-> token, now |-> now]]
    /\ UNCHANGED <<db, now, kv, row, held, granted, closed, answer>>

BeginClaim(c) == held[c] = {} /\ granted < MaxGrants /\ Call(c, "claim", 0)
BeginComplete(c) == \E token \in held[c] : Call(c, "complete", token)
BeginRelease(c) == \E token \in held[c] : Call(c, "release", token)

(* The time an expiry is counted from: the caller's, or the server's.        *)
stamp(c) == IF db = "bigtable" THEN call[c].now ELSE now

Returns(c) == call' = [call EXCEPT ![c] = Idle]

(* claim: nobody has it, and the same operation writes the claim.            *)
Claimed(c) ==
    /\ call[c].op = "claim" /\ ~taken(stamp(c)) /\ granted < MaxGrants
    /\ granted' = granted + 1
    /\ IF db = "bigtable"
       THEN /\ row' = [row EXCEPT !["claim"] = Append(@, stamp(c) + Lease),
                                  !["owner"] = Append(@, granted + 1)]
            /\ UNCHANGED kv
       ELSE /\ kv' = {_encode_claim(granted + 1, stamp(c) + Lease)}
            /\ UNCHANGED row
    /\ held' = [held EXCEPT ![c] = {granted + 1}]
    /\ Returns(c)
    /\ UNCHANGED <<db, now, closed, answer>>

(* _decode_done or InFlight, from the record just read.                      *)
Answers(c) ==
    /\ answer' = IF read_result(stamp(c)) = {} THEN answer
                 ELSE {[result |-> r.result, expires |-> r.expires, asked |-> call[c].now]
                       : r \in read_result(stamp(c))}
    /\ Returns(c)

(* claim: somebody has it.  The memory store has the record in hand; the     *)
(* others read it with a second call.                                        *)
Taken(c) ==
    /\ call[c].op = "claim" /\ taken(stamp(c))
    /\ IF db = "memory" THEN Answers(c)
       ELSE call' = [call EXCEPT ![c].op = "read"] /\ UNCHANGED answer
    /\ UNCHANGED <<db, now, kv, row, held, granted, closed>>

ReadAfterTaken(c) ==
    /\ call[c].op = "read"
    /\ Answers(c)
    /\ UNCHANGED <<db, now, kv, row, held, granted, closed>>

(* complete and release answer True: the token owns the claim.               *)
Complete(c) ==
    /\ call[c].op = "complete" /\ owns(call[c].token)
    /\ IF db = "bigtable"
       THEN /\ row' = [claim |-> <<>>, owner |-> <<>>,
                       result |-> Append(row["result"], call[c].token),
                       rexp |-> Append(row["rexp"], stamp(c) + Ttl)]
            /\ UNCHANGED kv
       ELSE /\ kv' = {_encode_done(call[c].token, stamp(c) + Ttl)}
            /\ UNCHANGED row
    /\ closed' = closed \cup {[token |-> call[c].token, how |-> "completed"]}
    /\ held' = [held EXCEPT ![c] = {}]
    /\ Returns(c)
    /\ UNCHANGED <<db, now, granted, answer>>

Release(c) ==
    /\ call[c].op = "release" /\ owns(call[c].token)
    /\ kv' = {}
    /\ row' = [row EXCEPT !["claim"] = <<>>, !["owner"] = <<>>]
    /\ closed' = closed \cup {[token |-> call[c].token, how |-> "released"]}
    /\ held' = [held EXCEPT ![c] = {}]
    /\ Returns(c)
    /\ UNCHANGED <<db, now, granted, answer>>

(* ... or False: the claim is another's by now, or gone.                     *)
NotOwner(c) ==
    /\ call[c].op \in {"complete", "release"} /\ ~owns(call[c].token)
    /\ held' = [held EXCEPT ![c] = {}]
    /\ Returns(c)
    /\ UNCHANGED <<db, now, kv, row, granted, closed, answer>>

(* The call never arrives; the worker dies, or its reply is lost, after it   *)
(* did.                                                                      *)
CallFails(c) ==
    /\ db # "memory" /\ call[c].op # "idle"
    /\ Returns(c)
    /\ UNCHANGED <<db, now, kv, row, held, granted, closed, answer>>

CallerDies(c) ==
    /\ held[c] # {}
    /\ held' = [held EXCEPT ![c] = {}]
    /\ Returns(c)
    /\ UNCHANGED <<db, now, kv, row, granted, closed, answer>>

PassTime ==
    /\ now < MaxClock
    /\ now' = now + 1
    /\ UNCHANGED <<db, kv, row, call, held, granted, closed, answer>>

BackendNext ==
    \/ \E c \in Callers :
         \/ BeginClaim(c) \/ BeginComplete(c) \/ BeginRelease(c)
         \/ Claimed(c) \/ Taken(c) \/ ReadAfterTaken(c)
         \/ Complete(c) \/ Release(c) \/ NotOwner(c)
         \/ CallFails(c) \/ CallerDies(c)
    \/ PassTime

-----------------------------------------------------------------------------
(* The record as the protocol sees it.                                       *)
claimed_as(token, expires) == [state |-> IF now < expires THEN "claimed" ELSE "lapsed", token |-> token]

done_as(results) == IF results = {} THEN [state |-> "free", token |-> 0]
                    ELSE [state |-> "done", token |-> (CHOOSE r \in results : TRUE).result]

Entry ==
    LET owned == IF db = "bigtable" THEN row["owner"] # <<>> ELSE \E r \in kv : r.tag = "C"
        value == CHOOSE r \in kv : TRUE
    IN CASE ~owned -> done_as(read_result(now))
         [] owned /\ db = "bigtable" -> claimed_as(Last(row["owner"]), Last(row["claim"]))
         [] owned /\ db # "bigtable" -> claimed_as(value.payload, value.expires)

Protocol == INSTANCE ClaimProtocol WITH entry <- Entry, issued <- granted, ended <- closed

(* Every backend keeps the promise of DedupStore (dedup.py, "claim MUST be   *)
(* atomic ... complete and release MUST be conditional"), however its calls  *)
(* overlap and however late they arrive.                                     *)
KeepsTheProtocol == Protocol!ProtocolSpec

(* A claim is answered Done only with a result whose retention had not run   *)
(* out when the claim was made: an expired terminal record reads as unseen,  *)
(* also when a successor's claim already stands over it.                     *)
ServedResultIsCurrent == \A a \in answer : a.asked < a.expires
=============================================================================
