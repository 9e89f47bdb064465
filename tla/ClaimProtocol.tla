--------------------------- MODULE ClaimProtocol ---------------------------
(***************************************************************************)
(* What effector/dedup.py promises of a DedupStore, whatever the backend:  *)
(* an intent_id has at most one owner, ownership changes hands only after  *)
(* it was given back or has run out, and only the owner ends it.  Time is  *)
(* abstracted to Lapse: a lease or a terminal record runs out some time.   *)
(***************************************************************************)
EXTENDS Integers

VARIABLES
    entry,   \* [state, token]: "free", "claimed", "lapsed" or "done", and whose
    issued,  \* claims granted so far; the number is the token
    ended    \* what callers were told: [token, how] of accepted complete, release

protocolVars == <<entry, issued, ended>>

Free == [state |-> "free", token |-> 0]

ProtocolInit == entry = Free /\ issued = 0 /\ ended = {}

(* A claim over nothing, or over one that has run out.  A slow call's lease  *)
(* may be over by the time it is stored.                                     *)
Grant ==
    /\ entry.state \in {"free", "lapsed"}
    /\ issued' = issued + 1
    /\ \E state \in {"claimed", "lapsed"} : entry' = [state |-> state, token |-> issued + 1]
    /\ UNCHANGED ended

(* The owner's, even late, as long as nobody has claimed since.              *)
Settle ==
    /\ entry.state \in {"claimed", "lapsed"}
    /\ entry' \in {[entry EXCEPT !.state = "done"], Free}
    /\ ended' = ended \cup {[token |-> entry.token, how |-> "completed"]}
    /\ UNCHANGED issued

GiveBack ==
    /\ entry.state \in {"claimed", "lapsed"}
    /\ entry' = Free
    /\ ended' = ended \cup {[token |-> entry.token, how |-> "released"]}
    /\ UNCHANGED issued

Lapse ==
    /\ \/ entry.state = "claimed" /\ entry' = [entry EXCEPT !.state = "lapsed"]
       \/ entry.state \in {"lapsed", "done"} /\ entry' = Free
    /\ UNCHANGED <<issued, ended>>

ProtocolNext == Grant \/ Settle \/ GiveBack \/ Lapse

ProtocolSpec == ProtocolInit /\ [][ProtocolNext]_protocolVars
=============================================================================
