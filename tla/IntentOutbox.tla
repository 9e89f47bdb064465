---------------------------- MODULE IntentOutbox ----------------------------
(***************************************************************************)
(* The outbox (actions/write_intents.py) and the signatures it stamps      *)
(* (intent_signing.py): a bundle's intents are signed, serialized and      *)
(* published under their entity key, the bundle commits when every publish *)
(* is acknowledged, and its intents are given again otherwise.  The runner *)
(* splits and orders the intents as it likes, and anew on a retry.  The    *)
(* Pub/Sub client is external: it sends a key's messages in order and,     *)
(* when one fails, pauses the key until it is resumed.                     *)
(***************************************************************************)
EXTENDS Integers, Sequences, FiniteSets, SequencesExt

CONSTANTS
    Outboxes,       \* the streams checked: sets of intents
                    \*   [id, key, fits, serializes]
    MaxBundle,      \* bound: intents in a bundle
    KeyIds,         \* signing key ids of the keyring
    MaxPublishFaults, \* bound: publishes the service rejects
    MaxRetries      \* bound: clients torn down, and keys found too long

Intent == [id : Int, key : Int, fits : BOOLEAN, serializes : BOOLEAN]

ASSUME OutboxAssumption ==
    /\ Outboxes \subseteq SUBSET Intent
    /\ \A o \in Outboxes : \A i, j \in o : i.id = j.id => i = j     \* intent ids are unique
    /\ MaxBundle \in Nat /\ MaxPublishFaults \in Nat /\ MaxRetries \in Nat /\ KeyIds # {}

VARIABLES
    outbox,     \* the stream, chosen at the start
    committed,  \* the intents of the bundles that committed
    bundle,     \* the bundle in work, <<>> between two
    next,       \* the next element of it to process
    futures,    \* _futures: [key, id, outcome], in publish order
    sending,    \* per key: messages the client has still to send
    paused,     \* keys the client's sequencer has paused
    orphaned,   \* per key: what clients that were torn down had still to send
    topic,      \* per key: messages in the topic, in order
    letters,    \* dead letters: committed, and staged by the bundle in work
    signer,     \* the key id the worker signs with, resolved in setup()
    faults, retries

outboxVars == <<outbox, committed, bundle, next, futures, sending, paused, orphaned, topic, letters,
                signer, faults, retries>>

EntityKeys == {i.key : i \in UNION Outboxes}

Nothing == [k \in EntityKeys |-> <<>>]

OutboxInit ==
    /\ outbox \in Outboxes /\ committed = {} /\ bundle = <<>> /\ next = 1 /\ futures = <<>>
    /\ sending = Nothing /\ paused = {} /\ orphaned = Nothing /\ topic = Nothing
    /\ letters = [committed |-> {}, staged |-> {}]
    /\ signer = (CHOOSE k \in KeyIds : TRUE) /\ faults = 0 /\ retries = 0

-----------------------------------------------------------------------------
(* An HMAC: equal when the key and the bytes are.                            *)
digest(key, bytes) == <<key, bytes>>

Unsigned(id, key) == [id |-> id, key |-> key, scheme |-> "none", key_id |-> "", signature |-> <<>>]

signing_input_uncleared(i) == [i EXCEPT !.scheme = "none", !.key_id = ""]

(* signing_input: the intent with the signature fields cleared.              *)
signing_input(i) == [i EXCEPT !.scheme = "none", !.key_id = "", !.signature = <<>>]

(* sign_intent: a signed copy, however often the intent was signed before.   *)
sign_intent(i, key_id) ==
    LET stamped == [i EXCEPT !.scheme = "HMAC_SHA256", !.key_id = key_id]
    IN  [stamped EXCEPT !.signature = digest(key_id, signing_input(stamped))]

(* verify_intent: the effector's verdict on a delivered payload.             *)
verify_intent(i, keyring) ==
    IF i.signature = <<>> THEN "unsigned_intent"
    ELSE IF i.scheme # "HMAC_SHA256" THEN "bad_signature"
    ELSE IF i.key_id \notin keyring THEN "unknown_signing_key"
    ELSE IF digest(i.key_id, signing_input(i)) = i.signature THEN "ok" ELSE "bad_signature"

-----------------------------------------------------------------------------
Element == bundle[next]
Working == bundle # <<>>
InBundle == Working /\ next <= Len(bundle)

(* The runner gives the worker a bundle of what has not been committed yet,  *)
(* in any order.                                                             *)
TakeBundle ==
    /\ ~Working
    /\ \E n \in 1..MaxBundle : \E b \in [1..n -> outbox \ committed] :
         IsInjective(b) /\ bundle' = b
    /\ UNCHANGED <<outbox, committed, next, futures, sending, paused, orphaned, topic, letters,
                   signer, faults, retries>>

(* _SerializeIntent: an intent that cannot be signed or serialized is        *)
(* dead-lettered, never raised.                                              *)
SerializeFails ==
    /\ InBundle /\ ~Element.serializes
    /\ letters' = [letters EXCEPT !.staged = @ \cup {Element.id}]
    /\ next' = next + 1
    /\ UNCHANGED <<outbox, committed, bundle, futures, sending, paused, orphaned, topic, signer, faults, retries>>

(* What this attempt has published under the key before.                     *)
Published(k) == {f.id : f \in {g \in Range(futures) : g.key = k}}

(* publish: queued behind the key's earlier messages; refused at once on a   *)
(* paused key.  A message remembers which of its attempt it comes after.     *)
Publish ==
    /\ InBundle /\ Element.serializes /\ Element.fits
    /\ LET k == Element.key
           payload == [id |-> Element.id, after |-> Published(k),
                       body |-> sign_intent(Unsigned(Element.id, k), signer)]
       IN  /\ futures' = Append(futures, [key |-> k, id |-> Element.id,
                                          outcome |-> IF k \in paused THEN "failed" ELSE "pending"])
           /\ sending' = IF k \in paused THEN sending
                         ELSE [sending EXCEPT ![k] = Append(@, [payload |-> payload,
                                                                future |-> Len(futures) + 1])]
    /\ next' = next + 1
    /\ UNCHANGED <<outbox, committed, bundle, paused, orphaned, topic, letters, signer, faults, retries>>

(* The service acknowledges the head of a key's messages ...                 *)
Acknowledge(k) ==
    /\ sending[k] # <<>>
    /\ topic' = [topic EXCEPT ![k] = Append(@, Head(sending[k]).payload)]
    /\ futures' = [f \in DOMAIN futures |->
                     IF f = Head(sending[k]).future THEN [futures[f] EXCEPT !.outcome = "ok"]
                     ELSE futures[f]]
    /\ sending' = [sending EXCEPT ![k] = Tail(@)]
    /\ UNCHANGED <<outbox, committed, bundle, next, paused, orphaned, letters, signer, faults, retries>>

kept_unordered(k) == Tail(sending[k])

(* enable_message_ordering: nothing overtakes a rejected message.            *)
kept_after_reject(k) == <<>>

(* ... or rejects it: everything queued on the key fails and it is paused.   *)
Reject(k) ==
    /\ sending[k] # <<>> /\ faults < MaxPublishFaults
    /\ LET lost == {m.future : m \in Range(sending[k])} IN
         futures' = [f \in DOMAIN futures |->
                       IF f \in lost THEN [futures[f] EXCEPT !.outcome = "failed"] ELSE futures[f]]
    /\ sending' = [sending EXCEPT ![k] = kept_after_reject(k)]
    /\ paused' = paused \cup {k}
    /\ faults' = faults + 1
    /\ UNCHANGED <<outbox, committed, bundle, next, orphaned, topic, letters, signer, retries>>

(* Messages of clients that were torn down may still arrive, a client's in   *)
(* their order.                                                              *)
Straggle(k) ==
    /\ \E c \in DOMAIN orphaned[k] :
         /\ orphaned[k][c] # <<>>
         /\ orphaned' = [orphaned EXCEPT ![k][c] = Tail(@)]
         /\ topic' = [topic EXCEPT ![k] = Append(@, Head(orphaned[k][c]))]
    /\ UNCHANGED <<outbox, committed, bundle, next, futures, sending, paused, letters, signer, faults, retries>>

-----------------------------------------------------------------------------
Forgotten(k) == [m \in DOMAIN sending[k] |-> [sending[k][m] EXCEPT !.future = 0]]

(* A failed bundle is dropped, its staged dead letters with it; its intents  *)
(* come again, split and ordered as the runner likes.                        *)
StartOver ==
    /\ bundle' = <<>> /\ next' = 1 /\ futures' = <<>>
    /\ letters' = [letters EXCEPT !.staged = {}]
    /\ UNCHANGED <<outbox, committed, topic, faults>>

(* The client built in setup() survives, its unacknowledged futures          *)
(* forgotten ...                                                             *)
RetryOnSameClient(stillPaused) ==
    /\ StartOver
    /\ paused' = stillPaused
    /\ sending' = [k \in EntityKeys |-> Forgotten(k)]
    /\ UNCHANGED <<orphaned, signer>>

(* ... or the runner tears the instance down, and setup() of the next one    *)
(* resolves the key to sign with anew.                                       *)
RetryOnNewClient ==
    /\ StartOver
    /\ paused' = {} /\ sending' = Nothing
    /\ orphaned' = [k \in EntityKeys |->
                      IF sending[k] = <<>> THEN orphaned[k]
                      ELSE Append(orphaned[k], [m \in DOMAIN sending[k] |-> sending[k][m].payload])]
    /\ signer' \in KeyIds

(* An entity key whose hex is over Pub/Sub's limit raises, every time.       *)
KeyTooLong ==
    /\ InBundle /\ Element.serializes /\ ~Element.fits
    /\ retries < MaxRetries /\ retries' = retries + 1
    /\ RetryOnSameClient(paused) \/ RetryOnNewClient

(* The worker is lost at any point of the bundle.                            *)
WorkerDies ==
    /\ Working /\ retries < MaxRetries /\ retries' = retries + 1
    /\ RetryOnNewClient

resumed_none(k) == paused

(* resume_publish on the failed key. *)
resumed(k) == paused \ {k}

awaited_none == {}

(* finish_bundle: the futures are awaited in order ...                       *)
awaited == DOMAIN futures

FirstFailed ==
    CHOOSE f \in DOMAIN futures : /\ futures[f].outcome = "failed"
                                  /\ \A g \in 1..(f - 1) : futures[g].outcome # "failed"

(* ... the first failure's key is resumed and the failure surfaces; the keys *)
(* of later failures stay paused.                                            *)
FinishFails ==
    /\ Working /\ next > Len(bundle)
    /\ \E f \in awaited : /\ futures[f].outcome = "failed"
                          /\ \A g \in 1..(f - 1) : futures[g].outcome = "ok"
    /\ \/ RetryOnSameClient(resumed(futures[FirstFailed].key)) /\ UNCHANGED retries
       \/ RetryOnNewClient /\ retries < MaxRetries /\ retries' = retries + 1

FinishBundle ==
    /\ Working /\ next > Len(bundle)
    /\ \A f \in awaited : futures[f].outcome = "ok"
    /\ committed' = committed \cup Range(bundle)
    /\ bundle' = <<>> /\ next' = 1 /\ futures' = <<>>
    /\ letters' = [committed |-> letters.committed \cup letters.staged, staged |-> {}]
    /\ UNCHANGED <<outbox, sending, paused, orphaned, topic, signer, faults, retries>>

OutboxNext ==
    \/ TakeBundle \/ SerializeFails \/ Publish \/ KeyTooLong \/ WorkerDies \/ FinishFails \/ FinishBundle
    \/ \E k \in EntityKeys : Acknowledge(k) \/ Reject(k) \/ Straggle(k)

-----------------------------------------------------------------------------
Arrived(k) == {p.id : p \in Range(topic[k])}

(* What one attempt at a bundle publishes under a key reaches the topic in   *)
(* that attempt's order and without a gap, through rejected publishes, keys  *)
(* left paused by another attempt, and clients torn down with messages on    *)
(* their way.  Of what another bundle or another attempt publishes nothing   *)
(* is said: the outbox promises no order there.                              *)
AttemptsKeepOrder ==
    \A k \in EntityKeys : \A y \in DOMAIN topic[k] :
        topic[k][y].after \subseteq {topic[k][x].id : x \in 1..(y - 1)}

(* A committed bundle has left every one of its intents in the topic or in   *)
(* the dead letters.                                                         *)
CommittedAreOut ==
    \A i \in committed : IF i.serializes THEN i.id \in Arrived(i.key) ELSE i.id \in letters.committed

(* What the outbox signs the effector verifies, under any key of its keyring *)
(* and however often the bundle was retried under another.                   *)
SignedIntentsVerify ==
    \A k \in EntityKeys : \A p \in Range(topic[k]) : verify_intent(p.body, KeyIds) = "ok"

(* Rejected publishes do not stop the outbox for good, though only one of    *)
(* the keys they paused is resumed per attempt.                              *)
OutboxDrains == (\A i \in outbox : i.fits) ~> committed = outbox

(* A committed bundle's intents are out, what an attempt published is in its *)
(* order, under signatures that verify, however often a bundle was retried.  *)
OutboxSafe == AttemptsKeepOrder /\ CommittedAreOut /\ SignedIntentsVerify
=============================================================================
