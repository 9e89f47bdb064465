--------------------------- MODULE StateMigration ---------------------------
(***************************************************************************)
(* Keyed state across deployments (core/migration.py, core/snapshot.py and *)
(* the state reads of core/dofn.py; replay/bundle.py: load_snapshot).      *)
(* Three blobs carry the schema version they were written under.  A binary *)
(* migrates a blob lazily, when it reads it; a commit stamps the binary's  *)
(* own version; a blob from a newer binary fails the bundle.  Binaries are *)
(* rolled forward and back at any time, and snapshots are exported by one  *)
(* and loaded by another.  A blob's layout is the version its fields       *)
(* really have; its stamp is the version it claims.                        *)
(***************************************************************************)
EXTENDS Integers, FiniteSets

CONSTANT MaxVersion     \* bound: the newest binary's CURRENT_STATE_SCHEMA_VERSION

ASSUME MigrationAssumption == MaxVersion \in Nat \ {0}

VARIABLES
    binary,     \* CURRENT_STATE_SCHEMA_VERSION of the running binary
    cells,      \* MEMORY, LLM_CACHE, CONTINUATION: {} or {blob}
    on_expire,  \* whether AgentConfig.on_expire is set
    exported,   \* {} or the last StateSnapshot exported
    loaded      \* {} or what load_snapshot made of it

migrationVars == <<binary, cells, on_expire, exported, loaded>>

CellNames == {"memory", "llm_cache", "continuation"}
Versions == 1..MaxVersion
Blob(v) == [stamp |-> v, layout |-> v]

(* Fields of one version read or migrated as those of another.               *)
Garbled == 0

(* A key the runtime never wrote, or the baseline's blobs: version 1, or the *)
(* pre-versioned 0 with the same layout.                                     *)
MigrationInit ==
    /\ binary = 1 /\ on_expire \in BOOLEAN /\ exported = {} /\ loaded = {}
    /\ cells \in {[c \in CellNames |-> {}],
                  [c \in CellNames |-> {[stamp |-> 0, layout |-> 1]}],
                  [c \in CellNames |-> IF c = "continuation" THEN {} ELSE {Blob(1)}]}

-----------------------------------------------------------------------------
(* message.state_schema_version or _BASELINE_VERSION                         *)
version_of(b) == IF b.stamp = 0 THEN 1 ELSE b.stamp

from_future_unchecked(b, current) == FALSE

(* StateSchemaFromFutureError, before any field is interpreted.              *)
from_future(b, current) == version_of(b) > current

(* A registered step takes version n's layout to version n + 1's.            *)
migration_step(b, n) == [stamp |-> n + 1, layout |-> IF b.layout = n THEN n + 1 ELSE Garbled]

(* migrate_to_current: the chain, one step at a time.                        *)
migrate_to_current(b, current) ==
    LET walk[n \in version_of(b)..current] ==
            IF n = version_of(b) THEN b ELSE migration_step(walk[n - 1], n - 1)
    IN IF version_of(b) >= current THEN b ELSE walk[current]

Reads(names) == \A c \in names : \A b \in cells[c] : ~from_future(b, binary)

(* What a commit makes of a cell: the binary interprets the migrated fields  *)
(* in its own layout and stamps its own version.                             *)
rewritten_cell(c) ==
    {[stamp |-> binary,
      layout |-> IF \A b \in cells[c] : migrate_to_current(b, binary).layout = binary
                 THEN binary ELSE Garbled]}

-----------------------------------------------------------------------------
Deploy(v) ==
    /\ v # binary
    /\ binary' = v
    /\ UNCHANGED <<cells, on_expire, exported, loaded>>

(* _commit writes MEMORY and LLM_CACHE and writes or clears CONTINUATION.    *)
CommitStamped(suspends) ==
    /\ cells' = [c \in CellNames |->
                   IF c # "continuation" THEN rewritten_cell(c)
                   ELSE IF suspends THEN {Blob(binary)} ELSE {}]
    /\ UNCHANGED <<binary, on_expire, exported, loaded>>

(* _start reads MEMORY and LLM_CACHE; under BatchPolicy.NONE a suspension in *)
(* the way is replaced unread.                                               *)
StartMigrating(suspends) == Reads({"memory", "llm_cache"}) /\ CommitStamped(suspends)

(* _resume reads CONTINUATION first; the adapter's snapshot in it is taken   *)
(* up by the resumed activation.                                             *)
ResumeMigrating(suspends) ==
    /\ cells["continuation"] # {}
    /\ Reads({"continuation"}) /\ Reads({"memory", "llm_cache"})
    /\ CommitStamped(suspends)

(* on_hitl: an escalation writes CONTINUATION alone; a denial clears it.     *)
EscalateMigrating ==
    /\ cells["continuation"] # {} /\ Reads({"continuation"})
    /\ cells' = [cells EXCEPT !["continuation"] =
                   {migrate_to_current(b, binary) : b \in cells["continuation"]}]
    /\ UNCHANGED <<binary, on_expire, exported, loaded>>

TimeOutMigrating ==
    /\ cells["continuation"] # {} /\ Reads({"continuation"})
    /\ cells' = [cells EXCEPT !["continuation"] = {}]
    /\ UNCHANGED <<binary, on_expire, exported, loaded>>

(* on_ttl reads CONTINUATION, and MEMORY for the expiry hook, then wipes all.*)
ExpireMigrating ==
    /\ cells # [c \in CellNames |-> {}]
    /\ Reads({"continuation"}) /\ (on_expire => Reads({"memory"}))
    /\ cells' = [c \in CellNames |-> {}]
    /\ UNCHANGED <<binary, on_expire, exported, loaded>>

(* build_snapshot: the exporting binary's stamp over the blobs verbatim.     *)
build_snapshot == {[stamp |-> binary, cells |-> cells]}

ExportSnapshot ==
    /\ exported' = build_snapshot
    /\ UNCHANGED <<binary, cells, on_expire, loaded>>

(* load_snapshot, by a replay package of version v: refused when the         *)
(* snapshot or a blob in it is newer.                                        *)
load_snapshot(s, v) ==
    IF s.stamp > v \/ \E c \in CellNames : \E b \in s.cells[c] : from_future(b, v) THEN {}
    ELSE {[version |-> v,
           cells |-> [c \in CellNames |-> {migrate_to_current(b, v) : b \in s.cells[c]}]]}

LoadSnapshot(v) ==
    /\ \E s \in exported : loaded' = load_snapshot(s, v)
    /\ UNCHANGED <<binary, cells, on_expire, exported>>

MigrationNext ==
    \/ \E v \in Versions : Deploy(v) \/ LoadSnapshot(v)
    \/ \E suspends \in BOOLEAN : StartMigrating(suspends) \/ ResumeMigrating(suspends)
    \/ EscalateMigrating \/ TimeOutMigrating \/ ExpireMigrating \/ ExportSnapshot

-----------------------------------------------------------------------------
(* No roll-out or roll-back makes a binary read fields of one layout as      *)
(* those of another: what a blob claims to be is what it is, in keyed state  *)
(* after any sequence of commits by old and new binaries, and in a snapshot  *)
(* a replay package of another version has loaded.                           *)
StampMatchesLayout ==
    /\ \A c \in CellNames : \A b \in cells[c] : b.layout = version_of(b)
    /\ \A l \in loaded : \A c \in CellNames : \A b \in l.cells[c] :
         b.layout = l.version /\ version_of(b) = l.version
=============================================================================
