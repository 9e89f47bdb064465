----------------------------- MODULE StoreLayouts -----------------------------
(***************************************************************************)
(* How each store of memory/stores/ lays the records of its entities out,  *)
(* and how it finds them again: load, the seq-guarded save, and the prefix *)
(* search that every backend words in the grammar of its own server (a     *)
(* glob, a LIKE pattern, a range of row keys, a range of a field).  Texts  *)
(* are sequences of code points, entities sequences of bytes.  The servers *)
(* are external: a LIKE tells upper from lower case but in SQLite, whose   *)
(* LIKE ignores the case of ASCII letters, and text is taken to be ordered *)
(* by code point.  Concurrent savers are module LongtermMemory.            *)
(***************************************************************************)
EXTENDS Integers, FiniteSets, SequencesExt

CONSTANTS
    StoreKinds,     \* subset of {"memory", "redis", "bigtable", "firestore", "sql", "sqlite"}
    Entities,       \* entity keys: non-empty sequences of bytes
    StoreKeys,      \* record keys: texts, the empty one too
    SearchedPrefixes,  \* what is searched for: texts
    StoreSeqs,      \* the seqs of the records, of at most two bytes
    MaxRecords      \* bound: saves

ASSUME LayoutAssumption ==
    /\ StoreKinds \subseteq {"memory", "redis", "bigtable", "firestore", "sql", "sqlite"}
    /\ \A e \in Entities : e # <<>> /\ \A i \in DOMAIN e : e[i] \in 0..255
    /\ \A k \in StoreKeys \cup SearchedPrefixes : \A i \in DOMAIN k : k[i] \in Nat
    /\ StoreSeqs \subseteq 0..65535 /\ MaxRecords \in Nat

VARIABLES
    store_kind,     \* the configured store
    placed,         \* what its server holds: records, each under its place
    offered         \* history: the records whose save returned

layoutVars == <<store_kind, placed, offered>>

-----------------------------------------------------------------------------
(* The code points the layouts and patterns give a meaning to.               *)
NumberSign == 35
Percent == 37
Asterisk == 42
QuestionMark == 63
LeftBracket == 91
Backslash == 92
RightBracket == 93
LowLine == 95
Noncharacter == 65535       \* "\uffff"

joined(texts) == FoldLeft(LAMBDA acc, t : acc \o t, <<>>, texts)
each(F(_), text) == joined([i \in DOMAIN text |-> F(text[i])])

(* s sorts before t: by code point, and as bytes of UTF-8 just so.           *)
sorts_before(s, t) ==
    \E i \in 1..Len(t) :
        /\ i <= Len(s) + 1
        /\ \A j \in 1..(i - 1) : s[j] = t[j]
        /\ i = Len(s) + 1 \/ s[i] < t[i]

(* bytes.hex, and the escapes of urllib.parse.quote: a code point beyond     *)
(* ASCII keeps its identity after the percent sign.                          *)
hex_digit(n, letters) == IF n < 10 THEN 48 + n ELSE letters + n - 10
hex(entity) == each(LAMBDA b : <<hex_digit(b \div 16, 97), hex_digit(b % 16, 97)>>, entity)

unreserved(c) ==
    \/ c \in 48..57 \/ c \in 65..90 \/ c \in 97..122 \/ c \in {45, 46, LowLine, 126}
quoted_char(c) ==
    CASE unreserved(c) -> <<c>>
      [] c < 128 -> <<Percent, hex_digit(c \div 16, 65), hex_digit(c % 16, 65)>>
      [] OTHER -> <<Percent, c>>

(* Fixed width, the most significant byte first.                             *)
_encode_seq(seq) == <<seq \div 256, seq % 256>>

-----------------------------------------------------------------------------
(* BigtableMemoryStore._row_key                                              *)
_row_key(entity, key) == hex(entity) \o <<NumberSign>> \o key

doc_id_slash(entity, key) ==
    hex(entity) \o <<NumberSign>>
        \o each(LAMBDA c : IF c = 47 THEN quoted_char(c) ELSE <<c>>, key)

(* FirestoreMemoryStore._doc_id                                              *)
_doc_id(entity, key) == hex(entity) \o <<NumberSign>> \o each(quoted_char, key)

(* RedisMemoryStore._hash_key: the entity's hash; the field is the key.      *)
_hash_key(entity) == hex(entity)

(* Where a record lies: what the server takes for its identity.              *)
place(entity, key) ==
    CASE store_kind = "bigtable"  -> <<_row_key(entity, key)>>
      [] store_kind = "firestore" -> <<_doc_id(entity, key)>>
      [] store_kind = "redis"     -> <<_hash_key(entity), key>>
      [] OTHER                    -> <<entity, key>>

at_place(entity, key) == {p \in placed : p.at = place(entity, key)}

(* MemoryStore.load; the key and the rest come back in the envelope, the     *)
(* entity is the caller's.                                                   *)
record_of(entity, p) == [entity |-> entity, key |-> p.record.key, seq |-> p.record.seq]
_load(entity, key) == {record_of(entity, p) : p \in at_place(entity, key)}

-----------------------------------------------------------------------------
(* The guard, by bytes in Redis's script and Bigtable's value range, by      *)
(* number in the others.                                                     *)
stored_is_newer(stored, seq) ==
    IF store_kind \in {"redis", "bigtable"}
    THEN sorts_before(_encode_seq(seq), _encode_seq(stored))
    ELSE seq < stored

LayoutInit ==
    /\ store_kind \in StoreKinds
    /\ placed = {} /\ offered = {}

(* MemoryStore.save with each backend's _save.  An empty key is a ValueError.*)
SaveRecord(entity, key, seq) ==
    LET r == [entity |-> entity, key |-> key, seq |-> seq]
        old == at_place(entity, key)
    IN  /\ key # <<>> /\ Cardinality(offered) < MaxRecords
        /\ offered' = offered \cup {r}
        /\ placed' = IF \E p \in old : stored_is_newer(p.record.seq, seq) THEN placed
                     ELSE (placed \ old) \cup {[at |-> place(entity, key), record |-> r]}
        /\ UNCHANGED store_kind

LayoutNext ==
    \E entity \in Entities, key \in StoreKeys, seq \in StoreSeqs : SaveRecord(entity, key, seq)

LayoutSpec == LayoutInit /\ [][LayoutNext]_layoutVars

-----------------------------------------------------------------------------
(* A server's pattern: many and one are its wildcards, a backslash takes the *)
(* next character literally, and what a bracket opens is a class of the      *)
(* characters up to the closing one.                                         *)
tokens(pattern, many, one, opens) ==
    LET n == Len(pattern)
        closing(i) == {j \in (i + 1)..n : pattern[j] = RightBracket}
        from[i \in 1..(n + 3)] ==
            IF i > n THEN <<>>
            ELSE IF pattern[i] = Backslash /\ i < n
                 THEN <<[is |-> "class", of |-> {pattern[i + 1]}]>> \o from[i + 2]
            ELSE IF pattern[i] = many THEN <<[is |-> "many", of |-> {}]>> \o from[i + 1]
            ELSE IF pattern[i] = one THEN <<[is |-> "one", of |-> {}]>> \o from[i + 1]
            ELSE IF pattern[i] = opens
                 THEN LET end == IF closing(i) = {} THEN n + 1
                                 ELSE CHOOSE j \in closing(i) : \A k \in closing(i) : j <= k
                      IN  <<[is |-> "class", of |-> {pattern[k] : k \in (i + 1)..(end - 1)}]>>
                            \o from[end + 1]
            ELSE <<[is |-> "class", of |-> {pattern[i]}]>> \o from[i + 1]
    IN  from[1]

matches(toks, text) ==
    LET t[i \in 1..(Len(toks) + 1), j \in 1..(Len(text) + 1)] ==
            IF i > Len(toks) THEN j > Len(text)
            ELSE CASE toks[i].is = "many" -> t[i + 1, j] \/ (j <= Len(text) /\ t[i, j + 1])
                   [] toks[i].is = "one"  -> j <= Len(text) /\ t[i + 1, j + 1]
                   [] OTHER -> j <= Len(text) /\ text[j] \in toks[i].of /\ t[i + 1, j + 1]
    IN  t[1, 1]

glob(pattern, text) == matches(tokens(pattern, Asterisk, QuestionMark, LeftBracket), text)

(* The LIKE of a SQL server; SQLite's folds the ASCII letters of both sides. *)
lowered(text) == [i \in DOMAIN text |-> IF text[i] \in 65..90 THEN text[i] + 32 ELSE text[i]]
cased(text) == IF store_kind = "sqlite" THEN lowered(text) ELSE text
like(pattern, text) == matches(tokens(cased(pattern), Percent, LowLine, -1), cased(text))

-----------------------------------------------------------------------------
_literal_glob_prefix(prefix) ==
    each(LAMBDA c : IF c \in {Backslash, QuestionMark, Asterisk, LeftBracket, RightBracket}
                    THEN <<Backslash, c>> ELSE <<c>>, prefix) \o <<Asterisk>>

(* str.replace of one character by the backslash and itself.                 *)
escape(c, text) == each(LAMBDA d : IF d = c THEN <<Backslash, d>> ELSE <<d>>, text)

escape_like_backslash_last(prefix) ==
    escape(Backslash, escape(LowLine, escape(Percent, prefix)))

_escape_like_prefix(prefix) == escape(LowLine, escape(Percent, escape(Backslash, prefix)))

(* The smallest byte string beyond every one with the prefix.  A row key     *)
(* holds no byte 255, which neither hex nor UTF-8 has, and is never empty.   *)
_prefix_successor(prefix) == [prefix EXCEPT ![Len(prefix)] = @ + 1]

in_range(text, start, end) == ~sorts_before(text, start) /\ sorts_before(text, end)

(* The rows a search finds, by backend.                                      *)
search_memory(entity, prefix) ==
    {p \in placed : p.at[1] = entity /\ IsPrefix(prefix, p.at[2])}

search_redis(entity, prefix) ==
    {p \in placed : /\ p.at[1] = _hash_key(entity)
                    /\ glob(_literal_glob_prefix(prefix), p.at[2])
                    /\ IsPrefix(prefix, p.at[2])}

search_bigtable(entity, prefix) ==
    LET start == _row_key(entity, prefix)
    IN  {p \in placed : in_range(p.at[1], start, _prefix_successor(start))}

search_firestore(entity, prefix) ==
    {p \in placed : /\ p.record.entity = entity
                    /\ in_range(p.record.key, prefix, prefix \o <<Noncharacter>>)}

search_sql(entity, prefix) ==
    {p \in placed : /\ p.at[1] = entity
                    /\ like(_escape_like_prefix(prefix) \o <<Percent>>, p.at[2])}

(* MemoryStore.search: what was found in key order (for Bigtable, of row     *)
(* keys), cut at the limit.                                                  *)
_search(entity, prefix, limit) ==
    LET found == CASE store_kind = "memory"    -> search_memory(entity, prefix)
                   [] store_kind = "redis"     -> search_redis(entity, prefix)
                   [] store_kind = "bigtable"  -> search_bigtable(entity, prefix)
                   [] store_kind = "firestore" -> search_firestore(entity, prefix)
                   [] OTHER                    -> search_sql(entity, prefix)
        sort_key(p) == IF store_kind = "bigtable" THEN p.at[1] ELSE p.record.key
        sorted == SetToSortSeq(found, LAMBDA p, q : sorts_before(sort_key(p), sort_key(q)))
    IN  [i \in 1..(IF Len(sorted) < limit THEN Len(sorted) ELSE limit)
            |-> record_of(entity, sorted[i])]

-----------------------------------------------------------------------------
(* What was saved under a key of an entity is what is loaded: the newest of  *)
(* it, whatever else other keys and entities, whose texts may hold the       *)
(* layout's own delimiters and escapes, have saved (memory/stores/base.py,   *)
(* MemoryStore.save).                                                        *)
NewestIsLoaded ==
    \A r \in offered :
        LET same == {o \in offered : o.entity = r.entity /\ o.key = r.key}
        IN  _load(r.entity, r.key) = {o \in same : \A p \in same : p.seq <= o.seq}

(* What a store takes a prefix for: in SQLite a key has it when it does so   *)
(* up to the case of ASCII letters, which is more than was asked for.        *)
starts_with(key, prefix) == IsPrefix(cased(prefix), cased(key))

(* A search returns the first of the entity's records whose keys start with  *)
(* the prefix (on SQLite, with the prefix in some case), whichever server    *)
(* does the matching and whatever the prefix holds.  Firestore's range ends  *)
(* at "\uffff" and finds no key that goes on beyond it.                      *)
SearchIsTheScan ==
    \A limit \in 1..Cardinality(offered), e \in Entities, prefix \in SearchedPrefixes :
        LET held  == {r \in offered : /\ r.entity = e /\ starts_with(r.key, prefix)
                                      /\ r \in _load(e, r.key)}
            first == {r \in held : Cardinality({o \in held : sorts_before(o.key, r.key)}) < limit}
            found == _search(e, prefix, limit)
        IN  (store_kind = "firestore" =>
                \A r \in held : \A i \in DOMAIN r.key : r.key[i] < Noncharacter)
            => /\ ToSet(found) = first /\ Len(found) = Cardinality(first)
               /\ \A i \in 1..(Len(found) - 1) : sorts_before(found[i].key, found[i + 1].key)
=============================================================================
