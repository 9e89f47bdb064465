---------------------------- MODULE MCActivation ----------------------------
(* What one key carries from activation to activation, side by side: a       *)
(* behaviour is one of the working memory, of the long-term tier, of its     *)
(* stores' layouts, of the staged effects and their replay, of the blobs     *)
(* across deployments, of the key's shards, of an adapter's suspension, of a *)
(* framework's conversation or of a graph's checkpoint.                      *)
EXTENDS WorkingMemory, LongtermMemory, Replay, KeyedState,
        AdapterAgent, AdapterHistory, GraphCheckpoint, StoreLayouts

VARIABLE part

MCSaves == <<<<2, 1>>, <<2>>, <<1, 3, 1>>, <<3>>>>

Op(do, name) == [do |-> do, name |-> name, on_response |-> 0, on_memory |-> -1]
If(response, op) == [op EXCEPT !.on_response = response]
When(known, op) == [op EXCEPT !.on_memory = known]
Script(ops, ends) == [ops |-> ops, ends |-> ends]

(* An agent that follows its model, and one that follows its memory.         *)
Asking == <<Script(<<Op("llm", "q"), Op("tool", "t"), If(1, Op("act", "x")), Op("note", "n"),
                     Op("act", "y")>>, "suspended"),
            Script(<<Op("llm", "q"), Op("llm", "r"), If(2, Op("approve", "z"))>>, "completed")>>
Noting == <<Script(<<When(1, Op("raise", "e")), Op("act", "x"), Op("note", "n"), Op("note", "n")>>,
                   "suspended"),
            Script(<<Op("tool", "t"), When(1, Op("raise", "e"))>>, "completed")>>
MCPrograms == {Asking, Noting}

Hash == -1
MCKeys == {<<7>>, <<7, Hash, 1>>, <<>>}
MCEvents == {[id |-> 1, key |-> <<7>>, digest |-> 4], [id |-> 2, key |-> <<7>>, digest |-> 5],
             [id |-> 3, key |-> <<7, Hash, 1>>, digest |-> 4], [id |-> 4, key |-> <<>>, digest |-> 3]}

(* A tool node over one read-only tool, one over a mixed batch, an approval. *)
MCShapes == {<<"read">>, <<"effect", "read", "effect">>, <<"approval">>}

(* "a" and "ab"; keys with each layout's delimiters and escapes, one that     *)
(* begins with the rest of the other entity, one in upper case, one beyond   *)
(* the basic plane.                                                          *)
MCEntities == {<<97>>, <<97, 98>>}
MCStoreKeys == {<<>>, <<120>>, <<54, 50, 120>>, <<97, 37, 98>>, <<97, 92, 98>>, <<97, 47>>,
                <<65, 98>>, <<97, 37, 50, 70>>, <<97, 98, 99>>, <<97, 128512>>, <<91, 97, 93>>}
MCPrefixes == {<<>>, <<97>>, <<97, 37>>, <<97, 92>>, <<97, 95>>, <<54>>, <<91, 97>>}

Init ==
    /\ part \in {"working", "longterm", "replay", "schema", "shards", "adapter", "history",
                 "graph", "layouts"}
    /\ WorkingInit /\ LongtermInit /\ ActivationInit /\ MigrationInit /\ ShardInit /\ AdapterInit
    /\ HistoryInit /\ GraphInit /\ LayoutInit
    /\ part = "layouts" \/ store_kind = "memory"
    /\ part = "longterm" \/ backend = "atomic"
    /\ part = "replay" \/ program = Asking
    /\ part = "schema" \/ (~on_expire /\ cells["memory"] = {})
    /\ part = "shards" \/ assignment = "hash"
    /\ part = "history" \/ (framework = "adk" /\ recognized /\ max_events = 0)
    /\ recognized \/ framework = "pydantic_ai"

Next ==
    /\ UNCHANGED part
    /\ \/ /\ part = "working" /\ WorkingNext
          /\ UNCHANGED <<longtermVars, activationVars, migrationVars, shardVars,
                         adapterVars, historyVars, graphVars, layoutVars>>
       \/ /\ part = "longterm" /\ LongtermNext
          /\ UNCHANGED <<workingVars, activationVars, migrationVars, shardVars,
                         adapterVars, historyVars, graphVars, layoutVars>>
       \/ /\ part = "replay" /\ ActivationNext
          /\ UNCHANGED <<workingVars, longtermVars, migrationVars, shardVars, adapterVars,
                         historyVars, graphVars, layoutVars>>
       \/ /\ part = "schema" /\ MigrationNext
          /\ UNCHANGED <<workingVars, longtermVars, activationVars, shardVars,
                         adapterVars, historyVars, graphVars, layoutVars>>
       \/ /\ part = "shards" /\ ShardNext
          /\ UNCHANGED <<workingVars, longtermVars, activationVars, migrationVars,
                         adapterVars, historyVars, graphVars, layoutVars>>
       \/ /\ part = "adapter" /\ AdapterNext
          /\ UNCHANGED <<workingVars, longtermVars, activationVars, migrationVars,
                         shardVars, historyVars, graphVars, layoutVars>>
       \/ /\ part = "history" /\ HistoryNext
          /\ UNCHANGED <<workingVars, longtermVars, activationVars, migrationVars,
                         shardVars, adapterVars, graphVars, layoutVars>>
       \/ /\ part = "graph" /\ GraphNext
          /\ UNCHANGED <<workingVars, longtermVars, activationVars, migrationVars,
                         shardVars, adapterVars, historyVars, layoutVars>>
       \/ /\ part = "layouts" /\ LayoutNext
          /\ UNCHANGED <<workingVars, longtermVars, activationVars, migrationVars,
                         shardVars, adapterVars, historyVars, graphVars>>

Spec == Init /\ [][Next]_<<part, workingVars, longtermVars, activationVars, migrationVars,
                           shardVars, adapterVars, historyVars, graphVars, layoutVars>>

(* What an activation saved long-term is found again: by the activation      *)
(* itself, after its commit, and in the layout of every store.               *)
SavedIsFound == CommittedIsStored /\ SearchReadsOwnWrites /\ NewestIsLoaded /\ SearchIsTheScan

(* What a framework run leaves behind is what its resume needs, under each   *)
(* adapter: every result is fed once, intents follow the model's order,      *)
(* conversation, checkpoint and resume map agree with what is awaited.       *)
AdaptersKeepTheWait ==
    /\ ResultsFedOnce /\ IntentsFollowTheModel /\ ConversationMatchesWait
    /\ ServedWritesAreExact /\ NodesFindTheirAnswers
=============================================================================
