-------------------------- MODULE GraphCheckpoint ---------------------------
(***************************************************************************)
(* The LangGraph adapter over one key (adapters/langgraph: agent.py,       *)
(* checkpoint.py, toolnode.py).  The graph runs in supersteps of tasks;    *)
(* BeamCheckpointSaver keeps the latest checkpoint and the writes of its   *)
(* tasks as two working-memory scalars, staged during the activation and   *)
(* committed with it.  The framework, external, saves in the background:   *)
(* the writes of a task at any time after it ended, before or after the    *)
(* superstep's own checkpoint; no method of the saver blocks, so a         *)
(* checkpoint is saved before the next one is taken, and everything is     *)
(* before the run returns.  A task is a BeamToolNode over some calls, or a *)
(* node that interrupts for an approval.                                   *)
(***************************************************************************)
EXTENDS Integers, FiniteSets, SequencesExt

CONSTANTS
    GraphTasks,     \* tasks of a superstep
    TaskShapes,     \* what a task does: sequences over {"read", "effect"}, or
                    \* <<"approval">>
    MaxSupersteps,  \* bound: checkpoints of the key
    MaxGraphRuns    \* bound: activations, failed ones included

ASSUME GraphAssumption == MaxSupersteps \in Nat /\ MaxGraphRuns \in Nat

VARIABLES
    ckpt,           \* __langgraph__/ckpt, staged: 0 or the latest checkpoint's id
    write_rows,     \* __langgraph__/writes, staged: [ckpt, task, idx, value]
    stored,         \* both as committed, with the suspension: [ckpt, rows, pending]
    graph,          \* the run in flight: {} or {[step, todo, shape, resume, ended]}
    saves,          \* the framework's saves under way
    graph_runs,     \* activations so far
    ended,          \* history: [ckpt, task] of the tasks that ended, as committed
    unresumed       \* history: re-entered nodes whose answers were not all there

graphVars == <<ckpt, write_rows, stored, graph, saves, graph_runs, ended, unresumed>>

(* WRITES_IDX_MAP: an interrupt and a resume value have rows of their own,   *)
(* ordinary writes are numbered by position.                                 *)
INTERRUPT == -3
RESUME == -4

GraphInit ==
    /\ ckpt = 0 /\ write_rows = {} /\ stored = [ckpt |-> 0, rows |-> {}, pending |-> {}]
    /\ graph = {} /\ saves = {} /\ graph_runs = 0 /\ ended = {} /\ unresumed = {}

-----------------------------------------------------------------------------
(* The saver.                                                                *)
_writes_for(id, all) == {r \in all : r.ckpt = id}

(* get_tuple: the stored checkpoint with the writes recorded against it.     *)
get_tuple(wanted) ==
    IF ckpt = 0 \/ (wanted # 0 /\ wanted # ckpt) THEN {}
    ELSE {[id |-> ckpt, pending_writes |-> _writes_for(ckpt, write_rows)]}

put_clearing(id) == ckpt' = id /\ write_rows' = {}

(* put: the latest only; writes of superseded checkpoints go with them.      *)
put(id) == ckpt' = id /\ write_rows' = _writes_for(id, write_rows)

(* put_writes: a task executed again overwrites what it wrote before.        *)
put_writes(id, task, writes) ==
    /\ write_rows' = {r \in write_rows : ~(r.ckpt = id /\ r.task = task /\ r.idx \in DOMAIN writes)}
                 \cup {[ckpt |-> id, task |-> task, idx |-> idx, value |-> writes[idx]] :
                         idx \in DOMAIN writes}
    /\ UNCHANGED ckpt

-----------------------------------------------------------------------------
Effects(shape) == {i \in DOMAIN shape : shape[i] = "effect"}
Interrupts(shape) == shape = <<"approval">> \/ Effects(shape) # {}

resume_map_last(task, pending) ==
    LET mine == {p \in pending : p.task = task}
    IN {p.call : p \in {q \in mine : \A r \in mine : r.call <= q.call}}

(* _resume_map: the decision of an approval, or the results of every call    *)
(* the tool node batched, under the interrupt they belong to.                *)
resume_map(task, pending) == {p.call : p \in {q \in pending : q.task = task}}

(* _stage_and_suspend: one intent for each call of a batch, one for each     *)
(* plain interrupt.                                                          *)
staged_for(task, shape) ==
    {[task |-> task, call |-> i] :
        i \in IF shape = <<"approval">> THEN {0} ELSE Effects(shape)}

(* A superstep begins: its checkpoint is saved, its tasks are to do.         *)
Superstep(id) ==
    \E shape \in [GraphTasks -> TaskShapes] :
        /\ graph' = {[step |-> id, todo |-> GraphTasks, shape |-> shape, resume |-> FALSE,
                      ended |-> ended]}
        /\ saves' = saves \cup {[op |-> "put", id |-> id]}

(* __call__ with an event: the graph takes it as input, over whatever the    *)
(* key's checkpoint was; a suspension is given up.                           *)
Invoke ==
    /\ graph = {} /\ saves = {} /\ graph_runs < MaxGraphRuns /\ ckpt < MaxSupersteps
    /\ Superstep(ckpt + 1)
    /\ graph_runs' = graph_runs + 1
    /\ UNCHANGED <<ckpt, write_rows, stored, ended, unresumed>>

(* __call__ with the last answer: the tasks whose writes the checkpoint      *)
(* serves are done, the interrupted ones are entered again from their start. *)
done_tasks(tuple) == {r.task : r \in {w \in tuple.pending_writes : w.idx >= 0}}

ResumeGraph ==
    /\ graph = {} /\ saves = {} /\ graph_runs < MaxGraphRuns /\ stored.pending # {}
    /\ \E tuple \in get_tuple(0) : \E shape \in [GraphTasks -> TaskShapes] :
         LET waits == {r \in tuple.pending_writes : r.idx = INTERRUPT}
             again == GraphTasks \ done_tasks(tuple)
         IN /\ \A r \in waits : shape[r.task] = r.value
            /\ \A t \in GraphTasks \ {r.task : r \in waits} : shape[t] = <<>>
            /\ graph' = {[step |-> tuple.id, todo |-> again, shape |-> shape, resume |-> TRUE,
                          ended |-> ended]}
            /\ saves' = {[op |-> "writes", id |-> tuple.id, task |-> t,
                          writes |-> [i \in {RESUME} |-> shape[t]]] : t \in again}
    /\ graph_runs' = graph_runs + 1
    /\ UNCHANGED <<ckpt, write_rows, stored, ended, unresumed>>

(* BeamToolNode.__call__ without effects, or with the answers to all of      *)
(* them: the reads run inline, again if the node is entered again, and the   *)
(* messages come out in the order of the calls.                              *)
answered(g, t) ==
    staged_for(t, g.shape[t]) =
      {[task |-> t, call |-> c] : c \in resume_map(t, stored.pending)}

task_ends(g, t) ==
    /\ graph' = {[g EXCEPT !.todo = @ \ {t}, !.ended = @ \cup {[ckpt |-> g.step, task |-> t]}]}
    /\ saves' = saves \cup {[op |-> "writes", id |-> g.step, task |-> t,
                             writes |-> [i \in {0} |-> g.shape[t]]]}
    /\ UNCHANGED <<ckpt, write_rows, stored, graph_runs, ended>>

(* A failed activation: its staged memory is dropped, its saves with it.     *)
dropped ==
    /\ ckpt' = stored.ckpt /\ write_rows' = stored.rows /\ graph' = {} /\ saves' = {}
    /\ UNCHANGED <<stored, graph_runs, ended>>

TaskReturns(g, t) ==
    /\ t \in g.todo /\ ~Interrupts(g.shape[t])
    /\ task_ends(g, t)
    /\ UNCHANGED unresumed

(* A node entered again raises when it finds no answer to one of its calls.  *)
NodeReenters(g, t) ==
    /\ t \in g.todo /\ Interrupts(g.shape[t]) /\ g.resume
    /\ IF answered(g, t) THEN task_ends(g, t) ELSE dropped
    /\ unresumed' = IF answered(g, t) THEN unresumed ELSE unresumed \cup {t}

(* interrupt() within the node, the first time it is entered.                *)
TaskInterrupts(g, t) ==
    /\ t \in g.todo /\ Interrupts(g.shape[t]) /\ ~g.resume
    /\ graph' = {[g EXCEPT !.todo = @ \ {t}]}
    /\ saves' = saves \cup {[op |-> "writes", id |-> g.step, task |-> t,
                             writes |-> [i \in {INTERRUPT} |-> g.shape[t]]]}
    /\ UNCHANGED <<ckpt, write_rows, stored, graph_runs, ended, unresumed>>

(* aput and aput_writes run to their end once the loop gets to them.         *)
Save(s) ==
    /\ s \in saves
    /\ saves' = saves \ {s}
    /\ IF s.op = "put" THEN put(s.id)
       ELSE put_writes(s.id, s.task, s.writes)
    /\ UNCHANGED <<stored, graph, graph_runs, ended, unresumed>>

(* All tasks of the superstep ended: the next one, whose checkpoint takes    *)
(* over, or the end of the graph.                                            *)
interrupted(g) == {t \in GraphTasks : [ckpt |-> g.step, task |-> t] \notin g.ended}

Advance(g) ==
    /\ g.todo = {} /\ interrupted(g) = {} /\ g.step < MaxSupersteps
    /\ \A s \in saves : s.op # "put"
    /\ \E shape \in [GraphTasks -> TaskShapes] :
         graph' = {[g EXCEPT !.step = @ + 1, !.todo = GraphTasks, !.shape = shape,
                             !.resume = FALSE]}
    /\ saves' = saves \cup {[op |-> "put", id |-> g.step + 1]}
    /\ UNCHANGED <<ckpt, write_rows, stored, graph_runs, ended, unresumed>>

(* The run returns once its saves are done, and the activation commits: with *)
(* a result, or suspended on what "__interrupt__" lists.                     *)
ReturnGraph(g) ==
    /\ g.todo = {} /\ saves = {}
    /\ stored' = [ckpt |-> ckpt, rows |-> write_rows, pending |->
                    UNION {staged_for(t, g.shape[t]) : t \in interrupted(g)}]
    /\ ended' = g.ended /\ graph' = {}
    /\ UNCHANGED <<ckpt, write_rows, saves, graph_runs, unresumed>>

GraphFails(g) == dropped /\ UNCHANGED unresumed

GraphNext ==
    \/ Invoke \/ ResumeGraph
    \/ \E s \in saves : Save(s)
    \/ \E g \in graph :
         \/ Advance(g) \/ ReturnGraph(g) \/ GraphFails(g)
         \/ \E t \in g.todo : TaskReturns(g, t) \/ NodeReenters(g, t) \/ TaskInterrupts(g, t)

-----------------------------------------------------------------------------
(* The committed checkpoint serves the writes of exactly the tasks of its    *)
(* superstep that ended, once each, and the interrupts of the others, in     *)
(* whatever order the background saves ran and attempts failed: a resume     *)
(* executes no ended task again and forgets no interrupted one.              *)
ServedWritesAreExact ==
    stored.ckpt # 0 =>
      LET served == _writes_for(stored.ckpt, stored.rows)
          Tasks(idx) == {r.task : r \in {w \in served : w.idx = idx}}
      IN /\ Tasks(0) = {e.task : e \in {x \in ended : x.ckpt = stored.ckpt}}
         /\ GraphTasks \ Tasks(0) = {p.task : p \in stored.pending}
         /\ GraphTasks \ Tasks(0) \subseteq Tasks(INTERRUPT)
         /\ \A r, s \in served : r.task = s.task /\ r.idx = s.idx => r = s

(* A node entered again finds the answer to each of its calls: the map the   *)
(* adapter builds from the intents' results covers every interrupt of the    *)
(* checkpoint, several calls of one and several interrupts included.         *)
NodesFindTheirAnswers == unresumed = {}
=============================================================================
