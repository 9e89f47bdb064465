-------------------------- MODULE ActivationProofs --------------------------
(***************************************************************************)
(* What an activation stages identifies it: proofs about Activation, for   *)
(* every program, provider, trigger and number of attempts.  The first     *)
(* half says where one attempt may come from its scope and entry step      *)
(* (Reached, Finished): each operation stages at most one intent or model  *)
(* call at the step it stands at and moves on.  The second half says what  *)
(* that makes of the key over its attempts (IdentityInv).                  *)
(***************************************************************************)
EXTENDS Replay, Foundations

-----------------------------------------------------------------------------
(* What an attempt stages.                                                   *)

Ids == Nat \X Nat
Labels == STRING \cup {"summary", "escalation"}
Types == {"ACTIVATION_START", "LLM_CALL", "TOOL_CALL", "INTENT_EMITTED", "SUSPENDED",
          "ACTIVATION_END", "ERROR"}
Kinds == {"start", "resume"}
Ends == {"completed", "suspended"}
Spans == Nat \X (Types \cup {"activation"}) \X Nat
Failures == [step : Nat, last : Types, staged : Nat, calls : Nat] \cup {<<>>}
Attributes ==
    [kind : Kinds, batch : Nat] \cup [tokens : Int, cache_hit : BOOLEAN, billed : BOOLEAN]
    \cup [tool : Labels] \cup [id : Ids, name : Labels, kind : {"TOOL", "APPROVAL"}, created : Nat]
    \cup [pending : SUBSET Ids] \cup [status : Ends, kind : Kinds]
    \cup [reason : {"activation_error", "activation_timeout"}, failure : Failures]
TraceEvents ==
    [type : Types, seq : Nat, step : Nat, now : Nat, span : Spans, parent : Spans \cup {<<>>},
     attributes : Attributes]
Intents == [id : Ids, name : Labels, kind : {"TOOL", "APPROVAL"}, created : Nat, args : Nat]
Responded == [seq : Nat, request : Labels, response : Int]
Contexts ==
    [seq : Nat, now : Nat, memory : Nat, cache : SUBSET Responded, entry : Nat, resume : BOOLEAN,
     step : Nat, tool : Nat, served : Int, calls : Nat, traces : Seq(TraceEvents),
     intents : Seq(Intents), asked : SUBSET Responded, summarized : BOOLEAN,
     status : Ends \cup {"running", "raised", "missed"}, cursor : Nat, pending : SUBSET Ids]

(* The scope of an attempt: what its identities derive from.                 *)
SameScope(d, c) == d.seq = c.seq /\ d.now = c.now /\ d.entry = c.entry /\ d.resume = c.resume

Counted(e) == e.type \in {"LLM_CALL", "INTENT_EMITTED"}

own_span(c) == <<c.seq, "activation", c.entry>>

(* The trace of an attempt that has come to step n.                          *)
TracesUpTo(s, c, n) ==
    /\ s \in Seq(TraceEvents) /\ Len(s) >= 1
    /\ s[1].type = "ACTIVATION_START" /\ s[1].span = own_span(c)
    /\ s[1].parent = IF c.resume THEN <<c.seq, "activation", 0>> ELSE <<>>
    /\ \A i \in 1..Len(s) : s[i].seq = c.seq
    /\ \A i \in 2..Len(s) :
          \/ /\ s[i].type \in {"LLM_CALL", "TOOL_CALL", "INTENT_EMITTED", "SUSPENDED"}
             /\ s[i].parent = own_span(c) /\ s[i].span[1] = c.seq /\ s[i].span[2] = s[i].type
             /\ Counted(s[i]) => c.entry <= s[i].span[3] /\ s[i].span[3] < n
          \/ s[i].type = "ACTIVATION_END" /\ s[i].span = s[1].span /\ s[i].parent = s[1].parent
    /\ \A i, j \in 2..Len(s) :
          Counted(s[i]) /\ Counted(s[j]) /\ i < j => s[i].span[3] < s[j].span[3]

(* Its intents.                                                              *)
IntentsUpTo(s, c, n) ==
    /\ s \in Seq(Intents)
    /\ \A i \in 1..Len(s) : s[i].id[1] = c.seq /\ c.entry <= s[i].id[2] /\ s[i].id[2] < n
    /\ \A i, j \in 1..Len(s) : i < j => s[i].id[2] < s[j].id[2]

(* Where an attempt that began with c may have come.                         *)
Reached(c) ==
    {d \in Contexts : /\ SameScope(d, c) /\ c.entry <= d.step /\ d.status \notin Ends
                      /\ TracesUpTo(d.traces, c, d.step) /\ IntentsUpTo(d.intents, c, d.step)}

Providers == [Requests -> Int]

(* The event of an attempt: its bracket, or a child of it.                   *)
IsEvent(e, c, type, step, index, a) ==
    /\ e \in TraceEvents /\ e.type = type /\ e.seq = c.seq /\ e.now = c.now /\ e.step = step
    /\ e.attributes = a
    /\ type \notin {"ACTIVATION_START", "ACTIVATION_END"} =>
          e.span = <<c.seq, type, index>> /\ e.parent = own_span(c)
    /\ type \in {"ACTIVATION_START", "ACTIVATION_END"} =>
          /\ e.span = own_span(c)
          /\ e.parent = IF c.resume THEN <<c.seq, "activation", 0>> ELSE <<>>

LEMMA EventOf ==
    ASSUME NEW c \in Contexts, NEW d, SameScope(d, c), NEW type \in Types, NEW step \in Nat,
           NEW index \in Nat, NEW a \in Attributes
    PROVE  IsEvent(trace_event(d, type, step, index, a), c, type, step, index, a)
<1>0. PICK e : e = trace_event(d, type, step, index, a)
  OBVIOUS
<1>1. c.seq \in Nat /\ c.now \in Nat /\ c.entry \in Nat /\ c.resume \in BOOLEAN
  BY DEF Contexts
<1>2. d.seq = c.seq /\ d.now = c.now /\ d.entry = c.entry /\ d.resume = c.resume
  BY DEF SameScope
<1>3. PICK own : own = own_span(c) /\ own \in Spans
  <2>1. own_span(c) \in Spans
    BY <1>1 DEF own_span, Spans, Types
  <2> QED BY <2>1
<1>4. <<c.seq, type, index>> \in Spans /\ <<c.seq, "activation", 0>> \in Spans
  BY <1>1 DEF Spans, Types
<1>5. own = span_id_for(c.seq, "activation", c.entry)
  BY <1>3 DEF own_span, span_id_for
<1>6. CASE type \in {"ACTIVATION_START", "ACTIVATION_END"}
  <2>1. e = [type |-> type, seq |-> c.seq, step |-> step, now |-> c.now, span |-> own,
             parent |-> IF c.resume THEN <<c.seq, "activation", 0>> ELSE <<>>, attributes |-> a]
    BY <1>0, <1>2, <1>5, <1>6 DEF trace_event, role_for_event_type, resume_parent, span_id_for
  <2>2. e \in TraceEvents
    BY <1>1, <1>3, <1>4, <2>1 DEF TraceEvents
  <2>3. IsEvent(e, c, type, step, index, a)
    BY <1>3, <1>6, <2>1, <2>2 DEF IsEvent
  <2> QED BY <1>0, <2>3
<1>7. CASE type \notin {"ACTIVATION_START", "ACTIVATION_END"}
  <2>1. e = [type |-> type, seq |-> c.seq, step |-> step, now |-> c.now,
             span |-> <<c.seq, type, index>>, parent |-> own, attributes |-> a]
    BY <1>0, <1>2, <1>5, <1>7 DEF trace_event, role_for_event_type, span_id_for, Types
  <2>2. e \in TraceEvents
    BY <1>1, <1>3, <1>4, <2>1 DEF TraceEvents
  <2>3. IsEvent(e, c, type, step, index, a)
    BY <1>3, <1>7, <2>1, <2>2 DEF IsEvent
  <2> QED BY <1>0, <2>3
<1> QED BY <1>6, <1>7

LEMMA Appended ==
    ASSUME NEW T, NEW s \in Seq(T), NEW e \in T
    PROVE  /\ Append(s, e) \in Seq(T) /\ Len(Append(s, e)) = Len(s) + 1
           /\ \A i \in 1..Len(s) : Append(s, e)[i] = s[i]
           /\ Append(s, e)[Len(s) + 1] = e
OBVIOUS

LEMMA SpanIndices ==
    ASSUME NEW s \in Seq(TraceEvents), NEW i \in 1..Len(s)
    PROVE  s[i] \in TraceEvents /\ s[i].span[1] \in Nat /\ s[i].span[3] \in Nat
<1>1. s[i] \in TraceEvents
  OBVIOUS
<1>2. s[i].span \in Spans
  BY <1>1 DEF TraceEvents
<1> QED BY <1>1, <1>2 DEF Spans

LEMMA IdIndices ==
    ASSUME NEW s \in Seq(Intents), NEW i \in 1..Len(s)
    PROVE  s[i].id \in Ids /\ s[i].id[1] \in Nat /\ s[i].id[2] \in Nat
<1>1. s[i] \in Intents
  OBVIOUS
<1>2. s[i].id \in Ids
  BY <1>1 DEF Intents
<1> QED BY <1>2 DEF Ids

(* An event that may follow at step n.                                       *)
Follows(e, c, n, m) ==
    /\ e \in TraceEvents /\ e.seq = c.seq
    /\ \/ /\ e.type \in {"LLM_CALL", "TOOL_CALL", "INTENT_EMITTED", "SUSPENDED"}
          /\ e.parent = own_span(c) /\ e.span[1] = c.seq /\ e.span[2] = e.type
          /\ Counted(e) => c.entry <= n /\ e.span[3] = n /\ n < m
       \/ /\ e.type = "ACTIVATION_END" /\ e.span = own_span(c)
          /\ e.parent = IF c.resume THEN <<c.seq, "activation", 0>> ELSE <<>>

LEMMA TraceGrows ==
    ASSUME NEW c \in Contexts, NEW s, NEW n \in Nat, NEW m \in Nat, TracesUpTo(s, c, n), n <= m,
           NEW e, Follows(e, c, n, m)
    PROVE  TracesUpTo(Append(s, e), c, m)
<1>0. /\ e \in TraceEvents /\ e.seq = c.seq
      /\ \/ /\ e.type \in {"LLM_CALL", "TOOL_CALL", "INTENT_EMITTED", "SUSPENDED"}
            /\ e.parent = own_span(c) /\ e.span[1] = c.seq /\ e.span[2] = e.type
            /\ Counted(e) => c.entry <= n /\ e.span[3] = n /\ n < m
         \/ /\ e.type = "ACTIVATION_END" /\ e.span = own_span(c)
            /\ e.parent = IF c.resume THEN <<c.seq, "activation", 0>> ELSE <<>>
  BY DEF Follows
<1>1. /\ s \in Seq(TraceEvents) /\ Len(s) \in Nat /\ Len(s) >= 1
      /\ s[1].type = "ACTIVATION_START" /\ s[1].span = own_span(c)
      /\ s[1].parent = IF c.resume THEN <<c.seq, "activation", 0>> ELSE <<>>
  BY DEF TracesUpTo
<1>. DEFINE t == Append(s, e)
<1>2. /\ t \in Seq(TraceEvents) /\ Len(t) = Len(s) + 1
      /\ \A i \in 1..Len(s) : t[i] = s[i]
      /\ t[Len(s) + 1] = e
  BY <1>0, <1>1, Appended
<1>. HIDE DEF t
<1>3. \A i \in 1..Len(s) : s[i].span[3] \in Nat
  BY <1>1, SpanIndices
<1>4. ASSUME NEW i \in 2..Len(t)
      PROVE  \/ /\ t[i].type \in {"LLM_CALL", "TOOL_CALL", "INTENT_EMITTED", "SUSPENDED"}
                /\ t[i].parent = own_span(c) /\ t[i].span[1] = c.seq /\ t[i].span[2] = t[i].type
                /\ Counted(t[i]) => c.entry <= t[i].span[3] /\ t[i].span[3] < m
             \/ t[i].type = "ACTIVATION_END" /\ t[i].span = t[1].span /\ t[i].parent = t[1].parent
  <2>1. CASE i \in 2..Len(s)
    <3>1. t[i] = s[i] /\ t[1] = s[1] /\ i \in 1..Len(s) /\ s[i].span[3] \in Nat
      BY <1>1, <1>2, <1>3, <2>1
    <3>2. \/ /\ s[i].type \in {"LLM_CALL", "TOOL_CALL", "INTENT_EMITTED", "SUSPENDED"}
             /\ s[i].parent = own_span(c) /\ s[i].span[1] = c.seq /\ s[i].span[2] = s[i].type
             /\ Counted(s[i]) => c.entry <= s[i].span[3] /\ s[i].span[3] < n
          \/ s[i].type = "ACTIVATION_END" /\ s[i].span = s[1].span /\ s[i].parent = s[1].parent
      BY <2>1, Zenon DEF TracesUpTo
    <3>3. Counted(s[i]) /\ s[i].span[3] < n => s[i].span[3] < m
      BY <3>1
    <3> QED BY <3>1, <3>2, <3>3
  <2>2. CASE i = Len(s) + 1
    BY <1>0, <1>1, <1>2, <2>2
  <2> QED BY <1>1, <1>2, <2>1, <2>2
<1>5. ASSUME NEW i \in 2..Len(t), NEW j \in 2..Len(t), Counted(t[i]), Counted(t[j]), i < j
      PROVE  t[i].span[3] < t[j].span[3]
  <2>1. i \in 2..Len(s) /\ t[i] = s[i]
    BY <1>1, <1>2, <1>5
  <2>2. CASE j \in 2..Len(s)
    <3>1. t[j] = s[j]
      BY <1>2, <2>2
    <3> QED BY <1>5, <2>1, <2>2, <3>1 DEF TracesUpTo
  <2>3. CASE j = Len(s) + 1
    <3>1. t[j] = e
      BY <1>2, <2>3
    <3>2. e.span[3] = n
      BY <1>0, <1>5, <3>1 DEF Counted
    <3>3. s[i].span[3] < n
      BY <1>5, <2>1 DEF TracesUpTo, Counted
    <3> QED BY <2>1, <3>1, <3>2, <3>3
  <2> QED BY <1>1, <1>2, <2>2, <2>3
<1>6. \A i \in 1..Len(t) : t[i].seq = c.seq
  <2>1. \A i \in 1..Len(s) : s[i].seq = c.seq
    BY DEF TracesUpTo
  <2> QED BY <1>0, <1>1, <1>2, <2>1
<1>7. t[1] = s[1] /\ Len(t) >= 1
  BY <1>1, <1>2
<1>8. TracesUpTo(t, c, m)
  BY <1>1, <1>2, <1>4, <1>5, <1>6, <1>7 DEF TracesUpTo
<1> QED BY <1>8 DEF t

LEMMA IntentsGrow ==
    ASSUME NEW c \in Contexts, NEW s, NEW n \in Nat, NEW m \in Nat, IntentsUpTo(s, c, n), n <= m,
           NEW e \in Intents, e.id = <<c.seq, n>>, c.entry <= n, n < m
    PROVE  IntentsUpTo(Append(s, e), c, m)
<1>1. /\ s \in Seq(Intents) /\ Len(s) \in Nat
      /\ \A i \in 1..Len(s) : s[i].id[1] = c.seq /\ c.entry <= s[i].id[2] /\ s[i].id[2] < n
      /\ \A i, j \in 1..Len(s) : i < j => s[i].id[2] < s[j].id[2]
  BY DEF IntentsUpTo
<1>. DEFINE t == Append(s, e)
<1>2. /\ t \in Seq(Intents) /\ Len(t) = Len(s) + 1
      /\ \A i \in 1..Len(s) : t[i] = s[i]
      /\ t[Len(s) + 1] = e
  BY <1>1, Appended
<1>. HIDE DEF t
<1>3. \A i \in 1..Len(s) : s[i].id[2] \in Nat
  BY <1>1, IdIndices
<1>4. c.entry \in Nat
  BY DEF Contexts
<1>5. \A i \in 1..Len(t) : t[i].id[1] = c.seq /\ c.entry <= t[i].id[2] /\ t[i].id[2] < m
  BY <1>1, <1>2, <1>3, <1>4
<1>6. \A i, j \in 1..Len(t) : i < j => t[i].id[2] < t[j].id[2]
  BY <1>1, <1>2, <1>3
<1>7. IntentsUpTo(t, c, m)
  BY <1>2, <1>5, <1>6 DEF IntentsUpTo
<1> QED BY <1>7 DEF t

LEMMA ReachedAt ==
    ASSUME NEW c \in Contexts, NEW d \in Reached(c)
    PROVE  /\ d \in Contexts /\ SameScope(d, c) /\ c.entry <= d.step /\ d.step \in Nat
           /\ TracesUpTo(d.traces, c, d.step) /\ IntentsUpTo(d.intents, c, d.step)
           /\ c.entry \in Nat /\ c.seq \in Nat /\ c.now \in Nat /\ d.status \notin Ends
BY DEF Reached, Contexts

(* The events an operation stages.                                           *)
LEMMA CountedEvent ==
    ASSUME NEW c \in Contexts, NEW d \in Reached(c), NEW type \in {"LLM_CALL", "INTENT_EMITTED"},
           NEW a \in Attributes
    PROVE  TracesUpTo(staged_trace(d, type, a), c, d.step + 1)
<1>1. /\ SameScope(d, c) /\ c.entry <= d.step /\ d.step \in Nat /\ d.step + 1 \in Nat
      /\ TracesUpTo(d.traces, c, d.step)
  BY ReachedAt
<1>2. PICK e : e = trace_event(d, type, d.step, d.step, a)
  OBVIOUS
<1>3. type \in Types /\ type \notin {"ACTIVATION_START", "ACTIVATION_END"}
  BY DEF Types
<1>4. IsEvent(e, c, type, d.step, d.step, a)
  BY <1>1, <1>2, <1>3, EventOf
<1>5. Follows(e, c, d.step, d.step + 1)
  BY <1>1, <1>3, <1>4 DEF IsEvent, Follows
<1>6. TracesUpTo(Append(d.traces, e), c, d.step + 1)
  BY <1>1, <1>5, TraceGrows
<1> QED BY <1>2, <1>6 DEF staged_trace

(* More room leaves what there is as it is.                                  *)
LEMMA StepRises ==
    ASSUME NEW c \in Contexts, NEW d \in Reached(c)
    PROVE  TracesUpTo(d.traces, c, d.step + 1) /\ IntentsUpTo(d.intents, c, d.step + 1)
<1>1. /\ d.step \in Nat /\ TracesUpTo(d.traces, c, d.step) /\ IntentsUpTo(d.intents, c, d.step)
  BY ReachedAt
<1>2. PICK s, n : s = d.traces /\ n = d.step
  OBVIOUS
<1>3. s \in Seq(TraceEvents) /\ n \in Nat /\ TracesUpTo(s, c, n)
  BY <1>1, <1>2 DEF TracesUpTo
<1>4. \A i \in 1..Len(s) : s[i].span[3] \in Nat
  BY <1>3, SpanIndices
<1>5. TracesUpTo(s, c, n + 1)
  BY <1>3, <1>4 DEF TracesUpTo
<1>6. IntentsUpTo(d.intents, c, n + 1)
  <2>1. PICK t : t = d.intents /\ IntentsUpTo(t, c, n)
    BY <1>1, <1>2
  <2>2. \A i \in 1..Len(t) : t[i].id[2] \in Nat
    BY <2>1, IdIndices DEF IntentsUpTo
  <2>3. ASSUME NEW i \in 1..Len(t)
        PROVE  t[i].id[1] = c.seq /\ c.entry <= t[i].id[2] /\ t[i].id[2] < n + 1
    <3>1. t[i].id[1] = c.seq /\ c.entry <= t[i].id[2] /\ t[i].id[2] < n
      BY <2>1 DEF IntentsUpTo
    <3> QED BY <1>3, <2>2, <3>1
  <2>4. IntentsUpTo(t, c, n + 1)
    BY <2>1, <2>3 DEF IntentsUpTo
  <2> QED BY <2>1, <2>4
<1> QED BY <1>2, <1>5, <1>6

LEMMA Keys ==
    ASSUME NEW c \in Contexts, NEW d \in Reached(c), NEW request \in Labels, NEW answer \in Int
    PROVE  [seq |-> d.seq, request |-> request, response |-> answer] \in Responded
BY ReachedAt DEF Responded, Contexts

LEMMA CallStays ==
    ASSUME NEW c \in Contexts, NEW d \in Reached(c), NEW request \in Requests, request \in Labels,
           NEW p \in Providers
    PROVE  call_model(d, request, p) \in Reached(c)
<1>1. /\ d \in Contexts /\ SameScope(d, c) /\ c.entry <= d.step /\ d.step \in Nat
      /\ TracesUpTo(d.traces, c, d.step) /\ IntentsUpTo(d.intents, c, d.step) /\ c.entry \in Nat
      /\ d.status \notin Ends
  BY ReachedAt
<1>2. d.cache \in SUBSET Responded /\ d.asked \in SUBSET Responded /\ d.calls \in Nat
  BY <1>1 DEF Contexts
<1>3. PICK hit \in BOOLEAN : hit = (cached(d, request) # {})
  OBVIOUS
<1>4. PICK answer \in Int :
         answer = IF hit THEN (CHOOSE e \in cached(d, request) : TRUE).response ELSE p[request]
  <2>1. CASE hit
    <3>1. PICK e \in cached(d, request) : e = CHOOSE x \in cached(d, request) : TRUE
      BY <1>3, <2>1
    <3>2. e \in Responded
      BY <1>2, <3>1 DEF cached
    <3>3. e.response \in Int
      BY <3>2 DEF Responded
    <3> QED BY <2>1, <3>1, <3>3
  <2>2. CASE ~hit
    BY <2>2 DEF Providers
  <2> QED BY <2>1, <2>2
<1>5. PICK entry \in Responded : entry = [seq |-> d.seq, request |-> request, response |-> answer]
  BY Keys
<1>6. PICK a : a = [tokens |-> answer, cache_hit |-> hit, billed |-> ~hit] /\ a \in Attributes
  <2>1. [tokens |-> answer, cache_hit |-> hit, billed |-> ~hit]
           \in [tokens : Int, cache_hit : BOOLEAN, billed : BOOLEAN]
    OBVIOUS
  <2> QED BY <2>1 DEF Attributes
<1>7. PICK s : s = staged_trace(d, "LLM_CALL", a) /\ TracesUpTo(s, c, d.step + 1)
  BY <1>6, CountedEvent
<1>8. TracesUpTo(d.traces, c, d.step + 1) /\ IntentsUpTo(d.intents, c, d.step + 1)
  BY StepRises
<1>9. PICK stepped \in Contexts :
         /\ stepped = [d EXCEPT !.step = @ + 1, !.asked = @ \cup {entry}]
         /\ SameScope(stepped, c) /\ stepped.step = d.step + 1
         /\ stepped.traces = d.traces /\ stepped.intents = d.intents
         /\ stepped.cache = d.cache /\ stepped.calls = d.calls /\ stepped.status = d.status
  <2>1. d.step + 1 \in Nat /\ d.asked \cup {entry} \in SUBSET Responded
    BY <1>1, <1>2, <1>5
  <2>2. PICK n \in Nat, A \in SUBSET Responded : n = d.step + 1 /\ A = d.asked \cup {entry}
    BY <2>1
  <2>3. [d EXCEPT !.step = n, !.asked = A] \in Contexts
    BY <1>1 DEF Contexts
  <2> QED BY <1>1, <2>2, <2>3 DEF Contexts, SameScope
<1>10. CASE answer \in {Raises, Misses}
  <2>1. PICK e : e = [stepped EXCEPT !.status = IF answer = Misses THEN "missed" ELSE "raised"]
    OBVIOUS
  <2>2. e = call_model(d, request, p)
    BY <1>3, <1>4, <1>5, <1>9, <1>10, <2>1 DEF call_model
  <2>3. PICK status \in {"missed", "raised"} : e = [stepped EXCEPT !.status = status]
    BY <2>1
  <2>4. e \in Contexts
    BY <1>9, <2>3 DEF Contexts
  <2>5. /\ SameScope(e, c) /\ e.step = d.step + 1 /\ e.traces = d.traces
        /\ e.intents = d.intents /\ e.status \notin Ends
    BY <1>9, <2>3 DEF Ends, Contexts, SameScope
  <2> QED BY <1>1, <1>8, <2>2, <2>4, <2>5 DEF Reached
<1>11. CASE answer \notin {Raises, Misses}
  <2>1. PICK e : e = [stepped EXCEPT
               !.served = answer,
               !.calls = IF hit THEN @ ELSE @ + 1,
               !.cache = @ \cup {entry},
               !.traces = s]
    OBVIOUS
  <2>2. e = call_model(d, request, p)
    BY <1>3, <1>4, <1>5, <1>6, <1>7, <1>9, <1>11, <2>1, ZenonT(60) DEF call_model
  <2>3. s \in Seq(TraceEvents)
    BY <1>7 DEF TracesUpTo
  <2>6. PICK n \in Nat, C \in SUBSET Responded :
           e = [stepped EXCEPT !.served = answer, !.calls = n, !.cache = C, !.traces = s]
    <3>1. (IF hit THEN d.calls ELSE d.calls + 1) \in Nat /\ d.cache \cup {entry} \in SUBSET Responded
      BY <1>2, <1>5
    <3> QED BY <1>9, <2>1, <3>1
  <2>8. PICK x : x = [stepped EXCEPT !.served = answer, !.calls = n]
    OBVIOUS
  <2>11. PICK y \in Contexts : y = [stepped EXCEPT !.served = answer]
    <3>1. [stepped EXCEPT !.served = answer] \in Contexts
      BY <1>9 DEF Contexts
    <3> QED BY <3>1
  <2>12. x = [y EXCEPT !.calls = n]
    BY <1>9, <2>8, <2>11 DEF Contexts
  <2>9. x \in Contexts
    BY <2>11, <2>12 DEF Contexts
  <2>10. e = [x EXCEPT !.cache = C, !.traces = s]
    BY <1>9, <2>6, <2>8 DEF Contexts
  <2>4. e \in Contexts
    BY <2>3, <2>9, <2>10 DEF Contexts
  <2>5. /\ e.seq = stepped.seq /\ e.now = stepped.now /\ e.entry = stepped.entry
        /\ e.resume = stepped.resume /\ e.step = stepped.step /\ e.traces = s
        /\ e.intents = stepped.intents /\ e.status = stepped.status
    BY <2>6 DEF Contexts
  <2>7. /\ SameScope(e, c) /\ e.step = d.step + 1 /\ e.traces = s /\ e.intents = d.intents
        /\ e.status = d.status
    BY <1>9, <2>5 DEF SameScope
  <2> QED BY <1>1, <1>7, <1>8, <2>2, <2>4, <2>7 DEF Reached
<1> QED BY <1>10, <1>11

LEMMA ToolStays ==
    ASSUME NEW c \in Contexts, NEW d \in Reached(c), NEW name \in Labels
    PROVE  run_tool(d, name) \in Reached(c)
<1>1. /\ d \in Contexts /\ SameScope(d, c) /\ c.entry <= d.step /\ d.step \in Nat
      /\ TracesUpTo(d.traces, c, d.step) /\ IntentsUpTo(d.intents, c, d.step) /\ c.entry \in Nat
      /\ d.status \notin Ends
  BY ReachedAt
<1>2. d.tool \in Nat
  BY <1>1 DEF Contexts
<1>3. PICK a \in Attributes : a = [tool |-> name]
  BY DEF Attributes
<1>4. PICK e : e = trace_event(d, "TOOL_CALL", d.step, d.tool, a)
  OBVIOUS
<1>5. "TOOL_CALL" \in Types /\ "TOOL_CALL" \notin {"ACTIVATION_START", "ACTIVATION_END"}
  BY DEF Types
<1>6. IsEvent(e, c, "TOOL_CALL", d.step, d.tool, a)
  BY <1>1, <1>2, <1>4, <1>5, EventOf
<1>7. Follows(e, c, d.step, d.step)
  BY <1>5, <1>6 DEF IsEvent, Follows, Counted
<1>8. PICK s : s = Append(d.traces, e) /\ TracesUpTo(s, c, d.step)
  <2>1. d.step <= d.step
    BY <1>1
  <2> QED BY <1>1, <1>7, <2>1, TraceGrows
<1>9. s \in Seq(TraceEvents)
  BY <1>8 DEF TracesUpTo
<1>10. PICK n \in Nat : n = d.tool + 1
  BY <1>2
<1>11. PICK r : r = [d EXCEPT !.tool = n, !.traces = s]
  OBVIOUS
<1>12. r = run_tool(d, name)
  BY <1>3, <1>4, <1>8, <1>10, <1>11 DEF run_tool
<1>13. r \in Contexts
  BY <1>1, <1>9, <1>11 DEF Contexts
<1>14. SameScope(r, c) /\ r.step = d.step /\ r.traces = s /\ r.intents = d.intents /\ r.status = d.status
  BY <1>1, <1>11 DEF Contexts, SameScope
<1> QED BY <1>1, <1>8, <1>12, <1>13, <1>14 DEF Reached

LEMMA IntentStays ==
    ASSUME NEW c \in Contexts, NEW d \in Reached(c), NEW name \in Labels, NEW kind \in {"TOOL", "APPROVAL"}
    PROVE  _stage_intent(d, name, kind) \in Reached(c)
<1>1. /\ d \in Contexts /\ SameScope(d, c) /\ c.entry <= d.step /\ d.step \in Nat
      /\ TracesUpTo(d.traces, c, d.step) /\ IntentsUpTo(d.intents, c, d.step) /\ c.entry \in Nat
      /\ c.seq \in Nat /\ d.seq = c.seq /\ d.status \notin Ends
  BY ReachedAt DEF SameScope
<1>2. d.memory \in Nat /\ d.now \in Nat
  BY <1>1 DEF Contexts
<1>3. PICK id \in Ids : id = intent_id_for(d.seq, d.step) /\ id = <<c.seq, d.step>>
  BY <1>1 DEF Ids, intent_id_for
<1>4. PICK intent \in Intents : intent = [id |-> id, name |-> name, kind |-> kind,
                                          created |-> d.now, args |-> d.memory]
  BY <1>2 DEF Intents
<1>5. PICK a \in Attributes : a = [id |-> id, name |-> name, kind |-> kind, created |-> d.now]
  <2>1. [id |-> id, name |-> name, kind |-> kind, created |-> d.now]
           \in [id : Ids, name : Labels, kind : {"TOOL", "APPROVAL"}, created : Nat]
    BY <1>2
  <2> QED BY <2>1 DEF Attributes
<1>6. PICK s : s = staged_trace(d, "INTENT_EMITTED", a) /\ TracesUpTo(s, c, d.step + 1)
  BY CountedEvent
<1>7. s \in Seq(TraceEvents)
  BY <1>6 DEF TracesUpTo
<1>8. PICK t : t = Append(d.intents, intent) /\ IntentsUpTo(t, c, d.step + 1)
  <2>1. intent.id = <<c.seq, d.step>> /\ d.step + 1 \in Nat /\ d.step < d.step + 1
    BY <1>1, <1>3, <1>4
  <2>2. d.step <= d.step + 1
    BY <1>1
  <2> QED BY <1>1, <2>1, <2>2, IntentsGrow
<1>9. t \in Seq(Intents)
  BY <1>8 DEF IntentsUpTo
<1>10. PICK n \in Nat : n = d.step + 1
  BY <1>1
<1>11. PICK r : r = [d EXCEPT !.step = n, !.intents = t, !.traces = s]
  OBVIOUS
<1>12. r = _stage_intent(d, name, kind)
  <2>1. intent.id = id
    BY <1>4
  <2> QED BY <1>3, <1>4, <1>5, <1>6, <1>8, <1>10, <1>11, <2>1 DEF _stage_intent
<1>13. r \in Contexts
  BY <1>1, <1>7, <1>9, <1>11 DEF Contexts
<1>14. SameScope(r, c) /\ r.step = n /\ r.traces = s /\ r.intents = t /\ r.status = d.status
  BY <1>1, <1>11 DEF Contexts, SameScope
<1>15. c.entry <= n
  BY <1>1, <1>10
<1> QED BY <1>6, <1>8, <1>10, <1>12, <1>13, <1>14, <1>15 DEF Reached

LEMMA OperationStays ==
    ASSUME NEW c \in Contexts, NEW d \in Reached(c), NEW op \in Operations,
           op.do = "llm" => op.name \in Requests, NEW p \in Providers
    PROVE  Operation(d, op, p) \in Reached(c)
<1>1. op.name \in Labels /\ op.do \in {"llm", "tool", "act", "approve", "note", "raise"}
  BY DEF Operations, Labels
<1>2. /\ d \in Contexts /\ SameScope(d, c) /\ c.entry <= d.step
      /\ TracesUpTo(d.traces, c, d.step) /\ IntentsUpTo(d.intents, c, d.step) /\ d.status \notin Ends
  BY ReachedAt
<1>3. CASE d.status # "running" \/ ~Applies(d, op)
  BY <1>3 DEF Operation
<1>4. CASE d.status = "running" /\ Applies(d, op)
  <2>1. CASE op.do = "llm"
    BY <1>1, <1>4, <2>1, CallStays DEF Operation
  <2>2. CASE op.do = "tool"
    BY <1>1, <1>4, <2>2, ToolStays DEF Operation
  <2>3. CASE op.do = "act"
    BY <1>1, <1>4, <2>3, IntentStays DEF Operation
  <2>6. CASE op.do = "approve"
    BY <1>1, <1>4, <2>6, IntentStays DEF Operation
  <2>4. CASE op.do = "note"
    <3>1. PICK n \in Nat : n = d.memory + 1
      <4>1. d.memory \in Nat
        BY <1>2 DEF Contexts
      <4> QED BY <4>1
    <3>2. PICK r : r = [d EXCEPT !.memory = n]
      OBVIOUS
    <3>3. r = Operation(d, op, p)
      BY <1>4, <2>4, <3>1, <3>2 DEF Operation
    <3>4. r \in Contexts
      BY <1>2, <3>2 DEF Contexts
    <3>5. SameScope(r, c) /\ r.step = d.step /\ r.traces = d.traces /\ r.intents = d.intents /\ r.status = d.status
      BY <1>2, <3>2 DEF Contexts, SameScope
    <3> QED BY <1>2, <3>3, <3>4, <3>5 DEF Reached
  <2>5. CASE op.do = "raise"
    <3>2. PICK r : r = [d EXCEPT !.status = "raised"]
      OBVIOUS
    <3>3. r = Operation(d, op, p)
      BY <1>4, <2>5, <3>2 DEF Operation
    <3>4. r \in Contexts
      BY <1>2, <3>2 DEF Contexts
    <3>5. SameScope(r, c) /\ r.step = d.step /\ r.traces = d.traces /\ r.intents = d.intents /\ r.status \notin Ends
      BY <1>2, <3>2 DEF Ends, Contexts, SameScope
    <3> QED BY <1>2, <3>3, <3>4, <3>5 DEF Reached
  <2> QED BY <1>1, <2>1, <2>2, <2>3, <2>4, <2>5, <2>6
<1> QED BY <1>3, <1>4

(* The agent's turn, operation by operation.                                 *)
Ran(b, ops, p) == FoldLeft(LAMBDA d, op : Operation(d, op, p), b, ops)
Turned(f, b, ops, p) ==
    f = [T \in SUBSET (DOMAIN ops) |->
            IF T = {} THEN b ELSE Operation(f[T \ {Max(T)}], ops[Max(T)], p)]
IsRun(h, b, ops, p) ==
    /\ h[0] = b /\ \A i \in 1..Len(ops) : h[i] = Operation(h[i - 1], ops[i], p)
    /\ Ran(b, ops, p) = h[Len(ops)]
Known(ops) == \A i \in 1..Len(ops) : ops[i].do = "llm" => ops[i].name \in Requests

LEMMA RunExists ==
    ASSUME NEW c \in Contexts, NEW b \in Reached(c), NEW ops \in Seq(Operations), Known(ops),
           NEW p \in Providers
    PROVE  \E h \in [0..Len(ops) -> Reached(c)] : IsRun(h, b, ops, p)
<1>1. PICK n \in Nat : n = Len(ops)
  OBVIOUS
<1>2. PICK S : S = 1..n /\ S = DOMAIN ops /\ IsFiniteSet(S)
  BY <1>1, Interval
<1>3. \A T \in SUBSET S : T # {} => Max(T) \in T /\ \A k \in T : k <= Max(T)
  BY <1>2, MaxIsGreatest
<1>4. PICK G : G = [i \in S |-> [d \in Reached(c) |-> Operation(d, ops[i], p)]]
  OBVIOUS
<1>5. G \in [S -> [Reached(c) -> Reached(c)]]
  <2>1. ASSUME NEW i \in S, NEW d \in Reached(c) PROVE Operation(d, ops[i], p) \in Reached(c)
    <3>1. ops[i] \in Operations /\ (ops[i].do = "llm" => ops[i].name \in Requests)
      BY <1>1, <1>2 DEF Known
    <3> QED BY <3>1, OperationStays
  <2> QED BY <1>4, <2>1
<1>6. PICK ch : ch = [T \in SUBSET S |-> Max(T)]
  OBVIOUS
<1>7. Chooses(ch, S)
  BY <1>3, <1>6 DEF Chooses
<1>8. PICK f \in [SUBSET S -> Reached(c)] : IsFold(f, S, b, G, ch)
  BY <1>2, <1>5, <1>7, FoldExists
<1>9. /\ f[{}] = b
      /\ \A T \in SUBSET S : T # {} => f[T] = Operation(f[T \ {Max(T)}], ops[Max(T)], p)
  <2>1. f[{}] = b
    BY <1>8 DEF IsFold
  <2>2. ASSUME NEW T \in SUBSET S, T # {} PROVE f[T] = Operation(f[T \ {Max(T)}], ops[Max(T)], p)
    <3>1. f[T] = G[ch[T]][f[T \ {ch[T]}]] /\ ch[T] = Max(T)
      BY <1>6, <1>8, <2>2 DEF IsFold
    <3>2. Max(T) \in S /\ T \ {Max(T)} \in SUBSET S
      BY <1>3, <2>2
    <3>3. f[T \ {Max(T)}] \in Reached(c)
      BY <1>8, <3>2
    <3> QED BY <1>4, <3>1, <3>2, <3>3
  <2> QED BY <2>1, <2>2
<1>10. Turned(f, b, ops, p)
  <2>1. \A T \in SUBSET S : f[T] = IF T = {} THEN b ELSE Operation(f[T \ {Max(T)}], ops[Max(T)], p)
    BY <1>9
  <2> QED BY <1>2, <1>8, <2>1 DEF Turned
<1>11. PICK g : g = (CHOOSE x : Turned(x, b, ops, p)) /\ Turned(g, b, ops, p)
  BY <1>10
<1>12. Ran(b, ops, p) = g[DOMAIN ops]
  BY <1>11 DEF Ran, FoldLeft, MapThenFoldSet, Turned
<1>13. f[S] = g[S]
  <2>1. Follow(f, g, ch, S)
    <3>1. ASSUME NEW T \in SUBSET S, T # {} => f[T \ {ch[T]}] = g[T \ {ch[T]}]
          PROVE  f[T] = g[T]
      <4>1. g[T] = IF T = {} THEN b ELSE Operation(g[T \ {Max(T)}], ops[Max(T)], p)
        BY <1>2, <1>11, Zenon DEF Turned
      <4> QED BY <1>6, <1>9, <3>1, <4>1
    <3> QED BY <3>1 DEF Follow
  <2> QED BY <1>2, <1>7, <2>1, FoldsAgree
<1>14. PICK h \in [0..n -> Reached(c)] : h = [i \in 0..n |-> f[1..i]]
  <2>1. \A i \in 0..n : 1..i \in SUBSET S
    BY <1>1, <1>2
  <2> QED BY <1>8, <2>1
<1>15. h[0] = b
  <2>1. 1..0 = {} /\ 0 \in 0..n
    BY <1>1
  <2> QED BY <1>9, <1>14, <2>1
<1>16. ASSUME NEW i \in 1..n PROVE h[i] = Operation(h[i - 1], ops[i], p)
  <2>1. 1..i \in SUBSET S /\ 1..i # {} /\ i \in 1..i /\ i - 1 \in 0..n /\ i \in 0..n
    BY <1>1, <1>2
  <2>2. Max(1..i) = i
    <3>1. Max(1..i) \in 1..i /\ i <= Max(1..i)
      BY <1>3, <2>1
    <3> QED BY <3>1
  <2>3. (1..i) \ {i} = 1..(i - 1)
    OBVIOUS
  <2>4. f[1..i] = Operation(f[1..(i - 1)], ops[i], p)
    BY <1>9, <2>1, <2>2, <2>3
  <2> QED BY <1>14, <2>1, <2>4
<1>17. Ran(b, ops, p) = h[n]
  BY <1>1, <1>2, <1>12, <1>13, <1>14
<1> QED BY <1>1, <1>14, <1>15, <1>16, <1>17 DEF IsRun
-----------------------------------------------------------------------------
(* A whole attempt.                                                          *)

Scripts == [ops : Seq(Operations), ends : Ends]

(* A context an attempt begins with.                                         *)
IsNew(c) ==
    /\ c \in Contexts /\ c.step = c.entry /\ c.tool = 0 /\ c.served = 0 /\ c.calls = 0
    /\ c.traces = <<>> /\ c.intents = <<>> /\ c.asked = {} /\ ~c.summarized
    /\ c.status = "running"

opened(c, size) ==
    [c EXCEPT !.traces = <<trace_event(c, "ACTIVATION_START", 0, 0,
                               [kind |-> IF c.resume THEN "resume" ELSE "start", batch |-> size])>>]

LEMMA OpeningReaches ==
    ASSUME NEW c, IsNew(c), NEW size \in Nat
    PROVE  opened(c, size) \in Reached(c)
<1>1. c \in Contexts /\ c.step = c.entry /\ c.entry \in Nat /\ c.intents = <<>> /\ c.status = "running"
  BY DEF IsNew, Contexts
<1>2. PICK a \in Attributes : a = [kind |-> IF c.resume THEN "resume" ELSE "start", batch |-> size]
  <2>1. [kind |-> IF c.resume THEN "resume" ELSE "start", batch |-> size] \in [kind : Kinds, batch : Nat]
    BY DEF Kinds
  <2> QED BY <2>1 DEF Attributes
<1>3. SameScope(c, c) /\ "ACTIVATION_START" \in Types
  BY DEF SameScope, Types
<1>4. PICK e : e = trace_event(c, "ACTIVATION_START", 0, 0, a)
  OBVIOUS
<1>5. IsEvent(e, c, "ACTIVATION_START", 0, 0, a)
  BY <1>1, <1>3, <1>4, EventOf
<1>6. /\ e \in TraceEvents /\ e.type = "ACTIVATION_START" /\ e.seq = c.seq /\ e.span = own_span(c)
      /\ e.parent = IF c.resume THEN <<c.seq, "activation", 0>> ELSE <<>>
  BY <1>5 DEF IsEvent
<1>7. PICK s \in Seq(TraceEvents) : s = <<e>> /\ Len(s) = 1 /\ s[1] = e
  <2>1. <<e>> \in Seq(TraceEvents) /\ Len(<<e>>) = 1 /\ <<e>>[1] = e
    BY <1>6
  <2> QED BY <2>1
<1>8. TracesUpTo(s, c, c.step)
  <2>1. 1..Len(s) = {1} /\ 2..Len(s) = {}
    BY <1>7
  <2> QED BY <1>6, <1>7, <2>1 DEF TracesUpTo
<1>9. IntentsUpTo(<<>>, c, c.step)
  BY DEF IntentsUpTo
<1>10. PICK d : d = [c EXCEPT !.traces = s]
  OBVIOUS
<1>11. d = opened(c, size)
  BY <1>2, <1>4, <1>7, <1>10 DEF opened
<1>12. d \in Contexts
  BY <1>1, <1>10 DEF Contexts
<1>13. SameScope(d, c) /\ d.step = c.step /\ d.traces = s /\ d.intents = <<>> /\ d.status \notin Ends
  BY <1>1, <1>10 DEF Contexts, SameScope, Ends
<1> QED BY <1>1, <1>8, <1>9, <1>11, <1>12, <1>13 DEF Reached

LEMMA AgentReaches ==
    ASSUME NEW c, IsNew(c), NEW size \in Nat, NEW script \in Scripts, Known(script.ops),
           NEW p \in Providers
    PROVE  Agent(c, size, script, p) \in Reached(c)
<1>1. c \in Contexts /\ opened(c, size) \in Reached(c)
  BY OpeningReaches DEF IsNew
<1>2. PICK ops \in Seq(Operations) : ops = script.ops
  BY DEF Scripts
<1>3. PICK h \in [0..Len(ops) -> Reached(c)] : IsRun(h, opened(c, size), ops, p)
  BY <1>1, <1>2, RunExists
<1>4. Len(ops) \in 0..Len(ops)
  BY <1>2
<1>5. Ran(opened(c, size), ops, p) \in Reached(c)
  BY <1>3, <1>4 DEF IsRun
<1> QED BY <1>2, <1>5 DEF Agent, Ran, opened

LEMMA SummaryReaches ==
    ASSUME NEW c \in Contexts, NEW d \in Reached(c), NEW p \in Providers, NEW enabled \in BOOLEAN
    PROVE  Summarized(d, enabled, p) \in Reached(c)
<1>1. CASE enabled /\ d.status = "running" /\ d.memory >= SummaryTrigger
  <2>1. PICK m \in Reached(c) : m = call_model(d, "summary", p)
    <3>1. "summary" \in Requests
      <4>1. \A X : "summary" \in X \cup {"summary"}
        OBVIOUS
      <4> QED BY <4>1 DEF Requests
    <3>2. "summary" \in Labels
      BY DEF Labels
    <3> QED BY <3>1, <3>2, CallStays
  <2>2. CASE m.status # "running"
    BY <1>1, <2>1, <2>2 DEF Summarized
  <2>3. CASE m.status = "running"
    <3>1. PICK r : r = [m EXCEPT !.memory = 1, !.summarized = TRUE]
      OBVIOUS
    <3>2. r = Summarized(d, enabled, p)
      BY <1>1, <2>1, <2>3, <3>1 DEF Summarized
    <3>3. /\ m \in Contexts /\ SameScope(m, c) /\ c.entry <= m.step /\ m.status \notin Ends
          /\ TracesUpTo(m.traces, c, m.step) /\ IntentsUpTo(m.intents, c, m.step)
      BY ReachedAt
    <3>4. r \in Contexts
      BY <3>1, <3>3 DEF Contexts
    <3>5. /\ SameScope(r, c) /\ r.step = m.step /\ r.traces = m.traces /\ r.intents = m.intents
          /\ r.status = m.status
      BY <3>1, <3>3 DEF Contexts, SameScope
    <3> QED BY <3>2, <3>3, <3>4, <3>5 DEF Reached
  <2> QED BY <2>2, <2>3
<1>2. CASE ~ (enabled /\ d.status = "running" /\ d.memory >= SummaryTrigger)
  BY <1>2 DEF Summarized
<1> QED BY <1>1, <1>2

(* What a committed attempt leaves, with its cursor.                         *)
Finished(d, c) ==
    /\ d \in Contexts /\ d.seq = c.seq /\ d.resume = c.resume /\ c.entry <= d.cursor
    /\ TracesUpTo(d.traces, c, d.cursor) /\ IntentsUpTo(d.intents, c, d.cursor)
    /\ d.pending = {d.intents[i].id : i \in DOMAIN d.intents}

pending_of(d) == {d.intents[i].id : i \in DOMAIN d.intents}
closing_of(c, ends) == [status |-> ends, kind |-> IF c.resume THEN "resume" ELSE "start"]

(* The end of an attempt that ran through.                                   *)
suspending(d, ends) ==
    IF ends = "suspended"
    THEN [d EXCEPT !.traces = staged_trace(d, "SUSPENDED", [pending |-> pending_of(d)])] ELSE d
ending(d, c, ends) ==
    [suspending(d, ends) EXCEPT
        !.status = ends, !.pending = pending_of(d), !.cursor = d.step,
        !.traces = staged_trace(suspending(d, ends), "ACTIVATION_END", closing_of(c, ends))]

LEMMA RunOutcome ==
    ASSUME NEW c, NEW size, NEW script, NEW enabled, NEW p, NEW a, a = Agent(c, size, script, p),
           NEW d, d = Summarized(a, enabled, p)
    PROVE  run_activation(c, size, script, enabled, p) =
             IF d.status # "running" THEN d ELSE ending(d, c, script.ends)
BY DEF run_activation, ending, suspending, pending_of, closing_of, continuation_cursor

LEMMA PendingIds == ASSUME NEW d \in Contexts PROVE pending_of(d) \in SUBSET Ids
<1>1. d.intents \in Seq(Intents)
  BY DEF Contexts
<1>2. \A i \in DOMAIN d.intents : d.intents[i] \in Intents
  BY <1>1
<1>3. \A i \in DOMAIN d.intents : d.intents[i].id \in Ids
  BY <1>2 DEF Intents
<1> QED BY <1>3 DEF pending_of

LEMMA SuspendingReaches ==
    ASSUME NEW c \in Contexts, NEW d \in Reached(c), NEW ends \in Ends
    PROVE  /\ suspending(d, ends) \in Reached(c) /\ suspending(d, ends).step = d.step
           /\ suspending(d, ends).intents = d.intents
<1>1. CASE ends = "suspended"
  <2>1. /\ d \in Contexts /\ SameScope(d, c) /\ c.entry <= d.step /\ d.step \in Nat
        /\ TracesUpTo(d.traces, c, d.step) /\ IntentsUpTo(d.intents, c, d.step)
        /\ d.status \notin Ends
    BY ReachedAt
  <2>2. PICK x \in Attributes : x = [pending |-> pending_of(d)]
    <3>1. [pending |-> pending_of(d)] \in [pending : SUBSET Ids]
      BY <2>1, PendingIds
    <3> QED BY <3>1 DEF Attributes
  <2>3. PICK e : e = trace_event(d, "SUSPENDED", d.step, d.step, x)
    OBVIOUS
  <2>4. "SUSPENDED" \in Types /\ "SUSPENDED" \notin {"ACTIVATION_START", "ACTIVATION_END"}
    BY DEF Types
  <2>5. IsEvent(e, c, "SUSPENDED", d.step, d.step, x)
    BY <2>1, <2>3, <2>4, EventOf
  <2>6. Follows(e, c, d.step, d.step)
    BY <2>4, <2>5 DEF IsEvent, Follows, Counted
  <2>7. PICK s : s = Append(d.traces, e) /\ TracesUpTo(s, c, d.step)
    <3>1. d.step <= d.step
      BY <2>1
    <3> QED BY <2>1, <2>6, <3>1, TraceGrows
  <2>8. s \in Seq(TraceEvents)
    BY <2>7 DEF TracesUpTo
  <2>9. PICK r : r = [d EXCEPT !.traces = s]
    OBVIOUS
  <2>10. r = suspending(d, ends)
    BY <1>1, <2>2, <2>3, <2>7, <2>9 DEF suspending, staged_trace
  <2>11. r \in Contexts
    BY <2>1, <2>8, <2>9 DEF Contexts
  <2>12. /\ SameScope(r, c) /\ r.step = d.step /\ r.traces = s /\ r.intents = d.intents
         /\ r.status = d.status
    BY <2>1, <2>9 DEF Contexts, SameScope
  <2> QED BY <2>1, <2>7, <2>10, <2>11, <2>12 DEF Reached
<1>2. CASE ends # "suspended"
  BY <1>2 DEF suspending
<1> QED BY <1>1, <1>2

LEMMA EndingFinishes ==
    ASSUME NEW c \in Contexts, NEW d \in Reached(c), NEW ends \in Ends
    PROVE  Finished(ending(d, c, ends), c) /\ ending(d, c, ends).status = ends
<1>1. PICK w \in Reached(c) : w = suspending(d, ends) /\ w.step = d.step /\ w.intents = d.intents
  BY SuspendingReaches
<1>2. /\ w \in Contexts /\ SameScope(w, c) /\ c.entry <= w.step /\ w.step \in Nat
      /\ TracesUpTo(w.traces, c, w.step) /\ IntentsUpTo(w.intents, c, w.step)
  BY ReachedAt
<1>3. PICK x \in Attributes : x = closing_of(c, ends)
  <2>1. closing_of(c, ends) \in [status : Ends, kind : Kinds]
    BY DEF closing_of, Kinds
  <2> QED BY <2>1 DEF Attributes
<1>4. PICK e : e = trace_event(w, "ACTIVATION_END", w.step, w.step, x)
  OBVIOUS
<1>5. "ACTIVATION_END" \in Types /\ "ACTIVATION_END" \in {"ACTIVATION_START", "ACTIVATION_END"}
  BY DEF Types
<1>6. IsEvent(e, c, "ACTIVATION_END", w.step, w.step, x)
  BY <1>2, <1>4, <1>5, EventOf
<1>7. Follows(e, c, w.step, w.step)
  BY <1>5, <1>6 DEF IsEvent, Follows
<1>8. PICK s : s = Append(w.traces, e) /\ TracesUpTo(s, c, w.step)
  <2>1. w.step <= w.step
    BY <1>2
  <2> QED BY <1>2, <1>7, <2>1, TraceGrows
<1>9. s \in Seq(TraceEvents)
  BY <1>8 DEF TracesUpTo
<1>10. PICK P \in SUBSET Ids : P = pending_of(d)
  <2>1. d \in Contexts
    BY ReachedAt
  <2> QED BY <2>1, PendingIds
<1>11. PICK n \in Nat : n = d.step /\ n = w.step
  BY <1>1, <1>2
<1>12. PICK r : r = [w EXCEPT !.status = ends, !.pending = P, !.cursor = n, !.traces = s]
  OBVIOUS
<1>13. r = ending(d, c, ends)
  BY <1>1, <1>3, <1>4, <1>8, <1>10, <1>11, <1>12 DEF ending, staged_trace
<1>14. r \in Contexts
  BY <1>2, <1>9, <1>12 DEF Contexts, Ends
<1>15. /\ r.seq = c.seq /\ r.resume = c.resume /\ r.cursor = n /\ r.traces = s
       /\ r.intents = d.intents /\ r.pending = P /\ r.status = ends
  BY <1>1, <1>2, <1>12 DEF Contexts, SameScope
<1>16. Finished(r, c)
  BY <1>1, <1>2, <1>8, <1>10, <1>11, <1>14, <1>15 DEF Finished, pending_of
<1> QED BY <1>13, <1>15, <1>16

LEMMA AttemptEnds ==
    ASSUME NEW c, IsNew(c), NEW size \in Nat, NEW script \in Scripts, Known(script.ops),
           NEW p \in Providers, NEW enabled \in BOOLEAN,
           NEW d, d = run_activation(c, size, script, enabled, p)
    PROVE  /\ d.status \in Ends => Finished(d, c)
           /\ d.status \notin Ends => d \in Reached(c)
<1>1. c \in Contexts /\ script.ends \in Ends
  BY DEF IsNew, Scripts
<1>2. PICK a \in Reached(c) : a = Agent(c, size, script, p)
  BY AgentReaches
<1>3. PICK m \in Reached(c) : m = Summarized(a, enabled, p)
  BY <1>1, SummaryReaches
<1>4. d = IF m.status # "running" THEN m ELSE ending(m, c, script.ends)
  BY <1>2, <1>3, RunOutcome
<1>5. m.status \notin Ends
  BY <1>1, ReachedAt
<1>6. Finished(ending(m, c, script.ends), c) /\ ending(m, c, script.ends).status = script.ends
  BY <1>1, EndingFinishes
<1> QED BY <1>1, <1>3, <1>4, <1>5, <1>6
-----------------------------------------------------------------------------
(* The key over its attempts.                                                *)

Once(e) == e.type \in {"ACTIVATION_START", "LLM_CALL", "INTENT_EMITTED"}
Escalation(e) == e.type = "INTENT_EMITTED" /\ e.attributes.name = "escalation"

(* What was staged of q is behind step n, the openings of its attempts too.  *)
Before(q, n) ==
    /\ \A i \in DOMAIN intents : intents[i][1] = q => intents[i][2] < n
    /\ \A i \in DOMAIN traces :
          Counted(traces[i]) /\ traces[i].seq = q => traces[i].span[3] < n
OpenedBefore(q, n) ==
    \A i \in DOMAIN traces :
        traces[i].type = "ACTIVATION_START" /\ traces[i].seq = q => traces[i].span[3] < n

(* The attempt a continuation of q goes on with was opened at step 0.        *)
Opened(q) ==
    \E j \in DOMAIN traces : /\ traces[j].type = "ACTIVATION_START"
                             /\ traces[j].span = <<q, "activation", 0>>

Rooted(s, i) ==
    \/ s[i].type = "ERROR" \/ s[i].parent = <<>> \/ Escalation(s[i])
    \/ \E j \in 1..(i - 1) : /\ s[j].type = "ACTIVATION_START" /\ s[j].span = s[i].parent
                             /\ s[j].span # s[i].span

(* The span of an event that has one of its own.                             *)
Spanned(e) ==
    /\ e.span[1] = e.seq
    /\ e.span[2] = IF e.type = "ACTIVATION_START" THEN "activation" ELSE e.type

Continuations == [seq : Nat, step : Nat, pending : SUBSET Ids, attempt : Nat \ {0}]
Histories ==
    [seq : Nat, resume : BOOLEAN, attempt : Nat \ {0}, size : Nat, memory : Nat,
     asked : SUBSET Responded, summarized : BOOLEAN, status : Ends \cup {"failed", "timed out"},
     at : Nat \ {0}]

KeyTypes ==
    /\ program \in Seq(Scripts) \ {<<>>} /\ seq \in Nat /\ notes \in Nat
    /\ llm_cache \in SUBSET Responded
    /\ continuation \in SUBSET Continuations /\ \A k, l \in continuation : k = l
    /\ traces \in Seq(TraceEvents) /\ intents \in Seq(Ids) /\ attempts \in Seq(Histories)

(* A later attempt is of a seq of its own; a suspension has all that was     *)
(* staged behind its cursor, and, when it waits for something, the opening   *)
(* of its last attempt as well.                                              *)
IdentityInv ==
    /\ KeyTypes
    /\ \A i \in DOMAIN intents : intents[i][1] < seq
    /\ \A i \in DOMAIN traces : Once(traces[i]) => traces[i].seq < seq /\ Spanned(traces[i])
    /\ \A k \in continuation :
          /\ k.seq < seq /\ Before(k.seq, k.step) /\ OpenedBefore(k.seq, k.step + 1)
          /\ k.pending # {} => OpenedBefore(k.seq, k.step)
          /\ Opened(k.seq)
    /\ StagedIdsUnique /\ SpansDistinct
    /\ \A i \in DOMAIN traces : Rooted(traces, i)

(* A context an attempt may begin with now.                                  *)
Startable(c) ==
    /\ IsNew(c) /\ c.seq <= seq /\ Before(c.seq, c.entry) /\ OpenedBefore(c.seq, c.entry)
    /\ c.resume => Opened(c.seq) /\ 0 < c.entry
    /\ ~c.resume => c.entry = 0

LEMMA Joined ==
    ASSUME NEW T, NEW s \in Seq(T), NEW t \in Seq(T)
    PROVE  /\ s \o t \in Seq(T) /\ Len(s) \in Nat /\ Len(t) \in Nat
           /\ Len(s \o t) = Len(s) + Len(t) /\ DOMAIN (s \o t) = 1..(Len(s) + Len(t))
           /\ DOMAIN s = 1..Len(s) /\ DOMAIN t = 1..Len(t)
           /\ \A i \in 1..Len(s) : (s \o t)[i] = s[i]
           /\ \A i \in 1..Len(t) : (s \o t)[Len(s) + i] = t[i]
           /\ \A i \in DOMAIN (s \o t) : i \notin 1..Len(s) => i - Len(s) \in 1..Len(t)
OBVIOUS

(* The spans of a finished attempt.                                          *)
LEMMA AttemptSpans ==
    ASSUME NEW c \in Contexts, NEW s, NEW n \in Nat, TracesUpTo(s, c, n), c.entry <= n,
           NEW i \in 1..Len(s), Once(s[i])
    PROVE  /\ s[i].seq = c.seq /\ Spanned(s[i]) /\ c.entry <= s[i].span[3]
           /\ Counted(s[i]) => i # 1 /\ s[i].span[3] < n
           /\ s[i].type = "ACTIVATION_START" => i = 1 /\ s[i].span[3] = c.entry
<1>1. /\ s \in Seq(TraceEvents) /\ Len(s) \in Nat /\ s[1].type = "ACTIVATION_START"
      /\ s[1].span = own_span(c) /\ s[i].seq = c.seq /\ c.entry \in Nat
  BY DEF TracesUpTo, Contexts
<1>2. CASE i = 1
  BY <1>1, <1>2 DEF Spanned, Counted, own_span
<1>3. CASE i # 1
  <2>1. i \in 2..Len(s)
    BY <1>1, <1>3
  <2>2. /\ s[i].type \in {"LLM_CALL", "TOOL_CALL", "INTENT_EMITTED", "SUSPENDED"}
        /\ s[i].span[1] = c.seq /\ s[i].span[2] = s[i].type
        /\ Counted(s[i]) => c.entry <= s[i].span[3] /\ s[i].span[3] < n
    BY <2>1 DEF TracesUpTo, Once
  <2> QED BY <1>1, <1>3, <2>2 DEF Spanned, Counted, Once
<1> QED BY <1>2, <1>3

(* What a trace has after some events were added to it.                      *)
LEMMA RootsStay ==
    ASSUME NEW s \in Seq(TraceEvents), NEW t \in Seq(TraceEvents), NEW i \in DOMAIN s, Rooted(s, i)
    PROVE  Rooted(s \o t, i)
<1>1. /\ DOMAIN s = 1..Len(s) /\ Len(s) \in Nat /\ \A j \in 1..Len(s) : (s \o t)[j] = s[j]
  BY Joined
<1>2. (s \o t)[i] = s[i]
  BY <1>1
<1>3. ASSUME NEW j \in 1..(i - 1) PROVE (s \o t)[j] = s[j]
  BY <1>1
<1> QED BY <1>2, <1>3 DEF Rooted

LEMMA AttemptRooted ==
    ASSUME NEW s \in Seq(TraceEvents), NEW c \in Contexts, NEW t, NEW n \in Nat, TracesUpTo(t, c, n),
           c.entry <= n, NEW r, r = s \o t,
           c.resume => 0 < c.entry /\ \E j \in DOMAIN s : /\ s[j].type = "ACTIVATION_START"
                                                       /\ s[j].span = <<c.seq, "activation", 0>>,
           NEW i \in 1..Len(t)
    PROVE  Rooted(r, Len(s) + i)
<1>0. t \in Seq(TraceEvents)
  BY DEF TracesUpTo
<1>1. /\ DOMAIN s = 1..Len(s) /\ Len(s) \in Nat /\ Len(t) \in Nat
      /\ \A j \in 1..Len(s) : r[j] = s[j]
      /\ \A k \in 1..Len(t) : r[Len(s) + k] = t[k]
  BY <1>0, Joined
<1>2. PICK m : m = Len(s) + i /\ r[m] = t[i] /\ m \in Nat
  BY <1>1
<1>3. /\ t[1].type = "ACTIVATION_START" /\ t[1].span = own_span(c) /\ Len(t) >= 1
      /\ t[1].parent = IF c.resume THEN <<c.seq, "activation", 0>> ELSE <<>>
  BY DEF TracesUpTo
<1>4. ASSUME t[i].span = t[1].span, t[i].parent = t[1].parent PROVE Rooted(r, m)
  <2>1. CASE ~c.resume
    BY <1>2, <1>3, <1>4, <2>1 DEF Rooted
  <2>2. CASE c.resume
    <3>1. PICK j \in DOMAIN s : s[j].type = "ACTIVATION_START" /\ s[j].span = <<c.seq, "activation", 0>>
      BY <2>2
    <3>2. j \in 1..(m - 1) /\ r[j] = s[j]
      BY <1>1, <1>2
    <3>3. 0 < c.entry /\ c.entry \in Nat
      BY <2>2 DEF Contexts
    <3>4. r[j].span = r[m].parent
      BY <1>2, <1>3, <1>4, <2>2, <3>1, <3>2
    <3>5. r[m].span = <<c.seq, "activation", c.entry>>
      BY <1>2, <1>3, <1>4 DEF own_span
    <3>6. r[j].span # r[m].span
      BY <3>1, <3>2, <3>3, <3>5
    <3> QED BY <3>1, <3>2, <3>4, <3>6 DEF Rooted
  <2> QED BY <2>1, <2>2
<1>5. CASE i = 1
  BY <1>2, <1>4, <1>5
<1>6. CASE i # 1
  <2>1. i \in 2..Len(t)
    BY <1>1, <1>6
  <2>2. CASE t[i].parent = own_span(c) /\ t[i].span[2] = t[i].type
             /\ t[i].type \in {"LLM_CALL", "TOOL_CALL", "INTENT_EMITTED", "SUSPENDED"}
    <3>7. PICK k : k = Len(s) + 1
      OBVIOUS
    <3>1. r[k] = t[1] /\ k \in 1..(m - 1)
      BY <1>1, <1>2, <1>3, <2>1, <3>7
    <3>2. r[k].span = r[m].parent
      BY <1>2, <1>3, <2>2, <3>1
    <3>8. r[k].span = own_span(c) /\ own_span(c)[2] = "activation"
      BY <1>3, <3>1 DEF own_span
    <3>9. r[m].span[2] # "activation"
      BY <1>2, <2>2
    <3>3. r[k].span[2] = "activation" /\ r[m].span[2] # "activation"
      BY <3>8, <3>9
    <3>4. r[k].span # r[m].span
      BY <3>3
    <3>5. r[k].type = "ACTIVATION_START"
      BY <1>3, <3>1
    <3>6. Rooted(r, m)
      BY <3>1, <3>2, <3>4, <3>5 DEF Rooted
    <3> QED BY <1>2, <3>6
  <2>3. CASE t[i].span = t[1].span /\ t[i].parent = t[1].parent
    BY <1>2, <1>4, <2>3
  <2>4. \/ /\ t[i].type \in {"LLM_CALL", "TOOL_CALL", "INTENT_EMITTED", "SUSPENDED"}
           /\ t[i].parent = own_span(c) /\ t[i].span[2] = t[i].type
        \/ t[i].span = t[1].span /\ t[i].parent = t[1].parent
    BY <2>1 DEF TracesUpTo
  <2> QED BY <2>2, <2>3, <2>4
<1> QED BY <1>5, <1>6

(* What a committed attempt identifies is new.                               *)
LEMMA AttemptDistinct ==
    ASSUME IdentityInv, NEW c, Startable(c), NEW t, NEW n \in Nat, TracesUpTo(t, c, n), c.entry <= n,
           NEW r, r = traces \o t,
           NEW i \in DOMAIN r, NEW j \in DOMAIN r, Once(r[i]), Once(r[j]), r[i].span = r[j].span
    PROVE  i = j
<1>1. traces \in Seq(TraceEvents) /\ t \in Seq(TraceEvents) /\ c \in Contexts
  BY DEF IdentityInv, KeyTypes, TracesUpTo, Startable, IsNew
<1>2. /\ DOMAIN traces = 1..Len(traces) /\ Len(traces) \in Nat /\ Len(t) \in Nat
      /\ \A k \in 1..Len(traces) : r[k] = traces[k]
      /\ \A l \in 1..Len(t) : r[Len(traces) + l] = t[l]
      /\ \A k \in DOMAIN r : k \notin 1..Len(traces) => k - Len(traces) \in 1..Len(t)
      /\ DOMAIN r = 1..(Len(traces) + Len(t))
  <2>1. PICK s \in Seq(TraceEvents) : s = traces
    BY <1>1
  <2>2. /\ DOMAIN s = 1..Len(s) /\ Len(s) \in Nat /\ Len(t) \in Nat
        /\ \A k \in 1..Len(s) : (s \o t)[k] = s[k]
        /\ \A l \in 1..Len(t) : (s \o t)[Len(s) + l] = t[l]
        /\ \A k \in DOMAIN (s \o t) : k \notin 1..Len(s) => k - Len(s) \in 1..Len(t)
        /\ DOMAIN (s \o t) = 1..(Len(s) + Len(t))
    BY <1>1, Joined
  <2>3. r = s \o t
    BY <2>1
  <2> QED BY <2>1, <2>2, <2>3
<1>3. ASSUME NEW k \in DOMAIN traces, Once(traces[k])
      PROVE  /\ traces[k].span[1] = traces[k].seq
             /\ traces[k].span[2] = IF traces[k].type = "ACTIVATION_START" THEN "activation" ELSE traces[k].type
             /\ traces[k].seq = c.seq => traces[k].span[3] < c.entry
  <2>1. Spanned(traces[k])
    BY <1>3 DEF IdentityInv
  <2>2. traces[k].type = "ACTIVATION_START" \/ Counted(traces[k])
    BY <1>3 DEF Once, Counted
  <2>3. Before(c.seq, c.entry) /\ OpenedBefore(c.seq, c.entry)
    BY DEF Startable
  <2> QED BY <2>1, <2>2, <2>3 DEF Spanned, Before, OpenedBefore
<1>4. ASSUME NEW k \in 1..Len(t), Once(t[k])
      PROVE  /\ t[k].span[1] = c.seq /\ c.entry <= t[k].span[3] /\ t[k].span[3] \in Nat
             /\ t[k].span[2] = IF t[k].type = "ACTIVATION_START" THEN "activation" ELSE t[k].type
             /\ t[k].type = "ACTIVATION_START" => k = 1
             /\ t[k].type # "ACTIVATION_START" => Counted(t[k]) /\ k \in 2..Len(t)
  <2>1. /\ t[k].seq = c.seq /\ Spanned(t[k]) /\ c.entry <= t[k].span[3]
        /\ Counted(t[k]) => k # 1
        /\ t[k].type = "ACTIVATION_START" => k = 1
    BY <1>1, <1>4, AttemptSpans
  <2>2. t[k].span[3] \in Nat
    BY <1>1, SpanIndices
  <2>3. t[k].type = "ACTIVATION_START" \/ Counted(t[k])
    BY <1>4 DEF Once, Counted
  <2> QED BY <1>2, <2>1, <2>2, <2>3 DEF Spanned
<1>5. ASSUME NEW k \in DOMAIN traces, Once(traces[k]), NEW l \in 1..Len(t), Once(t[l])
      PROVE  traces[k].span # t[l].span
  <2>1. traces[k].span[3] \in Nat /\ c.entry \in Nat
    BY <1>1, <1>2, SpanIndices DEF Contexts
  <2>2. /\ traces[k].span[1] = traces[k].seq
        /\ traces[k].seq = c.seq => traces[k].span[3] < c.entry
    BY <1>3, <1>5
  <2>3. t[l].span[1] = c.seq /\ c.entry <= t[l].span[3] /\ t[l].span[3] \in Nat
    BY <1>4, <1>5
  <2>4. SUFFICES ASSUME traces[k].span = t[l].span PROVE FALSE
    OBVIOUS
  <2>5. PICK m \in Nat : m = traces[k].span[3] /\ m = t[l].span[3]
    BY <2>3, <2>4
  <2>6. traces[k].seq = c.seq
    BY <2>2, <2>3, <2>4
  <2>7. m < c.entry /\ c.entry <= m
    BY <2>2, <2>3, <2>5, <2>6
  <2> QED BY <2>1, <2>7
<1>6. ASSUME NEW k \in 1..Len(t), Once(t[k]), NEW l \in 1..Len(t), Once(t[l]), t[k].span = t[l].span
      PROVE  k = l
  <2>1. CASE t[k].type = "ACTIVATION_START"
    <3>1. t[l].type = "ACTIVATION_START"
      BY <1>4, <1>6, <2>1 DEF Once
    <3> QED BY <1>4, <1>6, <2>1, <3>1
  <2>2. CASE t[k].type # "ACTIVATION_START"
    <3>1. t[l].type # "ACTIVATION_START"
      BY <1>4, <1>6, <2>2 DEF Once
    <3>2. Counted(t[k]) /\ Counted(t[l]) /\ k \in 2..Len(t) /\ l \in 2..Len(t)
      BY <1>4, <1>6, <2>2, <3>1
    <3>3. t[k].span[3] \in Nat /\ t[k].span[3] = t[l].span[3]
      BY <1>4, <1>6
    <3>4. \A a, b \in 2..Len(t) :
             Counted(t[a]) /\ Counted(t[b]) /\ a < b => t[a].span[3] < t[b].span[3]
      BY DEF TracesUpTo
    <3>6. PICK m \in Nat : t[k].span[3] = m /\ t[l].span[3] = m
      BY <3>3
    <3>7. ~ (m < m)
      OBVIOUS
    <3>5. ~ (k < l) /\ ~ (l < k)
      <4>1. ASSUME k < l PROVE FALSE
        BY <3>2, <3>4, <3>6, <3>7, <4>1
      <4>2. ASSUME l < k PROVE FALSE
        BY <3>2, <3>4, <3>6, <3>7, <4>2
      <4> QED BY <4>1, <4>2
    <3> QED BY <1>2, <3>2, <3>5
  <2> QED BY <2>1, <2>2
<1>7. CASE i \in 1..Len(traces) /\ j \in 1..Len(traces)
  <2>1. r[i] = traces[i] /\ r[j] = traces[j]
    BY <1>2, <1>7
  <2> QED BY <1>2, <1>7, <2>1 DEF IdentityInv, SpansDistinct, Once
<1>8. CASE i \in 1..Len(traces) /\ j \notin 1..Len(traces)
  <2>1. PICK l \in 1..Len(t) : l = j - Len(traces) /\ r[j] = t[l] /\ r[i] = traces[i]
    BY <1>2, <1>8
  <2> QED BY <1>2, <1>5, <1>8, <2>1
<1>9. CASE i \notin 1..Len(traces) /\ j \in 1..Len(traces)
  <2>1. PICK l \in 1..Len(t) : l = i - Len(traces) /\ r[i] = t[l] /\ r[j] = traces[j]
    BY <1>2, <1>9
  <2> QED BY <1>2, <1>5, <1>9, <2>1
<1>10. CASE i \notin 1..Len(traces) /\ j \notin 1..Len(traces)
  <2>1. PICK k \in 1..Len(t) : k = i - Len(traces) /\ r[i] = t[k]
    BY <1>2, <1>10
  <2>2. PICK l \in 1..Len(t) : l = j - Len(traces) /\ r[j] = t[l]
    BY <1>2, <1>10
  <2>3. k = l
    BY <1>6, <2>1, <2>2
  <2> QED BY <1>2, <2>1, <2>2, <2>3
<1> QED BY <1>7, <1>8, <1>9, <1>10

ids_of(d) == [i \in DOMAIN d.intents |-> d.intents[i].id]

IsIdList(t, c, n) ==
    /\ t \in Seq(Ids)
    /\ \A i \in 1..Len(t) : t[i][1] = c.seq /\ c.entry <= t[i][2] /\ t[i][2] < n
    /\ \A i, j \in 1..Len(t) : i < j => t[i][2] < t[j][2]

LEMMA IdsListed ==
    ASSUME NEW c, NEW d, Finished(d, c)
    PROVE  IsIdList(ids_of(d), c, d.cursor)
<1>1. PICK s \in Seq(Intents) : s = d.intents /\ IntentsUpTo(s, c, d.cursor)
  BY DEF Finished, IntentsUpTo
<1>2. PICK t : t = ids_of(d) /\ t \in Seq(Ids) /\ Len(t) = Len(s)
               /\ \A i \in 1..Len(s) : t[i] = s[i].id
  <2>1. \A i \in 1..Len(s) : s[i].id \in Ids
    BY <1>1, IdIndices
  <2>2. ids_of(d) = [i \in 1..Len(s) |-> s[i].id] /\ Len(s) \in Nat
    BY <1>1 DEF ids_of
  <2>3. ids_of(d) \in [1..Len(s) -> Ids]
    BY <2>1, <2>2
  <2>4. ids_of(d) \in Seq(Ids) /\ Len(ids_of(d)) = Len(s)
    BY <2>2, <2>3
  <2>5. \A i \in 1..Len(s) : ids_of(d)[i] = s[i].id
    BY <2>2
  <2> QED BY <2>4, <2>5
<1>3. IsIdList(t, c, d.cursor)
  BY <1>1, <1>2 DEF IntentsUpTo, IsIdList
<1> QED BY <1>2, <1>3

AreNew(r, c, n) ==
    /\ r \in Seq(Ids) /\ IsInjective(r)
    /\ \A i \in DOMAIN r : \/ i \in DOMAIN intents /\ r[i] = intents[i]
                           \/ r[i][1] = c.seq /\ r[i][2] < n

LEMMA CommittedIds ==
    ASSUME IdentityInv, NEW c, Startable(c), NEW t, NEW n \in Nat, IsIdList(t, c, n),
           NEW r, r = intents \o t
    PROVE  AreNew(r, c, n)
<1>2. t \in Seq(Ids)
  BY DEF IsIdList
<1>3. intents \in Seq(Ids) /\ IsInjective(intents) /\ c.entry \in Nat /\ c.seq \in Nat
  BY DEF IdentityInv, KeyTypes, StagedIdsUnique, Startable, IsNew, Contexts
<1>4. /\ r \in Seq(Ids) /\ DOMAIN intents = 1..Len(intents) /\ Len(intents) \in Nat /\ Len(t) \in Nat
      /\ \A k \in 1..Len(intents) : r[k] = intents[k]
      /\ \A l \in 1..Len(t) : r[Len(intents) + l] = t[l]
      /\ \A k \in DOMAIN r : k \notin 1..Len(intents) => k - Len(intents) \in 1..Len(t)
      /\ DOMAIN r = 1..(Len(intents) + Len(t))
  BY <1>2, <1>3, Joined
<1>5. ASSUME NEW l \in 1..Len(t)
      PROVE  t[l][1] = c.seq /\ c.entry <= t[l][2] /\ t[l][2] < n /\ t[l][2] \in Nat
  <2>1. t[l] \in Ids
    BY <1>2
  <2> QED BY <2>1 DEF IsIdList, Ids
<1>6. \A k, l \in 1..Len(t) : k < l => t[k][2] < t[l][2]
  BY DEF IsIdList
<1>7. ASSUME NEW k \in 1..Len(intents), NEW l \in 1..Len(t) PROVE intents[k] # t[l]
  <2>1. intents[k][1] = c.seq => intents[k][2] < c.entry
    BY <1>4 DEF Startable, Before
  <2>2. intents[k] \in Ids
    BY <1>3
  <2>3. intents[k][2] \in Nat
    BY <2>2 DEF Ids
  <2>4. SUFFICES ASSUME intents[k] = t[l] PROVE FALSE
    OBVIOUS
  <2>5. PICK m \in Nat : m = intents[k][2] /\ m = t[l][2]
    BY <2>3, <2>4
  <2>6. t[l][1] = c.seq /\ c.entry <= t[l][2]
    BY <1>5
  <2>7. m < c.entry /\ c.entry <= m
    BY <2>1, <2>4, <2>5, <2>6
  <2> QED BY <1>3, <2>7
<1>10. ASSUME NEW i \in DOMAIN r, i \notin 1..Len(intents)
       PROVE  \E l \in 1..Len(t) : i = Len(intents) + l /\ r[i] = t[l]
  <2>1. PICK l \in 1..Len(t) : l = i - Len(intents)
    BY <1>4, <1>10
  <2>2. i = Len(intents) + l
    BY <1>4, <2>1
  <2> QED BY <1>4, <2>2
<1>8. ASSUME NEW i \in DOMAIN r, NEW j \in DOMAIN r, r[i] = r[j] PROVE i = j
  <2>1. CASE i \in 1..Len(intents) /\ j \in 1..Len(intents)
    BY <1>3, <1>4, <1>8, <2>1 DEF IsInjective
  <2>2. CASE i \in 1..Len(intents) /\ j \notin 1..Len(intents)
    <3>1. PICK l \in 1..Len(t) : j = Len(intents) + l /\ r[j] = t[l]
      BY <1>10, <2>2
    <3> QED BY <1>4, <1>7, <1>8, <2>2, <3>1
  <2>3. CASE i \notin 1..Len(intents) /\ j \in 1..Len(intents)
    <3>1. PICK l \in 1..Len(t) : i = Len(intents) + l /\ r[i] = t[l]
      BY <1>10, <2>3
    <3> QED BY <1>4, <1>7, <1>8, <2>3, <3>1
  <2>4. CASE i \notin 1..Len(intents) /\ j \notin 1..Len(intents)
    <3>1. PICK k \in 1..Len(t) : i = Len(intents) + k /\ r[i] = t[k]
      BY <1>10, <2>4
    <3>2. PICK l \in 1..Len(t) : j = Len(intents) + l /\ r[j] = t[l]
      BY <1>10, <2>4
    <3>3. t[k] = t[l]
      BY <1>8, <3>1, <3>2
    <3>6. PICK m \in Nat : t[k][2] = m /\ t[l][2] = m
      BY <1>5, <3>3
    <3>7. ~ (m < m)
      OBVIOUS
    <3>4. ~ (k < l) /\ ~ (l < k)
      BY <1>6, <3>6, <3>7
    <3>5. k = l
      BY <1>4, <3>4
    <3> QED BY <1>4, <3>1, <3>2, <3>5
  <2> QED BY <2>1, <2>2, <2>3, <2>4
<1>9. \A i \in DOMAIN r : \/ i \in DOMAIN intents /\ r[i] = intents[i]
                          \/ r[i][1] = c.seq /\ r[i][2] < n
  <2>1. ASSUME NEW i \in DOMAIN r, i \notin DOMAIN intents
        PROVE  r[i][1] = c.seq /\ r[i][2] < n
    <3>1. PICK l \in 1..Len(t) : i = Len(intents) + l /\ r[i] = t[l]
      BY <1>10, <2>1
    <3> QED BY <1>5, <3>1
  <2> QED BY <1>4, <2>1
<1> QED BY <1>4, <1>8, <1>9 DEF IsInjective, AreNew

LEMMA NextPlace == ASSUME NEW T, NEW s \in Seq(T) PROVE Len(s) + 1 \in Nat \ {0}
OBVIOUS

LEMMA AttemptRecorded ==
    ASSUME attempts \in Seq(Histories), traces \in Seq(TraceEvents),
           NEW c \in Contexts, NEW d \in Contexts, NEW size \in Nat, NEW attempt \in Nat \ {0},
           NEW status \in Ends \cup {"failed", "timed out"}, Attempted(c, size, attempt, status, d)
    PROVE  attempts' \in Seq(Histories)
<1>1. PICK h : h = [seq |-> c.seq, resume |-> c.resume, attempt |-> attempt, size |-> size,
                    memory |-> c.memory, asked |-> d.asked, summarized |-> d.summarized,
                    status |-> status, at |-> Len(traces) + 1]
  OBVIOUS
<1>2. Len(traces) + 1 \in Nat \ {0}
  BY NextPlace
<1>3. h \in Histories
  BY <1>1, <1>2 DEF Histories, Contexts
<1>4. attempts' = Append(attempts, h)
  BY <1>1 DEF Attempted
<1>5. Append(attempts, h) \in Seq(Histories)
  BY <1>3, Appended
<1> QED BY <1>4, <1>5

LEMMA CommitKeeps ==
    ASSUME IdentityInv, NEW c, Startable(c), NEW d, Finished(d, c), NEW size \in Nat,
           NEW attempt \in Nat \ {0}, CommitAttempt(c, size, attempt, d)
    PROVE  IdentityInv'
<1>1. /\ d.status \in Ends
      /\ notes' = d.memory /\ llm_cache' = d.cache /\ seq' = seq + 1 /\ program' = program
      /\ continuation' = IF d.status = "suspended"
                         THEN {[seq |-> c.seq, step |-> d.cursor, pending |-> d.pending,
                                attempt |-> attempt + 1]}
                         ELSE {}
      /\ traces' = traces \o d.traces
      /\ intents' = intents \o ids_of(d)
      /\ Attempted(c, size, attempt, d.status, d)
  BY DEF CommitAttempt, ids_of, Ends
<1>2. /\ c \in Contexts /\ c.seq \in Nat /\ c.entry \in Nat /\ d \in Contexts /\ d.cursor \in Nat
      /\ c.entry <= d.cursor /\ d.memory \in Nat /\ d.cache \in SUBSET Responded
      /\ d.pending \in SUBSET Ids /\ c.seq <= seq /\ d.intents \in Seq(Intents)
  BY DEF Startable, IsNew, Finished, Contexts
<1>3. KeyTypes /\ seq \in Nat /\ traces \in Seq(TraceEvents) /\ attempts \in Seq(Histories)
  BY DEF IdentityInv, KeyTypes
<1>4. PICK t, n : t = d.traces /\ n = d.cursor
  OBVIOUS
<1>5. t \in Seq(TraceEvents) /\ n \in Nat /\ TracesUpTo(t, c, n) /\ c.entry <= n
  BY <1>2, <1>4 DEF Finished, TracesUpTo
<1>6. PICK r : r = traces' /\ r = traces \o t
  BY <1>1, <1>4
<1>7. /\ r \in Seq(TraceEvents)
      /\ DOMAIN traces = 1..Len(traces) /\ Len(traces) \in Nat /\ Len(t) \in Nat
      /\ \A k \in 1..Len(traces) : r[k] = traces[k]
      /\ \A l \in 1..Len(t) : r[Len(traces) + l] = t[l]
      /\ \A k \in DOMAIN r : k \notin 1..Len(traces) => k - Len(traces) \in 1..Len(t)
      /\ DOMAIN r = 1..(Len(traces) + Len(t))
  BY <1>3, <1>5, <1>6, Joined
<1>8. PICK q : q = intents' /\ q = intents \o ids_of(d)
  BY <1>1
<1>9. /\ q \in Seq(Ids) /\ IsInjective(q)
      /\ \A i \in DOMAIN q : \/ i \in DOMAIN intents /\ q[i] = intents[i]
                             \/ q[i][1] = c.seq /\ q[i][2] < n
  <2>1. PICK u : u = ids_of(d) /\ IsIdList(u, c, n)
    BY <1>4, IdsListed
  <2>2. q = intents \o u
    BY <1>8, <2>1
  <2>3. AreNew(q, c, n)
    BY <1>5, <2>1, <2>2, CommittedIds
  <2> QED BY <2>3 DEF AreNew
<1>10. ASSUME NEW k \in DOMAIN r, k \notin DOMAIN traces
       PROVE  \E l \in 1..Len(t) : k = Len(traces) + l /\ r[k] = t[l]
  <2>1. PICK l \in 1..Len(t) : l = k - Len(traces)
    BY <1>7, <1>10
  <2>2. k = Len(traces) + l
    BY <1>7, <2>1
  <2> QED BY <1>7, <2>2
<1>11. KeyTypes'
  <2>1. seq + 1 \in Nat
    BY <1>3
  <2>2. continuation' \in SUBSET Continuations /\ \A k, l \in continuation' : k = l
    <3>1. CASE d.status = "suspended"
      <4>1. [seq |-> c.seq, step |-> d.cursor, pending |-> d.pending, attempt |-> attempt + 1]
              \in Continuations
        BY <1>2 DEF Continuations
      <4> QED BY <1>1, <3>1, <4>1
    <3>2. CASE d.status # "suspended"
      BY <1>1, <3>2
    <3> QED BY <3>1, <3>2
  <2>3. attempts' \in Seq(Histories)
    BY <1>1, <1>2, <1>3, AttemptRecorded
  <2>4. program' \in Seq(Scripts) \ {<<>>}
    BY <1>1, <1>3 DEF KeyTypes
  <2> QED BY <1>1, <1>2, <1>6, <1>7, <1>8, <1>9, <2>1, <2>2, <2>3, <2>4 DEF KeyTypes
<1>12. \A i \in DOMAIN q : q[i][1] < seq + 1
  <2>1. ASSUME NEW i \in DOMAIN q PROVE q[i][1] < seq + 1
    <3>1. q[i] \in Ids
      BY <1>9
    <3>2. q[i][1] \in Nat
      BY <3>1 DEF Ids
    <3>3. i \in DOMAIN intents => intents[i][1] < seq
      BY DEF IdentityInv
    <3> QED BY <1>2, <1>3, <1>9, <3>2, <3>3
  <2> QED BY <2>1
<1>13. ASSUME NEW i \in DOMAIN r, Once(r[i]) PROVE r[i].seq < seq + 1 /\ Spanned(r[i])
  <2>1. CASE i \in DOMAIN traces
    <3>1. r[i] = traces[i] /\ traces[i] \in TraceEvents
      BY <1>3, <1>7, <2>1
    <3>2. traces[i].seq < seq /\ Spanned(traces[i])
      BY <1>13, <2>1, <3>1 DEF IdentityInv
    <3>3. traces[i].seq \in Nat
      BY <3>1 DEF TraceEvents
    <3> QED BY <1>3, <3>1, <3>2, <3>3
  <2>2. CASE i \notin DOMAIN traces
    <3>1. PICK l \in 1..Len(t) : r[i] = t[l]
      BY <1>10, <2>2
    <3>2. t[l].seq = c.seq /\ Spanned(t[l])
      BY <1>2, <1>5, <1>13, <3>1, AttemptSpans
    <3> QED BY <1>2, <1>3, <3>1, <3>2
  <2> QED BY <2>1, <2>2
<1>14. ASSUME NEW i \in DOMAIN r, NEW j \in DOMAIN r, Once(r[i]), Once(r[j]), r[i].span = r[j].span
       PROVE  i = j
  BY <1>5, <1>6, <1>14, AttemptDistinct
<1>15. ASSUME NEW i \in DOMAIN r PROVE Rooted(r, i)
  <2>1. CASE i \in DOMAIN traces
    BY <1>3, <1>5, <1>6, <2>1, RootsStay DEF IdentityInv
  <2>2. CASE i \notin DOMAIN traces
    <3>1. PICK l \in 1..Len(t) : i = Len(traces) + l
      BY <1>10, <2>2
    <3>2. c.resume => 0 < c.entry /\ \E j \in DOMAIN traces :
                        /\ traces[j].type = "ACTIVATION_START"
                        /\ traces[j].span = <<c.seq, "activation", 0>>
      BY DEF Startable, Opened
    <3> QED BY <1>2, <1>3, <1>5, <1>6, <3>1, <3>2, AttemptRooted
  <2> QED BY <2>1, <2>2
<1>16. ASSUME NEW i \in DOMAIN r, Once(r[i]), r[i].seq = c.seq
       PROVE  \/ i \in DOMAIN traces /\ r[i].span[3] < c.entry
              \/ /\ c.entry <= r[i].span[3] /\ Counted(r[i]) => r[i].span[3] < n
                 /\ r[i].type = "ACTIVATION_START" => r[i].span[3] = c.entry
  <2>1. CASE i \in DOMAIN traces
    <3>1. r[i] = traces[i]
      BY <1>7, <2>1
    <3> QED BY <1>16, <2>1, <3>1 DEF Startable, Before, OpenedBefore, Once, Counted
  <2>2. CASE i \notin DOMAIN traces
    <3>1. PICK l \in 1..Len(t) : r[i] = t[l]
      BY <1>10, <2>2
    <3> QED BY <1>2, <1>5, <1>16, <3>1, AttemptSpans
  <2> QED BY <2>1, <2>2
<1>17. ASSUME NEW i \in DOMAIN r PROVE r[i].span[3] \in Nat
  BY <1>7, SpanIndices
<1>18. ASSUME d.status = "suspended", NEW k, k = [seq |-> c.seq, step |-> d.cursor,
                                               pending |-> d.pending, attempt |-> attempt + 1]
       PROVE  /\ k.seq < seq + 1 /\ Before(k.seq, k.step)' /\ OpenedBefore(k.seq, k.step + 1)'
              /\ k.pending # {} => OpenedBefore(k.seq, k.step)'
              /\ Opened(k.seq)'
  <2>1. k.seq = c.seq /\ k.step = n /\ k.pending = d.pending
    BY <1>4, <1>18
  <2>2. c.seq < seq + 1
    BY <1>2, <1>3
  <2>3. \A i \in DOMAIN q : q[i][1] = c.seq => q[i][2] < n
    <3>1. ASSUME NEW i \in DOMAIN q, q[i][1] = c.seq PROVE q[i][2] < n
      <4>1. q[i] \in Ids
        BY <1>9
      <4>2. q[i][2] \in Nat
        BY <4>1 DEF Ids
      <4>3. i \in DOMAIN intents /\ q[i] = intents[i] => q[i][2] < c.entry
        BY <3>1 DEF Startable, Before
      <4> QED BY <1>2, <1>5, <1>9, <3>1, <4>2, <4>3
    <3> QED BY <3>1
  <2>4. \A i \in DOMAIN r : Counted(r[i]) /\ r[i].seq = c.seq => r[i].span[3] < n
    <3>1. ASSUME NEW i \in DOMAIN r, Counted(r[i]), r[i].seq = c.seq PROVE r[i].span[3] < n
      <4>1. Once(r[i])
        BY <3>1 DEF Counted, Once
      <4> QED BY <1>2, <1>5, <1>16, <1>17, <3>1, <4>1
    <3> QED BY <3>1
  <2>5. \A i \in DOMAIN r : r[i].type = "ACTIVATION_START" /\ r[i].seq = c.seq
                                => r[i].span[3] <= c.entry
    <3>1. ASSUME NEW i \in DOMAIN r, r[i].type = "ACTIVATION_START", r[i].seq = c.seq
          PROVE  r[i].span[3] <= c.entry
      <4>1. Once(r[i])
        BY <3>1 DEF Once
      <4> QED BY <1>2, <1>16, <1>17, <3>1, <4>1
    <3> QED BY <3>1
  <2>6. d.pending # {} => c.entry < n
    <3>1. SUFFICES ASSUME d.pending # {} PROVE c.entry < n
      OBVIOUS
    <3>2. PICK i : i \in DOMAIN d.intents
      BY <3>1 DEF Finished
    <3>3. IntentsUpTo(d.intents, c, n) /\ i \in 1..Len(d.intents)
      BY <1>2, <1>4, <3>2 DEF Finished
    <3>4. PICK m : m = d.intents[i].id[2] /\ c.entry <= m /\ m < n
      BY <3>3 DEF IntentsUpTo
    <3>5. m \in Nat
      BY <1>2, <3>3, <3>4, IdIndices
    <3> QED BY <1>2, <1>5, <3>4, <3>5
  <2>7. \E j \in DOMAIN r : r[j].type = "ACTIVATION_START" /\ r[j].span = <<c.seq, "activation", 0>>
    <3>1. CASE c.resume
      <4>1. PICK j \in DOMAIN traces : /\ traces[j].type = "ACTIVATION_START"
                                      /\ traces[j].span = <<c.seq, "activation", 0>>
        BY <3>1 DEF Startable, Opened
      <4>2. j \in DOMAIN r /\ r[j] = traces[j]
        BY <1>7
      <4> QED BY <4>1, <4>2
    <3>2. CASE ~c.resume
      <4>1. c.entry = 0
        BY <3>2 DEF Startable
      <4>2. t[1].type = "ACTIVATION_START" /\ t[1].span = <<c.seq, "activation", 0>> /\ Len(t) >= 1
        BY <1>5, <4>1 DEF TracesUpTo, own_span
      <4>3. PICK j : j = Len(traces) + 1 /\ j \in DOMAIN r /\ r[j] = t[1]
        BY <1>7, <4>2
      <4> QED BY <4>2, <4>3
    <3> QED BY <3>1, <3>2
  <2>8. Before(k.seq, k.step)'
    BY <1>6, <1>8, <2>1, <2>3, <2>4 DEF Before
  <2>9. ASSUME NEW i \in DOMAIN r, r[i].type = "ACTIVATION_START", r[i].seq = c.seq
        PROVE  r[i].span[3] < n + 1 /\ (c.entry < n => r[i].span[3] < n)
    BY <1>2, <1>5, <1>17, <2>5, <2>9
  <2>10. OpenedBefore(k.seq, k.step + 1)' /\ (k.pending # {} => OpenedBefore(k.seq, k.step)')
    BY <1>6, <2>1, <2>6, <2>9 DEF OpenedBefore
  <2>11. Opened(k.seq)'
    BY <1>6, <2>1, <2>7 DEF Opened
  <2> QED BY <2>1, <2>2, <2>8, <2>10, <2>11
<1>19. ASSUME NEW k \in continuation'
       PROVE  /\ k.seq < seq' /\ Before(k.seq, k.step)' /\ OpenedBefore(k.seq, k.step + 1)'
              /\ k.pending # {} => OpenedBefore(k.seq, k.step)'
              /\ Opened(k.seq)'
  BY <1>1, <1>18, <1>19
<1>20. StagedIdsUnique' /\ SpansDistinct'
  BY <1>6, <1>8, <1>9, <1>14 DEF StagedIdsUnique, SpansDistinct, Once
<1>21. \A i \in DOMAIN traces' : Rooted(traces', i)
  BY <1>6, <1>15
<1>22. /\ \A i \in DOMAIN intents' : intents'[i][1] < seq'
       /\ \A i \in DOMAIN traces' : Once(traces'[i]) => traces'[i].seq < seq' /\ Spanned(traces'[i])
  BY <1>1, <1>6, <1>8, <1>12, <1>13
<1> QED BY <1>11, <1>19, <1>20, <1>21, <1>22 DEF IdentityInv
-----------------------------------------------------------------------------
(* What the steps that commit nothing add: an event.                         *)
LEMMA OneMore ==
    ASSUME NEW T, NEW s \in Seq(T), NEW e \in T
    PROVE  /\ Append(s, e) \in Seq(T) /\ Len(s) \in Nat
           /\ DOMAIN s = 1..Len(s) /\ DOMAIN Append(s, e) = 1..(Len(s) + 1)
           /\ \A i \in 1..Len(s) : Append(s, e)[i] = s[i]
           /\ Append(s, e)[Len(s) + 1] = e
OBVIOUS

LEMMA RootsStayMore ==
    ASSUME NEW s \in Seq(TraceEvents), NEW e \in TraceEvents, NEW i \in DOMAIN s, Rooted(s, i)
    PROVE  Rooted(Append(s, e), i)
<1>1. PICK r : r = Append(s, e)
  OBVIOUS
<1>2. (\A j \in 1..Len(s) : r[j] = s[j]) /\ DOMAIN s = 1..Len(s) /\ Len(s) \in Nat
  BY <1>1, OneMore
<1>3. r[i] = s[i] /\ \A j \in 1..(i - 1) : r[j] = s[j]
  BY <1>2
<1> QED BY <1>1, <1>3 DEF Rooted

(* An event that counts for nothing leaves what holds of the rest.           *)
LEMMA ErrorStays ==
    ASSUME IdentityInv, NEW e \in TraceEvents, e.type = "ERROR", traces' = Append(traces, e),
           attempts' \in Seq(Histories), UNCHANGED <<program, keyVars, intents>>
    PROVE  IdentityInv'
<1>1. /\ program' = program /\ seq' = seq /\ notes' = notes /\ llm_cache' = llm_cache
      /\ continuation' = continuation /\ intents' = intents
  BY DEF keyVars
<1>2. traces \in Seq(TraceEvents) /\ KeyTypes
  BY DEF IdentityInv, KeyTypes
<1>3. PICK r : r = traces' /\ r = Append(traces, e)
  OBVIOUS
<1>4. /\ r \in Seq(TraceEvents) /\ Len(traces) \in Nat
      /\ DOMAIN traces = 1..Len(traces) /\ DOMAIN r = 1..(Len(traces) + 1)
      /\ \A i \in 1..Len(traces) : r[i] = traces[i]
      /\ r[Len(traces) + 1] = e
  BY <1>2, <1>3, OneMore
<1>5. ASSUME NEW i \in DOMAIN r, Once(r[i]) PROVE i \in DOMAIN traces /\ r[i] = traces[i]
  BY <1>4, <1>5 DEF Once
<1>6. KeyTypes'
  BY <1>1, <1>2, <1>3, <1>4 DEF KeyTypes
<1>7. \A i \in DOMAIN r : Once(r[i]) => r[i].seq < seq /\ Spanned(r[i])
  BY <1>5 DEF IdentityInv
<1>8. ASSUME NEW k \in continuation'
      PROVE  /\ k.seq < seq' /\ Before(k.seq, k.step)' /\ OpenedBefore(k.seq, k.step + 1)'
             /\ k.pending # {} => OpenedBefore(k.seq, k.step)'
             /\ Opened(k.seq)'
  <2>1. /\ k.seq < seq /\ Before(k.seq, k.step) /\ OpenedBefore(k.seq, k.step + 1)
        /\ k.pending # {} => OpenedBefore(k.seq, k.step)
        /\ Opened(k.seq)
    BY <1>1, <1>8 DEF IdentityInv
  <2>2. ASSUME NEW i \in DOMAIN r
        PROVE  Counted(r[i]) \/ r[i].type = "ACTIVATION_START" => i \in DOMAIN traces /\ r[i] = traces[i]
    BY <1>5 DEF Once, Counted
  <2>6. ASSUME NEW i \in DOMAIN r, Counted(r[i]), r[i].seq = k.seq PROVE r[i].span[3] < k.step
    <3>1. i \in DOMAIN traces /\ r[i] = traces[i]
      BY <2>2, <2>6
    <3> QED BY <2>1, <2>6, <3>1 DEF Before
  <2>7. \A i \in DOMAIN intents : intents[i][1] = k.seq => intents[i][2] < k.step
    BY <2>1 DEF Before
  <2>3. Before(k.seq, k.step)'
    BY <1>1, <1>3, <2>6, <2>7 DEF Before
  <2>8. ASSUME NEW n, OpenedBefore(k.seq, n) PROVE OpenedBefore(k.seq, n)'
    BY <1>3, <2>2, <2>8 DEF OpenedBefore
  <2>4. OpenedBefore(k.seq, k.step + 1)' /\ (k.pending # {} => OpenedBefore(k.seq, k.step)')
    BY <2>1, <2>8
  <2>5. Opened(k.seq)'
    <3>1. PICK j \in DOMAIN traces : /\ traces[j].type = "ACTIVATION_START"
                                    /\ traces[j].span = <<k.seq, "activation", 0>>
      BY <2>1 DEF Opened
    <3>2. j \in DOMAIN r /\ r[j] = traces[j]
      BY <1>4
    <3> QED BY <1>3, <3>1, <3>2 DEF Opened
  <2> QED BY <1>1, <2>1, <2>3, <2>4, <2>5
<1>9. ASSUME NEW i \in DOMAIN r, NEW j \in DOMAIN r, Once(r[i]), Once(r[j]), r[i].span = r[j].span
      PROVE  i = j
  <2>1. i \in DOMAIN traces /\ j \in DOMAIN traces /\ r[i] = traces[i] /\ r[j] = traces[j]
    BY <1>5, <1>9
  <2> QED BY <1>9, <2>1 DEF IdentityInv, SpansDistinct, Once
<1>10. StagedIdsUnique' /\ SpansDistinct'
  <2>1. StagedIdsUnique'
    BY <1>1 DEF IdentityInv, StagedIdsUnique
  <2> QED BY <1>3, <1>9, <2>1 DEF SpansDistinct, Once
<1>11. ASSUME NEW i \in DOMAIN r PROVE Rooted(r, i)
  <2>1. CASE i \in DOMAIN traces
    BY <1>2, <1>3, <2>1, RootsStayMore DEF IdentityInv
  <2>2. CASE i \notin DOMAIN traces
    BY <1>4, <2>2 DEF Rooted
  <2> QED BY <2>1, <2>2
<1>12. \A i \in DOMAIN intents' : intents'[i][1] < seq'
  BY <1>1 DEF IdentityInv
<1> QED BY <1>1, <1>3, <1>6, <1>7, <1>8, <1>10, <1>11, <1>12 DEF IdentityInv

LEMMA ErrorEvents ==
    ASSUME NEW q \in Nat, NEW now \in Nat, NEW reason \in {"activation_error", "activation_timeout"},
           NEW failure \in Failures
    PROVE  error_trace(q, now, reason, failure) \in TraceEvents
           /\ error_trace(q, now, reason, failure).type = "ERROR"
<1>0. PICK c : c = new_context(q, now, 0, {}, 0, FALSE)
  OBVIOUS
<1>1. c \in Contexts /\ c.seq = q /\ c.now = now
  <2>1. <<>> \in Seq(TraceEvents) /\ <<>> \in Seq(Intents)
    OBVIOUS
  <2> QED BY <1>0, <2>1 DEF new_context, Contexts
<1>2. PICK a \in Attributes : a = [reason |-> reason, failure |-> failure]
  BY DEF Attributes
<1>3. SameScope(c, c) /\ "ERROR" \in Types
  BY DEF SameScope, Types
<1>5. PICK zero \in Nat : zero = 0
  OBVIOUS
<1>6. IsEvent(trace_event(c, "ERROR", zero, zero, a), c, "ERROR", zero, zero, a)
  BY <1>1, <1>3, EventOf
<1>4. IsEvent(trace_event(c, "ERROR", 0, 0, a), c, "ERROR", 0, 0, a)
  BY <1>5, <1>6
<1> QED BY <1>0, <1>2, <1>4 DEF error_trace, IsEvent

LEMMA FailurePositions ==
    ASSUME NEW c \in Contexts, NEW d \in Reached(c)
    PROVE  failure_context(d) \in Failures
<1>0. d \in Contexts /\ TracesUpTo(d.traces, c, d.step)
  BY ReachedAt
<1>1. /\ d.traces \in Seq(TraceEvents) /\ Len(d.traces) >= 1 /\ d.step \in Nat /\ d.calls \in Nat
      /\ d.intents \in Seq(Intents)
  BY <1>0 DEF TracesUpTo, Contexts
<1>2. PICK s \in Seq(TraceEvents) : s = d.traces /\ Len(s) \in Nat /\ Len(s) >= 1
  BY <1>1
<1>3. s[Len(s)] \in TraceEvents
  BY <1>2
<1>4. s[Len(s)].type \in Types
  BY <1>3 DEF TraceEvents
<1>5. PICK n \in Nat : n = Len(d.intents)
  <2>1. PICK t \in Seq(Intents) : t = d.intents
    BY <1>1
  <2>2. Len(t) \in Nat
    OBVIOUS
  <2> QED BY <2>1, <2>2
<1> QED BY <1>1, <1>2, <1>4, <1>5 DEF failure_context, Failures

LEMMA FailKeeps ==
    ASSUME IdentityInv, NEW c, Startable(c), NEW d \in Reached(c), NEW size \in Nat,
           NEW attempt \in Nat \ {0}, FailAttempt(c, size, attempt, d)
    PROVE  IdentityInv'
<1>1. c \in Contexts /\ c.seq \in Nat /\ c.now \in Nat /\ d \in Contexts
  BY ReachedAt DEF Startable, IsNew, Contexts
<1>2. traces \in Seq(TraceEvents) /\ attempts \in Seq(Histories)
  BY DEF IdentityInv, KeyTypes
<1>3. PICK e \in TraceEvents :
         e = error_trace(c.seq, c.now, "activation_error", failure_context(d)) /\ e.type = "ERROR"
  BY <1>1, FailurePositions, ErrorEvents
<1>4. /\ traces' = Append(traces, e) /\ UNCHANGED <<program, keyVars, intents>>
      /\ Attempted(c, size, attempt, "failed", d)
  BY <1>3 DEF FailAttempt
<1>5. attempts' \in Seq(Histories)
  BY <1>1, <1>2, <1>4, AttemptRecorded
<1> QED BY <1>4, <1>5, <1>3, ErrorStays

LEMMA TimeoutKeeps ==
    ASSUME IdentityInv, NEW c, Startable(c), NEW size \in Nat,
           NEW attempt \in Nat \ {0}, TimeoutAttempt(c, size, attempt)
    PROVE  IdentityInv'
<1>1. c \in Contexts /\ c.seq \in Nat /\ c.now \in Nat /\ <<>> \in Failures
  BY DEF Startable, IsNew, Contexts, Failures
<1>2. traces \in Seq(TraceEvents) /\ attempts \in Seq(Histories)
  BY DEF IdentityInv, KeyTypes
<1>3. PICK e \in TraceEvents :
         e = error_trace(c.seq, c.now, "activation_timeout", <<>>) /\ e.type = "ERROR"
  BY <1>1, ErrorEvents
<1>4. /\ traces' = Append(traces, e) /\ UNCHANGED <<program, keyVars, intents>>
      /\ Attempted(c, size, attempt, "timed out", c)
  BY <1>3 DEF TimeoutAttempt
<1>5. attempts' \in Seq(Histories)
  BY <1>1, <1>2, <1>4, AttemptRecorded
<1> QED BY <1>4, <1>5, <1>3, ErrorStays

LEMMA ScriptsKnown ==
    ASSUME KeyTypes, NEW attempt \in Nat \ {0}
    PROVE  Scripted(attempt) \in Scripts /\ Known(Scripted(attempt).ops)
<1>1. program \in Seq(Scripts) /\ program # <<>>
  BY DEF KeyTypes
<1>2. PICK n \in Nat : n = Len(program) /\ n # 0 /\ DOMAIN program = 1..n
  BY <1>1
<1>3. PICK m : m = (IF attempt <= n THEN attempt ELSE n) /\ m \in 1..n
  BY <1>2
<1>4. PICK s : s = program[m] /\ s \in Scripts
  BY <1>1, <1>2, <1>3
<1>5. PICK ops \in Seq(Operations) : ops = s.ops
  BY <1>4 DEF Scripts
<1>6. ASSUME NEW i \in 1..Len(ops), ops[i].do = "llm" PROVE ops[i].name \in Requests
  <2>1. PICK o : o = ops[i] /\ o \in Range(program[m].ops)
    <3>1. i \in DOMAIN ops
      BY <1>5
    <3> QED BY <1>4, <1>5, <3>1 DEF Range
  <2>2. PICK N : N = {op.name : op \in {x \in Range(program[m].ops) : x.do = "llm"}} /\ o.name \in N
    BY <1>6, <2>1
  <2>5. PICK U : U = {{op.name : op \in {x \in Range(program[j].ops) : x.do = "llm"}} : j \in DOMAIN program}
    OBVIOUS
  <2>3. N \in U
    BY <1>2, <1>3, <2>2, <2>5
  <2>4. Requests = (UNION U) \cup {"summary"}
    BY <2>5, Zenon DEF Requests
  <2> QED BY <2>1, <2>2, <2>3, <2>4
<1>7. Known(ops)
  BY <1>6 DEF Known
<1> QED BY <1>2, <1>3, <1>4, <1>5, <1>7 DEF Scripted

LEMMA ProvidersKnown ==
    ASSUME NEW p \in [Requests -> Responses \cup {Raises}]
    PROVE  p \in Providers
<1>1. Responses \cup {Raises} \in SUBSET Int
  BY ActivationAssumption DEF ActivationAssumption, Raises
<1> QED BY <1>1 DEF Providers

LEMMA AttemptKeeps ==
    ASSUME IdentityInv, NEW c, Startable(c), NEW size \in Nat,
           NEW attempt \in Nat \ {0}, RunAttempt(c, size, attempt)
    PROVE  IdentityInv'
<1>1. CASE TimeoutAttempt(c, size, attempt)
  BY <1>1, TimeoutKeeps
<1>2. ASSUME NEW p \in [Requests -> Responses \cup {Raises}], NEW d,
             d = run_activation(c, size, Scripted(attempt), TRUE, p),
             CommitAttempt(c, size, attempt, d) \/ FailAttempt(c, size, attempt, d)
      PROVE  IdentityInv'
  <2>1. IsNew(c) /\ KeyTypes
    BY DEF Startable, IdentityInv
  <2>2. p \in Providers
    BY ProvidersKnown
  <2>3. PICK script \in Scripts : script = Scripted(attempt) /\ Known(script.ops)
    BY <2>1, ScriptsKnown
  <2>4. PICK yes \in BOOLEAN : yes = TRUE
    OBVIOUS
  <2>5. d = run_activation(c, size, script, yes, p)
    BY <1>2, <2>3, <2>4
  <2>6. (d.status \in Ends => Finished(d, c)) /\ (d.status \notin Ends => d \in Reached(c))
    BY <2>1, <2>2, <2>3, <2>5, AttemptEnds
  <2>7. CASE CommitAttempt(c, size, attempt, d)
    <3>1. d.status \in Ends
      BY <2>7 DEF CommitAttempt, Ends
    <3> QED BY <2>6, <2>7, <3>1, CommitKeeps
  <2>8. CASE FailAttempt(c, size, attempt, d)
    <3>1. d.status \notin Ends
      BY <2>8 DEF FailAttempt, Ends
    <3> QED BY <2>6, <2>8, <3>1, FailKeeps
  <2> QED BY <1>2, <2>7, <2>8
<1>3. QED
  <2>1. \/ TimeoutAttempt(c, size, attempt)
        \/ \E p \in [Requests -> Responses \cup {Raises}] : \E d :
              /\ d = run_activation(c, size, Scripted(attempt), TRUE, p)
              /\ CommitAttempt(c, size, attempt, d) \/ FailAttempt(c, size, attempt, d)
    BY DEF RunAttempt
  <2> QED BY <1>1, <1>2, <2>1

LEMMA StartsBegin ==
    ASSUME IdentityInv, NEW c, c = new_context(seq, Clock, notes, llm_cache, 0, FALSE)
    PROVE  Startable(c)
<1>1. /\ seq \in Nat /\ notes \in Nat /\ llm_cache \in SUBSET Responded
      /\ intents \in Seq(Ids) /\ traces \in Seq(TraceEvents)
  BY DEF IdentityInv, KeyTypes
<1>2. PICK now \in Nat : now = Clock
  <2>1. attempts \in Seq(Histories)
    BY DEF IdentityInv, KeyTypes
  <2> QED BY <2>1, NextPlace DEF Clock
<1>3. PICK zero \in Nat, no \in BOOLEAN : zero = 0 /\ no = FALSE
  OBVIOUS
<1>4. c = new_context(seq, now, notes, llm_cache, zero, no)
  BY <1>2, <1>3
<1>5. IsNew(c) /\ c.seq = seq /\ c.entry = 0 /\ ~c.resume
  <2>1. <<>> \in Seq(TraceEvents) /\ <<>> \in Seq(Intents)
    OBVIOUS
  <2> QED BY <1>1, <1>3, <1>4, <2>1 DEF new_context, Contexts, IsNew
<1>6. \A i \in DOMAIN intents : intents[i][1] # seq
  <2>1. ASSUME NEW i \in DOMAIN intents PROVE intents[i][1] # seq
    <3>1. intents[i][1] < seq
      BY DEF IdentityInv
    <3>2. ~ (seq < seq)
      BY <1>1
    <3> QED BY <3>1, <3>2
  <2> QED BY <2>1
<1>7. \A i \in DOMAIN traces : Once(traces[i]) => traces[i].seq # seq
  <2>1. ASSUME NEW i \in DOMAIN traces, Once(traces[i]) PROVE traces[i].seq # seq
    <3>1. traces[i].seq < seq
      BY <2>1 DEF IdentityInv
    <3>2. ~ (seq < seq)
      BY <1>1
    <3> QED BY <3>1, <3>2
  <2> QED BY <2>1
<1>8. Before(seq, 0) /\ OpenedBefore(seq, 0)
  BY <1>6, <1>7 DEF Before, OpenedBefore, Once, Counted
<1>9. seq <= seq
  BY <1>1
<1> QED BY <1>5, <1>8, <1>9 DEF Startable

LEMMA ResumesBegin ==
    ASSUME IdentityInv, NEW k \in continuation, k.pending # {},
           NEW c, c = new_context(k.seq, Clock, notes, llm_cache, resume_entry(k), TRUE)
    PROVE  Startable(c)
<1>1. /\ seq \in Nat /\ notes \in Nat /\ llm_cache \in SUBSET Responded
      /\ traces \in Seq(TraceEvents) /\ k \in Continuations
  BY DEF IdentityInv, KeyTypes
<1>2. PICK now \in Nat : now = Clock
  <2>1. attempts \in Seq(Histories)
    BY DEF IdentityInv, KeyTypes
  <2> QED BY <2>1, NextPlace DEF Clock
<1>3. PICK q \in Nat, n \in Nat, yes \in BOOLEAN : q = k.seq /\ n = k.step /\ yes = TRUE
  BY <1>1 DEF Continuations
<1>4. c = new_context(q, now, notes, llm_cache, n, yes)
  BY <1>2, <1>3 DEF resume_entry
<1>5. IsNew(c) /\ c.seq = q /\ c.entry = n /\ c.resume
  <2>1. <<>> \in Seq(TraceEvents) /\ <<>> \in Seq(Intents)
    OBVIOUS
  <2> QED BY <1>1, <1>3, <1>4, <2>1 DEF new_context, Contexts, IsNew
<1>6. q < seq /\ Before(q, n) /\ OpenedBefore(q, n) /\ Opened(q)
  BY <1>3 DEF IdentityInv
<1>7. 0 < n
  <2>1. PICK j \in DOMAIN traces : traces[j].type = "ACTIVATION_START" /\ traces[j].span = <<q, "activation", 0>>
    BY <1>6 DEF Opened
  <2>2. traces[j].seq = q
    <3>1. Spanned(traces[j])
      BY <2>1 DEF IdentityInv, Once
    <3> QED BY <2>1, <3>1 DEF Spanned
  <2>3. traces[j].span[3] < n /\ traces[j].span[3] = 0
    BY <1>6, <2>1, <2>2 DEF OpenedBefore
  <2> QED BY <2>3
<1>8. q <= seq
  BY <1>1, <1>6
<1> QED BY <1>5, <1>6, <1>7, <1>8 DEF Startable

(* The one event and the one intent of an escalation.                        *)
LEMMA EscalationStages ==
    ASSUME IdentityInv, NEW k \in continuation,
           NEW c, c = new_context(k.seq, Clock, notes, {}, k.step, FALSE),
           NEW d, d = _stage_intent(c, "escalation", "APPROVAL")
    PROVE  /\ d.intents[1].id = <<k.seq, k.step>>
           /\ \E e \in TraceEvents : /\ d.traces = <<e>> /\ e.type = "INTENT_EMITTED" /\ e.seq = k.seq
                                     /\ e.span = <<k.seq, "INTENT_EMITTED", k.step>>
                                     /\ Escalation(e)
<1>1. notes \in Nat /\ k.seq \in Nat /\ k.step \in Nat
  BY DEF IdentityInv, KeyTypes, Continuations
<1>2. PICK now \in Nat : now = Clock
  <2>1. attempts \in Seq(Histories)
    BY DEF IdentityInv, KeyTypes
  <2> QED BY <2>1, NextPlace DEF Clock
<1>3. c \in Contexts /\ c.seq = k.seq /\ c.step = k.step /\ c.traces = <<>> /\ c.intents = <<>>
  <2>1. <<>> \in Seq(TraceEvents) /\ <<>> \in Seq(Intents)
    OBVIOUS
  <2> QED BY <1>1, <1>2, <2>1 DEF new_context, Contexts
<1>4. PICK id \in Ids : id = intent_id_for(c.seq, c.step) /\ id = <<k.seq, k.step>>
  BY <1>1, <1>3 DEF Ids, intent_id_for
<1>5. c.now \in Nat /\ SameScope(c, c)
  BY <1>3 DEF Contexts, SameScope
<1>6. PICK a \in Attributes : a = [id |-> id, name |-> "escalation", kind |-> "APPROVAL", created |-> c.now]
  <2>1. [id |-> id, name |-> "escalation", kind |-> "APPROVAL", created |-> c.now]
           \in [id : Ids, name : Labels, kind : {"TOOL", "APPROVAL"}, created : Nat]
    BY <1>5 DEF Labels
  <2> QED BY <2>1 DEF Attributes
<1>7. PICK e : e = trace_event(c, "INTENT_EMITTED", c.step, c.step, a)
  OBVIOUS
<1>8. "INTENT_EMITTED" \in Types /\ "INTENT_EMITTED" \notin {"ACTIVATION_START", "ACTIVATION_END"}
  BY DEF Types
<1>9. IsEvent(e, c, "INTENT_EMITTED", c.step, c.step, a)
  BY <1>1, <1>3, <1>5, <1>7, <1>8, EventOf
<1>10. /\ e \in TraceEvents /\ e.type = "INTENT_EMITTED" /\ e.seq = k.seq
       /\ e.span = <<k.seq, "INTENT_EMITTED", k.step>> /\ Escalation(e)
  <2>1. a.name = "escalation"
    BY <1>6
  <2> QED BY <1>3, <1>8, <1>9, <2>1 DEF IsEvent, Escalation
<1>11. PICK x : x = [id |-> id, name |-> "escalation", kind |-> "APPROVAL", created |-> c.now,
                     args |-> c.memory] /\ x.id = id
  <2>1. [id |-> id, name |-> "escalation", kind |-> "APPROVAL", created |-> c.now,
         args |-> c.memory].id = id
    OBVIOUS
  <2> QED BY <2>1
<1>12. d = [c EXCEPT !.step = @ + 1, !.intents = Append(<<>>, x), !.traces = Append(<<>>, e)]
  BY <1>3, <1>4, <1>6, <1>7, <1>11 DEF _stage_intent, staged_trace
<1>13. d.intents = Append(<<>>, x) /\ d.traces = Append(<<>>, e)
  BY <1>3, <1>12 DEF Contexts
<1>14. d.intents = <<x>> /\ d.traces = <<e>>
  <2>1. \A y : Append(<<>>, y) = <<y>>
    OBVIOUS
  <2> QED BY <1>13, <2>1
<1>15. d.intents[1].id = <<k.seq, k.step>>
  <2>1. PICK y : y = d.intents /\ y = <<x>>
    BY <1>14
  <2>5. \A z : <<z>>[1] = z
    OBVIOUS
  <2>2. y[1] = x
    BY <2>1, <2>5
  <2>3. d.intents[1] = x
    BY <2>1, <2>2
  <2>4. x.id = <<k.seq, k.step>>
    BY <1>4, <1>11
  <2> QED BY <2>3, <2>4
<1> QED BY <1>10, <1>14, <1>15

LEMMA EscalationKeeps ==
    ASSUME IdentityInv, EscalateSuspension
    PROVE  IdentityInv'
<1>1. PICK k, c, d :
         /\ k \in continuation
         /\ c = new_context(k.seq, Clock, notes, {}, k.step, FALSE)
         /\ d = _stage_intent(c, "escalation", "APPROVAL")
         /\ continuation' = {[k EXCEPT !.step = @ + 1, !.pending = @ \cup {d.intents[1].id}]}
         /\ traces' = traces \o d.traces
         /\ intents' = Append(intents, d.intents[1].id)
  BY DEF EscalateSuspension
<1>2. /\ program' = program /\ seq' = seq /\ notes' = notes /\ llm_cache' = llm_cache
      /\ attempts' = attempts
  BY DEF EscalateSuspension
<1>3. /\ d.intents[1].id = <<k.seq, k.step>>
      /\ \E e \in TraceEvents : /\ d.traces = <<e>> /\ e.type = "INTENT_EMITTED" /\ e.seq = k.seq
                                /\ e.span = <<k.seq, "INTENT_EMITTED", k.step>>
                                /\ Escalation(e)
  BY <1>1, EscalationStages
<1>4. PICK e \in TraceEvents : /\ d.traces = <<e>> /\ e.type = "INTENT_EMITTED" /\ e.seq = k.seq
                               /\ e.span = <<k.seq, "INTENT_EMITTED", k.step>> /\ Escalation(e)
  BY <1>3
<1>5. KeyTypes /\ traces \in Seq(TraceEvents) /\ intents \in Seq(Ids) /\ seq \in Nat
  BY DEF IdentityInv, KeyTypes
<1>6. PICK q \in Nat, n \in Nat, P \in SUBSET Ids, m \in Nat \ {0} :
         k = [seq |-> q, step |-> n, pending |-> P, attempt |-> m]
  BY <1>1, <1>5 DEF KeyTypes, Continuations
<1>7. /\ k.seq = q /\ k.step = n /\ q < seq /\ Before(q, n) /\ OpenedBefore(q, n + 1) /\ Opened(q)
  <2>1. k.seq = q /\ k.step = n
    BY <1>6
  <2> QED BY <1>1, <2>1 DEF IdentityInv
<1>8. PICK id \in Ids : id = <<q, n>>
  BY DEF Ids
<1>27. PICK l : l = [k EXCEPT !.step = @ + 1, !.pending = @ \cup {id}]
  OBVIOUS
<1>9. continuation' = {l} /\ l = [seq |-> q, step |-> n + 1, pending |-> P \cup {id}, attempt |-> m]
  <2>1. d.intents[1].id = id
    BY <1>3, <1>7, <1>8
  <2>2. continuation' = {l}
    BY <1>1, <1>27, <2>1
  <2> QED BY <1>6, <1>27, <2>2
<1>10. l \in Continuations /\ l.seq = q /\ l.step = n + 1
  BY <1>6, <1>8, <1>9 DEF Continuations
<1>11. PICK r, u : r = traces' /\ r = Append(traces, e) /\ u = intents' /\ u = Append(intents, id)
  <2>1. traces \o <<e>> = Append(traces, e)
    BY <1>5
  <2> QED BY <1>1, <1>3, <1>4, <1>7, <1>8, <2>1
<1>12. /\ r \in Seq(TraceEvents) /\ Len(traces) \in Nat
       /\ DOMAIN traces = 1..Len(traces) /\ DOMAIN r = 1..(Len(traces) + 1)
       /\ \A i \in 1..Len(traces) : r[i] = traces[i]
       /\ r[Len(traces) + 1] = e
  BY <1>5, <1>11, OneMore
<1>13. /\ u \in Seq(Ids) /\ Len(intents) \in Nat
       /\ DOMAIN intents = 1..Len(intents) /\ DOMAIN u = 1..(Len(intents) + 1)
       /\ \A i \in 1..Len(intents) : u[i] = intents[i]
       /\ u[Len(intents) + 1] = id
  BY <1>5, <1>11, OneMore
<1>14. KeyTypes'
  <2>1. continuation' \in SUBSET Continuations /\ \A x, y \in continuation' : x = y
    BY <1>9, <1>10
  <2> QED BY <1>2, <1>5, <1>11, <1>12, <1>13, <2>1 DEF KeyTypes
<1>15. \A i \in DOMAIN u : u[i][1] < seq
  <2>1. id[1] = q
    BY <1>8
  <2> QED BY <1>7, <1>13, <2>1 DEF IdentityInv
<1>16. Spanned(e) /\ e.span[1] = q /\ e.span[2] = "INTENT_EMITTED" /\ e.span[3] = n /\ e.seq = q
  BY <1>4, <1>7 DEF Spanned
<1>17. \A i \in DOMAIN r : Once(r[i]) => r[i].seq < seq /\ Spanned(r[i])
  BY <1>7, <1>12, <1>16 DEF IdentityInv
<1>18. Before(q, n + 1)'
  <2>1. ASSUME NEW i \in DOMAIN u, u[i][1] = q PROVE u[i][2] < n + 1
    <3>1. CASE i \in 1..Len(intents)
      <4>1. u[i] = intents[i] /\ u[i] \in Ids
        BY <1>13, <3>1
      <4>2. u[i][2] \in Nat
        BY <4>1 DEF Ids
      <4>3. u[i][2] < n
        BY <1>7, <1>13, <2>1, <3>1, <4>1 DEF Before
      <4> QED BY <4>2, <4>3
    <3>2. CASE i = Len(intents) + 1
      BY <1>8, <1>13, <3>2
    <3> QED BY <1>13, <3>1, <3>2
  <2>2. ASSUME NEW i \in DOMAIN r, Counted(r[i]), r[i].seq = q PROVE r[i].span[3] < n + 1
    <3>1. CASE i \in 1..Len(traces)
      <4>1. r[i] = traces[i] /\ r[i].span[3] \in Nat
        BY <1>12, <3>1, SpanIndices
      <4>2. r[i].span[3] < n
        BY <1>7, <1>12, <2>2, <3>1, <4>1 DEF Before
      <4> QED BY <4>1, <4>2
    <3>2. CASE i = Len(traces) + 1
      BY <1>12, <1>16, <3>2
    <3> QED BY <1>12, <3>1, <3>2
  <2> QED BY <1>11, <2>1, <2>2 DEF Before
<1>19. OpenedBefore(q, n + 1)' /\ OpenedBefore(q, n + 1 + 1)'
  <2>1. ASSUME NEW i \in DOMAIN r, r[i].type = "ACTIVATION_START", r[i].seq = q
        PROVE  r[i].span[3] < n + 1 /\ r[i].span[3] < n + 1 + 1
    <3>1. i \in DOMAIN traces /\ r[i] = traces[i] /\ r[i].span[3] \in Nat
      BY <1>4, <1>12, <2>1, SpanIndices
    <3>2. r[i].span[3] < n + 1
      BY <1>7, <2>1, <3>1 DEF OpenedBefore
    <3> QED BY <3>1, <3>2
  <2> QED BY <1>11, <2>1 DEF OpenedBefore
<1>20. Opened(q)'
  <2>1. PICK j \in DOMAIN traces : /\ traces[j].type = "ACTIVATION_START"
                                  /\ traces[j].span = <<q, "activation", 0>>
    BY <1>7 DEF Opened
  <2>2. j \in DOMAIN r /\ r[j] = traces[j]
    BY <1>12
  <2> QED BY <1>11, <2>1, <2>2 DEF Opened
<1>21. ASSUME NEW i \in DOMAIN intents PROVE intents[i] # id
  BY <1>7, <1>8 DEF Before
<1>22. StagedIdsUnique'
  <2>1. IsInjective(intents)
    BY DEF IdentityInv, StagedIdsUnique
  <2>2. ASSUME NEW i \in DOMAIN u, NEW j \in DOMAIN u, u[i] = u[j] PROVE i = j
    <3>1. CASE i \in 1..Len(intents) /\ j \in 1..Len(intents)
      BY <1>13, <2>1, <2>2, <3>1 DEF IsInjective
    <3>2. CASE i = Len(intents) + 1 \/ j = Len(intents) + 1
      BY <1>13, <1>21, <2>2, <3>2
    <3> QED BY <1>13, <3>1, <3>2
  <2> QED BY <1>11, <2>2 DEF StagedIdsUnique, IsInjective
<1>23. ASSUME NEW i \in DOMAIN traces, Once(traces[i]) PROVE traces[i].span # e.span
  <2>1. Spanned(traces[i]) /\ (Counted(traces[i]) /\ traces[i].seq = q => traces[i].span[3] < n)
    BY <1>7, <1>23 DEF IdentityInv, Before
  <2>2. SUFFICES ASSUME traces[i].span = e.span PROVE FALSE
    OBVIOUS
  <2>3. traces[i].seq = q /\ traces[i].type # "ACTIVATION_START" /\ traces[i].span[3] = n
    BY <1>16, <2>1, <2>2 DEF Spanned
  <2> QED BY <1>23, <2>1, <2>3 DEF Once, Counted
<1>24. SpansDistinct'
  <2>2. ASSUME NEW i \in DOMAIN r, NEW j \in DOMAIN r, Once(r[i]), Once(r[j]), r[i].span = r[j].span
        PROVE  i = j
    <3>1. CASE i \in 1..Len(traces) /\ j \in 1..Len(traces)
      BY <1>12, <2>2, <3>1 DEF IdentityInv, SpansDistinct, Once
    <3>2. CASE i = Len(traces) + 1 \/ j = Len(traces) + 1
      BY <1>12, <1>23, <2>2, <3>2
    <3> QED BY <1>12, <3>1, <3>2
  <2> QED BY <1>11, <2>2 DEF SpansDistinct, Once
<1>25. ASSUME NEW i \in DOMAIN r PROVE Rooted(r, i)
  <2>1. CASE i \in DOMAIN traces
    BY <1>5, <1>11, <2>1, RootsStayMore DEF IdentityInv
  <2>2. CASE i \notin DOMAIN traces
    <3>1. r[i] = e
      BY <1>12, <2>2
    <3> QED BY <1>4, <3>1 DEF Rooted
  <2> QED BY <2>1, <2>2
<1>26. ASSUME NEW x \in continuation'
       PROVE  /\ x.seq < seq' /\ Before(x.seq, x.step)' /\ OpenedBefore(x.seq, x.step + 1)'
              /\ x.pending # {} => OpenedBefore(x.seq, x.step)'
              /\ Opened(x.seq)'
  <2>1. x = l
    BY <1>9
  <2> QED BY <1>2, <1>7, <1>10, <1>18, <1>19, <1>20, <2>1
<1> QED BY <1>2, <1>11, <1>14, <1>15, <1>17, <1>22, <1>24, <1>25, <1>26 DEF IdentityInv

LEMMA EvictionKeeps ==
    ASSUME IdentityInv, NEW e, EvictResponse(e)
    PROVE  IdentityInv'
BY DEF IdentityInv, EvictResponse, KeyTypes, Before, OpenedBefore, Opened, StagedIdsUnique, SpansDistinct

LEMMA StutterKeeps ==
    ASSUME IdentityInv, UNCHANGED activationVars
    PROVE  IdentityInv'
BY DEF IdentityInv, activationVars, keyVars, KeyTypes, Before, OpenedBefore, Opened, StagedIdsUnique,
       SpansDistinct

LEMMA IdentityInit ==
    ASSUME ActivationInit
    PROVE  IdentityInv
<1>1. program \in Seq(Scripts) \ {<<>>}
  BY ActivationAssumption DEF ActivationInit, ActivationAssumption, Scripts, Ends
<1>2. <<>> \in Seq(TraceEvents) /\ <<>> \in Seq(Ids) /\ <<>> \in Seq(Histories)
  OBVIOUS
<1>3. KeyTypes
  BY <1>1, <1>2 DEF ActivationInit, KeyTypes
<1>4. DOMAIN intents = {} /\ DOMAIN traces = {} /\ continuation = {}
  BY DEF ActivationInit
<1>5. StagedIdsUnique /\ SpansDistinct
  BY <1>4 DEF StagedIdsUnique, SpansDistinct, IsInjective
<1> QED BY <1>3, <1>4, <1>5 DEF IdentityInv

LEMMA IdentityStep ==
    ASSUME IdentityInv, [ActivationNext]_activationVars
    PROVE  IdentityInv'
<1>1. ASSUME NEW size \in {0, 2}, StartAttempt(size) PROVE IdentityInv'
  <2>1. PICK c : /\ c = new_context(seq, Clock, notes, llm_cache, 0, FALSE)
                 /\ RunAttempt(c, size, 1)
    BY <1>1 DEF StartAttempt
  <2>2. Startable(c)
    BY <2>1, StartsBegin
  <2>3. PICK n \in Nat, one \in Nat \ {0} : n = size /\ one = 1
    OBVIOUS
  <2> QED BY <2>1, <2>2, <2>3, AttemptKeeps
<1>2. ASSUME ResumeAttempt PROVE IdentityInv'
  <2>1. PICK k, c :
           /\ k \in continuation
           /\ k.pending # {} /\ c = new_context(k.seq, Clock, notes, llm_cache, resume_entry(k), TRUE)
           /\ RunAttempt(c, 0, k.attempt)
    BY <1>2 DEF ResumeAttempt
  <2>2. Startable(c)
    BY <2>1, ResumesBegin
  <2>3. PICK n \in Nat, m \in Nat \ {0} : n = 0 /\ m = k.attempt
    BY <2>1 DEF IdentityInv, KeyTypes, Continuations
  <2> QED BY <2>1, <2>2, <2>3, AttemptKeeps
<1>3. CASE EscalateSuspension
  BY <1>3, EscalationKeeps
<1>4. ASSUME NEW e \in llm_cache, EvictResponse(e) PROVE IdentityInv'
  BY <1>4, EvictionKeeps
<1>5. CASE UNCHANGED activationVars
  BY <1>5, StutterKeeps
<1> QED BY <1>1, <1>2, <1>3, <1>4, <1>5 DEF ActivationNext

LEMMA IdentityHolds == IdentityInv => StagedIdsUnique /\ SpansDistinct /\ TraceIsRooted
BY DEF IdentityInv, TraceIsRooted, Rooted, Escalation

THEOREM EffectsAlwaysDistinct == ActivationSpec => [](StagedIdsUnique /\ SpansDistinct /\ TraceIsRooted)
<1>1. ActivationInit => IdentityInv
  BY IdentityInit
<1>2. IdentityInv /\ [ActivationNext]_activationVars => IdentityInv'
  BY IdentityStep
<1> QED BY <1>1, <1>2, IdentityHolds, PTL DEF ActivationSpec
=============================================================================
