------------------------------ MODULE Tracing ------------------------------
(* What follows from a request, over several Cores: by a call of one Core   *)
(* to another (telemetry's handlers of gRPC) or by an event (InsertWith,    *)
(* the relay, ContextWithEnvelope), with what goes along: the trace and, on *)
(* an event, the chain of causation. Not every Core exports its spans, not  *)
(* every relay has TraceColumns on, not every connection has a DialOption.  *)
(* Outbox and Reaction have the losses, retries and repetitions of events.  *)
EXTENDS Naturals, Sequences, FiniteSets, Functions

CONSTANTS
  Nodes,        \* the Cores
  Environment,  \* how the variables of OpenTelemetry may be set
  MaxDepth,     \* the bound passed to NextCausation
  NoTrace,      \* the context has no span
  Outer,        \* the trace of a request that already has one
  MaxWork       \* bound: requests, calls and reactions

ASSUME TracingAssumption ==
  /\ Environment \subseteq [disabled : BOOLEAN, endpoint : BOOLEAN, named : BOOLEAN]
  /\ MaxDepth \in Nat \ {0}
  /\ Outer \notin Nat /\ NoTrace \notin Nat /\ Outer # NoTrace

VARIABLES
  env,        \* the environment each Core was started in
  columns,    \* whether its relay has TraceColumns on
  works       \* what was done, each with its context and what it followed from

tracingVars == <<env, columns, works>>

-----------------------------------------------------------------------------
\* An endpoint is configured and the SDK not disabled.
Enabled(e) == e.endpoint /\ ~e.disabled

\* Mutant: a Core that does not export does not propagate either.
SetupQuietly(e) == [propagates |-> Enabled(e), exports |-> Enabled(e) /\ e.named]

\* Without a name of the service Setup fails, having installed the propagator.
Setup(e) == [propagates |-> TRUE, exports |-> Enabled(e) /\ e.named]

\* The span opened at node, in the trace it is given, or in one of its own.
Span(node, given) ==
  IF given # NoTrace THEN given
  ELSE IF Setup(env[node]).exports THEN Len(works) + 1 ELSE NoTrace

\* ServerOption: what came in the metadata of the call.
Extracted(node, traceparent) == IF Setup(env[node]).propagates THEN traceparent ELSE NoTrace

\* DialOption: what goes into them.
Injected(w, dialed) ==
  IF dialed /\ Setup(env[works[w].node]).propagates THEN works[w].trace ELSE NoTrace

Room == Len(works) < MaxWork

Do(work) == works' = Append(works, work) /\ UNCHANGED <<env, columns>>

\* A request of a person, with a traceparent or without.
RequestArrives(node, traceparent) ==
  /\ Room
  /\ Do([node |-> node, how |-> "request", from |-> 0, kept |-> FALSE,
         trace |-> Span(node, Extracted(node, traceparent)), chain |-> << >>])

\* An envelope is not sent along with a call.
CallOut(w, node, dialed) ==
  /\ Room /\ node # works[w].node
  /\ Do([node |-> node, how |-> "call", from |-> w, kept |-> dialed,
         trace |-> Span(node, Extracted(node, Injected(w, dialed))), chain |-> << >>])

\* Insert, or InsertWith the Traceparent of the context and the Causation the
\* handler acted under (CausationFrom, NextCausation), nil in a request.
RowOf(w, with) ==
  IF with THEN [trace |-> works[w].trace, chain |-> works[w].chain]
  ELSE [trace |-> NoTrace, chain |-> << >>]

\* What the relay publishes of it.
Envelope(w, with) == RowOf(w, with /\ columns[works[w].node])

\* NextCausation: node has not acted on this chain, and it is short enough.
NextCausation(node, chain) ==
  /\ node \notin Range(chain) /\ IsInjective(chain)
  /\ Len(chain) + 1 <= MaxDepth

\* An event that w wrote reaches node: ContextWithEnvelope, and the handler
\* acts, unless the guard forbids it.
React(w, with, node) ==
  LET envelope == Envelope(w, with)
  IN /\ Room /\ node # works[w].node
     /\ NextCausation(node, envelope.chain)
     /\ Do([node |-> node, how |-> "event", from |-> w,
            kept |-> with /\ columns[works[w].node],
            trace |-> Span(node, envelope.trace), chain |-> Append(envelope.chain, node)])

TracingInit ==
  /\ env \in [Nodes -> Environment] /\ columns \in [Nodes -> BOOLEAN]
  /\ works = << >>

TracingNext ==
  \/ \E node \in Nodes, traceparent \in {NoTrace, Outer} : RequestArrives(node, traceparent)
  \/ \E w \in DOMAIN works, node \in Nodes, aware \in BOOLEAN :
       CallOut(w, node, aware) \/ React(w, aware, node)

TracingSpec == TracingInit /\ [][TracingNext]_tracingVars

-----------------------------------------------------------------------------
\* What a piece of work goes back to, itself with it, when up says for each the
\* one before it, and 0 where the way ends.
WaysBack(up) ==
  LET back[i \in DOMAIN up] == {i} \cup IF up[i] = 0 THEN {} ELSE back[up[i]] IN back

\* Traced work that was handed its trace goes back to the work that handed it on.
HandedBy ==
  [i \in DOMAIN works |->
     IF works[i].kept /\ works[works[i].from].trace # NoTrace THEN works[i].from ELSE 0]

\* Two pieces of work are in one trace when the context went along from one
\* work to both, on every way, whoever exports; and in no other case.
TracesAreStories ==
  LET traced == {k \in DOMAIN works : works[k].trace # NoTrace}
      back == WaysBack(HandedBy)
  IN /\ \A i \in DOMAIN works : works[i].kept /\ works[i].from \in traced => i \in traced
     /\ \A i, j \in traced :
          works[i].trace = works[j].trace
            <=> back[i] \cap back[j] # {} \/ {works[i].trace, works[j].trace} = {Outer}

\* A reaction goes back to the work that wrote its event, if the chain was kept.
CausedBy ==
  [i \in DOMAIN works |-> IF works[i].how = "event" /\ works[i].kept THEN works[i].from ELSE 0]

\* Nobody reacts to its own doing, however long the detour, unless a relay
\* without the columns, an Insert, or a call lost the chain on the way.
LoopsEnd ==
  \A i \in DOMAIN works : \A j \in WaysBack(CausedBy)[i] \ {i} :
    works[i].how = "event" /\ works[j].how = "event" => works[i].node # works[j].node

\* The context follows the work (telemetry.go:70-75, meta.go:160-165, 85-93).
ContextFollows == TracesAreStories /\ LoopsEnd

AnyWork ==
  [node : Nodes, how : {"request", "call", "event"}, from : Nat, kept : BOOLEAN,
   trace : Nat \cup {NoTrace, Outer}, chain : Seq(Nodes)]

\* Work follows from work done before.
FollowsFromEarlier ==
  \A i \in DOMAIN works : works[i].kept \/ works[i].how = "event" => works[i].from \in 1 .. i - 1

\* What was handed on is the trace of all that goes back to it, and a trace of
\* the Core's own was opened by a work on the way.
TraceIsHandedOn ==
  \A i \in DOMAIN works :
    /\ WaysBack(HandedBy)[i] \subseteq DOMAIN works
    /\ HandedBy[i] # 0 => works[i].trace # NoTrace
    /\ works[i].trace # NoTrace =>
         /\ \A j \in WaysBack(HandedBy)[i] : works[j].trace = works[i].trace
         /\ works[i].trace \in {Outer} \cup WaysBack(HandedBy)[i]

\* The chain of a reaction names every Core whose event it goes back to.
ChainIsHandedOn ==
  \A i \in DOMAIN works :
    /\ WaysBack(CausedBy)[i] \subseteq DOMAIN works
    /\ \A j \in WaysBack(CausedBy)[i] :
         works[i].how = "event" /\ works[j].how = "event" =>
           /\ works[j].node \in Range(works[i].chain)
           /\ j # i => works[j].node # works[i].node

TracingInv ==
  /\ columns \in [Nodes -> BOOLEAN] /\ works \in Seq(AnyWork)
  /\ FollowsFromEarlier /\ TraceIsHandedOn /\ ChainIsHandedOn
=============================================================================
