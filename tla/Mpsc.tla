--------------------------------- MODULE Mpsc ---------------------------------
(***************************************************************************)
(* The intrusive queue of core/lib/mpsc.h: many producers, one consumer.   *)
(* A producer swings the tail to its node and only then links the node     *)
(* behind the previous tail; preempted in between, it leaves the chain cut.*)
(* The consumer owns head and keeps the stub node in the chain whenever it *)
(* would otherwise run out of nodes.                                       *)
(*                                                                         *)
(* A step is one access to a shared variable.  Producers are threads, ISRs *)
(* and the consumer itself (nx_dispatcher_enqueue is called from any       *)
(* context); their steps interleave freely.                                *)
(*                                                                         *)
(* queue and taken are history variables: the nodes in the order in which  *)
(* the tail was swung to them, and the node the last pop returned.         *)
(***************************************************************************)
EXTENDS Sequences, SequencesExt

CONSTANTS
    Producers,
    Nodes,      \* the nodes of messages
    Stub,       \* q->stub
    NULL

ASSUME MpscAssumption ==
    /\ Stub \notin Nodes /\ NULL \notin Nodes \cup {Stub}

Links == Nodes \cup {Stub}

VARIABLES
    next,       \* node->next
    tail,       \* q->tail
    head,       \* q->head
    ppc,        \* where a producer is
    node,       \* the node it pushes
    prev,       \* the tail it found
    cpc,        \* where the consumer is in nx_mpsc_pop
    stub_prev,  \* the tail it found when it pushed the stub
    queue,
    taken

prodVars == <<ppc, node, prev>>
vars == <<next, tail, head, prodVars, cpc, stub_prev, queue, taken>>

\* nx_mpsc_init
Init ==
    /\ next = [n \in Links |-> NULL]
    /\ tail = Stub /\ head = Stub
    /\ ppc = [p \in Producers |-> "idle"]
    /\ node = [p \in Producers |-> NULL]
    /\ prev = [p \in Producers |-> NULL]
    /\ cpc = "idle" /\ stub_prev = NULL
    /\ queue = <<>> /\ taken = NULL
-----------------------------------------------------------------------------
(* nx_mpsc_push, by a producer *)

\* A message is pushed by one producer at a time, and not while it is queued.
PushStart(p, n) ==
    /\ ppc[p] = "idle"
    /\ n \notin ToSet(queue)
    /\ \A q \in Producers : node[q] # n
    /\ next' = [next EXCEPT ![n] = NULL]
    /\ node' = [node EXCEPT ![p] = n]
    /\ ppc' = [ppc EXCEPT ![p] = "swing"]
    /\ UNCHANGED <<tail, head, prev, cpc, stub_prev, queue, taken>>

SwingByLoadAndStore(p) ==
    /\ ppc[p] = "swing"
    /\ IF prev[p] = NULL
       THEN /\ prev' = [prev EXCEPT ![p] = tail]
            /\ UNCHANGED <<tail, queue, ppc>>
       ELSE /\ tail' = node[p]
            /\ queue' = Append(queue, node[p])
            /\ ppc' = [ppc EXCEPT ![p] = "link"]
            /\ UNCHANGED prev
    /\ UNCHANGED <<next, head, node, cpc, stub_prev, taken>>

PushSwing(p) ==
    /\ ppc[p] = "swing"
    /\ prev' = [prev EXCEPT ![p] = tail]
    /\ tail' = node[p]
    /\ queue' = Append(queue, node[p])
    /\ ppc' = [ppc EXCEPT ![p] = "link"]
    /\ UNCHANGED <<next, head, node, cpc, stub_prev, taken>>

PushLink(p) ==
    /\ ppc[p] = "link"
    /\ next' = [next EXCEPT ![prev[p]] = node[p]]
    /\ ppc' = [ppc EXCEPT ![p] = "idle"]
    /\ node' = [node EXCEPT ![p] = NULL]
    /\ prev' = [prev EXCEPT ![p] = NULL]
    /\ UNCHANGED <<tail, head, cpc, stub_prev, queue, taken>>
-----------------------------------------------------------------------------
(* nx_mpsc_pop *)

\* Advance head to the node behind it and return the node it was at.
Return(n) ==
    /\ head' = n
    /\ taken' = head
    /\ queue' = Remove(queue, head)
    /\ cpc' = "idle"

\* First load of head->next.  At the stub: empty, or skip it.
PopFirst ==
    /\ cpc = "idle"
    /\ \/ head = Stub /\ next[Stub] # NULL
          /\ head' = next[Stub]
          /\ cpc' = "reload"
          /\ UNCHANGED <<queue, taken>>
       \/ head # Stub /\ next[head] # NULL
          /\ Return(next[head])
       \/ head # Stub /\ next[head] = NULL
          /\ cpc' = "tail"
          /\ UNCHANGED <<head, queue, taken>>
    /\ UNCHANGED <<next, tail, prodVars, stub_prev>>

\* Past the stub: load the new head's next.
PopReload ==
    /\ cpc = "reload"
    /\ IF next[head] # NULL
       THEN Return(next[head])
       ELSE cpc' = "tail" /\ UNCHANGED <<head, queue, taken>>
    /\ UNCHANGED <<next, tail, prodVars, stub_prev>>

PopTailUnchecked ==
    /\ cpc = "tail"
    /\ cpc' = "stub"
    /\ UNCHANGED <<next, tail, head, prodVars, stub_prev, queue, taken>>

\* Load the tail: a producer is between swing and link, or head is the last.
PopTail ==
    /\ cpc = "tail"
    /\ cpc' = IF head # tail THEN "idle" ELSE "stub"
    /\ UNCHANGED <<next, tail, head, prodVars, stub_prev, queue, taken>>

\* nx_mpsc_push(q, &q->stub), in its three steps.
StubStart ==
    /\ cpc = "stub"
    /\ next' = [next EXCEPT ![Stub] = NULL]
    /\ cpc' = "swing"
    /\ UNCHANGED <<tail, head, prodVars, stub_prev, queue, taken>>

StubSwing ==
    /\ cpc = "swing"
    /\ stub_prev' = tail
    /\ tail' = Stub
    /\ cpc' = "link"
    /\ UNCHANGED <<next, head, prodVars, queue, taken>>

StubLink ==
    /\ cpc = "link"
    /\ next' = [next EXCEPT ![stub_prev] = Stub]
    /\ stub_prev' = NULL
    /\ cpc' = "last"
    /\ UNCHANGED <<tail, head, prodVars, queue, taken>>

\* Load head->next once more.
PopLast ==
    /\ cpc = "last"
    /\ IF next[head] # NULL
       THEN Return(next[head])
       ELSE cpc' = "idle" /\ UNCHANGED <<head, queue, taken>>
    /\ UNCHANGED <<next, tail, prodVars, stub_prev>>
-----------------------------------------------------------------------------
ProducerStep(p) == PushSwing(p) \/ PushLink(p)

ConsumerStep == PopFirst \/ PopReload \/ PopTail \/ StubStart \/ StubSwing \/ StubLink \/ PopLast

Next ==
    \/ \E p \in Producers, n \in Nodes : PushStart(p, n)
    \/ \E p \in Producers : ProducerStep(p)
    \/ ConsumerStep

\* A producer in the middle of a push gets the CPU again; the dispatcher calls
\* pop again while g_disp_pending is not zero.
Spec ==
    /\ Init /\ [][Next]_vars
    /\ \A p \in Producers : WF_vars(ProducerStep(p))
    /\ WF_vars(ConsumerStep)
-----------------------------------------------------------------------------
\* The node that follows n in the chain, linked or about to be linked.
Succ(n) ==
    IF next[n] # NULL THEN {next[n]}
    ELSE {node[p] : p \in {q \in Producers : ppc[q] = "link" /\ prev[q] = n}}
         \cup (IF cpc = "link" /\ stub_prev = n THEN {Stub} ELSE {})

\* m is the next message behind n: directly, or behind the stub.
Follows(m, n) == Succ(n) = {m} \/ (Succ(n) = {Stub} /\ Succ(Stub) = {m})

\* The chain is never lost: from head, over links and the links producers still
\* owe, the queued messages are reached in order, and the last one or the stub
\* is the tail.  Nothing is unlinked, skipped or linked twice while pushes and
\* the pop overlap, the re-insertion of the stub included (mpsc.h).
ChainIntact ==
    /\ queue # <<>> => head = queue[1] \/ (head = Stub /\ Succ(Stub) = {queue[1]})
    /\ \A i \in 1..(Len(queue) - 1) : Follows(queue[i + 1], queue[i])
    /\ tail = Stub \/ (queue # <<>> /\ tail = queue[Len(queue)])
    /\ Succ(tail) = {}

F == INSTANCE Fifo WITH Items <- Nodes, None <- NULL

\* The queue implements the FIFO: messages are returned in the order in which
\* the tail was swung to them, each exactly once, and none is left behind
\* although a pop may return NULL in the middle of a push (mpsc.h).
RefinesFifo == F!Spec
=============================================================================
