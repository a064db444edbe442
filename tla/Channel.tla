------------------------------- MODULE Channel -------------------------------
(***************************************************************************)
(* Bidirectional channels (framework/channel.c), the objects behind pipes. *)
(* A channel is two endpoints allocated together.  Each endpoint counts    *)
(* the handles that refer to it, and owns the ring its peer sends into;    *)
(* of the ring only the number of messages is kept.  The operations are    *)
(* pure; Posix applies them and wakes the listeners.                       *)
(***************************************************************************)
EXTENDS Integers, FiniteSets

CONSTANTS
    Chans,       \* channel allocations the heap has room for
    RingLen      \* NX_CHANNEL_RING_LEN: a ring holds one message less

ASSUME ChannelAssumption == RingLen \in Nat \ {0, 1}

Ends == {"end"} \X Chans \X {0, 1}
Peer(e) == <<"end", e[2], 1 - e[3]>>

\* An endpoint before nx_channel_create (calloc) and after free().
NoEnd  == [live |-> FALSE, refs |-> 0, closed |-> FALSE, ring |-> 0]
NewEnd == [live |-> TRUE,  refs |-> 1, closed |-> FALSE, ring |-> 0]

\* nx_channel_create: each endpoint starts with the reference of the handle
\* its caller is about to allocate.
Create(ch, c) == [e \in Ends |-> IF e[2] = c THEN NewEnd ELSE ch[e]]

\* nx_channel_send appends to the peer's ring or returns NX_EBUSY.
CanSend(ch, e) ==
    ~ch[e].closed /\ ~ch[Peer(e)].closed /\ ch[Peer(e)].ring < RingLen - 1
Send(ch, e) == [ch EXCEPT ![Peer(e)].ring = @ + 1]

\* nx_channel_recv: the message at the head, end of file, or NX_EAGAIN.
HasData(ch, e) == ~ch[e].closed /\ ch[e].ring > 0
AtEof(ch, e)   == ~ch[e].closed /\ ch[e].ring = 0 /\ ch[Peer(e)].closed
WouldBlock(ch, e) == ~ch[e].closed /\ ch[e].ring = 0 /\ ~ch[Peer(e)].closed
Recv(ch, e) == [ch EXCEPT ![e].ring = @ - 1]

\* A message larger than the caller's buffer stays at the head (NX_ENOMEM).
RecvOutcomes(ch, e) == {Recv(ch, e), ch}

\* nx_channel_endpoint_retain, n[e] times on every endpoint.
RetainNot(ch, n) == ch
Retain(ch, n) == [e \in Ends |-> [ch[e] EXCEPT !.refs = @ + n[e]]]

\* nx_channel_endpoint_close, n[e] times on every endpoint: the call that
\* takes a count from one to zero closes the endpoint, and frees the channel
\* when the peer's count is zero too.
LastClosed(ch, n) == {e \in Ends : n[e] > 0 /\ ch[e].refs = n[e]}
Close(ch, n) ==
    LET left(e) == ch[e].refs - n[e]
        freed(e) == /\ LastClosed(ch, n) \cap {e, Peer(e)} # {}
                    /\ left(e) = 0 /\ left(Peer(e)) = 0
    IN [e \in Ends |->
          IF freed(e) THEN NoEnd
          ELSE [ch[e] EXCEPT !.refs = left(e), !.closed = @ \/ e \in LastClosed(ch, n)]]

\* The endpoints whose listeners that wakes: the one that closed and its peer.
CloseWakesSelf(ch, n) == LastClosed(ch, n)
CloseWakes(ch, n) == UNION {{e, Peer(e)} : e \in LastClosed(ch, n)}

\* nx_channel_endpoint_readiness; POLLHUP is reported whatever was asked for.
Readiness(ch, e, want) ==
    {w \in want \cup {"HUP"} :
        \/ w = "IN"  /\ (ch[e].ring > 0 \/ ch[Peer(e)].closed)
        \/ w = "OUT" /\ CanSend(ch, e)
        \/ w = "HUP" /\ ch[Peer(e)].closed}
=============================================================================
