---------------------------- MODULE WebsocketHub ----------------------------
(***************************************************************************)
(* adapters/websocket.Hub: the request goroutine of each connection        *)
(* accepts, registers, reads until an error, closes and unregisters, with  *)
(* a writer goroutine beside it; application goroutines join and leave     *)
(* channels, send and broadcast, and someone closes the hub.  Join and     *)
(* Leave change the connection's own set and the hub's table under two     *)
(* mutexes, one after the other.                                           *)
(***************************************************************************)
EXTENDS Integers, FiniteSets

CONSTANTS
    Conns, Channels,
    Procs,          \* application goroutines
    Outbox,         \* WithOutbox
    MaxOps          \* bound: calls of application goroutines

VARIABLES
    hubClosed,  \* Hub.closed; conns and channels are nil
    conns,      \* Hub.conns
    table,      \* Hub.channels
    mine,       \* mine[c]: Connection.channels
    stage,      \* the request goroutine: "new", "accepted", "reading", "ending", "gone" or "refused"
    doneCloses, \* doneCloses[c]: how often done was closed; the second time panics
    onceDone,   \* connections whose once has run
    outbox,     \* frames waiting in c.outbox
    lost,       \* Connection.dropped
    wrt,        \* the writer: "off", "run" or "exit"
    op,         \* op[p]: the call of p, and its second half
    toClose,    \* connections Hub.Close has still to close
    ops,
    late,       \* history: connections registered after Close
    crossed     \* history: <<c, ch>> joined or left while another call about it, or unregister, ran

wsVars == <<hubClosed, conns, table, mine, stage, doneCloses, onceDone, outbox, lost, wrt, op, toClose, ops, late, crossed>>
NoOp == [kind |-> "none", conn |-> "none", ch |-> "none", left |-> {}]

Init ==
    /\ hubClosed = FALSE /\ conns = {} /\ table = [ch \in Channels |-> {}] /\ mine = [c \in Conns |-> {}]
    /\ stage = [c \in Conns |-> "new"] /\ doneCloses = [c \in Conns |-> 0] /\ onceDone = {}
    /\ outbox = [c \in Conns |-> 0] /\ lost = [c \in Conns |-> 0] /\ wrt = [c \in Conns |-> "off"]
    /\ op = [p \in Procs |-> NoOp] /\ toClose = {} /\ ops = 0 /\ late = {} /\ crossed = {}

-----------------------------------------------------------------------------
\* Handler: closed is read, then the handshake is accepted.
Handler(c) ==
    /\ stage[c] = "new"
    /\ stage' = [stage EXCEPT ![c] = IF hubClosed THEN "refused" ELSE "accepted"]
    /\ UNCHANGED <<hubClosed, conns, table, mine, doneCloses, onceDone, outbox, lost, wrt, op, toClose, ops, late, crossed>>

\* register, and the start of run: on a hub closed meanwhile the socket is closed
\* and done with it, outside once.
register(c) ==
    /\ stage[c] = "accepted"
    /\ IF hubClosed
       THEN doneCloses' = [doneCloses EXCEPT ![c] = 1] /\ late' = late \cup {c} /\ UNCHANGED conns
       ELSE conns' = conns \cup {c} /\ UNCHANGED <<doneCloses, late>>
    /\ stage' = [stage EXCEPT ![c] = "reading"]
    /\ wrt' = [wrt EXCEPT ![c] = "run"]
    /\ UNCHANGED <<hubClosed, table, mine, onceDone, outbox, lost, op, toClose, ops, crossed>>

\* close: once guards close(done) and the socket.
closing(c) ==
    /\ onceDone' = onceDone \cup {c}
    /\ doneCloses' = [doneCloses EXCEPT ![c] = IF c \in onceDone THEN @ ELSE @ + 1]

\* Read fails, or onMessage returns an error: run returns and its defer closes.
runEnds(c) ==
    /\ stage[c] = "reading"
    /\ closing(c)
    /\ stage' = [stage EXCEPT ![c] = "ending"]
    /\ UNCHANGED <<hubClosed, conns, table, mine, outbox, lost, wrt, op, toClose, ops, late, crossed>>

Inside(c, ch) == {p \in Procs : op[p].kind \in {"join", "leave"} /\ op[p].conn = c /\ op[p].ch = ch}
withoutConn_kept(c) == table
withoutConn(c) == [ch \in Channels |-> IF ch \in mine[c] THEN table[ch] \ {c} ELSE table[ch]]
unregister(c) ==
    /\ stage[c] = "ending"
    /\ conns' = conns \ {c} /\ table' = withoutConn(c)
    /\ crossed' = crossed \cup {<<c, ch>> : ch \in {x \in Channels : Inside(c, x) # {}}}
    /\ stage' = [stage EXCEPT ![c] = "gone"]
    /\ UNCHANGED <<hubClosed, mine, doneCloses, onceDone, outbox, lost, wrt, op, toClose, ops, late>>

\* The writer: done is closed, a frame is written or fails, or a ping fails.
writerExits(c) ==
    /\ wrt[c] = "run"
    /\ wrt' = [wrt EXCEPT ![c] = "exit"]
    /\ outbox' = [outbox EXCEPT ![c] = IF @ > 0 /\ doneCloses[c] = 0 THEN @ - 1 ELSE @]
    /\ UNCHANGED <<hubClosed, conns, table, mine, stage, doneCloses, onceDone, lost, op, toClose, ops, late, crossed>>
write(c) ==
    /\ wrt[c] = "run" /\ outbox[c] > 0
    /\ outbox' = [outbox EXCEPT ![c] = @ - 1]
    /\ UNCHANGED <<hubClosed, conns, table, mine, stage, doneCloses, onceDone, lost, wrt, op, toClose, ops, late, crossed>>

-----------------------------------------------------------------------------
\* An application goroutine that holds the connection calls one of its methods.
Holds(c) == stage[c] \notin {"new", "accepted", "refused"}
Begin(p) == op[p] = NoOp /\ ops < MaxOps /\ ops' = ops + 1

\* Join and Leave under the connection's mutex ...
JoinMine(p, c, ch) ==
    /\ Begin(p) /\ Holds(c)
    /\ mine' = [mine EXCEPT ![c] = @ \cup {ch}]
    /\ op' = [op EXCEPT ![p] = [kind |-> "join", conn |-> c, ch |-> ch, left |-> {}]]
    /\ crossed' = IF Inside(c, ch) # {} \/ stage[c] = "gone" THEN crossed \cup {<<c, ch>>} ELSE crossed
    /\ UNCHANGED <<hubClosed, conns, table, stage, doneCloses, onceDone, outbox, lost, wrt, toClose, late>>
LeaveMine(p, c, ch) ==
    /\ Begin(p) /\ Holds(c)
    /\ mine' = [mine EXCEPT ![c] = @ \ {ch}]
    /\ op' = [op EXCEPT ![p] = [kind |-> "leave", conn |-> c, ch |-> ch, left |-> {}]]
    /\ crossed' = IF Inside(c, ch) # {} THEN crossed \cup {<<c, ch>>} ELSE crossed
    /\ UNCHANGED <<hubClosed, conns, table, stage, doneCloses, onceDone, outbox, lost, wrt, toClose, late>>

\* ... and under the hub's, whose table is nil once it is closed.
JoinHub(p) ==
    /\ op[p].kind = "join"
    /\ table' = IF hubClosed THEN table ELSE [table EXCEPT ![op[p].ch] = @ \cup {op[p].conn}]
    /\ op' = [op EXCEPT ![p] = NoOp]
    /\ UNCHANGED <<hubClosed, conns, mine, stage, doneCloses, onceDone, outbox, lost, wrt, toClose, ops, late, crossed>>
LeaveHub(p) ==
    /\ op[p].kind = "leave"
    /\ table' = [table EXCEPT ![op[p].ch] = @ \ {op[p].conn}]
    /\ op' = [op EXCEPT ![p] = NoOp]
    /\ UNCHANGED <<hubClosed, conns, mine, stage, doneCloses, onceDone, outbox, lost, wrt, toClose, ops, late, crossed>>

\* Broadcast copies the members; SendTo and Send address one connection.
Broadcast(p, ch) ==
    /\ Begin(p) /\ ~hubClosed
    /\ op' = [op EXCEPT ![p] = [kind |-> "send", conn |-> "none", ch |-> ch, left |-> table[ch]]]
    /\ UNCHANGED <<hubClosed, conns, table, mine, stage, doneCloses, onceDone, outbox, lost, wrt, toClose, late, crossed>>
SendTo(p, c) ==
    /\ Begin(p) /\ c \in conns
    /\ op' = [op EXCEPT ![p] = [kind |-> "send", conn |-> c, ch |-> "none", left |-> {c}]]
    /\ UNCHANGED <<hubClosed, conns, table, mine, stage, doneCloses, onceDone, outbox, lost, wrt, toClose, late, crossed>>
hasRoom(n) == n < Outbox
enqueue(p, c) ==
    /\ op[p].kind = "send" /\ c \in op[p].left
    /\ IF hasRoom(outbox[c]) THEN outbox' = [outbox EXCEPT ![c] = @ + 1] /\ UNCHANGED lost
       ELSE lost' = [lost EXCEPT ![c] = @ + 1] /\ UNCHANGED outbox
    /\ op' = [op EXCEPT ![p].left = @ \ {c}]
    /\ UNCHANGED <<hubClosed, conns, table, mine, stage, doneCloses, onceDone, wrt, toClose, ops, late, crossed>>
sent(p) ==
    /\ op[p].kind = "send" /\ op[p].left = {}
    /\ op' = [op EXCEPT ![p] = NoOp]
    /\ UNCHANGED <<hubClosed, conns, table, mine, stage, doneCloses, onceDone, outbox, lost, wrt, toClose, ops, late, crossed>>

CloseConn(p, c) ==
    /\ Begin(p) /\ Holds(c)
    /\ closing(c)
    /\ UNCHANGED <<hubClosed, conns, table, mine, stage, outbox, lost, wrt, op, toClose, late, crossed>>

\* Hub.Close takes the tables away, then closes what was registered.
Close ==
    /\ ~hubClosed
    /\ hubClosed' = TRUE /\ toClose' = conns /\ conns' = {} /\ table' = [ch \in Channels |-> {}]
    /\ UNCHANGED <<mine, stage, doneCloses, onceDone, outbox, lost, wrt, op, ops, late, crossed>>
closeNext(c) ==
    /\ c \in toClose
    /\ toClose' = toClose \ {c}
    /\ closing(c)
    /\ UNCHANGED <<hubClosed, conns, table, mine, stage, outbox, lost, wrt, op, ops, late, crossed>>

Next ==
    \/ Close
    \/ \E c \in Conns : Handler(c) \/ register(c) \/ runEnds(c) \/ unregister(c) \/ writerExits(c) \/ write(c) \/ closeNext(c)
    \/ \E p \in Procs :
          \/ JoinHub(p) \/ LeaveHub(p) \/ sent(p)
          \/ \E c \in Conns : SendTo(p, c) \/ enqueue(p, c) \/ CloseConn(p, c)
                              \/ \E ch \in Channels : JoinMine(p, c, ch) \/ LeaveMine(p, c, ch)
          \/ \E ch \in Channels : Broadcast(p, ch)

-----------------------------------------------------------------------------
\* However the peer, the application and Hub.Close close a connection at once, done
\* is closed once.  Only a connection that was being accepted while the hub closed
\* has it closed again, by the defer of run, which panics.
DoneClosedOnce == \A c \in Conns : doneCloses[c] > 1 => c \in late

\* A connection that is gone is in no channel, unless a Join or Leave of the same
\* channel overlapped with another one or with the end of the connection.
NoGhostMembers == \A c \in Conns, ch \in Channels : stage[c] = "gone" /\ c \in table[ch] => <<c, ch>> \in crossed
-----------------------------------------------------------------------------
(* The inductive invariants of the properties above (InnerServicesProofs). *)
Ops == [kind : {"none", "join", "leave", "send"}, conn : Conns \cup {"none"}, ch : Channels \cup {"none"}, left : SUBSET Conns]
TypeOK ==
    /\ conns \subseteq Conns /\ table \in [Channels -> SUBSET Conns] /\ mine \in [Conns -> SUBSET Channels]
    /\ stage \in [Conns -> {"new", "accepted", "reading", "ending", "gone", "refused"}]
    /\ doneCloses \in [Conns -> Nat] /\ op \in [Procs -> Ops]
    /\ \A p \in Procs : op[p].kind \in {"join", "leave"} => op[p].conn \in Conns /\ op[p].ch \in Channels
\* done is closed when once runs and not otherwise, but for a late connection.
ClosedByOnce == \A c \in Conns : c \notin late => doneCloses[c] = IF c \in onceDone THEN 1 ELSE 0
\* A membership that no two calls crossed on: the two halves of the table agree but for the
\* one call that is between them, and no Join is under way when the connection is gone.
Tidy(c, ch) ==
    /\ \A p, q \in Inside(c, ch) : p = q
    /\ \A p \in Inside(c, ch) : op[p].kind = "join" => ch \in mine[c] /\ stage[c] # "gone"
    /\ c \in table[ch] => ch \in mine[c] \/ \E p \in Inside(c, ch) : op[p].kind = "leave"
    /\ stage[c] = "gone" => c \notin table[ch]
Inv == TypeOK /\ ClosedByOnce /\ \A c \in Conns, ch \in Channels : <<c, ch>> \notin crossed => Tidy(c, ch)
=============================================================================
