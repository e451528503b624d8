-------------------------------- MODULE Hub ---------------------------------
(***************************************************************************)
(* realtime.Hub and realtime.Client: clients join and leave channels, get  *)
(* presence and broadcast frames through bounded outboxes, and are torn    *)
(* down by whoever notices first that they are gone.                       *)
(*                                                                         *)
(* A critical section of Hub.mu is a step.  What an operation does after   *)
(* it has released the mutex (frames to a snapshot of the members, then    *)
(* the OnPresence hook) is a post, carried out by its goroutine frame by   *)
(* frame while other goroutines move on.  An outbox is the number of the   *)
(* frames in it; Drops, a statistic, is left out.                          *)
(***************************************************************************)
EXTENDS Integers, FiniteSets

CONSTANTS
    Clients,        \* connections, each handed to Add once
    Channels, PresenceChannels,
    Procs,          \* application goroutines
    OutboxSize,     \* WithOutbox
    Disconnect,     \* WithSlowConsumerPolicy(DisconnectClient)
    MaxCalls,       \* bound: calls of Subscribe, Broadcast and SendTo
    None

ASSUME HubAssumption ==
    /\ IsFiniteSet(Clients) /\ PresenceChannels \subseteq Channels
    /\ OutboxSize \in Nat \ {0} /\ Disconnect \in BOOLEAN
    /\ MaxCalls \in Nat
    /\ None \notin Clients /\ Procs \cap Clients = {}

VARIABLES
    closed,         \* Hub.closed
    clients,        \* Hub.clients
    members,        \* Hub.channels: the members of each channel, {} when it is not in the map
    roster,         \* who is in each presence channel's roster
    joined,         \* Client.channels
    stage,          \* each client's progress from Add to the end of Close
    leaves,         \* leave notifications each client's Close has still to start
    writer,         \* writeLoop: in its select, in WriteMessage or returned
    outbox,         \* Client.outbox: how many frames it holds
    calls,          \* Subscribe calls that have been authorized and wait for the lock
    posts,          \* notifications under way
    hook,           \* joins less leaves the OnPresence hook has seen
    toClose,        \* clients Hub.Close has still to close
    made            \* calls made so far

hub == <<closed, clients, members, roster, joined>>
conn == <<writer, outbox>>
vars == <<hub, stage, leaves, conn, calls, posts, hook, toClose, made>>

-----------------------------------------------------------------------------
Stages == {"absent", "open", "triggered", "closing", "removed", "closed"}

\* close(c.done) has happened.
Done(c) == stage[c] \in {"closing", "removed", "closed"}

Busy(p) == \E n \in posts : n.by = p
Free(p) == calls[p] = None /\ ~Busy(p)

\* A post: frames for the clients in to, then the hook for a join or a leave.
Post(by, kind, ch, who, to) == [by |-> by, kind |-> kind, ch |-> ch, who |-> who, to |-> to]

Init ==
    /\ closed = FALSE /\ clients = {}
    /\ members = [ch \in Channels |-> {}] /\ roster = [ch \in Channels |-> {}]
    /\ joined = [c \in Clients |-> {}]
    /\ stage = [c \in Clients |-> "absent"]
    /\ leaves = [c \in Clients |-> {}]
    /\ writer = [c \in Clients |-> "select"] /\ outbox = [c \in Clients |-> 0]
    /\ calls = [p \in Procs |-> None]
    /\ posts = {} /\ toClose = {}
    /\ hook = [ch \in Channels |-> [c \in Clients |-> 0]]
    /\ made = 0

-----------------------------------------------------------------------------
(* Operations of the hub.                                                  *)

Add(c) ==
    /\ stage[c] = "absent" /\ ~closed
    /\ clients' = clients \cup {c}
    /\ stage' = [stage EXCEPT ![c] = "open"]
    /\ UNCHANGED <<closed, members, roster, joined, leaves, conn, calls, posts, hook, toClose, made>>

\* subscribe as far as the lock: the authorizer runs outside it.  A denied
\* call changes nothing.
Subscribe(p, c, ch) ==
    /\ Free(p) /\ stage[c] # "absent" /\ made < MaxCalls
    /\ calls' = [calls EXCEPT ![p] = [c |-> c, ch |-> ch]]
    /\ made' = made + 1
    /\ UNCHANGED <<hub, stage, leaves, conn, posts, hook, toClose>>

\* Both sides of a membership.
join_oneSided(c, ch) ==
    /\ members' = [members EXCEPT ![ch] = @ \cup {c}]
    /\ UNCHANGED joined
join(c, ch) ==
    /\ members' = [members EXCEPT ![ch] = @ \cup {c}]
    /\ joined' = [joined EXCEPT ![c] = @ \cup {ch}]

\* The locked part of subscribe.
subscribe(p) ==
    /\ calls[p] # None
    /\ LET c == calls[p].c  ch == calls[p].ch
       IN IF closed \/ c \in members[ch]
          THEN UNCHANGED <<members, roster, joined, posts>>
          ELSE /\ join(c, ch)
               /\ IF ch \in PresenceChannels
                  THEN /\ roster' = [roster EXCEPT ![ch] = @ \cup {c}]
                       /\ posts' = posts \cup {Post(p, "roster", ch, c, members[ch] \cup {c})}
                  ELSE UNCHANGED <<roster, posts>>
    /\ calls' = [calls EXCEPT ![p] = None]
    /\ UNCHANGED <<closed, clients, stage, leaves, conn, hook, toClose, made>>

Unsubscribe(p, c, ch) ==
    /\ Free(p) /\ c \in members[ch]
    /\ members' = [members EXCEPT ![ch] = @ \ {c}]
    /\ joined' = [joined EXCEPT ![c] = @ \ {ch}]
    /\ IF ch \in PresenceChannels
       THEN /\ roster' = [roster EXCEPT ![ch] = @ \ {c}]
            /\ posts' = posts \cup {Post(p, "leave", ch, c, members[ch] \ {c})}
       ELSE UNCHANGED <<roster, posts>>
    /\ UNCHANGED <<closed, clients, stage, leaves, conn, calls, hook, toClose, made>>

\* broadcast, for a snapshot of the members; except is None for all of them.
broadcast(p, ch, except) ==
    /\ Free(p) /\ ~closed /\ members[ch] # {} /\ made < MaxCalls
    /\ posts' = posts \cup {Post(p, "frame", ch, None, members[ch] \ {except})}
    /\ made' = made + 1
    /\ UNCHANGED <<hub, stage, leaves, conn, calls, hook, toClose>>

SendTo(p, c) ==
    /\ Free(p) /\ c \in clients /\ made < MaxCalls
    /\ posts' = posts \cup {Post(p, "frame", None, None, {c})}
    /\ made' = made + 1
    /\ UNCHANGED <<hub, stage, leaves, conn, calls, hook, toClose>>

\* Hub.Close empties both tables first and then closes one client after another.
Close ==
    /\ ~closed
    /\ closed' = TRUE /\ clients' = {}
    /\ members' = [ch \in Channels |-> {}] /\ roster' = [ch \in Channels |-> {}]
    /\ toClose' = clients
    /\ UNCHANGED <<joined, stage, leaves, conn, calls, posts, hook, made>>

-----------------------------------------------------------------------------
(* Delivery.                                                               *)

\* triggerClose starts a goroutine that closes the client, once.
triggered(c) == [stage EXCEPT ![c] = IF @ = "open" THEN "triggered" ELSE @]

hasRoom(c) == outbox[c] < OutboxSize

\* enqueueMsg for one client: queue the frame, or let the slow consumer policy
\* cost the client the frame or the connection.  The client may be closed
\* between the check of done and the select, whose choice is then free.
enqueueMsg(c) ==
    /\ \/ Done(c) /\ UNCHANGED <<outbox, stage>>
       \/ /\ hasRoom(c)
          /\ outbox' = [outbox EXCEPT ![c] = @ + 1]
          /\ UNCHANGED stage
       \/ /\ ~hasRoom(c) /\ ~Done(c)
          /\ stage' = IF Disconnect THEN triggered(c) ELSE stage
          /\ UNCHANGED outbox
    /\ UNCHANGED writer

\* The roster goes to the newcomer before the join is announced.
PostRoster(n) ==
    /\ n.kind = "roster"
    /\ enqueueMsg(n.who)
    /\ posts' = (posts \ {n}) \cup {[n EXCEPT !.kind = "join"]}
    /\ UNCHANGED <<hub, leaves, calls, hook, toClose, made>>

PostFrame(n, c) ==
    /\ n.kind # "roster" /\ c \in n.to
    /\ enqueueMsg(c)
    /\ posts' = (posts \ {n}) \cup {[n EXCEPT !.to = @ \ {c}]}
    /\ UNCHANGED <<hub, leaves, calls, hook, toClose, made>>

\* All frames are out: the OnPresence hook, and the operation returns.
Delta(n) == CASE n.kind = "join" -> 1 [] n.kind = "leave" -> -1 [] OTHER -> 0
PostEnd(n) ==
    /\ n.kind # "roster" /\ n.to = {}
    /\ posts' = posts \ {n}
    /\ hook' = IF Delta(n) = 0 THEN hook ELSE [hook EXCEPT ![n.ch][n.who] = @ + Delta(n)]
    /\ UNCHANGED <<hub, stage, leaves, conn, calls, toClose, made>>

-----------------------------------------------------------------------------
(* The client's own goroutines.                                            *)

\* writeLoop takes a frame, whether or not done is closed as well ...
WriteTake(c) ==
    /\ stage[c] # "absent" /\ writer[c] = "select" /\ outbox[c] > 0
    /\ writer' = [writer EXCEPT ![c] = "write"]
    /\ outbox' = [outbox EXCEPT ![c] = @ - 1]
    /\ UNCHANGED <<hub, stage, leaves, calls, posts, hook, toClose, made>>

\* ... and writes it.
WriteDone(c) ==
    /\ writer[c] = "write" /\ stage[c] # "closed"
    /\ writer' = [writer EXCEPT ![c] = "select"]
    /\ UNCHANGED <<hub, stage, leaves, outbox, calls, posts, hook, toClose, made>>

\* A write error, at the latest when Close has closed the connection.
WriteFails(c) ==
    /\ writer[c] = "write"
    /\ writer' = [writer EXCEPT ![c] = "exit"]
    /\ stage' = triggered(c)
    /\ UNCHANGED <<hub, leaves, outbox, calls, posts, hook, toClose, made>>

\* writeLoop sees done.
WriterExit_never(c) == FALSE /\ UNCHANGED vars
WriterExit(c) ==
    /\ writer[c] = "select" /\ Done(c)
    /\ writer' = [writer EXCEPT ![c] = "exit"]
    /\ UNCHANGED <<hub, stage, leaves, outbox, calls, posts, hook, toClose, made>>

\* Client.Close is called by the application, by Serve when a read fails, by
\* the goroutine triggerClose started or by Hub.Close; the first one runs it.
CloseDone(c) ==
    /\ stage[c] \in {"open", "triggered"}
    /\ stage' = [stage EXCEPT ![c] = "closing"]
    /\ UNCHANGED <<hub, leaves, conn, calls, posts, hook, toClose, made>>

\* The channels that remove takes the client out of.
leftBy(c) == {ch \in joined[c] : members[ch] # {}}

\* The leaves that remove announces, each to a snapshot of those who stay.
leavesOf_none(c) == {}
leavesOf(c) == {Post(c, "leave", ch, c, members[ch] \ {c}) : ch \in leftBy(c) \cap PresenceChannels}

\* Hub.remove, the locked part.
remove(c) ==
    /\ stage[c] = "closing"
    /\ clients' = clients \ {c}
    /\ joined' = [joined EXCEPT ![c] = {}]
    /\ members' = [ch \in Channels |-> IF ch \in leftBy(c) THEN members[ch] \ {c} ELSE members[ch]]
    /\ roster' = [ch \in Channels |-> IF ch \in leftBy(c) THEN roster[ch] \ {c} ELSE roster[ch]]
    /\ leaves' = [leaves EXCEPT ![c] = leavesOf(c)]
    /\ stage' = [stage EXCEPT ![c] = "removed"]
    /\ UNCHANGED <<closed, conn, calls, posts, hook, toClose, made>>

\* remove announces the leaves one channel after another.
removeNotify(c) ==
    /\ ~Busy(c)
    /\ \E n \in leaves[c] :
         /\ leaves' = [leaves EXCEPT ![c] = @ \ {n}]
         /\ posts' = posts \cup {n}
    /\ UNCHANGED <<hub, stage, conn, calls, hook, toClose, made>>

\* Close closes the connection and returns.
CloseConn(c) ==
    /\ stage[c] = "removed" /\ leaves[c] = {} /\ ~Busy(c)
    /\ stage' = [stage EXCEPT ![c] = "closed"]
    /\ UNCHANGED <<hub, leaves, conn, calls, posts, hook, toClose, made>>

\* Hub.Close goes on to the next client when Close of this one has returned.
CloseNext(c) ==
    /\ c \in toClose /\ stage[c] = "closed"
    /\ toClose' = toClose \ {c}
    /\ UNCHANGED <<hub, stage, leaves, conn, calls, posts, hook, made>>
-----------------------------------------------------------------------------
Application(p) ==
    \/ \E c \in Clients, ch \in Channels : Subscribe(p, c, ch) \/ Unsubscribe(p, c, ch)
    \/ \E ch \in Channels, e \in Clients \cup {None} : broadcast(p, ch, e)
    \/ \E c \in Clients : SendTo(p, c)

Delivery == \E n \in posts : PostRoster(n) \/ PostEnd(n) \/ \E c \in n.to : PostFrame(n, c)

\* Hub.Close calls Close of a client while it waits for no other.
CloseClient ==
    /\ \A c \in toClose : stage[c] \notin {"closing", "removed"}
    /\ \E c \in toClose : CloseDone(c)

Teardown(c) == remove(c) \/ removeNotify(c) \/ CloseConn(c)

Next ==
    \/ \E p \in Procs : Application(p) \/ subscribe(p)
    \/ \E c \in Clients :
         \/ Add(c) \/ CloseDone(c) \/ Teardown(c) \/ CloseNext(c)
         \/ WriteTake(c) \/ WriteDone(c) \/ WriteFails(c) \/ WriterExit(c)
    \/ Close \/ Delivery

\* Goroutines that are not blocked run.  A peer may stall a write until its
\* connection is closed; nobody need call Close, but what triggerClose or
\* Hub.Close started goes on.
Fairness ==
    /\ \A p \in Procs : WF_vars(subscribe(p))
    /\ WF_vars(Delivery) /\ WF_vars(CloseClient)
    /\ \A c \in Clients :
         /\ WF_vars(stage[c] = "triggered" /\ CloseDone(c))
         /\ WF_vars(Teardown(c)) /\ WF_vars(CloseNext(c))
         /\ WF_vars(WriterExit(c))
         /\ WF_vars(stage[c] = "closed" /\ WriteFails(c))

Spec == Init /\ [][Next]_vars /\ Fairness
-----------------------------------------------------------------------------
(* Properties.                                                             *)

Pending(kinds, ch, c) ==
    Cardinality({n \in posts \cup leaves[c] : n.kind \in kinds /\ n.ch = ch /\ n.who = c})

\* Every variable holds a value of its type.
TypeOK ==
    /\ closed \in BOOLEAN /\ clients \subseteq Clients
    /\ members \in [Channels -> SUBSET Clients] /\ roster \in [Channels -> SUBSET Clients]
    /\ joined \in [Clients -> SUBSET Channels] /\ stage \in [Clients -> Stages]
    /\ writer \in [Clients -> {"select", "write", "exit"}]
    /\ outbox \in [Clients -> 0..OutboxSize]
    /\ hook \in [Channels -> [Clients -> Int]] /\ toClose \subseteq Clients

\* The channel's members, its roster and the client's own list of channels are
\* three copies of one relation, changed under two locks: they agree in every
\* state in which the hub's lock is free, so that remove leaves no trace.
CopiesAgree ==
    ~closed => \A ch \in Channels :
        /\ members[ch] = {c \in Clients : ch \in joined[c]}
        /\ roster[ch] = IF ch \in PresenceChannels THEN members[ch] ELSE {}

\* What Subscribe, Unsubscribe, remove and Close keep of the hub's tables.
Membership == TypeOK /\ CopiesAgree

\* An application that mirrors presence from OnPresence ends up with the
\* roster: the joins and leaves the hook has seen, and those still under way,
\* add up to it, whatever joins, leaves and disconnects overlap.
HookAddsUp ==
    ~closed => \A ch \in PresenceChannels, c \in Clients :
        hook[ch][c] + Pending({"roster", "join"}, ch, c) - Pending({"leave"}, ch, c)
            = IF c \in roster[ch] THEN 1 ELSE 0

\* Once a teardown has started, or the hub is closed, the client is closed in
\* the end and its writer gone, even when it is stuck in a write or several
\* goroutines close the client at once.
TornDown ==
    \A c \in Clients :
        (stage[c] \in {"triggered", "closing"} \/ c \in toClose)
            ~> (stage[c] = "closed" /\ writer[c] = "exit" /\ c \notin toClose)

-----------------------------------------------------------------------------
(* A claim of the repository that the code does not keep.                  *)

\* "so no subscription leaks": a client that remove has taken out is a member
\* of no channel.
NoGhosts ==
    \A ch \in Channels : members[ch] \cap {c \in Clients : stage[c] \in {"removed", "closed"}} = {}
=============================================================================
