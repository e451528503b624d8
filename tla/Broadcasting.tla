--------------------------- MODULE Broadcasting -----------------------------
(***************************************************************************)
(* broadcasting.Memory: publishers copy the subscriber list under the lock *)
(* and send after it, while subscriptions are made, cancelled by their     *)
(* owner, by their context or by Close.  Each subscription has a bounded   *)
(* channel and a goroutine, whose select takes any case that is ready.     *)
(***************************************************************************)
EXTENDS Integers, Sequences, FiniteSets

CONSTANTS
    Subs,           \* subscriptions that may be made
    ChannelOf,      \* ChannelOf[s]: the channel s asks for
    Publishers,
    Buffer,         \* WithBuffer
    MaxPublish      \* bound: events per publisher

VARIABLES
    subs,       \* Memory.subs, as the set of registered subscriptions
    bClosed,    \* Memory.closed
    closing,    \* subscriptions Close has still to cancel
    cancel,     \* cancel[s]: "no", "removed" (inside once.Do) or "done" (done is closed)
    runner,     \* runner[s]: "off", "run" or "ended": the goroutine of s
    ch,         \* ch[s]: the buffered events
    pub,        \* pub[p]: the event being published and the subscriptions left to send to
    count,      \* count[p]: events published
    got,        \* got[s]: events handled
    dropped     \* Memory.dropped

bcVars == <<subs, bClosed, closing, cancel, runner, ch, pub, count, got, dropped>>
NoEvent == [todo |-> {}, ev |-> [from |-> "none", n |-> 0, gone |-> {}]]

Init ==
    /\ subs = {} /\ bClosed = FALSE /\ closing = {}
    /\ cancel = [s \in Subs |-> "no"] /\ runner = [s \in Subs |-> "off"]
    /\ ch = [s \in Subs |-> <<>>] /\ got = [s \in Subs |-> <<>>]
    /\ pub = [p \in Publishers |-> NoEvent] /\ count = [p \in Publishers |-> 0]
    /\ dropped = 0

-----------------------------------------------------------------------------
\* Publish up to the unlock: closed is checked and the list is copied.  The event
\* remembers the subscriptions whose Cancel had returned.
Publish(p, c) ==
    /\ pub[p].todo = {} /\ count[p] < MaxPublish
    /\ ~bClosed
    /\ count' = [count EXCEPT ![p] = @ + 1]
    /\ pub' = [pub EXCEPT ![p] = [todo |-> {s \in subs : ChannelOf[s] = c},
                  ev |-> [from |-> p, n |-> count[p] + 1, gone |-> {s \in Subs : cancel[s] = "done"}]]]
    /\ UNCHANGED <<subs, bClosed, closing, cancel, runner, ch, got, dropped>>

\* The non-blocking send to one subscription of the copy.
send(p, s) ==
    /\ s \in pub[p].todo
    /\ pub' = [pub EXCEPT ![p].todo = @ \ {s}]
    /\ IF Len(ch[s]) < Buffer
       THEN ch' = [ch EXCEPT ![s] = Append(@, pub[p].ev)] /\ UNCHANGED dropped
       ELSE dropped' = dropped + 1 /\ UNCHANGED ch
    /\ UNCHANGED <<subs, bClosed, closing, cancel, runner, count, got>>

mayJoin == ~bClosed
Subscribe(s) ==
    /\ runner[s] = "off" /\ mayJoin
    /\ subs' = subs \cup {s}
    /\ runner' = [runner EXCEPT ![s] = "run"]
    /\ UNCHANGED <<bClosed, closing, cancel, ch, pub, count, got, dropped>>

\* Cancel, inside once.Do: leave the table, then close(done).
removeFromTable_not(s) == UNCHANGED subs
removeFromTable(s) == subs' = subs \ {s}
Cancel(s) ==
    /\ runner[s] # "off" /\ cancel[s] = "no"
    /\ cancel' = [cancel EXCEPT ![s] = "removed"]
    /\ removeFromTable(s)
    /\ UNCHANGED <<bClosed, closing, runner, ch, pub, count, got, dropped>>

closeDone(s) ==
    /\ cancel[s] = "removed"
    /\ cancel' = [cancel EXCEPT ![s] = "done"]
    /\ UNCHANGED <<subs, bClosed, closing, runner, ch, pub, count, got, dropped>>

\* Close takes the table away, then cancels what was in it.
Close ==
    /\ ~bClosed
    /\ bClosed' = TRUE /\ closing' = subs /\ subs' = {}
    /\ UNCHANGED <<cancel, runner, ch, pub, count, got, dropped>>

closeCancels(s) ==
    /\ s \in closing
    /\ closing' = closing \ {s}
    /\ cancel' = [cancel EXCEPT ![s] = IF @ = "no" THEN "removed" ELSE @]
    /\ UNCHANGED <<subs, bClosed, runner, ch, pub, count, got, dropped>>

\* run: done is closed, or an event is ready.
runEnds(s) ==
    /\ runner[s] = "run" /\ cancel[s] = "done"
    /\ runner' = [runner EXCEPT ![s] = "ended"]
    /\ UNCHANGED <<subs, bClosed, closing, cancel, ch, pub, count, got, dropped>>

handle(s) ==
    /\ runner[s] = "run" /\ ch[s] # <<>>
    /\ got' = [got EXCEPT ![s] = Append(@, Head(ch[s]))]
    /\ ch' = [ch EXCEPT ![s] = Tail(@)]
    /\ UNCHANGED <<subs, bClosed, closing, cancel, runner, pub, count, dropped>>

Next ==
    \/ \E p \in Publishers : \E s \in Subs : Publish(p, ChannelOf[s]) \/ send(p, s)
    \/ \E s \in Subs : Subscribe(s) \/ Cancel(s) \/ closeDone(s) \/ closeCancels(s) \/ runEnds(s) \/ handle(s)
    \/ Close

Fair == \A s \in Subs : WF_bcVars(closeDone(s)) /\ WF_bcVars(closeCancels(s)) /\ WF_bcVars(runEnds(s))

-----------------------------------------------------------------------------
\* An event published after a subscription's Cancel returned never reaches its
\* handler, though one whose publisher had copied the list before still may.
NoLateEvent == \A s \in Subs : \A i \in DOMAIN got[s] : s \notin got[s][i].gone

\* Until Close, exactly the subscriptions nobody has begun to cancel are registered.
TableIsLive == ~bClosed => subs = {s \in Subs : runner[s] # "off" /\ cancel[s] = "no"}

\* Close ends every subscription's goroutine, also one that was being made or
\* cancelled at that moment.
CloseEndsAll == bClosed ~> \A s \in Subs : runner[s] # "run"
=============================================================================
