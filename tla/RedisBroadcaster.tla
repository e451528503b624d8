-------------------------- MODULE RedisBroadcaster --------------------------
(***************************************************************************)
(* drivers/redis.Broadcaster: Subscribe checks closed, waits for Redis and *)
(* registers in a second critical section; Close sets the map to nil in    *)
(* between.  Writing to the nil map panics with b.mu held, and nothing     *)
(* unlocks it.  The Redis server fans a PUBLISH out to the connections     *)
(* that are subscribed at that moment.                                     *)
(***************************************************************************)
EXTENDS Integers, Sequences, FiniteSets

CONSTANTS
    Subs,
    MaxPublish      \* bound: events published

VARIABLES
    active,     \* Broadcaster.active, {} also when it is nil
    rClosed,    \* Broadcaster.closed (active is nil)
    rClosing,   \* subscriptions Close has still to cancel
    spc,        \* spc[s]: Subscribe and the subscription's life
    inbox,      \* inbox[s]: frames the connection of s holds
    listening,  \* connections subscribed at the server
    sent,       \* events published
    seen,       \* seen[s]: events handled
    wedged      \* a panic left b.mu locked

rbVars == <<active, rClosed, rClosing, spc, inbox, listening, sent, seen, wedged>>

Init ==
    /\ active = {} /\ rClosed = FALSE /\ rClosing = {} /\ listening = {}
    /\ spc = [s \in Subs |-> "new"] /\ inbox = [s \in Subs |-> <<>>]
    /\ sent = 0 /\ seen = [s \in Subs |-> <<>>] /\ wedged = FALSE

-----------------------------------------------------------------------------
\* Publish: the check, and the PUBLISH of the encoded event.
Publish ==
    /\ sent < MaxPublish /\ ~wedged /\ ~rClosed
    /\ sent' = sent + 1
    /\ inbox' = [s \in Subs |-> IF s \in listening THEN Append(inbox[s], sent + 1) ELSE inbox[s]]
    /\ UNCHANGED <<active, rClosed, rClosing, spc, listening, seen, wedged>>

\* Subscribe checks closed under the lock ...
subscribeCheck(s) ==
    /\ spc[s] = "new" /\ ~wedged
    /\ spc' = [spc EXCEPT ![s] = IF rClosed THEN "refused" ELSE "waiting"]
    /\ UNCHANGED <<active, rClosed, rClosing, inbox, listening, sent, seen, wedged>>

\* ... waits until Redis confirms ...
receive(s) ==
    /\ spc[s] = "waiting"
    /\ \/ listening' = listening \cup {s} /\ spc' = [spc EXCEPT ![s] = "confirmed"]
       \/ spc' = [spc EXCEPT ![s] = "refused"] /\ UNCHANGED listening
    /\ UNCHANGED <<active, rClosed, rClosing, inbox, sent, seen, wedged>>

\* ... and registers; the map is nil once the broadcaster is closed.
register(s) ==
    /\ spc[s] = "confirmed" /\ ~wedged
    /\ IF rClosed
       THEN wedged' = TRUE /\ spc' = [spc EXCEPT ![s] = "panicked"] /\ UNCHANGED active
       ELSE /\ active' = active \cup {s} /\ spc' = [spc EXCEPT ![s] = "run"]
            /\ UNCHANGED wedged
    /\ UNCHANGED <<rClosed, rClosing, inbox, listening, sent, seen>>

\* Cancel: close(done) and the PubSub, then leave the map.
closePubSub(s) == listening' = listening \ {s}
Cancel(s) ==
    /\ spc[s] = "run"
    /\ closePubSub(s)
    /\ spc' = [spc EXCEPT ![s] = "leaving"]
    /\ inbox' = [inbox EXCEPT ![s] = <<>>]
    /\ UNCHANGED <<active, rClosed, rClosing, sent, seen, wedged>>

leave(s) ==
    /\ spc[s] = "leaving" /\ ~wedged
    /\ active' = active \ {s}
    /\ spc' = [spc EXCEPT ![s] = "done"]
    /\ UNCHANGED <<rClosed, rClosing, inbox, listening, sent, seen, wedged>>

closing == active
Close ==
    /\ ~rClosed /\ ~wedged
    /\ rClosed' = TRUE /\ rClosing' = closing /\ active' = {}
    /\ UNCHANGED <<spc, inbox, listening, sent, seen, wedged>>

closeCancels(s) ==
    /\ s \in rClosing
    /\ rClosing' = rClosing \ {s}
    /\ IF spc[s] = "run"
       THEN /\ closePubSub(s)
            /\ spc' = [spc EXCEPT ![s] = "leaving"] /\ inbox' = [inbox EXCEPT ![s] = <<>>]
       ELSE UNCHANGED <<spc, inbox, listening>>
    /\ UNCHANGED <<active, rClosed, sent, seen, wedged>>

\* run hands a frame to the handler.
handle(s) ==
    /\ spc[s] = "run" /\ inbox[s] # <<>>
    /\ seen' = [seen EXCEPT ![s] = Append(@, Head(inbox[s]))]
    /\ inbox' = [inbox EXCEPT ![s] = Tail(@)]
    /\ UNCHANGED <<active, rClosed, rClosing, spc, listening, sent, wedged>>

Next ==
    \/ Publish \/ Close
    \/ \E s \in Subs : \/ subscribeCheck(s) \/ receive(s) \/ register(s) \/ Cancel(s)
                       \/ leave(s) \/ closeCancels(s) \/ handle(s)

Fair == \A s \in Subs : WF_rbVars(closeCancels(s)) /\ WF_rbVars(leave(s)) /\ WF_rbVars(register(s))

-----------------------------------------------------------------------------
\* Once Subscribe has returned, nothing published is missed until Cancel: what is
\* handled and what is waiting is a gapless run up to the last event.
NothingMissed ==
    \A s \in Subs : spc[s] = "run" =>
       LET all == seen[s] \o inbox[s] IN
       /\ s \in listening
       /\ \A i \in DOMAIN all : all[i] = sent - Len(all) + i

\* A connection stays subscribed at the server only for a live subscription, one
\* still being set up, or one whose Subscribe panicked after Close.
NoLeakedConnection ==
    \A s \in listening : spc[s] \in {"confirmed", "run", "panicked"}

\* Close ends every subscription, unless a Subscribe that it overtook wrote to the
\* nil map and left the mutex locked.
RedisCloseEndsAll == rClosed ~> wedged \/ \A s \in Subs : spc[s] \notin {"run", "leaving"}
=============================================================================
