------------------------------- MODULE Events -------------------------------
(***************************************************************************)
(* events.Dispatcher and notifications.Manager, which share no state.      *)
(* Dispatch takes the listener slice under the read lock and walks it      *)
(* after the unlock, while Listen appends to the same slice and Forget     *)
(* drops it: a slice is a length over a backing array, which append reuses *)
(* while it has room.  Send goes through the notification's channels and   *)
(* looks each one up under the read lock when its turn comes, while        *)
(* channels are registered.                                                *)
(***************************************************************************)
EXTENDS Integers, Sequences

CONSTANTS
    Dispatchers,    \* goroutines that call Dispatch, once each
    MaxListeners,   \* bound: listeners registered
    MaxForgets      \* bound: calls of Forget

VARIABLES
    arrays,     \* the backing arrays made so far; a cell nothing was written to is 0
    slice,      \* handlers[t]: [arr, len]; arr 0 for an absent key
    stopOn,     \* Dispatcher.stopOn
    listened, forgets,
    walk        \* walk[d]: the slice d took, its place in it, what it has called and what was registered

evVars == <<arrays, slice, stopOn, listened, forgets, walk>>

NilSlice == [arr |-> 0, len |-> 0]
View(s) == [i \in 1 .. s.len |-> arrays[s.arr][i]]
NoWalk == [on |-> FALSE, slice |-> NilSlice, at |-> 0, called |-> <<>>, expect |-> <<>>, stop |-> FALSE, broke |-> FALSE]

EventInit ==
    /\ arrays = <<>> /\ slice = NilSlice /\ stopOn = FALSE /\ listened = 0 /\ forgets = 0
    /\ walk = [d \in Dispatchers |-> NoWalk]

-----------------------------------------------------------------------------
\* Listen: append in place when the array has room, else into a new one of twice the size.
Listen ==
    /\ listened < MaxListeners
    /\ listened' = listened + 1
    /\ IF slice.arr # 0 /\ slice.len < Len(arrays[slice.arr])
       THEN /\ arrays' = [arrays EXCEPT ![slice.arr][slice.len + 1] = listened + 1]
            /\ slice' = [arr |-> slice.arr, len |-> slice.len + 1]
       ELSE /\ arrays' = Append(arrays, [i \in 1 .. (IF slice.len = 0 THEN 1 ELSE 2 * slice.len) |->
                             IF i <= slice.len THEN arrays[slice.arr][i]
                             ELSE IF i = slice.len + 1 THEN listened + 1 ELSE 0])
            /\ slice' = [arr |-> Len(arrays) + 1, len |-> slice.len + 1]
    /\ UNCHANGED <<stopOn, forgets, walk>>

dropped == NilSlice
Forget ==
    /\ forgets < MaxForgets /\ forgets' = forgets + 1
    /\ slice' = dropped
    /\ UNCHANGED <<arrays, stopOn, listened, walk>>

StopOnError ==
    /\ stopOn' = ~stopOn
    /\ UNCHANGED <<arrays, slice, listened, forgets, walk>>

\* Dispatch under the read lock.
Dispatch(d) ==
    /\ walk[d] = NoWalk /\ slice.len > 0
    /\ walk' = [walk EXCEPT ![d] = [on |-> TRUE, slice |-> slice, at |-> 1, called |-> <<>>,
                                     expect |-> View(slice), stop |-> stopOn, broke |-> FALSE]]
    /\ UNCHANGED <<arrays, slice, stopOn, listened, forgets>>

\* callListener: an error and a recovered panic are alike; either ends the walk if stopOn was set.
callListener(d, failed) ==
    LET w == walk[d]
        stops == failed /\ w.stop
    IN
    /\ w.on /\ w.at <= w.slice.len
    /\ walk' = [walk EXCEPT ![d] = [w EXCEPT !.called = Append(w.called, arrays[w.slice.arr][w.at]),
                                             !.at = IF stops THEN w.slice.len + 1 ELSE w.at + 1,
                                             !.broke = stops]]
    /\ UNCHANGED <<arrays, slice, stopOn, listened, forgets>>

EventNext ==
    \/ Listen \/ Forget \/ StopOnError
    \/ \E d \in Dispatchers : Dispatch(d) \/ \E failed \in BOOLEAN : callListener(d, failed)

-----------------------------------------------------------------------------
\* A Dispatch calls the listeners that were registered when it began, in that order,
\* each once and all of them unless StopOnError cut it short: what Listen and Forget
\* do to the shared array meanwhile does not reach it.
DispatchSeesItsListeners ==
    \A d \in Dispatchers :
       /\ walk[d].called = SubSeq(walk[d].expect, 1, Len(walk[d].called))
       /\ walk[d].on /\ walk[d].at > walk[d].slice.len /\ ~walk[d].broke => walk[d].called = walk[d].expect

-----------------------------------------------------------------------------
(* notifications.Manager.                                                  *)

CONSTANTS
    Names,          \* the notification's Channels()
    MaxRegister     \* bound: calls of Register

VARIABLES
    registered, \* Manager.channels: the names with a channel
    sending,    \* Send: names left, what was tried, the routed channels there from the start
    registers

ntVars == <<registered, sending, registers>>
NoSend == [on |-> FALSE, left |-> <<>>, tried |-> <<>>, always |-> {}]

NotifyInit == registered = {} /\ sending = NoSend /\ registers = 0

\* Manager.Register of a channel for a name.
Register(n) ==
    /\ registers < MaxRegister /\ registers' = registers + 1
    /\ registered' = registered \cup {n}
    /\ UNCHANGED sending

Send ==
    /\ sending = NoSend
    /\ sending' = [on |-> TRUE, left |-> Names, tried |-> <<>>, always |-> registered]
    /\ UNCHANGED <<registered, registers>>

\* One round of Send's loop; an unregistered or unrouted channel is skipped, an error is kept.
sendOne(outcome) ==
    /\ sending.on /\ sending.left # <<>>
    /\ LET n == Head(sending.left) IN
       sending' = [sending EXCEPT
            !.left = Tail(@),
            !.tried = IF n \in registered /\ outcome # "noRoute" THEN Append(@, n) ELSE @,
            !.always = IF outcome = "noRoute" THEN @ \ {n} ELSE @]
    /\ UNCHANGED <<registered, registers>>

NotifyNext ==
    \/ Send
    \/ \E i \in DOMAIN Names : Register(Names[i])
    \/ \E o \in {"sent", "error", "noRoute"} : sendOne(o)

\* One failing channel does not keep a notification from the others: when Send is
\* through, every routed channel that was there from the start was tried once.
AllChannelsTried ==
    sending.on /\ sending.left = <<>> =>
       \A n \in sending.always : \E i \in DOMAIN sending.tried : sending.tried[i] = n

-----------------------------------------------------------------------------
Init == EventInit /\ NotifyInit
Next ==
    \/ EventNext /\ UNCHANGED ntVars
    \/ NotifyNext /\ UNCHANGED evVars
-----------------------------------------------------------------------------
(* The inductive invariants of the properties above (InnerServicesProofs). *)
Slices == [arr : Nat, len : Nat]
Walks == [on : BOOLEAN, slice : Slices, at : Nat, called : Seq(Nat), expect : Seq(Nat), stop : BOOLEAN, broke : BOOLEAN]
EventTypeOK ==
    /\ arrays \in Seq(Seq(Nat)) /\ slice \in Slices /\ listened \in Nat /\ stopOn \in BOOLEAN
    /\ slice.arr <= Len(arrays)
    /\ slice.len > 0 => slice.arr > 0 /\ slice.len <= Len(arrays[slice.arr])
    /\ walk \in [Dispatchers -> Walks]
\* The cells a Dispatch has yet to read hold what they held when it took the slice: an append
\* in place writes behind the slice, and the slice only grows over the same array.
CellsKept(d) ==
    LET w == walk[d]  n == w.slice.len IN
    /\ w.slice.arr \in 1 .. Len(arrays) /\ n <= Len(arrays[w.slice.arr])
    /\ Len(w.expect) = n /\ \A i \in 1 .. n : arrays[w.slice.arr][i] = w.expect[i]
    /\ w.slice.arr = slice.arr => n <= slice.len
CalledSoFar(d) ==
    LET w == walk[d] IN
    /\ Len(w.called) <= w.slice.len /\ \A i \in 1 .. Len(w.called) : w.called[i] = w.expect[i]
    /\ IF w.broke THEN w.at = w.slice.len + 1 ELSE w.at = Len(w.called) + 1
EventInv ==
    /\ EventTypeOK
    /\ \A d \in Dispatchers : IF walk[d].on THEN CellsKept(d) /\ CalledSoFar(d) ELSE walk[d].called = <<>>
\* Every routed channel that was there from the start is still registered, and was tried or is to come.
NotifyInv ==
    /\ sending \in [on : BOOLEAN, left : Seq(STRING), tried : Seq(STRING), always : SUBSET registered]
    /\ sending.on => \A n \in sending.always :
          \/ \E i \in DOMAIN sending.tried : sending.tried[i] = n
          \/ \E i \in DOMAIN sending.left : sending.left[i] = n
    /\ registered \subseteq {Names[i] : i \in DOMAIN Names}
=============================================================================
