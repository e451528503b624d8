-------------------------- MODULE RedisQueueProofs --------------------------
(***************************************************************************)
(* Proofs about RedisQueue, for any number of jobs and workers, any number *)
(* of faults, and any timeout, backoff and handler times.                  *)
(***************************************************************************)
EXTENDS RedisQueue, FiniteSetTheorems, TLAPS

Keys == {"delayed", "reserved"}
Positions == {"promote", "move", "lpush", "rpop", "reserve"} \cup Holding

\* Positions in which a worker carries a member from one command to the next:
\* off every key, or still in the reserved set.
Carrying == {"lpush", "reserve"}
Settling == {"ackRem", "nackPush", "nackRem"}

RType ==
    /\ ready \in Seq(Member)
    /\ zset = [s \in Keys |-> zset[s]] /\ \A s \in Keys : DOMAIN zset[s] \subseteq Member
    /\ pc \in [Workers -> Positions] /\ stage \in [Workers -> Keys] /\ todo \in [Workers -> SUBSET Member]
    /\ member = [w \in Workers |-> member[w]] /\ job = [w \in Workers |-> job[w]]
    /\ \A w \in Workers :
          /\ IF pc[w] \in Carrying \cup Settling THEN member[w] \in Member ELSE member[w] = None
          /\ IF pc[w] \in Holding THEN job[w] \in Member ELSE job[w] = None
          /\ pc[w] \in Settling => member[w].id = job[w].id
    /\ faults \in Nat
    /\ pushed \subseteq Jobs /\ IsFiniteSet(pushed) /\ concluded \subseteq pushed

copies == stored \cup carried

\* Whatever the keys and the workers have is of a pushed job, and a worker that
\* acknowledges a job has concluded it.
Known ==
    /\ \A m \in copies : m.id \in pushed
    /\ \A w \in Workers :
          /\ \A m \in todo[w] : m.id \in pushed
          /\ pc[w] \in Holding => job[w].id \in pushed
          /\ pc[w] \in {"ack", "ackRem"} => job[w].id \in concluded

RInv == RType /\ Known

LEMMA StoredMembers ==
    ASSUME RType
    PROVE  /\ stored \subseteq Member /\ carried \subseteq Member
           /\ \A i \in DOMAIN ready : ready[i] \in Range(ready) /\ ready[i] \in Member
BY DEF RType, stored, carried, Range, Keys, Carrying

\* The list's operations, as sets of members.
LEMMA ListMembers ==
    ASSUME NEW s \in Seq(Member), NEW m \in Member
    PROVE  /\ Append(s, m) \in Seq(Member) /\ Range(Append(s, m)) = Range(s) \cup {m}
           /\ s # <<>> => /\ Head(s) \in Member /\ Tail(s) \in Seq(Member)
                          /\ Range(s) = Range(Tail(s)) \cup {Head(s)}
<1>1. Append(s, m) \in Seq(Member) /\ Range(Append(s, m)) = Range(s) \cup {m}
  <2>1. /\ Append(s, m) \in Seq(Member) /\ DOMAIN Append(s, m) = DOMAIN s \cup {Len(s) + 1}
        /\ \A p \in DOMAIN s : Append(s, m)[p] = s[p]
        /\ Append(s, m)[Len(s) + 1] = m
    OBVIOUS
  <2> QED
    BY <2>1 DEF Range
<1>2. ASSUME s # <<>>
      PROVE  Head(s) \in Member /\ Tail(s) \in Seq(Member) /\ Range(s) = Range(Tail(s)) \cup {Head(s)}
  <2>1. Head(s) \in Member /\ Tail(s) \in Seq(Member) /\ Head(s) = s[1] /\ 1 \in DOMAIN s
    BY <1>2
  <2>2. \A p \in DOMAIN s : p = 1 \/ (p - 1 \in DOMAIN Tail(s) /\ Tail(s)[p - 1] = s[p])
    BY <1>2
  <2>3. \A p \in DOMAIN Tail(s) : p + 1 \in DOMAIN s /\ Tail(s)[p] = s[p + 1]
    BY <1>2
  <2>4. ASSUME NEW x \in Range(s) PROVE x \in Range(Tail(s)) \cup {Head(s)}
    <3> PICK p \in DOMAIN s : x = s[p]
      BY DEF Range
    <3> QED
      BY <2>1, <2>2 DEF Range
  <2>5. ASSUME NEW x \in Range(Tail(s)) PROVE x \in Range(s)
    <3> PICK p \in DOMAIN Tail(s) : x = Tail(s)[p]
      BY DEF Range
    <3> QED
      BY <2>3 DEF Range
  <2>6. Head(s) \in Range(s)
    BY <2>1 DEF Range
  <2> QED
    BY <2>1, <2>4, <2>5, <2>6
<1> QED
  BY <1>1, <1>2

\* store puts its member into one of the keys and changes nothing else there.
LEMMA StoreStep ==
    ASSUME RType, NEW m \in Member, NEW delay, store(m, delay)
    PROVE  /\ ready' \in Seq(Member)
           /\ zset' = [s \in Keys |-> zset'[s]] /\ \A s \in Keys : DOMAIN zset'[s] \subseteq Member
           /\ stored' = stored \cup {m}
<1>0. ready \in Seq(Member) /\ zset = [s \in Keys |-> zset[s]] /\ \A s \in Keys : DOMAIN zset[s] \subseteq Member
  BY DEF RType
<1>1. CASE delay > 0
  <2>1. zset' = [zset EXCEPT !.delayed = ZAdd(@, m, delay)] /\ ready' = ready
    BY <1>1 DEF store
  <2>2. zset'["delayed"] = ZAdd(zset.delayed, m, delay) /\ zset'["reserved"] = zset.reserved
        /\ zset' = [s \in Keys |-> zset'[s]]
    BY <1>0, <2>1 DEF Keys
  <2>3. DOMAIN zset'["delayed"] = DOMAIN zset.delayed \cup {m}
    BY <2>2 DEF ZAdd
  <2> QED
    BY <1>0, <2>1, <2>2, <2>3 DEF stored, Keys
<1>2. CASE ~(delay > 0)
  <2>1. zset' = zset /\ ready' = Append(ready, m)
    BY <1>2 DEF store
  <2> QED
    BY <1>0, <2>1, ListMembers DEF stored
<1> QED
  BY <1>1, <1>2

-----------------------------------------------------------------------------
(* What the steps do to the types and to the set of all copies.            *)

\* Goto moves one worker and leaves the others where they are.
LEMMA GotoStep ==
    ASSUME RType, NEW w \in Workers, NEW p \in Positions, NEW m, Goto(w, p, m)
    PROVE  /\ pc' \in [Workers -> Positions] /\ member' = [v \in Workers |-> member'[v]]
           /\ pc'[w] = p /\ member'[w] = m
           /\ \A v \in Workers : v # w => pc'[v] = pc[v] /\ member'[v] = member[v]
           /\ carried' \subseteq carried \cup {m} /\ carried \subseteq carried' \cup {member[w]}
           /\ p \in Carrying => m \in carried'
           /\ p \notin Carrying => carried' \subseteq carried
           /\ pc[w] \notin Carrying => carried \subseteq carried'
BY ZenonT(30) DEF RType, Goto, carried, Carrying

\* A step that loses no copy and starts no removal by a Nack.
Kept ==
    /\ copies \subseteq copies'
    /\ \A w \in Workers : pc'[w] = "nackRem" => pc[w] = "nackRem" /\ member'[w] = member[w]

LEMMA PushKeeps ==
    ASSUME RInv, NEW j \in Jobs, NEW delay \in 0..MaxDelay, Push(j, delay)
    PROVE  /\ RInv' /\ Kept /\ j \notin pushed /\ pushed' = pushed \cup {j} /\ concluded' = concluded
           /\ copies' = copies \cup {[id |-> j, attempts |-> 0]}
<1> DEFINE m == [id |-> j, attempts |-> 0]
<1>0. /\ RType /\ Known /\ store(m, delay) /\ m \in Member /\ j \notin pushed
      /\ pushed' = pushed \cup {j}
      /\ UNCHANGED <<pc, job, stage, todo, member, held, faults, concluded>>
  BY DEF RInv, Push, Member, wvars
<1>1. m.id = j
  OBVIOUS
<1> HIDE DEF m
<1>2. /\ ready' \in Seq(Member) /\ stored' = stored \cup {m}
      /\ zset' = [s \in Keys |-> zset'[s]] /\ \A s \in Keys : DOMAIN zset'[s] \subseteq Member
  BY <1>0, StoreStep
<1>3. carried' = carried /\ copies' = copies \cup {m}
  BY <1>0, <1>2 DEF carried, copies
<1>4. IsFiniteSet(pushed')
  BY <1>0, FS_AddElement DEF RType
<1>5. RType'
  BY <1>0, <1>2, <1>4 DEF RType
<1>6. Known'
  BY <1>0, <1>1, <1>3 DEF Known
<1>7. Kept
  BY <1>0, <1>3 DEF Kept
<1> QED
  BY <1>0, <1>3, <1>5, <1>6, <1>7 DEF RInv, m

\* promote's steps: a member leaves a set only into the hands of its mover.
LEMMA PromoteKeeps ==
    ASSUME RInv, NEW w \in Workers,
           promoteScan(w) \/ (\E m \in todo[w] : promoteRem(w, m)) \/ promotePush(w) \/ promoteDone(w)
    PROVE  RInv' /\ Kept /\ copies' = copies /\ UNCHANGED <<pushed, concluded, faults>>
<1>0. RType /\ Known /\ stored \subseteq Member /\ carried \subseteq Member
  BY StoredMembers DEF RInv
<1>1. CASE promoteScan(w)
  <2>1. /\ pc[w] = "promote" /\ todo' = [todo EXCEPT ![w] = dueMembers(zset[stage[w]])]
        /\ Goto(w, "move", None)
        /\ UNCHANGED <<ready, zset, job, stage, held, faults, pushed, concluded>>
    BY <1>1 DEF promoteScan, svars, hvars
  <2>2. /\ pc' \in [Workers -> Positions] /\ member' = [v \in Workers |-> member'[v]]
        /\ pc'[w] = "move" /\ member'[w] = None /\ carried' = carried
        /\ \A v \in Workers : v # w => pc'[v] = pc[v] /\ member'[v] = member[v]
    BY <1>0, <2>1, GotoStep, SMTT(30) DEF Positions, Carrying
  <2>3. dueMembers(zset[stage[w]]) \subseteq stored /\ stage[w] \in Keys
    BY <1>0 DEF RType, dueMembers, stored, Keys
  <2>4. RType'
    BY <1>0, <2>1, <2>2, <2>3 DEF RType, Holding, Carrying, Settling
  <2>5. copies' = copies
    BY <2>1, <2>2 DEF copies, stored
  <2>6. Known' /\ Kept
    BY <1>0, <2>1, <2>2, <2>3, <2>5 DEF Known, Kept, RType, copies, Holding
  <2> QED
    BY <2>1, <2>4, <2>5, <2>6 DEF RInv
<1>2. ASSUME NEW m \in todo[w], promoteRem(w, m) PROVE RInv' /\ Kept /\ copies' = copies /\ UNCHANGED <<pushed, concluded, faults>>
  <2>1. /\ pc[w] = "move" /\ todo' = [todo EXCEPT ![w] = @ \ {m}]
        /\ zset' = [zset EXCEPT ![stage[w]] = [x \in DOMAIN @ \ {m} |-> @[x]]]
        /\ UNCHANGED <<ready, job, stage, held, faults, pushed, concluded>>
        /\ stage[w] \in Keys /\ m \in Member
    BY <1>0, <1>2 DEF promoteRem, hvars, scanned, RType
  <2>2. /\ zset' = [s \in Keys |-> zset'[s]]
        /\ DOMAIN zset'[stage[w]] = DOMAIN zset[stage[w]] \ {m}
        /\ \A s \in Keys : s # stage[w] => zset'[s] = zset[s]
    BY <1>0, <2>1 DEF RType
  <2>3. \A s \in Keys : DOMAIN zset'[s] \subseteq DOMAIN zset[s] /\ DOMAIN zset[s] \subseteq DOMAIN zset'[s] \cup {m}
    BY <2>2
  <2>4. stored' \subseteq stored /\ stored \subseteq stored' \cup {m}
    BY <2>1, <2>3 DEF stored, Keys
  <2>5. CASE moveOn(w, m)
    <3>1. Goto(w, "lpush", m) /\ m \in stored
      BY <1>2, <2>1, <2>5 DEF promoteRem, moveOn, stored, Keys
    <3>2. /\ pc' \in [Workers -> Positions] /\ member' = [v \in Workers |-> member'[v]]
          /\ pc'[w] = "lpush" /\ member'[w] = m /\ carried' = carried \cup {m}
          /\ \A v \in Workers : v # w => pc'[v] = pc[v] /\ member'[v] = member[v]
      <4>1. "lpush" \in Positions /\ "lpush" \in Carrying /\ pc[w] \notin Carrying
        BY <2>1 DEF Positions, Carrying
      <4> QED
        BY <1>0, <3>1, <4>1, GotoStep
    <3>3. RType'
      <4>1. \A s \in Keys : DOMAIN zset'[s] \subseteq Member
        BY <1>0, <2>3 DEF RType
      <4>2. todo' \in [Workers -> SUBSET Member]
        BY <1>0, <2>1 DEF RType
      <4> QED
        BY <1>0, <2>1, <2>2, <3>2, <4>1, <4>2 DEF RType, Holding, Carrying, Settling
    <3>4. copies' = copies
      BY <2>4, <3>1, <3>2 DEF copies
    <3>5. Known' /\ Kept
      BY <1>0, <2>1, <3>2, <3>4 DEF Known, Kept, RType, Holding
    <3> QED
      BY <2>1, <3>3, <3>4, <3>5 DEF RInv
  <2>6. CASE ~moveOn(w, m)
    <3>1. UNCHANGED <<pc, member>> /\ m \notin DOMAIN zset[stage[w]]
      BY <1>2, <2>6 DEF promoteRem, moveOn
    <3>2. \A s \in Keys : DOMAIN zset'[s] = DOMAIN zset[s]
      BY <2>2, <3>1
    <3>3. RType'
      BY <1>0, <2>1, <2>2, <3>1, <3>2 DEF RType
    <3>4. copies' = copies
      BY <2>1, <3>1, <3>2 DEF copies, stored, carried, Keys
    <3>5. Known' /\ Kept
      BY <1>0, <2>1, <3>1, <3>4 DEF Known, Kept, RType
    <3> QED
      BY <2>1, <3>3, <3>4, <3>5 DEF RInv
  <2> QED
    BY <2>5, <2>6
<1>3. CASE promotePush(w)
  <2>1. /\ pc[w] = "lpush" /\ ready' = Append(ready, member[w]) /\ Goto(w, "move", None)
        /\ UNCHANGED <<zset, job, stage, todo, held, faults, pushed, concluded>>
        /\ member[w] \in Member
    BY <1>0, <1>3 DEF promotePush, hvars, RType, Carrying
  <2>2. /\ pc' \in [Workers -> Positions] /\ member' = [v \in Workers |-> member'[v]]
        /\ pc'[w] = "move" /\ member'[w] = None
        /\ carried' \subseteq carried /\ carried \subseteq carried' \cup {member[w]}
        /\ \A v \in Workers : v # w => pc'[v] = pc[v] /\ member'[v] = member[v]
    <3>1. "move" \in Positions /\ "move" \notin Carrying
      BY DEF Positions, Carrying
    <3> QED
      BY <1>0, <2>1, <3>1, GotoStep
  <2>3. ready' \in Seq(Member) /\ stored' = stored \cup {member[w]} /\ member[w] \in carried
    BY <1>0, <2>1, ListMembers DEF RType, stored, carried
  <2>4. RType'
    BY <1>0, <2>1, <2>2, <2>3 DEF RType, Holding, Carrying, Settling
  <2>5. copies' = copies
    BY <2>2, <2>3 DEF copies
  <2>6. Known' /\ Kept
    BY <1>0, <2>1, <2>2, <2>5 DEF Known, Kept, Holding
  <2> QED
    BY <2>1, <2>4, <2>5, <2>6 DEF RInv
<1>4. CASE promoteDone(w)
  <2> PICK p : p = IF stage[w] = "delayed" THEN "promote" ELSE "rpop"
    OBVIOUS
  <2>1. /\ pc[w] = "move" /\ stage' = [stage EXCEPT ![w] = IF @ = "delayed" THEN "reserved" ELSE "delayed"]
        /\ Goto(w, p, None) /\ p \in {"promote", "rpop"}
        /\ UNCHANGED <<ready, zset, job, todo, held, faults, pushed, concluded>>
    BY <1>4 DEF promoteDone, svars, hvars
  <2>2. /\ pc' \in [Workers -> Positions] /\ member' = [v \in Workers |-> member'[v]]
        /\ pc'[w] = p /\ member'[w] = None /\ carried' = carried
        /\ \A v \in Workers : v # w => pc'[v] = pc[v] /\ member'[v] = member[v]
    BY <1>0, <2>1, GotoStep DEF Positions, Carrying
  <2>3. stage' \in [Workers -> Keys]
    BY <1>0, <2>1 DEF RType, Keys
  <2>4. RType'
    BY <1>0, <2>1, <2>2, <2>3 DEF RType, Holding, Carrying, Settling
  <2>5. copies' = copies
    BY <2>1, <2>2 DEF copies, stored
  <2>6. Known' /\ Kept
    BY <1>0, <2>1, <2>2, <2>5 DEF Known, Kept, Holding
  <2> QED
    BY <2>1, <2>4, <2>5, <2>6 DEF RInv
<1> QED
  BY <1>1, <1>2, <1>3, <1>4

\* Pop and handle: the member goes from the list through the worker's hands
\* into the reserved set, and stays there while its handler runs.
LEMMA DeliveryKeeps ==
    ASSUME RInv, NEW w \in Workers,
           PopTake(w) \/ PopEmpty(w) \/ reserve(w) \/ handleSucceeds(w) \/ handleFails(w)
    PROVE  /\ RInv' /\ Kept /\ copies' = copies /\ UNCHANGED <<pushed, faults>>
           /\ concluded \subseteq concluded'
<1>0. RType /\ Known
  BY DEF RInv
<1>1. CASE PopTake(w)
  <2> PICK m : m = Head(ready)
    OBVIOUS
  <2>1. /\ pc[w] = "rpop" /\ ready # <<>> /\ ready' = Tail(ready) /\ Goto(w, "reserve", m)
        /\ UNCHANGED <<zset, job, stage, todo, held, faults, pushed, concluded>> /\ ready \in Seq(Member)
    BY <1>0, <1>1 DEF PopTake, hvars, RType
  <2>2. m \in Member /\ ready' \in Seq(Member) /\ Range(ready) = Range(ready') \cup {m}
    <3> PICK x \in Member : x = Head(ready)
      BY <2>1
    <3> QED
      BY <2>1, ListMembers
  <2>3. /\ pc' \in [Workers -> Positions] /\ member' = [v \in Workers |-> member'[v]]
        /\ pc'[w] = "reserve" /\ member'[w] = m /\ carried' = carried \cup {m}
        /\ \A v \in Workers : v # w => pc'[v] = pc[v] /\ member'[v] = member[v]
    <3>1. "reserve" \in Positions /\ "reserve" \in Carrying /\ pc[w] \notin Carrying
      BY <2>1 DEF Positions, Carrying
    <3> QED
      BY <1>0, <2>1, <3>1, GotoStep
  <2>4. RType'
    BY <1>0, <2>1, <2>2, <2>3 DEF RType, Holding, Carrying, Settling
  <2>5. copies' = copies
    BY <2>1, <2>2, <2>3 DEF copies, stored
  <2>6. Known' /\ Kept
    BY <1>0, <2>1, <2>3, <2>5 DEF Known, Kept, Holding
  <2> QED
    BY <2>1, <2>4, <2>5, <2>6 DEF RInv
<1>2. CASE PopEmpty(w)
  <2>1. /\ pc[w] = "rpop" /\ Goto(w, "promote", None)
        /\ UNCHANGED <<ready, zset, job, stage, todo, held, faults, pushed, concluded>>
    BY <1>2 DEF PopEmpty, svars, hvars
  <2>2. /\ pc' \in [Workers -> Positions] /\ member' = [v \in Workers |-> member'[v]]
        /\ pc'[w] = "promote" /\ member'[w] = None /\ carried' = carried
        /\ \A v \in Workers : v # w => pc'[v] = pc[v] /\ member'[v] = member[v]
    BY <1>0, <2>1, GotoStep, ZenonT(30) DEF Positions, Carrying
  <2>3. RType'
    BY <1>0, <2>1, <2>2 DEF RType, Holding, Carrying, Settling
  <2>4. copies' = copies
    BY <2>1, <2>2 DEF copies, stored
  <2>5. Known' /\ Kept
    BY <1>0, <2>1, <2>2, <2>4 DEF Known, Kept, Holding
  <2> QED
    BY <2>1, <2>3, <2>4, <2>5 DEF RInv
<1>3. CASE reserve(w)
  <2> PICK m : m = member[w]
    OBVIOUS
  <2>1. /\ pc[w] = "reserve" /\ zset' = [zset EXCEPT !.reserved = ZAdd(@, m, VisTout)]
        /\ job' = [job EXCEPT ![w] = m] /\ Goto(w, "run", None)
        /\ UNCHANGED <<ready, stage, todo, held, faults, pushed, concluded>>
        /\ m \in Member /\ m \in carried
    BY <1>0, <1>3 DEF reserve, hvars, RType, Carrying, carried
  <2>2. /\ pc' \in [Workers -> Positions] /\ member' = [v \in Workers |-> member'[v]]
        /\ pc'[w] = "run" /\ member'[w] = None
        /\ carried' \subseteq carried /\ carried \subseteq carried' \cup {m}
        /\ \A v \in Workers : v # w => pc'[v] = pc[v] /\ member'[v] = member[v]
    <3>1. "run" \in Positions /\ "run" \notin Carrying
      BY DEF Positions, Carrying, Holding
    <3> QED
      BY <1>0, <2>1, <3>1, GotoStep
  <2>3. /\ zset' = [s \in Keys |-> zset'[s]] /\ zset'["delayed"] = zset["delayed"]
        /\ DOMAIN zset'["reserved"] = DOMAIN zset["reserved"] \cup {m}
    <3>1. zset = [s \in Keys |-> zset[s]]
      BY <1>0 DEF RType
    <3>2. zset'["reserved"] = ZAdd(zset.reserved, m, VisTout) /\ zset'["delayed"] = zset["delayed"]
          /\ zset' = [s \in Keys |-> zset'[s]]
      BY <2>1, <3>1 DEF Keys
    <3> QED
      BY <3>2 DEF ZAdd
  <2>4. job' = [v \in Workers |-> job'[v]] /\ job'[w] = m /\ \A v \in Workers : v # w => job'[v] = job[v]
    BY <1>0, <2>1 DEF RType
  <2>5. RType'
    <3>1. \A s \in Keys : DOMAIN zset'[s] \subseteq Member
      BY <1>0, <2>1, <2>3 DEF RType, Keys
    <3> QED
      BY <1>0, <2>1, <2>2, <2>3, <2>4, <3>1 DEF RType, Holding, Carrying, Settling
  <2>6. copies' = copies
    <3>1. stored' = stored \cup {m}
      BY <2>1, <2>3 DEF stored
    <3> QED
      BY <2>1, <2>2, <3>1 DEF copies
  <2>7. Known' /\ Kept
    BY <1>0, <2>1, <2>2, <2>4, <2>6 DEF Known, Kept, Holding, copies
  <2> QED
    BY <2>1, <2>5, <2>6, <2>7 DEF RInv
<1>4. CASE handleSucceeds(w) \/ handleFails(w)
  <2> PICK p, j : p = pc'[w] /\ j = job[w].id
    OBVIOUS
  <2>1. /\ pc[w] = "run" /\ Goto(w, p, None) /\ p \in {"ack", "nack"}
        /\ (p = "ack" => concluded' = concluded \cup {j}) /\ (p = "nack" => concluded' = concluded)
        /\ UNCHANGED <<ready, zset, job, stage, todo, held, faults, pushed>>
    BY <1>0, <1>4 DEF handleSucceeds, handleFails, Goto, svars, RType
  <2>2. j \in pushed
    BY <1>0, <2>1 DEF Known, Holding
  <2>3. /\ pc' \in [Workers -> Positions] /\ member' = [v \in Workers |-> member'[v]]
        /\ pc'[w] = p /\ member'[w] = None /\ carried' = carried
        /\ \A v \in Workers : v # w => pc'[v] = pc[v] /\ member'[v] = member[v]
    BY <1>0, <2>1, GotoStep DEF Positions, Carrying, Holding
  <2>4. RType'
    BY <1>0, <2>1, <2>2, <2>3 DEF RType, Holding, Carrying, Settling
  <2>5. copies' = copies
    BY <2>1, <2>3 DEF copies, stored
  <2>6. Known' /\ Kept
    BY <1>0, <2>1, <2>3, <2>5 DEF Known, Kept, Holding
  <2> QED
    BY <2>1, <2>4, <2>5, <2>6 DEF RInv
<1> QED
  BY <1>1, <1>2, <1>3, <1>4

\* Time passing changes no key.
LEMMA TickKeeps ==
    ASSUME RInv, Tick
    PROVE  RInv' /\ Kept /\ copies' = copies /\ UNCHANGED <<pushed, concluded, faults>>
<1>0. /\ RType /\ Known /\ UNCHANGED <<ready, pc, job, stage, todo, member, faults, pushed, concluded>>
      /\ zset' = [s \in DOMAIN zset |->
                    [m \in DOMAIN zset[s] |-> IF zset[s][m] > 0 THEN zset[s][m] - 1 ELSE 0]]
  BY DEF RInv, Tick, hvars
<1>1. zset' = [s \in Keys |-> zset'[s]] /\ \A s \in Keys : DOMAIN zset'[s] = DOMAIN zset[s]
  BY <1>0 DEF RType
<1>2. RType'
  BY <1>0, <1>1 DEF RType
<1>3. copies' = copies
  BY <1>0, <1>1 DEF copies, stored, carried, Keys
<1> QED
  BY <1>0, <1>2, <1>3 DEF RInv, Known, Kept

\* Release takes the worker out of all it had.
LEMMA ReleaseStep ==
    ASSUME RType, NEW w \in Workers, Release(w)
    PROVE  /\ pc' \in [Workers -> Positions] /\ member' = [v \in Workers |-> member'[v]]
           /\ job' = [v \in Workers |-> job'[v]]
           /\ pc'[w] = "promote" /\ member'[w] = None /\ job'[w] = None
           /\ \A v \in Workers : v # w => pc'[v] = pc[v] /\ member'[v] = member[v] /\ job'[v] = job[v]
           /\ carried' \subseteq carried /\ carried \subseteq carried' \cup {member[w]}
           /\ pc[w] \notin Carrying => carried' = carried
<1>1. Goto(w, "promote", None) /\ job' = [job EXCEPT ![w] = None] /\ "promote" \in Positions
  BY DEF Release, Positions
<1>2. job' = [v \in Workers |-> job'[v]] /\ job'[w] = None /\ \A v \in Workers : v # w => job'[v] = job[v]
  BY <1>1 DEF RType
<1>3. /\ pc' \in [Workers -> Positions] /\ member' = [v \in Workers |-> member'[v]]
      /\ pc'[w] = "promote" /\ member'[w] = None
      /\ \A v \in Workers : v # w => pc'[v] = pc[v] /\ member'[v] = member[v]
      /\ carried' \subseteq carried /\ carried \subseteq carried' \cup {member[w]}
      /\ pc[w] \notin Carrying => carried' = carried
  BY <1>1, GotoStep DEF Carrying
<1> QED
  BY <1>2, <1>3

\* Reading the reserved set changes nothing in it.
LEMMA ScanKeeps ==
    ASSUME RInv, NEW w \in Workers, AckScan(w) \/ NackScan(w)
    PROVE  RInv' /\ Kept /\ copies' = copies /\ UNCHANGED <<pushed, concluded, faults>>
<1> PICK p : p = IF pc[w] = "ack" THEN "ackRem" ELSE "nackPush"
  OBVIOUS
<1>0. /\ RType /\ Known /\ pc[w] \in {"ack", "nack"} /\ (p = "ackRem" => pc[w] = "ack")
      /\ p \in {"ackRem", "nackPush"}
      /\ UNCHANGED <<ready, zset, stage, todo, faults, pushed, concluded>>
      /\ \/ \E m \in Found(w) : Goto(w, p, m) /\ UNCHANGED job
         \/ Release(w)
  BY DEF RInv, AckScan, NackScan, removeReserved, svars, hvars
<1>1. stored' = stored
  BY <1>0 DEF stored
<1>2. ASSUME NEW m \in Found(w), Goto(w, p, m), UNCHANGED job PROVE RInv' /\ Kept /\ copies' = copies
  <2>1. m \in Member /\ m.id = job[w].id
    BY <1>0 DEF Found, RType, Keys
  <2>2. /\ pc' \in [Workers -> Positions] /\ member' = [v \in Workers |-> member'[v]]
        /\ pc'[w] = p /\ member'[w] = m /\ carried' = carried
        /\ \A v \in Workers : v # w => pc'[v] = pc[v] /\ member'[v] = member[v]
    <3>1. p \in Positions /\ p \notin Carrying /\ pc[w] \notin Carrying
      BY <1>0 DEF Positions, Carrying, Holding
    <3> QED
      BY <1>0, <1>2, <3>1, GotoStep
  <2>3. RType'
    BY <1>0, <1>2, <2>1, <2>2 DEF RType, Holding, Carrying, Settling
  <2>4. copies' = copies
    BY <1>1, <2>2 DEF copies
  <2>5. Known' /\ Kept
    BY <1>0, <1>2, <2>2, <2>4 DEF Known, Kept, Holding
  <2> QED
    BY <2>3, <2>4, <2>5 DEF RInv
<1>3. CASE Release(w)
  <2>1. /\ pc' \in [Workers -> Positions] /\ member' = [v \in Workers |-> member'[v]]
        /\ job' = [v \in Workers |-> job'[v]]
        /\ pc'[w] = "promote" /\ member'[w] = None /\ job'[w] = None
        /\ \A v \in Workers : v # w => pc'[v] = pc[v] /\ member'[v] = member[v] /\ job'[v] = job[v]
        /\ carried' = carried
    BY <1>0, <1>3, ReleaseStep DEF Carrying
  <2>2. RType'
    BY <1>0, <2>1 DEF RType, Holding, Carrying, Settling
  <2>3. copies' = copies
    BY <1>1, <2>1 DEF copies
  <2>4. Known' /\ Kept
    BY <1>0, <2>1, <2>3 DEF Known, Kept, Holding
  <2> QED
    BY <1>0, <2>2, <2>3, <2>4 DEF RInv
<1> QED
  BY <1>0, <1>2, <1>3

\* Nack stores the next copy before it gives up the old one.
LEMMA NackPushStores ==
    ASSUME RInv, NEW w \in Workers, NackPush(w)
    PROVE  /\ RInv' /\ UNCHANGED <<pushed, concluded, faults, job, held, stage, todo>>
           /\ pc[w] = "nackPush" /\ pc'[w] = "nackRem"
           /\ member[w] \in Member /\ member[w].id = job[w].id
           /\ \A v \in Workers : member'[v] = member[v] /\ (v # w => pc'[v] = pc[v])
           /\ copies' = copies \cup {[id |-> member[w].id, attempts |-> member[w].attempts + 1]}
<1> PICK m, r : m = member[w] /\ r = [m EXCEPT !.attempts = @ + 1]
  OBVIOUS
<1>0. /\ RType /\ Known /\ pc[w] = "nackPush" /\ store(r, RetryDelay(job[w].attempts))
      /\ Goto(w, "nackRem", m)
      /\ UNCHANGED <<job, stage, todo, held, faults, pushed, concluded>>
      /\ m \in Member /\ m.id = job[w].id
  BY DEF RInv, NackPush, hvars, RType, Settling
<1>1. r = [id |-> m.id, attempts |-> m.attempts + 1] /\ r \in Member /\ r.id = m.id
  BY <1>0 DEF Member
<1>2. /\ ready' \in Seq(Member) /\ stored' = stored \cup {r}
      /\ zset' = [s \in Keys |-> zset'[s]] /\ \A s \in Keys : DOMAIN zset'[s] \subseteq Member
  BY <1>0, <1>1, StoreStep
<1>3. /\ pc' \in [Workers -> Positions] /\ member' = [v \in Workers |-> member'[v]]
      /\ pc'[w] = "nackRem" /\ member'[w] = m /\ carried' = carried
      /\ \A v \in Workers : v # w => pc'[v] = pc[v] /\ member'[v] = member[v]
  <2>1. "nackRem" \in Positions /\ "nackRem" \notin Carrying /\ pc[w] \notin Carrying
    BY <1>0 DEF Positions, Carrying, Holding
  <2> QED
    BY <1>0, <2>1, GotoStep
<1>4. copies' = copies \cup {r}
  BY <1>2, <1>3 DEF copies
<1>5. RType'
  BY <1>0, <1>2, <1>3 DEF RType, Holding, Carrying, Settling
<1>6. Known'
  <2>1. m.id \in pushed
    BY <1>0 DEF Known, Holding
  <2> QED
    BY <1>0, <1>1, <1>3, <1>4, <2>1 DEF Known, Holding
<1> QED
  BY <1>0, <1>1, <1>3, <1>4, <1>5, <1>6 DEF RInv

\* Ack and Nack end by removing one member of their job from the reserved set.
LEMMA SettleRemoves ==
    ASSUME RInv, NEW w \in Workers, SettleRem(w)
    PROVE  /\ RInv' /\ UNCHANGED <<pushed, concluded, faults>>
           /\ pc[w] \in {"ackRem", "nackRem"} /\ pc'[w] = "promote"
           /\ member[w] \in Member /\ member[w].id = job[w].id
           /\ pc[w] = "ackRem" => member[w].id \in concluded
           /\ \A v \in Workers : v # w => pc'[v] = pc[v] /\ member'[v] = member[v]
           /\ copies' \subseteq copies /\ copies \subseteq copies' \cup {member[w]}
<1> PICK m : m = member[w]
  OBVIOUS
<1>0. /\ RType /\ Known /\ pc[w] \in {"ackRem", "nackRem"} /\ Release(w)
      /\ zset' = [zset EXCEPT !.reserved = ZRem(@, m)]
      /\ UNCHANGED <<ready, stage, todo, faults, pushed, concluded>>
      /\ m \in Member /\ m.id = job[w].id
  BY DEF RInv, SettleRem, hvars, RType, Settling
<1>1. /\ pc' \in [Workers -> Positions] /\ member' = [v \in Workers |-> member'[v]]
      /\ job' = [v \in Workers |-> job'[v]]
      /\ pc'[w] = "promote" /\ member'[w] = None /\ job'[w] = None
      /\ \A v \in Workers : v # w => pc'[v] = pc[v] /\ member'[v] = member[v] /\ job'[v] = job[v]
      /\ carried' = carried
  BY <1>0, ReleaseStep DEF Carrying
<1>2. /\ zset' = [s \in Keys |-> zset'[s]] /\ zset'["delayed"] = zset["delayed"]
      /\ DOMAIN zset'["reserved"] = DOMAIN zset["reserved"] \ {m}
  <2>1. zset = [s \in Keys |-> zset[s]]
    BY <1>0 DEF RType
  <2>2. /\ zset'["reserved"] = ZRem(zset.reserved, m) /\ zset'["delayed"] = zset["delayed"]
        /\ zset' = [s \in Keys |-> zset'[s]]
    BY <1>0, <2>1 DEF Keys
  <2> QED
    BY <2>2 DEF ZRem
<1>3. RType'
  <2>1. \A s \in Keys : DOMAIN zset'[s] \subseteq Member
    BY <1>0, <1>2 DEF RType, Keys
  <2> QED
    BY <1>0, <1>1, <1>2, <2>1 DEF RType, Holding, Carrying, Settling
<1>4. copies' \subseteq copies /\ copies \subseteq copies' \cup {m}
  <2>1. stored' \subseteq stored /\ stored \subseteq stored' \cup {m}
    BY <1>0, <1>2 DEF stored
  <2> QED
    BY <1>1, <2>1 DEF copies
<1>5. Known'
  BY <1>0, <1>1, <1>4 DEF Known, Holding
<1>6. pc[w] = "ackRem" => m.id \in concluded
  BY <1>0 DEF Known
<1> QED
  BY <1>0, <1>1, <1>3, <1>4, <1>5, <1>6 DEF RInv

\* A fault takes with it what its worker carried.
LEMMA FaultDrops ==
    ASSUME RInv, NEW w \in Workers, Fault(w)
    PROVE  /\ RInv' /\ UNCHANGED <<pushed, concluded>> /\ faults' = faults + 1
           /\ pc'[w] = "promote"
           /\ \A v \in Workers : v # w => pc'[v] = pc[v] /\ member'[v] = member[v]
           /\ copies \subseteq copies' \cup {member[w]}
<1>0. /\ RType /\ Known /\ Release(w) /\ faults' = faults + 1
      /\ stage' = [stage EXCEPT ![w] = "delayed"] /\ todo' = [todo EXCEPT ![w] = {}]
      /\ UNCHANGED <<ready, zset, pushed, concluded>>
  BY DEF RInv, Fault, svars, hvars
<1>1. /\ pc' \in [Workers -> Positions] /\ member' = [v \in Workers |-> member'[v]]
      /\ job' = [v \in Workers |-> job'[v]]
      /\ pc'[w] = "promote" /\ member'[w] = None /\ job'[w] = None
      /\ \A v \in Workers : v # w => pc'[v] = pc[v] /\ member'[v] = member[v] /\ job'[v] = job[v]
      /\ carried' \subseteq carried /\ carried \subseteq carried' \cup {member[w]}
  BY <1>0, ReleaseStep
<1>2. stage' \in [Workers -> Keys] /\ todo' \in [Workers -> SUBSET Member] /\ faults' \in Nat
  BY <1>0 DEF RType, Keys
<1>3. RType'
  BY <1>0, <1>1, <1>2 DEF RType, Holding, Carrying, Settling
<1>4. copies' \subseteq copies /\ copies \subseteq copies' \cup {member[w]}
  BY <1>0, <1>1 DEF copies, stored
<1>5. Known'
  BY <1>0, <1>1, <1>4 DEF Known, Holding, RType
<1> QED
  BY <1>0, <1>1, <1>3, <1>4, <1>5 DEF RInv

-----------------------------------------------------------------------------
(* At-least-once, up to one job per fault.                                  *)

\* A copy of j that no pending removal of a Nack can be about: every Nack that
\* is about to remove a copy has stored one with more attempts before.
Secure(j) ==
    \E c \in copies :
        /\ c.id = j
        /\ \A w \in Workers : pc[w] = "nackRem" /\ member[w].id = j => c.attempts > member[w].attempts

\* The jobs that are lost, or that a removal under way is about to lose.
AtRisk == {j \in pushed \ concluded : ~Secure(j)}

LEMMA SecureKept ==
    ASSUME NEW j, Secure(j), \A c \in copies : c.id = j => c \in copies',
           \A w \in Workers : pc'[w] = "nackRem" => pc[w] = "nackRem" /\ member'[w] = member[w]
    PROVE  Secure(j)'
BY DEF Secure

\* A set of numbers' worth of jobs does not grow when it only loses elements.
LEMMA RiskBounded ==
    ASSUME RInv, RInv', NEW n \in Nat, Cardinality(AtRisk) <= n,
           NEW x, AtRisk' \subseteq AtRisk \cup {x}
    PROVE  /\ Cardinality(AtRisk') <= n + 1
           /\ AtRisk' \subseteq AtRisk => Cardinality(AtRisk') <= n
<1>1. IsFiniteSet(AtRisk) /\ IsFiniteSet(AtRisk')
  <2>1. IsFiniteSet(pushed) /\ IsFiniteSet(pushed')
    BY DEF RInv, RType
  <2>2. AtRisk \subseteq pushed /\ AtRisk' \subseteq pushed'
    BY DEF AtRisk
  <2> QED
    BY <2>1, <2>2, FS_Subset
<1>2. /\ IsFiniteSet(AtRisk \cup {x})
      /\ Cardinality(AtRisk \cup {x}) = Cardinality(AtRisk) \/ Cardinality(AtRisk \cup {x}) = Cardinality(AtRisk) + 1
  BY <1>1, FS_AddElement
<1>3. Cardinality(AtRisk) \in Nat /\ Cardinality(AtRisk') \in Nat /\ Cardinality(AtRisk \cup {x}) \in Nat
  BY <1>1, <1>2, FS_CardinalityType
<1>4. Cardinality(AtRisk') <= Cardinality(AtRisk \cup {x})
  BY <1>2, FS_Subset
<1>5. AtRisk' \subseteq AtRisk => Cardinality(AtRisk') <= Cardinality(AtRisk)
  BY <1>1, FS_Subset
<1> QED
  BY <1>2, <1>3, <1>4, <1>5

\* No step without a fault puts another job at risk, and a fault only the one
\* that its worker carried.
LEMMA RiskStep ==
    ASSUME RInv, [Next]_vars
    PROVE  /\ RInv'
           /\ \/ AtRisk' \subseteq AtRisk /\ faults' = faults
              \/ \E x : AtRisk' \subseteq AtRisk \cup {x} /\ faults' = faults + 1
<1> DEFINE Goal == /\ RInv'
                   /\ \/ AtRisk' \subseteq AtRisk /\ faults' = faults
                      \/ \E x : AtRisk' \subseteq AtRisk \cup {x} /\ faults' = faults + 1
<1>0. RType /\ Known
  BY DEF RInv
<1>1. ASSUME RInv', Kept, UNCHANGED <<pushed, faults>>, concluded \subseteq concluded' PROVE Goal
  <2>1. \A j : Secure(j) => Secure(j)'
    BY <1>1, SecureKept DEF Kept
  <2>2. AtRisk' \subseteq AtRisk
    BY <1>1, <2>1 DEF AtRisk
  <2> QED
    BY <1>1, <2>2
<1>2. ASSUME NEW j \in Jobs, NEW delay \in 0..MaxDelay, Push(j, delay) PROVE Goal
  <2> PICK m : m = [id |-> j, attempts |-> 0]
    OBVIOUS
  <2>1. /\ RInv' /\ Kept /\ j \notin pushed /\ pushed' = pushed \cup {j} /\ concluded' = concluded
        /\ m \in copies' /\ m.id = j /\ faults' = faults
    BY <1>2, PushKeeps DEF Push
  <2>2. \A i : Secure(i) => Secure(i)'
    BY <2>1, SecureKept DEF Kept
  <2>3. Secure(j)'
    <3>1. \A w \in Workers : pc'[w] = "nackRem" => member'[w].id # j
      BY <1>0, <2>1 DEF Kept, RType, Known, Settling, Holding
    <3> QED
      BY <2>1, <3>1 DEF Secure
  <2>4. AtRisk' \subseteq AtRisk
    BY <2>1, <2>2, <2>3 DEF AtRisk
  <2> QED
    BY <2>1, <2>4
<1>3. ASSUME NEW w \in Workers,
             promoteScan(w) \/ (\E m \in todo[w] : promoteRem(w, m)) \/ promotePush(w) \/ promoteDone(w)
      PROVE  Goal
  BY <1>1, <1>3, PromoteKeeps
<1>4. ASSUME NEW w \in Workers,
             PopTake(w) \/ PopEmpty(w) \/ reserve(w) \/ handleSucceeds(w) \/ handleFails(w)
      PROVE  Goal
  BY <1>1, <1>4, DeliveryKeeps
<1>5. ASSUME NEW w \in Workers, AckScan(w) \/ NackScan(w) PROVE Goal
  BY <1>1, <1>5, ScanKeeps
<1>6. ASSUME NEW w \in Workers, NackPush(w) PROVE Goal
  <2> PICK m, r : m = member[w] /\ r = [id |-> m.id, attempts |-> m.attempts + 1]
    OBVIOUS
  <2>1. /\ RInv' /\ UNCHANGED <<pushed, concluded, faults>>
        /\ pc[w] = "nackPush" /\ pc'[w] = "nackRem" /\ m \in Member
        /\ \A v \in Workers : member'[v] = member[v] /\ (v # w => pc'[v] = pc[v])
        /\ copies' = copies \cup {r}
    BY <1>6, NackPushStores
  <2>2. r.id = m.id /\ r.attempts = m.attempts + 1 /\ m.attempts \in Nat
    BY <2>1 DEF Member
  <2>3. \A c \in copies : c.attempts \in Nat
    BY <1>0, StoredMembers DEF copies, Member
  <2>4. ASSUME NEW i, Secure(i) PROVE Secure(i)'
    <3>1. PICK c \in copies : /\ c.id = i
                              /\ \A v \in Workers : pc[v] = "nackRem" /\ member[v].id = i => c.attempts > member[v].attempts
      BY <2>4 DEF Secure
    <3>2. CASE i # m.id \/ c.attempts > m.attempts
      BY <2>1, <3>1, <3>2 DEF Secure
    <3>3. CASE i = m.id /\ ~(c.attempts > m.attempts)
      <4>1. \A v \in Workers : pc'[v] = "nackRem" /\ member'[v].id = i => r.attempts > member'[v].attempts
        <5> SUFFICES ASSUME NEW v \in Workers, pc'[v] = "nackRem", member'[v].id = i PROVE r.attempts > member'[v].attempts
          OBVIOUS
        <5>1. CASE v = w
          BY <2>1, <2>2, <5>1
        <5>2. CASE v # w
          <6>1. pc[v] = "nackRem" /\ member[v] = member'[v] /\ member[v] \in Member
            BY <1>0, <2>1, <5>2 DEF RType, Settling
          <6>2. c.attempts > member[v].attempts /\ member[v].attempts \in Nat
            BY <3>1, <6>1 DEF Member
          <6> QED
            BY <2>2, <2>3, <3>3, <6>1, <6>2
        <5> QED
          BY <5>1, <5>2
      <4> QED
        BY <2>1, <2>2, <3>3, <4>1 DEF Secure
    <3> QED
      BY <3>2, <3>3
  <2>5. AtRisk' \subseteq AtRisk
    BY <2>1, <2>4 DEF AtRisk
  <2> QED
    BY <2>1, <2>5
<1>7. ASSUME NEW w \in Workers, SettleRem(w) PROVE Goal
  <2> PICK m : m = member[w]
    OBVIOUS
  <2>1. /\ RInv' /\ UNCHANGED <<pushed, concluded, faults>>
        /\ pc[w] \in {"ackRem", "nackRem"} /\ pc'[w] = "promote" /\ m \in Member
        /\ pc[w] = "ackRem" => m.id \in concluded
        /\ \A v \in Workers : v # w => pc'[v] = pc[v] /\ member'[v] = member[v]
        /\ copies \subseteq copies' \cup {m}
    BY <1>7, SettleRemoves
  <2>2. ASSUME NEW i, Secure(i), i \notin concluded PROVE Secure(i)'
    <3>1. PICK c \in copies : /\ c.id = i
                              /\ \A v \in Workers : pc[v] = "nackRem" /\ member[v].id = i => c.attempts > member[v].attempts
      BY <2>2 DEF Secure
    <3>2. c # m
      <4>1. m.attempts \in Nat
        BY <2>1 DEF Member
      <4> QED
        BY <2>1, <2>2, <3>1, <4>1
    <3> QED
      BY <2>1, <3>1, <3>2 DEF Secure
  <2>3. AtRisk' \subseteq AtRisk
    BY <2>1, <2>2 DEF AtRisk
  <2> QED
    BY <2>1, <2>3
<1>8. ASSUME NEW w \in Workers, Fault(w) PROVE Goal
  <2> PICK m, x : m = member[w] /\ x = m.id
    OBVIOUS
  <2>1. /\ RInv' /\ UNCHANGED <<pushed, concluded>> /\ faults' = faults + 1 /\ pc'[w] = "promote"
        /\ \A v \in Workers : v # w => pc'[v] = pc[v] /\ member'[v] = member[v]
        /\ copies \subseteq copies' \cup {m}
    BY <1>8, FaultDrops
  <2>2. ASSUME NEW i, Secure(i), i # x PROVE Secure(i)'
    BY <2>1, <2>2, SecureKept
  <2>3. AtRisk' \subseteq AtRisk \cup {x}
    BY <2>1, <2>2 DEF AtRisk
  <2> QED
    BY <2>1, <2>3
<1>9. CASE Tick
  BY <1>1, <1>9, TickKeeps
<1>10. CASE UNCHANGED vars
  <2>1. UNCHANGED <<ready, zset, pc, job, stage, todo, member, held, faults, pushed, concluded>>
    BY <1>10 DEF vars, svars, wvars, hvars
  <2>2. RInv' /\ copies' = copies
    BY <2>1 DEF RInv, RType, Known, copies, stored, carried
  <2> QED
    BY <1>1, <2>1, <2>2 DEF Kept
<1> HIDE DEF Goal
<1> QED
  BY <1>2, <1>3, <1>4, <1>5, <1>6, <1>7, <1>8, <1>9, <1>10 DEF Next, Work, Goal

LossInv == RInv /\ Cardinality(AtRisk) <= faults

LEMMA LossInit == Init => LossInv
<1> SUFFICES ASSUME Init PROVE LossInv
  OBVIOUS
<1>1. RType
  <2>1. zset = [s \in Keys |-> zset[s]] /\ \A s \in Keys : zset[s] = <<>>
    BY DEF Init, Keys
  <2>2. IsFiniteSet(pushed) /\ pushed = {} /\ concluded = {} /\ faults = 0
    BY FS_EmptySet DEF Init
  <2> QED
    BY <2>1, <2>2 DEF Init, RType, Positions, Holding, Carrying, Settling, Keys
<1>2. copies = {}
  <2>1. ready = <<>> /\ zset.delayed = <<>> /\ zset.reserved = <<>> /\ \A w \in Workers : pc[w] = "promote"
    BY DEF Init
  <2> QED
    BY <2>1 DEF copies, stored, carried, Range
<1>3. Known
  BY <1>2 DEF Known, Init, Holding
<1>4. Cardinality(AtRisk) = 0 /\ faults = 0
  <2>1. AtRisk = {}
    BY DEF Init, AtRisk
  <2> QED
    BY <2>1, FS_EmptySet DEF Init
<1> QED
  BY <1>1, <1>3, <1>4 DEF LossInv, RInv

LEMMA LossStep == LossInv /\ [Next]_vars => LossInv'
<1> SUFFICES ASSUME LossInv, [Next]_vars PROVE LossInv'
  OBVIOUS
<1>1. RInv /\ Cardinality(AtRisk) <= faults /\ faults \in Nat
  BY DEF LossInv, RInv, RType
<1>2. RInv'
  BY <1>1, RiskStep
<1>3. CASE AtRisk' \subseteq AtRisk /\ faults' = faults
  <2>1. AtRisk' \subseteq AtRisk \cup {0}
    BY <1>3
  <2> QED
    BY <1>1, <1>2, <1>3, <2>1, RiskBounded DEF LossInv
<1>4. ASSUME NEW x, AtRisk' \subseteq AtRisk \cup {x}, faults' = faults + 1 PROVE LossInv'
  BY <1>1, <1>2, <1>4, RiskBounded DEF LossInv
<1> QED
  BY <1>1, <1>3, <1>4, RiskStep

\* What is not live is not secure.
LEMMA LossSafe == LossInv => TypeOK /\ LossPerFault
<1> SUFFICES ASSUME LossInv PROVE TypeOK /\ LossPerFault
  OBVIOUS
<1>0. RType /\ Known /\ Cardinality(AtRisk) <= faults /\ faults \in Nat
  BY DEF LossInv, RInv, RType
<1>1. TypeOK
  <2>1. Range(ready) \subseteq Member /\ \A s \in {"delayed", "reserved"} : DOMAIN zset[s] \subseteq Member
    BY <1>0 DEF RType, Range, Keys
  <2>2. \A w \in Workers : /\ member[w] \in Member \cup {None} /\ job[w] \in Member \cup {None}
                           /\ pc[w] \in Holding <=> job[w] # None
    BY <1>0, NoneAssumption DEF RType
  <2> QED
    BY <1>0, <2>1, <2>2 DEF TypeOK, RType, Keys
<1> DEFINE lost == (pushed \ concluded) \ live
<1>2. lost \subseteq AtRisk
  BY DEF AtRisk, Secure, live, copies
<1>3. IsFiniteSet(AtRisk)
  <2>1. IsFiniteSet(pushed) /\ AtRisk \subseteq pushed
    BY <1>0 DEF RType, AtRisk
  <2> QED
    BY <2>1, FS_Subset
<1> HIDE DEF lost
<1>4. IsFiniteSet(lost) /\ Cardinality(lost) <= Cardinality(AtRisk)
  BY <1>2, <1>3, FS_Subset
<1>5. Cardinality(lost) \in Nat /\ Cardinality(AtRisk) \in Nat
  BY <1>3, <1>4, FS_CardinalityType
<1>6. Cardinality(lost) <= faults
  BY <1>0, <1>4, <1>5
<1>7. ASSUME faults = 0 PROVE C!NothingLost
  <2>1. Cardinality(lost) = 0
    BY <1>5, <1>6, <1>7
  <2>2. lost = {}
    BY <1>4, <2>1, FS_EmptySet
  <2> QED
    BY <2>2 DEF lost, C!NothingLost
<1> QED
  BY <1>1, <1>6, <1>7 DEF LossPerFault, lost

-----------------------------------------------------------------------------
(* One delivery at a time, if workers are prompt and nothing has failed.    *)

\* A worker that has a job, and the member it has it as.
Busy(w) == pc[w] \in Holding \cup Carrying
Has(w) == IF pc[w] \in Holding THEN job[w] ELSE member[w]

\* A copy of the job that w has is nowhere else, except for the one that w's own
\* Nack has just stored, and that one is not due before w is done.
Alone(w) ==
    /\ \A v \in Workers : Busy(v) /\ Has(v).id = Has(w).id => v = w
    /\ \A m \in Range(ready) : m.id # Has(w).id
    /\ \A m \in DOMAIN zset.delayed : m.id = Has(w).id =>
          pc[w] = "nackRem" /\ m.attempts = job[w].attempts + 1 /\ zset.delayed[m] + held[w] > HandlerMax

\* The list and the delayed set have every job once between them.
ListedOnce ==
    /\ \A i, k \in DOMAIN ready : ready[i].id = ready[k].id => i = k
    /\ \A m \in Range(ready) : \A n \in DOMAIN zset.delayed : m.id # n.id
    /\ \A m, n \in DOMAIN zset.delayed : m.id = n.id => m = n

\* The reserved set has the members of the workers that hold jobs, and they are
\* not due.
Reserved ==
    /\ DOMAIN zset.reserved = {job[w] : w \in {v \in Workers : pc[v] \in Holding}}
    /\ \A w \in Workers :
          IF pc[w] \in Holding
          THEN held[w] <= HandlerMax /\ zset.reserved[job[w]] + held[w] >= VisTout
          ELSE held[w] = 0
    /\ \A w \in Workers : pc[w] \in Settling => member[w] = job[w]

Unspent ==
    /\ \A m \in copies : m.attempts < MaxRetry
    /\ \A w \in Workers : pc[w] \in {"nack", "nackPush"} => job[w].attempts + 1 < MaxRetry

\* What promote has read and not yet moved is due if it is still there, and no
\* newer than what is now known of the job.
Read ==
    \A w \in Workers : \A m \in todo[w] :
        /\ stage[w] = "delayed"
        /\ m \in DOMAIN zset.delayed => zset.delayed[m] = 0
        /\ \A n \in Range(ready) \cup DOMAIN zset.delayed : n.id = m.id => m.attempts <= n.attempts
        /\ \A v \in Workers : Busy(v) /\ Has(v).id = m.id => m.attempts <= Has(v).attempts

Clocks ==
    /\ held \in [Workers -> Nat]
    /\ \A s \in Keys : zset[s] \in [DOMAIN zset[s] -> Nat]

Solo == /\ \A w \in Workers : Busy(w) => Alone(w)
        /\ ListedOnce /\ Reserved /\ Unspent /\ Read

SoloInv == RInv /\ Clocks /\ (Prompt /\ faults = 0 => Solo)

\* Whatever is listed or in a worker's hands is a member of a pushed job.
LEMMA Tokens ==
    ASSUME RInv
    PROVE  /\ \A w \in Workers : Busy(w) => Has(w) \in Member /\ Has(w).id \in pushed /\ Has(w).attempts \in Nat
           /\ \A m \in Range(ready) \cup DOMAIN zset.delayed :
                m \in copies /\ m \in Member /\ m.id \in pushed /\ m.attempts \in Nat
<1>0. RType /\ Known /\ stored \subseteq Member /\ carried \subseteq Member
  BY StoredMembers DEF RInv
<1>1. ASSUME NEW w \in Workers, Busy(w) PROVE Has(w) \in Member /\ Has(w).id \in pushed /\ Has(w).attempts \in Nat
  <2>1. CASE pc[w] \in Holding
    BY <1>0, <2>1 DEF Has, RType, Known, Member
  <2>2. CASE pc[w] \notin Holding
    <3>1. pc[w] \in Carrying /\ Has(w) = member[w]
      BY <1>1, <2>2 DEF Busy, Has
    <3>2. member[w] \in carried
      BY <3>1 DEF carried, Carrying
    <3> QED
      BY <1>0, <3>1, <3>2 DEF Known, copies, Member
  <2> QED
    BY <2>1, <2>2
<1>2. \A m \in Range(ready) \cup DOMAIN zset.delayed :
        m \in copies /\ m \in Member /\ m.id \in pushed /\ m.attempts \in Nat
  BY <1>0 DEF stored, copies, Known, Member
<1> QED
  BY <1>1, <1>2

\* A worker whose step leaves another one alone leaves what that one has alone.
LEMMA SameHas ==
    ASSUME NEW v, pc'[v] = pc[v], member'[v] = member[v], job'[v] = job[v]
    PROVE  (Busy(v)' <=> Busy(v)) /\ Has(v)' = Has(v)
BY DEF Busy, Has

\* Steps that change no key and nobody's job.
LEMMA QuietSolo ==
    ASSUME RInv, Solo, UNCHANGED <<ready, zset, held, job>>, copies' = copies, Read',
           \A v \in Workers :
              /\ (Busy(v)' <=> Busy(v)) /\ (Busy(v) => Has(v)' = Has(v))
              /\ pc'[v] \in Holding <=> pc[v] \in Holding
              /\ pc'[v] = "nackRem" <=> pc[v] = "nackRem"
              /\ pc'[v] \in Settling => member'[v] = job[v]
              /\ pc'[v] \in {"nack", "nackPush"} => job[v].attempts + 1 < MaxRetry
    PROVE  Solo'
<1>1. ASSUME NEW v \in Workers, Busy(v)' PROVE Alone(v)'
  BY <1>1 DEF Solo, Alone
<1>2. ListedOnce'
  BY DEF Solo, ListedOnce
<1>3. Reserved'
  <2>1. {job'[v] : v \in {u \in Workers : pc'[u] \in Holding}} = {job[v] : v \in {u \in Workers : pc[u] \in Holding}}
    OBVIOUS
  <2> QED
    BY <2>1 DEF Solo, Reserved
<1>4. Unspent'
  BY DEF Solo, Unspent
<1> QED
  BY <1>1, <1>2, <1>3, <1>4 DEF Solo

\* Read after a step that reads nothing and changes no key.
LEMMA ReadKept ==
    ASSUME Read, UNCHANGED <<ready, zset>>,
           \A v \in Workers : /\ (Busy(v)' <=> Busy(v)) /\ (Busy(v) => Has(v)' = Has(v))
                              /\ todo'[v] \subseteq todo[v] /\ (stage'[v] = stage[v] \/ todo'[v] = {})
    PROVE  Read'
<1> SUFFICES ASSUME NEW v \in Workers, NEW m \in todo'[v]
             PROVE  /\ stage'[v] = "delayed"
                    /\ m \in DOMAIN zset'.delayed => zset'.delayed[m] = 0
                    /\ \A n \in Range(ready') \cup DOMAIN zset'.delayed : n.id = m.id => m.attempts <= n.attempts
                    /\ \A u \in Workers : Busy(u)' /\ Has(u)'.id = m.id => m.attempts <= Has(u)'.attempts
  BY DEF Read
<1> QED
  BY DEF Read

LEMMA ScanSolo ==
    ASSUME RInv, Clocks, Solo, Prompt, NEW w \in Workers, promoteScan(w)
    PROVE  Solo'
<1> PICK t : t = dueMembers(zset[stage[w]])
  OBVIOUS
<1>0. /\ RType /\ pc[w] = "promote" /\ todo' = [todo EXCEPT ![w] = t] /\ Goto(w, "move", None)
      /\ UNCHANGED <<ready, zset, job, stage, held>> /\ copies' = copies
  BY PromoteKeeps DEF RInv, promoteScan, svars
<1>1. /\ pc'[w] = "move" /\ \A v \in Workers : v # w => pc'[v] = pc[v] /\ member'[v] = member[v]
  BY <1>0, GotoStep DEF Positions
<1>2. \A v \in Workers : (Busy(v)' <=> Busy(v)) /\ (Busy(v) => Has(v)' = Has(v))
  BY <1>0, <1>1, SameHas DEF Busy, Holding, Carrying
<1>3. ASSUME NEW m \in t
      PROVE  /\ stage[w] = "delayed" /\ m \in DOMAIN zset.delayed /\ zset.delayed[m] = 0
             /\ \A n \in Range(ready) \cup DOMAIN zset.delayed : n.id = m.id => m.attempts <= n.attempts
             /\ \A v \in Workers : Busy(v) => Has(v).id # m.id
  <2>1. m \in DOMAIN zset[stage[w]] /\ zset[stage[w]][m] = 0 /\ stage[w] \in Keys
    BY <1>0 DEF dueMembers, RType
  <2>2. ASSUME NEW v \in Workers, pc[v] \in Holding PROVE zset.reserved[job[v]] > 0
    <3>1. /\ held[v] \in Nat /\ held[v] <= HandlerMax /\ HandlerMax < VisTout
          /\ zset.reserved[job[v]] + held[v] >= VisTout /\ job[v] \in DOMAIN zset.reserved
      BY <2>2 DEF Solo, Reserved, Prompt, Clocks
    <3>2. zset.reserved[job[v]] \in Nat
      BY <3>1 DEF Clocks, Keys
    <3> QED
      BY <3>1, <3>2, TimesAssumption
  <2>3. stage[w] = "delayed"
    BY <2>1, <2>2 DEF Solo, Reserved, Keys
  <2>4. ASSUME NEW v \in Workers, Busy(v), Has(v).id = m.id PROVE FALSE
    <3>1. pc[v] = "nackRem" /\ zset.delayed[m] + held[v] > HandlerMax
      BY <2>1, <2>3, <2>4 DEF Solo, Alone
    <3>2. held[v] \in Nat /\ held[v] <= HandlerMax
      BY <3>1 DEF Solo, Reserved, Clocks, Holding
    <3> QED
      BY <2>1, <2>3, <3>1, <3>2, TimesAssumption
  <2>5. ASSUME NEW n \in Range(ready) \cup DOMAIN zset.delayed, n.id = m.id PROVE m.attempts <= n.attempts
    <3>1. n = m
      BY <2>1, <2>3, <2>5 DEF Solo, ListedOnce
    <3>2. m.attempts \in Nat
      BY <2>1, <2>3, Tokens
    <3> QED
      BY <3>1, <3>2
  <2> QED
    BY <2>1, <2>3, <2>4, <2>5
<1>4. Read'
  <2> SUFFICES ASSUME NEW v \in Workers, NEW m \in todo'[v]
               PROVE  /\ stage'[v] = "delayed"
                      /\ m \in DOMAIN zset'.delayed => zset'.delayed[m] = 0
                      /\ \A n \in Range(ready') \cup DOMAIN zset'.delayed : n.id = m.id => m.attempts <= n.attempts
                      /\ \A u \in Workers : Busy(u)' /\ Has(u)'.id = m.id => m.attempts <= Has(u)'.attempts
    BY DEF Read
  <2>1. CASE v = w
    <3>1. m \in t
      BY <1>0, <2>1 DEF RType
    <3> QED
      BY <1>0, <1>2, <1>3, <2>1, <3>1
  <2>2. CASE v # w
    <3>1. m \in todo[v]
      BY <1>0, <2>2 DEF RType
    <3> QED
      BY <1>0, <1>2, <2>2, <3>1 DEF Solo, Read
  <2> QED
    BY <2>1, <2>2
<1>5. \A v \in Workers :
        /\ pc'[v] \in Holding <=> pc[v] \in Holding
        /\ pc'[v] = "nackRem" <=> pc[v] = "nackRem"
        /\ pc'[v] \in Settling => member'[v] = job[v]
        /\ pc'[v] \in {"nack", "nackPush"} => job[v].attempts + 1 < MaxRetry
  BY <1>0, <1>1 DEF Solo, Reserved, Unspent, Holding, Settling
<1> QED
  BY <1>0, <1>2, <1>4, <1>5, QuietSolo

LEMMA QuietSteps ==
    ASSUME RInv, Solo, NEW w \in Workers,
           promoteDone(w) \/ PopEmpty(w) \/ handleSucceeds(w) \/ handleFails(w)
    PROVE  Solo'
<1>0. RType /\ copies' = copies
  BY PromoteKeeps, DeliveryKeeps DEF RInv
<1>1. /\ UNCHANGED <<ready, zset, job, todo, held>> /\ Goto(w, pc'[w], None)
      /\ \/ pc[w] \in {"move", "rpop"} /\ pc'[w] \in {"promote", "rpop"}
         \/ pc[w] = "run" /\ pc'[w] = "ack"
         \/ pc[w] = "run" /\ pc'[w] = "nack" /\ ~Exhausted(job[w].attempts)
      /\ \A v \in Workers : stage'[v] = stage[v] \/ todo'[v] = {}
  BY <1>0 DEF promoteDone, PopEmpty, handleSucceeds, handleFails, svars, Goto, RType
<1>2. \A v \in Workers : v # w => pc'[v] = pc[v] /\ member'[v] = member[v]
  BY <1>0, <1>1 DEF Goto, RType
<1>3. \A v \in Workers : (Busy(v)' <=> Busy(v)) /\ (Busy(v) => Has(v)' = Has(v))
  BY <1>1, <1>2, SameHas DEF Busy, Has, Holding, Carrying
<1>4. Read'
  BY <1>1, <1>3, ReadKept DEF Solo
<1>5. \A v \in Workers :
        /\ pc'[v] \in Holding <=> pc[v] \in Holding
        /\ pc'[v] = "nackRem" <=> pc[v] = "nackRem"
        /\ pc'[v] \in Settling => member'[v] = job[v]
        /\ pc'[v] \in {"nack", "nackPush"} => job[v].attempts + 1 < MaxRetry
  <2>1. pc'[w] = "nack" => job[w].attempts + 1 < MaxRetry
    <3>1. pc'[w] = "nack" => job[w].attempts \in Nat /\ ~Exhausted(job[w].attempts)
      BY <1>0, <1>1 DEF RType, Holding, Member
    <3> QED
      BY <3>1, MaxRetryAssumption DEF Exhausted
  <2> QED
    BY <1>1, <1>2, <2>1 DEF Solo, Reserved, Unspent, Holding, Settling
<1> QED
  BY <1>0, <1>1, <1>3, <1>4, <1>5, QuietSolo

\* An Ack or Nack finds the copy of its own worker.
LEMMA FoundOwn ==
    ASSUME RInv, Solo, NEW w \in Workers, AckScan(w) \/ NackScan(w)
    PROVE  Solo'
<1>0. RType /\ copies' = copies /\ pc[w] \in {"ack", "nack"}
  BY ScanKeeps DEF RInv, AckScan, NackScan
<1>1. Found(w) = {job[w]}
  <2>1. \A v \in Workers : pc[v] \in Holding => Busy(v) /\ Has(v) = job[v]
    BY DEF Busy, Has
  <2>2. pc[w] \in Holding
    BY <1>0 DEF Holding
  <2>3. \A v \in Workers : pc[v] \in Holding /\ job[v].id = job[w].id => v = w
    BY <2>1, <2>2 DEF Solo, Alone
  <2> QED
    BY <2>2, <2>3 DEF Solo, Reserved, Found
<1>2. /\ UNCHANGED <<ready, zset, stage, todo, held, job>>
      /\ \/ pc[w] = "ack" /\ Goto(w, "ackRem", job[w])
         \/ pc[w] = "nack" /\ Goto(w, "nackPush", job[w])
  BY <1>0, <1>1 DEF AckScan, NackScan, removeReserved, svars
<1>3. /\ member'[w] = job[w]
      /\ (pc[w] = "ack" /\ pc'[w] = "ackRem") \/ (pc[w] = "nack" /\ pc'[w] = "nackPush")
      /\ \A v \in Workers : v # w => pc'[v] = pc[v] /\ member'[v] = member[v]
  BY <1>0, <1>2 DEF Goto, RType
<1>4. \A v \in Workers : (Busy(v)' <=> Busy(v)) /\ (Busy(v) => Has(v)' = Has(v))
  BY <1>2, <1>3, SameHas DEF Busy, Has, Holding, Carrying
<1>5. Read'
  BY <1>2, <1>4, ReadKept DEF Solo
<1>6. \A v \in Workers :
        /\ pc'[v] \in Holding <=> pc[v] \in Holding
        /\ pc'[v] = "nackRem" <=> pc[v] = "nackRem"
        /\ pc'[v] \in Settling => member'[v] = job[v]
        /\ pc'[v] \in {"nack", "nackPush"} => job[v].attempts + 1 < MaxRetry
  BY <1>3 DEF Solo, Reserved, Unspent, Holding, Settling
<1> QED
  BY <1>0, <1>2, <1>4, <1>5, <1>6, QuietSolo

\* A member on its way from the delayed set to the list.
LEMMA RemSolo ==
    ASSUME RInv, Clocks, Solo, NEW w \in Workers, NEW m \in todo[w], promoteRem(w, m)
    PROVE  Solo'
<1>0. /\ RType /\ copies' = copies /\ pc[w] = "move" /\ stage[w] = "delayed" /\ m \in Member
      /\ todo' = [todo EXCEPT ![w] = @ \ {m}]
      /\ zset' = [zset EXCEPT ![stage[w]] = [x \in DOMAIN @ \ {m} |-> @[x]]]
      /\ UNCHANGED <<ready, job, stage, held>>
      /\ IF m \in DOMAIN zset.delayed THEN Goto(w, "lpush", m) ELSE UNCHANGED <<pc, member>>
  <2>1. stage[w] = "delayed"
    BY DEF Solo, Read
  <2>2. RType /\ copies' = copies /\ m \in Member
    BY PromoteKeeps DEF RInv, RType
  <2> QED
    BY <2>1, <2>2 DEF promoteRem, moveOn, scanned
<1>1. /\ DOMAIN zset'.delayed = DOMAIN zset.delayed \ {m} /\ zset'.reserved = zset.reserved
      /\ \A x \in DOMAIN zset'.delayed : zset'.delayed[x] = zset.delayed[x]
  <2>1. zset = [s \in Keys |-> zset[s]]
    BY <1>0 DEF RType
  <2>2. zset'.delayed = [x \in DOMAIN zset.delayed \ {m} |-> zset.delayed[x]] /\ zset'.reserved = zset.reserved
    BY <1>0, <2>1 DEF Keys
  <2> QED
    BY <2>2
<1>2. \A v \in Workers : todo'[v] \subseteq todo[v]
  BY <1>0 DEF RType
<1>3. CASE m \notin DOMAIN zset.delayed
  <2>1. \A v \in Workers : (Busy(v)' <=> Busy(v)) /\ Has(v)' = Has(v) /\ pc'[v] = pc[v] /\ member'[v] = member[v]
    BY <1>0, <1>3, SameHas
  <2>2. ASSUME NEW v \in Workers, Busy(v)' PROVE Alone(v)'
    BY <1>0, <1>1, <2>1, <2>2 DEF Solo, Alone
  <2>3. ListedOnce'
    BY <1>0, <1>1 DEF Solo, ListedOnce
  <2>4. Reserved'
    BY <1>0, <1>1, <1>3 DEF Solo, Reserved
  <2>5. Unspent'
    BY <1>0, <1>3 DEF Solo, Unspent
  <2>6. Read'
    BY <1>0, <1>1, <1>2, <2>1 DEF Solo, Read
  <2> QED
    BY <2>2, <2>3, <2>4, <2>5, <2>6 DEF Solo
<1>4. CASE m \in DOMAIN zset.delayed
  <2>1. /\ pc'[w] = "lpush" /\ member'[w] = m
        /\ \A v \in Workers : v # w => pc'[v] = pc[v] /\ member'[v] = member[v]
    BY <1>0, <1>4 DEF Goto, RType
  <2>2. /\ ~Busy(w) /\ Busy(w)' /\ Has(w)' = m
        /\ \A v \in Workers : v # w => (Busy(v)' <=> Busy(v)) /\ Has(v)' = Has(v)
    <3>1. ~Busy(w) /\ Busy(w)' /\ Has(w)' = m
      BY <1>0, <2>1 DEF Busy, Has, Holding, Carrying
    <3> QED
      BY <1>0, <2>1, <3>1, SameHas
  <2>3. \A v \in Workers : Busy(v) => Has(v).id # m.id
    <3> SUFFICES ASSUME NEW v \in Workers, Busy(v), Has(v).id = m.id PROVE FALSE
      OBVIOUS
    <3>1. pc[v] = "nackRem" /\ zset.delayed[m] + held[v] > HandlerMax /\ zset.delayed[m] = 0
      BY <1>4 DEF Solo, Alone, Read
    <3>2. held[v] \in Nat /\ held[v] <= HandlerMax
      BY <3>1 DEF Solo, Reserved, Clocks, Holding
    <3> QED
      BY <3>1, <3>2, TimesAssumption
  <2>4. /\ \A x \in Range(ready) : x.id # m.id
        /\ \A x \in DOMAIN zset'.delayed : x.id # m.id
    BY <1>1, <1>4 DEF Solo, ListedOnce
  <2>5. ASSUME NEW v \in Workers, Busy(v)' PROVE Alone(v)'
    <3>1. CASE v = w
      BY <1>0, <2>2, <2>3, <2>4, <3>1 DEF Alone
    <3>2. CASE v # w
      BY <1>0, <1>1, <2>1, <2>2, <2>3, <2>5, <3>2 DEF Solo, Alone
    <3> QED
      BY <3>1, <3>2
  <2>6. ListedOnce'
    BY <1>0, <1>1 DEF Solo, ListedOnce
  <2>7. Reserved'
    <3>1. \A v \in Workers : (pc'[v] \in Holding <=> pc[v] \in Holding) /\ (pc'[v] \in Settling => pc[v] \in Settling /\ member'[v] = member[v])
      BY <1>0, <2>1 DEF Holding, Settling
    <3> QED
      BY <1>0, <1>1, <3>1 DEF Solo, Reserved
  <2>8. Unspent'
    BY <1>0, <2>1 DEF Solo, Unspent
  <2>9. Read'
    <3> SUFFICES ASSUME NEW v \in Workers, NEW n \in todo'[v]
                 PROVE  /\ stage'[v] = "delayed"
                        /\ n \in DOMAIN zset'.delayed => zset'.delayed[n] = 0
                        /\ \A x \in Range(ready') \cup DOMAIN zset'.delayed : x.id = n.id => n.attempts <= x.attempts
                        /\ \A u \in Workers : Busy(u)' /\ Has(u)'.id = n.id => n.attempts <= Has(u)'.attempts
      BY DEF Read
    <3>1. n \in todo[v] /\ (m.id = n.id => n.attempts <= m.attempts)
      BY <1>2, <1>4 DEF Solo, Read
    <3>2. \A u \in Workers : Busy(u)' /\ Has(u)'.id = n.id => n.attempts <= Has(u)'.attempts
      BY <2>2, <3>1 DEF Solo, Read
    <3> QED
      BY <1>0, <1>1, <3>1, <3>2 DEF Solo, Read
  <2> QED
    BY <2>5, <2>6, <2>7, <2>8, <2>9 DEF Solo
<1> QED
  BY <1>3, <1>4

\* The sets after a store.
LEMMA StoreWhere ==
    ASSUME RType, NEW m \in Member, NEW delay, store(m, delay)
    PROVE  /\ zset'.reserved = zset.reserved
           /\ \/ ready' = Append(ready, m) /\ zset' = zset /\ ~(delay > 0)
              \/ /\ delay > 0 /\ ready' = ready
                 /\ DOMAIN zset'.delayed = DOMAIN zset.delayed \cup {m} /\ zset'.delayed[m] = delay
                 /\ \A x \in DOMAIN zset.delayed : x # m => zset'.delayed[x] = zset.delayed[x]
<1>0. zset = [s \in Keys |-> zset[s]]
  BY DEF RType
<1>1. CASE delay > 0
  <2>1. zset' = [zset EXCEPT !.delayed = ZAdd(@, m, delay)] /\ ready' = ready
    BY <1>1 DEF store
  <2>2. zset'.delayed = ZAdd(zset.delayed, m, delay) /\ zset'.reserved = zset.reserved
    BY <1>0, <2>1 DEF Keys
  <2> QED
    BY <1>1, <2>1, <2>2 DEF ZAdd
<1>2. CASE ~(delay > 0)
  BY <1>2 DEF store
<1> QED
  BY <1>1, <1>2

\* A member whose job is listed nowhere joins the list or the delayed set.
LEMMA JoinOnce ==
    ASSUME RType, ListedOnce, NEW m \in Member,
           \A x \in Range(ready) \cup DOMAIN zset.delayed : x.id # m.id,
           \/ ready' = Append(ready, m) /\ DOMAIN zset'.delayed = DOMAIN zset.delayed
           \/ ready' = ready /\ DOMAIN zset'.delayed = DOMAIN zset.delayed \cup {m}
    PROVE  ListedOnce' /\ Range(ready') \cup DOMAIN zset'.delayed = Range(ready) \cup DOMAIN zset.delayed \cup {m}
<1>0. ready \in Seq(Member)
  BY DEF RType
<1>1. CASE ready' = Append(ready, m) /\ DOMAIN zset'.delayed = DOMAIN zset.delayed
  <2>1. Range(ready') = Range(ready) \cup {m}
    BY <1>0, <1>1, ListMembers
  <2>2. /\ DOMAIN ready' = DOMAIN ready \cup {Len(ready) + 1}
        /\ \A p \in DOMAIN ready : ready'[p] = ready[p] /\ ready[p] \in Range(ready)
        /\ ready'[Len(ready) + 1] = m
    BY <1>0, <1>1 DEF Range
  <2>3. \A i, k \in DOMAIN ready' : ready'[i].id = ready'[k].id => i = k
    BY <2>2 DEF ListedOnce
  <2>4. \A x \in Range(ready') : \A n \in DOMAIN zset'.delayed : x.id # n.id
    BY <1>1, <2>1 DEF ListedOnce
  <2> QED
    BY <1>1, <2>1, <2>3, <2>4 DEF ListedOnce
<1>2. CASE ready' = ready /\ DOMAIN zset'.delayed = DOMAIN zset.delayed \cup {m}
  BY <1>2 DEF ListedOnce
<1> QED
  BY <1>1, <1>2

LEMMA PushSolo ==
    ASSUME RInv, Solo, NEW j \in Jobs, NEW delay \in 0..MaxDelay, Push(j, delay)
    PROVE  Solo'
<1> PICK m : m = [id |-> j, attempts |-> 0]
  OBVIOUS
<1>0. /\ RType /\ Known /\ store(m, delay) /\ m \in Member /\ j \notin pushed
      /\ m.id = j /\ m.attempts = 0
      /\ UNCHANGED <<pc, job, stage, todo, member, held>> /\ copies' = copies \cup {m}
  BY PushKeeps DEF RInv, Push, Member, wvars
<1>1. \A v \in Workers : (Busy(v)' <=> Busy(v)) /\ Has(v)' = Has(v) /\ (Busy(v) => Has(v).id # m.id)
  BY <1>0, SameHas, Tokens
<1>2. \A x \in Range(ready) \cup DOMAIN zset.delayed : x.id # m.id
  BY <1>0, Tokens
<1>3. zset'.reserved = zset.reserved
  BY <1>0, StoreWhere
<1>4. \/ ready' = Append(ready, m) /\ DOMAIN zset'.delayed = DOMAIN zset.delayed
      \/ ready' = ready /\ DOMAIN zset'.delayed = DOMAIN zset.delayed \cup {m}
  BY <1>0, StoreWhere
<1>5. \A x \in DOMAIN zset.delayed : zset'.delayed[x] = zset.delayed[x]
  BY <1>0, <1>2, StoreWhere
<1>6. /\ ListedOnce' /\ Range(ready') \cup DOMAIN zset'.delayed = Range(ready) \cup DOMAIN zset.delayed \cup {m}
      /\ Range(ready') \subseteq Range(ready) \cup {m}
  <2>1. ListedOnce' /\ Range(ready') \cup DOMAIN zset'.delayed = Range(ready) \cup DOMAIN zset.delayed \cup {m}
    BY <1>0, <1>2, <1>4, JoinOnce DEF Solo
  <2>2. Range(ready') \subseteq Range(ready) \cup {m}
    <3>1. ready \in Seq(Member)
      BY <1>0 DEF RType
    <3>2. Range(Append(ready, m)) = Range(ready) \cup {m}
      BY <1>0, <3>1, ListMembers
    <3> QED
      BY <1>4, <3>2
  <2> QED
    BY <2>1, <2>2
<1>7. ASSUME NEW v \in Workers, Busy(v)' PROVE Alone(v)'
  <2>1. \A x \in Range(ready') : x.id # Has(v)'.id
    BY <1>1, <1>6, <1>7 DEF Solo, Alone
  <2>2. \A x \in DOMAIN zset'.delayed : x.id = Has(v)'.id => x \in DOMAIN zset.delayed
    BY <1>1, <1>4, <1>7
  <2> QED
    BY <1>0, <1>1, <1>5, <1>7, <2>1, <2>2 DEF Solo, Alone
<1>8. Reserved'
  BY <1>0, <1>3 DEF Solo, Reserved
<1>9. Unspent'
  BY <1>0, MaxRetryAssumption DEF Solo, Unspent
<1>10. Read'
  <2> SUFFICES ASSUME NEW v \in Workers, NEW n \in todo[v]
               PROVE  /\ stage[v] = "delayed"
                      /\ n \in DOMAIN zset'.delayed => zset'.delayed[n] = 0
                      /\ \A x \in Range(ready') \cup DOMAIN zset'.delayed : x.id = n.id => n.attempts <= x.attempts
                      /\ \A u \in Workers : Busy(u)' /\ Has(u)'.id = n.id => n.attempts <= Has(u)'.attempts
    BY <1>0 DEF Read
  <2>1. n.id # m.id
    BY <1>0 DEF Known
  <2>2. n \in DOMAIN zset'.delayed => n \in DOMAIN zset.delayed
    BY <1>4, <2>1
  <2> QED
    BY <1>1, <1>5, <1>6, <2>1, <2>2 DEF Solo, Read
<1> QED
  BY <1>6, <1>7, <1>8, <1>9, <1>10 DEF Solo

\* What a worker did not change of the reserved set and of its own place in it.
LEMMA ReservedKept ==
    ASSUME Reserved, UNCHANGED <<job, held>>, zset'.reserved = zset.reserved,
           \A v \in Workers : /\ pc'[v] \in Holding <=> pc[v] \in Holding
                              /\ pc'[v] \in Settling => pc[v] \in Settling /\ member'[v] = member[v]
    PROVE  Reserved'
BY DEF Reserved

LEMMA PromotePushSolo ==
    ASSUME RInv, Solo, NEW w \in Workers, promotePush(w)
    PROVE  Solo'
<1> PICK m : m = member[w]
  OBVIOUS
<1>0. /\ RType /\ pc[w] = "lpush" /\ ready' = Append(ready, m) /\ Goto(w, "move", None)
      /\ UNCHANGED <<zset, job, stage, todo, held>> /\ copies' = copies
  BY PromoteKeeps DEF RInv, promotePush
<1>1. /\ pc'[w] = "move" /\ \A v \in Workers : v # w => pc'[v] = pc[v] /\ member'[v] = member[v]
  BY <1>0 DEF Goto, RType
<1>2. /\ Busy(w) /\ ~Busy(w)' /\ Has(w) = m
      /\ \A v \in Workers : v # w => (Busy(v)' <=> Busy(v)) /\ Has(v)' = Has(v)
  <2>1. Busy(w) /\ ~Busy(w)' /\ Has(w) = m
    BY <1>0, <1>1 DEF Busy, Has, Holding, Carrying
  <2> QED
    BY <1>0, <1>1, <2>1, SameHas
<1>3. /\ m \in Member /\ Alone(w) /\ ready \in Seq(Member)
  BY <1>0, <1>2, Tokens DEF Solo, RType
<1>4. \A x \in Range(ready) \cup DOMAIN zset.delayed : x.id # m.id
  BY <1>0, <1>2, <1>3 DEF Alone
<1>5. Range(ready') = Range(ready) \cup {m}
  BY <1>0, <1>3, ListMembers
<1>6. ListedOnce'
  BY <1>0, <1>3, <1>4, JoinOnce DEF Solo
<1>7. ASSUME NEW v \in Workers, Busy(v)' PROVE Alone(v)'
  <2>1. v # w /\ Busy(v) /\ Has(v)' = Has(v) /\ pc'[v] = pc[v]
    BY <1>1, <1>2, <1>7
  <2>2. Has(v).id # m.id
    BY <1>2, <1>3, <2>1 DEF Alone
  <2>3. \A u \in Workers : Busy(u)' => Busy(u) /\ Has(u)' = Has(u)
    BY <1>2
  <2> QED
    BY <1>0, <1>5, <2>1, <2>2, <2>3 DEF Solo, Alone
<1>8. Reserved'
  <2>1. \A v \in Workers : /\ pc'[v] \in Holding <=> pc[v] \in Holding
                           /\ pc'[v] \in Settling => pc[v] \in Settling /\ member'[v] = member[v]
    BY <1>0, <1>1 DEF Holding, Settling
  <2> QED
    BY <1>0, <2>1, ReservedKept DEF Solo
<1>9. Unspent'
  BY <1>0, <1>1 DEF Solo, Unspent
<1>10. Read'
  <2> SUFFICES ASSUME NEW v \in Workers, NEW n \in todo[v]
               PROVE  /\ stage[v] = "delayed"
                      /\ n \in DOMAIN zset.delayed => zset.delayed[n] = 0
                      /\ \A x \in Range(ready') \cup DOMAIN zset.delayed : x.id = n.id => n.attempts <= x.attempts
                      /\ \A u \in Workers : Busy(u)' /\ Has(u)'.id = n.id => n.attempts <= Has(u)'.attempts
    BY <1>0 DEF Read
  <2>1. m.id = n.id => n.attempts <= m.attempts
    BY <1>2 DEF Solo, Read
  <2>2. \A u \in Workers : Busy(u)' /\ Has(u)'.id = n.id => n.attempts <= Has(u)'.attempts
    BY <1>2 DEF Solo, Read
  <2> QED
    BY <1>5, <2>1, <2>2 DEF Solo, Read
<1> QED
  BY <1>6, <1>7, <1>8, <1>9, <1>10 DEF Solo

\* Taking the head leaves no other copy of its job in the list.
LEMMA TakeOnce ==
    ASSUME RType, ListedOnce, ready # <<>>, ready' = Tail(ready), zset' = zset
    PROVE  /\ ListedOnce' /\ Range(ready') \subseteq Range(ready) /\ Head(ready) \in Range(ready)
           /\ \A x \in Range(ready') : x.id # Head(ready).id
<1>0. ready \in Seq(Member)
  BY DEF RType
<1> PICK h : h = Head(ready)
  OBVIOUS
<1>1. /\ 1 \in DOMAIN ready /\ ready[1] = h /\ DOMAIN ready' = 1..(Len(ready) - 1)
      /\ \A p \in DOMAIN ready' : p \in Nat /\ p + 1 \in DOMAIN ready /\ p + 1 # 1 /\ ready'[p] = ready[p + 1]
  BY <1>0
<1>2. /\ \A p \in DOMAIN ready' : ready'[p].id # h.id /\ ready'[p] \in Range(ready)
      /\ h \in Range(ready)
  <2>1. \A p \in DOMAIN ready' : ready'[p].id # h.id
    BY <1>1 DEF ListedOnce
  <2> QED
    BY <1>1, <2>1 DEF Range
<1>3. \A x \in Range(ready') : x \in Range(ready) /\ x.id # h.id
  BY <1>2 DEF Range
<1>4. \A i, k \in DOMAIN ready' : ready'[i].id = ready'[k].id => i = k
  <2> SUFFICES ASSUME NEW i \in DOMAIN ready', NEW k \in DOMAIN ready', ready'[i].id = ready'[k].id PROVE i = k
    OBVIOUS
  <2>1. i + 1 = k + 1 /\ i \in Nat /\ k \in Nat
    BY <1>1 DEF ListedOnce
  <2> QED
    BY <2>1
<1>5. ListedOnce'
  BY <1>3, <1>4 DEF ListedOnce
<1> QED
  BY <1>2, <1>3, <1>5

LEMMA PopTakeSolo ==
    ASSUME RInv, Solo, NEW w \in Workers, PopTake(w)
    PROVE  Solo'
<1> PICK m : m = Head(ready)
  OBVIOUS
<1>0. /\ RType /\ pc[w] = "rpop" /\ ready # <<>> /\ ready' = Tail(ready) /\ Goto(w, "reserve", m)
      /\ UNCHANGED <<zset, job, stage, todo, held>> /\ copies' = copies
  BY DeliveryKeeps DEF RInv, PopTake
<1>1. /\ pc'[w] = "reserve" /\ member'[w] = m
      /\ \A v \in Workers : v # w => pc'[v] = pc[v] /\ member'[v] = member[v]
  BY <1>0 DEF Goto, RType
<1>2. /\ ~Busy(w) /\ Busy(w)' /\ Has(w)' = m
      /\ \A v \in Workers : v # w => (Busy(v)' <=> Busy(v)) /\ Has(v)' = Has(v)
  <2>1. ~Busy(w) /\ Busy(w)' /\ Has(w)' = m
    BY <1>0, <1>1 DEF Busy, Has, Holding, Carrying
  <2> QED
    BY <1>0, <1>1, <2>1, SameHas
<1>3. /\ ListedOnce' /\ Range(ready') \subseteq Range(ready) /\ m \in Range(ready)
      /\ \A x \in Range(ready') : x.id # m.id
  BY <1>0, TakeOnce DEF Solo
<1>4. /\ \A x \in DOMAIN zset.delayed : x.id # m.id
      /\ \A v \in Workers : Busy(v) => Has(v).id # m.id
  BY <1>3 DEF Solo, ListedOnce, Alone
<1>5. ASSUME NEW v \in Workers, Busy(v)' PROVE Alone(v)'
  <2>1. CASE v = w
    BY <1>0, <1>2, <1>3, <1>4, <2>1 DEF Alone
  <2>2. CASE v # w
    BY <1>0, <1>1, <1>2, <1>3, <1>4, <1>5, <2>2 DEF Solo, Alone
  <2> QED
    BY <2>1, <2>2
<1>6. Reserved'
  <2>1. \A v \in Workers : /\ pc'[v] \in Holding <=> pc[v] \in Holding
                           /\ pc'[v] \in Settling => pc[v] \in Settling /\ member'[v] = member[v]
    BY <1>0, <1>1 DEF Holding, Settling
  <2> QED
    BY <1>0, <2>1, ReservedKept DEF Solo
<1>7. Unspent'
  BY <1>0, <1>1 DEF Solo, Unspent
<1>8. Read'
  <2> SUFFICES ASSUME NEW v \in Workers, NEW n \in todo[v]
               PROVE  /\ stage[v] = "delayed"
                      /\ n \in DOMAIN zset.delayed => zset.delayed[n] = 0
                      /\ \A x \in Range(ready') \cup DOMAIN zset.delayed : x.id = n.id => n.attempts <= x.attempts
                      /\ \A u \in Workers : Busy(u)' /\ Has(u)'.id = n.id => n.attempts <= Has(u)'.attempts
    BY <1>0 DEF Read
  <2>1. m.id = n.id => n.attempts <= m.attempts
    BY <1>3 DEF Solo, Read
  <2>2. \A u \in Workers : Busy(u)' /\ Has(u)'.id = n.id => n.attempts <= Has(u)'.attempts
    BY <1>2, <2>1 DEF Solo, Read
  <2> QED
    BY <1>3, <2>2 DEF Solo, Read
<1> QED
  BY <1>3, <1>5, <1>6, <1>7, <1>8 DEF Solo

LEMMA ReserveSolo ==
    ASSUME RInv, Solo, NEW w \in Workers, reserve(w)
    PROVE  Solo'
<1> PICK m : m = member[w]
  OBVIOUS
<1>0. /\ RType /\ pc[w] = "reserve" /\ zset' = [zset EXCEPT !.reserved = ZAdd(@, m, VisTout)]
      /\ job' = [job EXCEPT ![w] = m] /\ Goto(w, "run", None)
      /\ UNCHANGED <<ready, stage, todo, held>> /\ copies' = copies
  BY DeliveryKeeps DEF RInv, reserve
<1>1. /\ pc'[w] = "run" /\ job'[w] = m
      /\ \A v \in Workers : v # w => pc'[v] = pc[v] /\ member'[v] = member[v] /\ job'[v] = job[v]
  BY <1>0 DEF Goto, RType
<1>2. /\ Busy(w) /\ Has(w) = m /\ pc[w] \notin Holding
      /\ \A v \in Workers : (Busy(v)' <=> Busy(v)) /\ (Busy(v) => Has(v)' = Has(v))
  <2>1. Busy(w) /\ Busy(w)' /\ Has(w) = m /\ Has(w)' = m /\ pc[w] \notin Holding
    BY <1>0, <1>1 DEF Busy, Has, Holding, Carrying
  <2> QED
    BY <1>0, <1>1, <2>1, SameHas
<1>3. /\ zset'.delayed = zset.delayed /\ DOMAIN zset'.reserved = DOMAIN zset.reserved \cup {m}
      /\ zset'.reserved[m] = VisTout
      /\ \A x \in DOMAIN zset.reserved : x # m => zset'.reserved[x] = zset.reserved[x]
  <2>1. zset = [s \in Keys |-> zset[s]]
    BY <1>0 DEF RType
  <2>2. zset'.reserved = ZAdd(zset.reserved, m, VisTout) /\ zset'.delayed = zset.delayed
    BY <1>0, <2>1 DEF Keys
  <2> QED
    BY <2>2 DEF ZAdd
<1>4. \A v \in Workers : pc[v] \in Holding => job[v] # m /\ v # w
  <2>1. \A v \in Workers : pc[v] \in Holding => Busy(v) /\ Has(v) = job[v]
    BY DEF Busy, Has
  <2> QED
    BY <1>2, <2>1 DEF Solo, Alone
<1>5. ASSUME NEW v \in Workers, Busy(v)' PROVE Alone(v)'
  <2>1. Busy(v) /\ (pc'[v] = "nackRem" <=> pc[v] = "nackRem") /\ (pc[v] = "nackRem" => job'[v] = job[v])
    BY <1>0, <1>1, <1>2, <1>5
  <2> QED
    BY <1>0, <1>2, <1>3, <2>1 DEF Solo, Alone
<1>6. ListedOnce'
  BY <1>0, <1>3 DEF Solo, ListedOnce
<1>7. Reserved'
  <2>1. DOMAIN zset'.reserved = {job'[v] : v \in {u \in Workers : pc'[u] \in Holding}}
    <3>1. \A v \in Workers : pc'[v] \in Holding <=> pc[v] \in Holding \/ v = w
      BY <1>1 DEF Holding
    <3> QED
      BY <1>1, <1>2, <1>3, <3>1 DEF Solo, Reserved
  <2>2. ASSUME NEW v \in Workers
        PROVE  IF pc'[v] \in Holding
               THEN held'[v] <= HandlerMax /\ zset'.reserved[job'[v]] + held'[v] >= VisTout
               ELSE held'[v] = 0
    <3>1. CASE v = w
      <4>1. held'[v] = 0
        BY <1>0, <1>2, <3>1 DEF Solo, Reserved
      <4> QED
        BY <1>1, <1>3, <3>1, <4>1, TimesAssumption DEF Holding
    <3>2. CASE v # w /\ pc[v] \in Holding
      <4>1. job'[v] = job[v] /\ job[v] # m /\ job[v] \in DOMAIN zset.reserved
        BY <1>1, <1>4, <3>2 DEF Solo, Reserved
      <4> QED
        BY <1>0, <1>1, <1>3, <3>2, <4>1 DEF Solo, Reserved
    <3>3. CASE v # w /\ pc[v] \notin Holding
      BY <1>0, <1>1, <3>3 DEF Solo, Reserved
    <3> QED
      BY <3>1, <3>2, <3>3
  <2>3. \A v \in Workers : pc'[v] \in Settling => member'[v] = job'[v]
    BY <1>1 DEF Solo, Reserved, Settling
  <2> QED
    BY <2>1, <2>2, <2>3 DEF Reserved
<1>8. Unspent'
  BY <1>0, <1>1 DEF Solo, Unspent
<1>9. Read'
  <2> SUFFICES ASSUME NEW v \in Workers, NEW n \in todo[v]
               PROVE  /\ stage[v] = "delayed"
                      /\ n \in DOMAIN zset.delayed => zset.delayed[n] = 0
                      /\ \A x \in Range(ready) \cup DOMAIN zset.delayed : x.id = n.id => n.attempts <= x.attempts
                      /\ \A u \in Workers : Busy(u)' /\ Has(u)'.id = n.id => n.attempts <= Has(u)'.attempts
    BY <1>0, <1>3 DEF Read
  <2> QED
    BY <1>2 DEF Solo, Read
<1> QED
  BY <1>5, <1>6, <1>7, <1>8, <1>9 DEF Solo

\* A retry is delayed by the backoff at least.
LEMMA RetryWaits ==
    ASSUME NEW a \in Nat
    PROVE  RetryDelay(a) \in Nat /\ RetryDelay(a) >= Backoff
<1> DEFINE shift == IF a > MaxShift THEN MaxShift ELSE a
<1>1. shift \in Nat /\ RetryDelay(a) = Backoff * 2 ^ shift
  BY DEF RetryDelay, backoffMultiplier, MaxShift
<1> HIDE DEF shift
<1>2. 2 ^ shift \in Nat /\ 2 ^ shift # 0
  <2>1. IsFiniteSet(1..shift) /\ Cardinality(1..shift) = shift
    BY <1>1, FS_Interval
  <2>2. IsFiniteSet(SUBSET (1..shift)) /\ Cardinality(SUBSET (1..shift)) = 2 ^ shift
    BY <2>1, FS_SUBSET
  <2>3. SUBSET (1..shift) # {}
    BY {} \in SUBSET (1..shift)
  <2> QED
    BY <2>2, <2>3, FS_CardinalityType, FS_EmptySet
<1>3. \A b, k \in Nat : k # 0 => b * k \in Nat /\ b * k >= b
  OBVIOUS
<1> QED
  BY <1>1, <1>2, <1>3, BackoffAssumption

LEMMA NackPushSolo ==
    ASSUME RInv, Clocks, Solo, Prompt, NEW w \in Workers, NackPush(w)
    PROVE  Solo'
<1> PICK m, r, delay : m = member[w] /\ r = [m EXCEPT !.attempts = @ + 1] /\ delay = RetryDelay(job[w].attempts)
  OBVIOUS
<1>0. /\ RType /\ pc[w] = "nackPush" /\ store(r, delay)
      /\ UNCHANGED <<job, stage, todo, held>>
      /\ pc'[w] = "nackRem" /\ \A v \in Workers : member'[v] = member[v] /\ (v # w => pc'[v] = pc[v])
      /\ copies' = copies \cup {[id |-> m.id, attempts |-> m.attempts + 1]}
      /\ m \in Member
  BY NackPushStores DEF RInv, NackPush
<1>1. /\ m = job[w] /\ Busy(w) /\ Has(w) = m /\ Has(w)' = m
      /\ \A v \in Workers : (Busy(v)' <=> Busy(v)) /\ (Busy(v) => Has(v)' = Has(v))
      /\ job[w].attempts + 1 < MaxRetry
  <2>1. m = job[w] /\ job[w].attempts + 1 < MaxRetry
    BY <1>0 DEF Solo, Reserved, Unspent, Settling
  <2>2. Busy(w) /\ Busy(w)' /\ Has(w) = m /\ Has(w)' = m
    BY <1>0, <2>1 DEF Busy, Has, Holding
  <2> QED
    BY <1>0, <2>1, <2>2, SameHas
<1>2. /\ r = [id |-> m.id, attempts |-> m.attempts + 1] /\ r \in Member /\ m.attempts \in Nat
      /\ r.id = m.id /\ r.attempts = m.attempts + 1
  BY <1>0 DEF Member
<1>3. delay \in Nat /\ delay > HandlerMax /\ delay > 0
  <2>1. delay \in Nat /\ delay >= Backoff
    BY <1>1, <1>2, RetryWaits
  <2> QED
    BY <2>1, TimesAssumption, BackoffAssumption DEF Prompt
<1>4. /\ zset'.reserved = zset.reserved /\ ready' = ready
      /\ DOMAIN zset'.delayed = DOMAIN zset.delayed \cup {r} /\ zset'.delayed[r] = delay
      /\ \A x \in DOMAIN zset.delayed : x # r => zset'.delayed[x] = zset.delayed[x]
  BY <1>0, <1>2, <1>3, StoreWhere
<1>5. \A x \in Range(ready) \cup DOMAIN zset.delayed : x.id # m.id
  BY <1>0, <1>1 DEF Solo, Alone
<1>6. ListedOnce'
  BY <1>0, <1>2, <1>4, <1>5, JoinOnce DEF Solo
<1>7. ASSUME NEW v \in Workers, Busy(v)' PROVE Alone(v)'
  <2>1. CASE v = w
    <3>1. held[w] \in Nat
      BY DEF Clocks
    <3>2. \A x \in DOMAIN zset'.delayed : x.id = m.id => x = r
      BY <1>4, <1>5
    <3>3. zset'.delayed[r] + held'[w] > HandlerMax
      BY <1>0, <1>3, <1>4, <3>1, TimesAssumption
    <3>4. \A u \in Workers : Busy(u)' /\ Has(u)'.id = Has(w)'.id => u = w
      BY <1>1 DEF Solo, Alone
    <3>5. \A x \in Range(ready') : x.id # Has(w)'.id
      BY <1>1, <1>4, <1>5
    <3>6. \A x \in DOMAIN zset'.delayed : x.id = Has(w)'.id =>
             pc'[w] = "nackRem" /\ x.attempts = job'[w].attempts + 1 /\ zset'.delayed[x] + held'[w] > HandlerMax
      BY <1>0, <1>1, <1>2, <3>2, <3>3
    <3> QED
      BY <2>1, <3>4, <3>5, <3>6 DEF Alone
  <2>2. CASE v # w
    <3>1. Has(v).id # m.id /\ Busy(v) /\ Has(v)' = Has(v)
      BY <1>1, <1>7, <2>2 DEF Solo, Alone
    <3> QED
      BY <1>0, <1>1, <1>2, <1>4, <2>2, <3>1 DEF Solo, Alone
  <2> QED
    BY <2>1, <2>2
<1>8. Reserved'
  <2>1. \A v \in Workers : /\ pc'[v] \in Holding <=> pc[v] \in Holding
                           /\ pc'[v] \in Settling => pc[v] \in Settling /\ member'[v] = member[v]
    BY <1>0 DEF Holding, Settling
  <2> QED
    BY <1>0, <1>4, <2>1, ReservedKept DEF Solo
<1>9. Unspent'
  BY <1>0, <1>1, <1>2 DEF Solo, Unspent
<1>10. Read'
  <2> SUFFICES ASSUME NEW v \in Workers, NEW n \in todo[v]
               PROVE  /\ stage[v] = "delayed"
                      /\ n \in DOMAIN zset'.delayed => zset'.delayed[n] = 0
                      /\ \A x \in Range(ready) \cup DOMAIN zset'.delayed : x.id = n.id => n.attempts <= x.attempts
                      /\ \A u \in Workers : Busy(u)' /\ Has(u)'.id = n.id => n.attempts <= Has(u)'.attempts
    BY <1>0, <1>4 DEF Read
  <2>1. n \in Member /\ n.attempts \in Nat
    BY <1>0 DEF RType, Member
  <2>2. n.id = m.id => n.attempts <= m.attempts
    BY <1>1 DEF Solo, Read
  <2>3. n # r /\ (r.id = n.id => n.attempts <= r.attempts)
    BY <1>2, <2>1, <2>2
  <2>4. \A u \in Workers : Busy(u)' /\ Has(u)'.id = n.id => n.attempts <= Has(u)'.attempts
    BY <1>1 DEF Solo, Read
  <2> QED
    BY <1>4, <2>3, <2>4 DEF Solo, Read
<1> QED
  BY <1>6, <1>7, <1>8, <1>9, <1>10 DEF Solo

LEMMA SettleSolo ==
    ASSUME RInv, Clocks, Solo, NEW w \in Workers, SettleRem(w)
    PROVE  Solo'
<1> PICK m : m = member[w]
  OBVIOUS
<1>0. /\ RType /\ pc[w] \in {"ackRem", "nackRem"} /\ Release(w)
      /\ zset' = [zset EXCEPT !.reserved = ZRem(@, m)] /\ copies' \subseteq copies
      /\ UNCHANGED <<ready, stage, todo>> /\ held' = [held EXCEPT ![w] = 0]
  BY SettleRemoves DEF RInv, SettleRem, Release
<1>1. /\ pc'[w] = "promote"
      /\ \A v \in Workers : v # w => pc'[v] = pc[v] /\ member'[v] = member[v] /\ job'[v] = job[v]
  BY <1>0, ReleaseStep
<1>2. /\ m = job[w] /\ Busy(w) /\ Has(w) = m /\ ~Busy(w)' /\ pc[w] \in Holding /\ pc'[w] \notin Holding
      /\ \A v \in Workers : v # w => (Busy(v)' <=> Busy(v)) /\ Has(v)' = Has(v)
  <2>1. m = job[w] /\ pc[w] \in Holding
    BY <1>0 DEF Solo, Reserved, Settling, Holding
  <2>2. Busy(w) /\ ~Busy(w)' /\ Has(w) = m /\ pc'[w] \notin Holding
    BY <1>1, <2>1 DEF Busy, Has, Holding, Carrying
  <2> QED
    BY <1>1, <2>1, <2>2, SameHas
<1>3. /\ zset'.delayed = zset.delayed /\ DOMAIN zset'.reserved = DOMAIN zset.reserved \ {m}
      /\ \A x \in DOMAIN zset'.reserved : zset'.reserved[x] = zset.reserved[x]
  <2>1. zset = [s \in Keys |-> zset[s]]
    BY <1>0 DEF RType
  <2>2. zset'.reserved = ZRem(zset.reserved, m) /\ zset'.delayed = zset.delayed
    BY <1>0, <2>1 DEF Keys
  <2> QED
    BY <2>2 DEF ZRem
<1>4. \A v \in Workers : v # w /\ pc[v] \in Holding => job[v] # m
  <2>1. \A v \in Workers : pc[v] \in Holding => Busy(v) /\ Has(v) = job[v]
    BY DEF Busy, Has
  <2> QED
    BY <1>2, <2>1 DEF Solo, Alone
<1>5. ASSUME NEW v \in Workers, Busy(v)' PROVE Alone(v)'
  <2>1. v # w /\ Busy(v) /\ Has(v)' = Has(v) /\ pc'[v] = pc[v] /\ job'[v] = job[v]
    BY <1>1, <1>2, <1>5
  <2>2. \A u \in Workers : Busy(u)' => Busy(u) /\ Has(u)' = Has(u)
    BY <1>2
  <2>3. held'[v] = held[v]
    BY <1>0, <2>1
  <2> QED
    BY <1>0, <1>3, <2>1, <2>2, <2>3 DEF Solo, Alone
<1>6. ListedOnce'
  BY <1>0, <1>3 DEF Solo, ListedOnce
<1>7. Reserved'
  <2>1. DOMAIN zset'.reserved = {job'[v] : v \in {u \in Workers : pc'[u] \in Holding}}
    BY <1>1, <1>2, <1>3, <1>4 DEF Solo, Reserved
  <2>2. ASSUME NEW v \in Workers
        PROVE  IF pc'[v] \in Holding
               THEN held'[v] <= HandlerMax /\ zset'.reserved[job'[v]] + held'[v] >= VisTout
               ELSE held'[v] = 0
    <3>1. CASE v = w
      BY <1>0, <1>2, <3>1 DEF Clocks
    <3>2. CASE v # w
      <4>1. held'[v] = held[v] /\ pc'[v] = pc[v] /\ job'[v] = job[v]
        BY <1>0, <1>1, <3>2
      <4>2. pc[v] \in Holding => job[v] \in DOMAIN zset'.reserved
        BY <1>3, <1>4, <3>2 DEF Solo, Reserved
      <4> QED
        BY <1>3, <4>1, <4>2 DEF Solo, Reserved
    <3> QED
      BY <3>1, <3>2
  <2>3. \A v \in Workers : pc'[v] \in Settling => member'[v] = job'[v]
    BY <1>1 DEF Solo, Reserved, Settling
  <2> QED
    BY <2>1, <2>2, <2>3 DEF Reserved
<1>8. Unspent'
  BY <1>0, <1>1 DEF Solo, Unspent
<1>9. Read'
  <2> SUFFICES ASSUME NEW v \in Workers, NEW n \in todo[v]
               PROVE  /\ stage[v] = "delayed"
                      /\ n \in DOMAIN zset.delayed => zset.delayed[n] = 0
                      /\ \A x \in Range(ready) \cup DOMAIN zset.delayed : x.id = n.id => n.attempts <= x.attempts
                      /\ \A u \in Workers : Busy(u)' /\ Has(u)'.id = n.id => n.attempts <= Has(u)'.attempts
    BY <1>0, <1>3 DEF Read
  <2> QED
    BY <1>2 DEF Solo, Read
<1> QED
  BY <1>5, <1>6, <1>7, <1>8, <1>9 DEF Solo

\* Time brings every reservation and every delay closer, and every holder closer
\* to its deadline: the sums that Alone and Reserved speak of stay as they are.
LEMMA TickSolo ==
    ASSUME RInv, Clocks, Solo, Prompt, Tick
    PROVE  Solo'
<1>0. /\ RType /\ UNCHANGED <<ready, pc, job, stage, todo, member>> /\ copies' = copies
      /\ zset' = [s \in DOMAIN zset |->
                    [m \in DOMAIN zset[s] |-> IF zset[s][m] > 0 THEN zset[s][m] - 1 ELSE 0]]
      /\ \A w \in Workers : pc[w] \in Holding => held[w] < HandlerMax
      /\ held' = [w \in Workers |-> IF pc[w] \in Holding /\ held[w] <= VisTout THEN held[w] + 1 ELSE held[w]]
  BY TickKeeps DEF RInv, Tick
<1>1. /\ \A s \in Keys : DOMAIN zset'[s] = DOMAIN zset[s]
      /\ \A s \in Keys : \A m \in DOMAIN zset[s] :
            /\ zset[s][m] \in Nat
            /\ zset'[s][m] = IF zset[s][m] > 0 THEN zset[s][m] - 1 ELSE 0
  <2>1. DOMAIN zset = Keys
    BY <1>0 DEF RType
  <2> QED
    BY <1>0, <2>1 DEF Clocks
<1>2. /\ DOMAIN zset'.delayed = DOMAIN zset.delayed /\ DOMAIN zset'.reserved = DOMAIN zset.reserved
      /\ "delayed" \in Keys /\ "reserved" \in Keys
  BY <1>1 DEF Keys
<1>3. \A w \in Workers : /\ held[w] \in Nat
                         /\ pc[w] \in Holding => held'[w] = held[w] + 1 /\ held[w] < HandlerMax
                         /\ pc[w] \notin Holding => held'[w] = held[w]
  <2>1. \A w \in Workers : held[w] \in Nat
    BY DEF Clocks
  <2>2. \A w \in Workers : pc[w] \in Holding => held[w] <= VisTout
    BY <1>0, <2>1, TimesAssumption DEF Prompt
  <2> QED
    BY <1>0, <2>1, <2>2
<1>4. \A v \in Workers : (Busy(v)' <=> Busy(v)) /\ Has(v)' = Has(v)
  BY <1>0, SameHas
<1>5. ASSUME NEW v \in Workers, Busy(v)' PROVE Alone(v)'
  <2>1. Alone(v)
    BY <1>4, <1>5 DEF Solo
  <2>2. ASSUME NEW m \in DOMAIN zset'.delayed, m.id = Has(v)'.id
        PROVE  pc[v] = "nackRem" /\ m.attempts = job[v].attempts + 1 /\ zset'.delayed[m] + held'[v] > HandlerMax
    <3>1. /\ m \in DOMAIN zset.delayed /\ pc[v] = "nackRem" /\ m.attempts = job[v].attempts + 1
          /\ zset.delayed[m] + held[v] > HandlerMax
      BY <1>2, <1>4, <2>1, <2>2 DEF Alone
    <3>2. pc[v] \in Holding
      BY <3>1 DEF Holding
    <3>3. /\ held'[v] = held[v] + 1 /\ held[v] < HandlerMax /\ held[v] \in Nat /\ zset.delayed[m] \in Nat
          /\ zset'.delayed[m] = IF zset.delayed[m] > 0 THEN zset.delayed[m] - 1 ELSE 0
      BY <1>1, <1>2, <1>3, <3>1, <3>2
    <3> QED
      BY <3>1, <3>3, TimesAssumption
  <2> QED
    BY <1>0, <1>4, <2>1, <2>2 DEF Alone
<1>6. ListedOnce'
  BY <1>0, <1>2 DEF Solo, ListedOnce
<1>7. Reserved'
  <2>1. ASSUME NEW v \in Workers, pc[v] \in Holding
        PROVE  held'[v] <= HandlerMax /\ zset'.reserved[job[v]] + held'[v] >= VisTout
    <3>1. job[v] \in DOMAIN zset.reserved /\ zset.reserved[job[v]] + held[v] >= VisTout
      BY <2>1 DEF Solo, Reserved
    <3>2. /\ held'[v] = held[v] + 1 /\ held[v] < HandlerMax /\ held[v] \in Nat /\ zset.reserved[job[v]] \in Nat
          /\ zset'.reserved[job[v]] = IF zset.reserved[job[v]] > 0 THEN zset.reserved[job[v]] - 1 ELSE 0
      BY <1>1, <1>2, <1>3, <2>1, <3>1
    <3> QED
      BY <3>1, <3>2, TimesAssumption DEF Prompt
  <2>2. \A v \in Workers : pc[v] \notin Holding => held'[v] = 0
    BY <1>3 DEF Solo, Reserved
  <2> QED
    BY <1>0, <1>2, <2>1, <2>2 DEF Solo, Reserved
<1>8. Unspent'
  BY <1>0 DEF Solo, Unspent
<1>9. Read'
  <2> SUFFICES ASSUME NEW v \in Workers, NEW n \in todo[v]
               PROVE  /\ stage[v] = "delayed"
                      /\ n \in DOMAIN zset'.delayed => zset'.delayed[n] = 0
                      /\ \A x \in Range(ready) \cup DOMAIN zset.delayed : x.id = n.id => n.attempts <= x.attempts
                      /\ \A u \in Workers : Busy(u)' /\ Has(u)'.id = n.id => n.attempts <= Has(u)'.attempts
    BY <1>0, <1>2 DEF Read
  <2>1. n \in DOMAIN zset.delayed => zset.delayed[n] = 0
    BY DEF Solo, Read
  <2>2. n \in DOMAIN zset'.delayed => zset'.delayed[n] = 0
    BY <1>1, <1>2, <2>1
  <2> QED
    BY <1>4, <2>2 DEF Solo, Read
<1> QED
  BY <1>5, <1>6, <1>7, <1>8, <1>9 DEF Solo

\* Scores and holding times are natural numbers.
LEMMA ClocksStep ==
    ASSUME RInv, Clocks, [Next]_vars
    PROVE  Clocks'
<1>0. RType /\ DOMAIN zset = Keys /\ "delayed" \in Keys /\ "reserved" \in Keys
  BY DEF RInv, RType, Keys
<1> DEFINE Nats(z) == z \in [DOMAIN z -> Nat]
<1>1. ASSUME NEW z, Nats(z), NEW S \in SUBSET DOMAIN z PROVE Nats([x \in S |-> z[x]])
  BY <1>1
<1>2. ASSUME NEW z, Nats(z), NEW m, NEW score \in Nat PROVE Nats(ZAdd(z, m, score))
  BY <1>2 DEF ZAdd
<1>3. ASSUME held' \in [Workers -> Nat], NEW s \in Keys, NEW z, Nats(z), zset' = [zset EXCEPT ![s] = z]
      PROVE  Clocks'
  BY <1>0, <1>3 DEF Clocks
<1>4. ASSUME held' = held, NEW m, NEW delay \in Nat, store(m, delay) PROVE Clocks'
  <2>1. CASE delay > 0
    <3>1. Nats(ZAdd(zset.delayed, m, delay)) /\ zset' = [zset EXCEPT !["delayed"] = ZAdd(zset.delayed, m, delay)]
      BY <1>0, <1>2, <1>4, <2>1 DEF store, Clocks
    <3> HIDE DEF Nats
    <3> QED
      BY <1>0, <1>3, <1>4, <3>1 DEF Clocks
  <2>2. CASE ~(delay > 0)
    BY <1>4, <2>2 DEF store, Clocks
  <2> QED
    BY <2>1, <2>2
<1>5. CASE UNCHANGED <<zset, held>>
  BY <1>5 DEF Clocks
<1>6. ASSUME NEW j \in Jobs, NEW delay \in 0..MaxDelay, Push(j, delay) PROVE Clocks'
  <2>1. held' = held /\ delay \in Nat /\ store([id |-> j, attempts |-> 0], delay)
    BY <1>6, BoundsAssumption DEF Push, wvars
  <2> QED
    BY <1>4, <2>1
<1>7. ASSUME NEW w \in Workers, NEW m \in todo[w], promoteRem(w, m) PROVE Clocks'
  <2> PICK s, z : s = stage[w] /\ z = [x \in DOMAIN zset[s] \ {m} |-> zset[s][x]]
    OBVIOUS
  <2>1. s \in Keys /\ zset' = [zset EXCEPT ![s] = z] /\ held' \in [Workers -> Nat]
    BY <1>0, <1>7 DEF promoteRem, scanned, RType, Clocks
  <2>2. Nats(z)
    BY <1>1, <2>1 DEF Clocks
  <2> HIDE DEF Nats
  <2> QED
    BY <1>3, <2>1, <2>2
<1>8. ASSUME NEW w \in Workers, reserve(w) PROVE Clocks'
  <2> PICK z : z = ZAdd(zset.reserved, member[w], VisTout)
    OBVIOUS
  <2>1. zset' = [zset EXCEPT !["reserved"] = z] /\ held' \in [Workers -> Nat]
    BY <1>8 DEF reserve, Clocks
  <2>2. Nats(z)
    BY <1>0, <1>2, TimesAssumption DEF Clocks
  <2> HIDE DEF Nats
  <2> QED
    BY <1>0, <1>3, <2>1, <2>2
<1>9. ASSUME NEW w \in Workers, Release(w) PROVE held' \in [Workers -> Nat]
  BY <1>9 DEF Release, Clocks
<1>10. ASSUME NEW w \in Workers, AckScan(w) \/ NackScan(w) PROVE Clocks'
  <2>1. zset' = zset /\ held' \in [Workers -> Nat]
    BY <1>9, <1>10 DEF AckScan, NackScan, removeReserved, svars, Clocks
  <2> QED
    BY <2>1 DEF Clocks
<1>11. ASSUME NEW w \in Workers, NackPush(w) PROVE Clocks'
  <2> PICK m, delay : m = [member[w] EXCEPT !.attempts = @ + 1] /\ delay = RetryDelay(job[w].attempts)
    OBVIOUS
  <2>1. held' = held /\ store(m, delay) /\ pc[w] \in Holding
    BY <1>11 DEF NackPush, Holding
  <2>2. job[w].attempts \in Nat
    BY <1>0, <2>1 DEF RType, Member
  <2>3. delay \in Nat
    BY <2>2, RetryWaits
  <2> QED
    BY <1>4, <2>1, <2>3
<1>12. ASSUME NEW w \in Workers, SettleRem(w) PROVE Clocks'
  <2> PICK z : z = ZRem(zset.reserved, member[w])
    OBVIOUS
  <2>1. zset' = [zset EXCEPT !["reserved"] = z] /\ held' \in [Workers -> Nat]
    BY <1>9, <1>12 DEF SettleRem
  <2>2. Nats(z)
    BY <1>0, <1>1 DEF Clocks, ZRem
  <2> HIDE DEF Nats
  <2> QED
    BY <1>0, <1>3, <2>1, <2>2
<1>13. ASSUME NEW w \in Workers, Fault(w) PROVE Clocks'
  BY <1>9, <1>13 DEF Fault, svars, Clocks
<1>14. ASSUME Tick PROVE Clocks'
  <2>1. /\ zset' = [s \in Keys |->
                      [m \in DOMAIN zset[s] |-> IF zset[s][m] > 0 THEN zset[s][m] - 1 ELSE 0]]
        /\ held' = [w \in Workers |-> IF pc[w] \in Holding /\ held[w] <= VisTout THEN held[w] + 1 ELSE held[w]]
    BY <1>0, <1>14 DEF Tick
  <2>2. held' \in [Workers -> Nat]
    BY <2>1 DEF Clocks
  <2>3. ASSUME NEW s \in Keys PROVE zset'[s] \in [DOMAIN zset'[s] -> Nat]
    <3>1. \A m \in DOMAIN zset[s] : zset[s][m] \in Nat
      BY DEF Clocks
    <3> QED
      BY <2>1, <3>1
  <2> QED
    BY <2>2, <2>3 DEF Clocks
<1>15. ASSUME NEW w \in Workers, Work(w) PROVE Clocks'
  <2>1. CASE \/ promoteScan(w) \/ promotePush(w) \/ promoteDone(w) \/ PopTake(w) \/ PopEmpty(w)
             \/ handleSucceeds(w) \/ handleFails(w)
    BY <1>5, <2>1 DEF promoteScan, promotePush, promoteDone, PopTake, PopEmpty, handleSucceeds, handleFails, svars
  <2> QED
    BY <1>7, <1>8, <1>10, <1>11, <1>12, <1>15, <2>1 DEF Work
<1>16. CASE UNCHANGED vars
  BY <1>5, <1>16 DEF vars, svars, wvars
<1> QED
  BY <1>6, <1>13, <1>14, <1>15, <1>16 DEF Next

LEMMA SoloInit == Init => SoloInv
<1> SUFFICES ASSUME Init PROVE SoloInv
  OBVIOUS
<1>1. RInv
  BY LossInit DEF LossInv
<1>2. /\ ready = <<>> /\ zset.delayed = <<>> /\ zset.reserved = <<>> /\ held = [w \in Workers |-> 0]
      /\ \A w \in Workers : pc[w] = "promote" /\ todo[w] = {}
  BY DEF Init
<1>3. \A w \in Workers : ~Busy(w) /\ pc[w] \notin Holding /\ pc[w] \notin Settling
  BY <1>2 DEF Busy, Holding, Carrying, Settling
<1>4. Clocks
  <2>1. <<>> \in [1..0 -> Nat] /\ DOMAIN <<>> = 1..0
    BY <<>> \in Seq(Nat)
  <2>2. \A s \in Keys : zset[s] = <<>>
    BY <1>2 DEF Keys
  <2>3. held \in [Workers -> Nat]
    BY <1>2
  <2> QED
    BY <2>1, <2>2, <2>3 DEF Clocks
<1>5. copies = {}
  BY <1>2 DEF copies, stored, carried, Range
<1>6. Solo
  <2>1. ListedOnce
    BY <1>2 DEF ListedOnce, Range
  <2>2. Reserved
    BY <1>2, <1>3 DEF Reserved
  <2>3. Unspent
    BY <1>2, <1>5 DEF Unspent
  <2>4. Read
    BY <1>2 DEF Read
  <2> QED
    BY <1>3, <2>1, <2>2, <2>3, <2>4 DEF Solo
<1> QED
  BY <1>1, <1>4, <1>6 DEF SoloInv

LEMMA SoloStep == SoloInv /\ [Next]_vars => SoloInv'
<1> SUFFICES ASSUME SoloInv, [Next]_vars PROVE SoloInv'
  OBVIOUS
<1>1. RInv /\ Clocks /\ faults \in Nat
  BY DEF SoloInv, RInv, RType
<1>2. RInv' /\ Clocks'
  BY <1>1, RiskStep, ClocksStep
<1>3. ASSUME Prompt, faults' = 0 PROVE Solo'
  <2>1. \A w \in Workers : ~Fault(w)
    BY <1>1, <1>3, FaultDrops
  <2>2. faults = 0
    BY <1>1, <1>3, RiskStep
  <2>3. Solo
    BY <1>3, <2>2 DEF SoloInv
  <2>4. ASSUME NEW w \in Workers, Work(w) PROVE Solo'
    BY <1>1, <1>3, <2>3, <2>4, ScanSolo, RemSolo, PromotePushSolo, QuietSteps, PopTakeSolo, ReserveSolo,
       FoundOwn, NackPushSolo, SettleSolo DEF Work
  <2>5. CASE UNCHANGED vars
    <3>1. UNCHANGED <<ready, zset, pc, job, stage, todo, member, held>> /\ copies' = copies
      BY <2>5 DEF vars, svars, wvars, copies, stored, carried
    <3>2. \A v \in Workers : (Busy(v)' <=> Busy(v)) /\ Has(v)' = Has(v)
      BY <3>1, SameHas
    <3>3. Read'
      BY <2>3, <3>1, <3>2, ReadKept DEF Solo
    <3> QED
      BY <1>1, <2>3, <3>1, <3>2, <3>3, QuietSolo DEF Solo, Reserved, Unspent
  <2> QED
    BY <1>1, <1>3, <2>1, <2>3, <2>4, <2>5, PushSolo, TickSolo DEF Next
<1>4. Prompt' <=> Prompt
  BY DEF Prompt
<1> QED
  BY <1>2, <1>3, <1>4 DEF SoloInv

\* A job that two workers hold would be in two hands.
LEMMA SoloSafe == SoloInv => OneDelivery
<1> SUFFICES ASSUME SoloInv, Prompt, faults = 0 PROVE OneDelivery
  BY DEF OneDelivery
<1>1. Solo
  BY DEF SoloInv
<1>2. \A v \in Workers : pc[v] \in Holding => Busy(v) /\ Has(v) = job[v]
  BY DEF Busy, Has
<1>3. \A v, w \in Workers : pc[v] \in Holding /\ pc[w] \in Holding /\ job[v].id = job[w].id => v = w
  BY <1>1, <1>2 DEF Solo, Alone
<1>4. \A m \in stored : m.attempts < MaxRetry
  BY <1>1 DEF Solo, Unspent, copies
<1> QED
  BY <1>3, <1>4 DEF OneDelivery

\* The Redis driver is safe, for any number of jobs, workers and faults: a fault
\* costs one job at most, none is lost without one, and prompt workers on a Redis
\* that never fails handle every job one at a time and within its attempts.
THEOREM RedisSafe == Spec => []Safety
<1>1. LossInv /\ SoloInv => Safety
  BY LossSafe, SoloSafe DEF Safety
<1>2. Spec => []LossInv
  BY LossInit, LossStep, PTL DEF Spec
<1>3. Spec => []SoloInv
  BY SoloInit, SoloStep, PTL DEF Spec
<1> QED
  BY <1>1, <1>2, <1>3, PTL
=============================================================================
