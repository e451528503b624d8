------------------------------ MODULE HubProofs -----------------------------
(***************************************************************************)
(* Proofs about Hub, for any number of clients, channels and goroutines.   *)
(***************************************************************************)
EXTENDS Hub, FiniteSetTheorems, TLAPS

Call == [c : Clients, ch : Channels]

\* A join or a leave, on its way to the members of a presence channel.
Presence(n) ==
    /\ n.kind \in {"roster", "join", "leave"}
    /\ n.ch \in Channels /\ n.who \in Clients

\* What a goroutine carries out: frames for clients, about presence or not.
Note(n) ==
    /\ n = Post(n.by, n.kind, n.ch, n.who, n.to)
    /\ n.to \subseteq Clients
    /\ n.kind = "frame" \/ Presence(n)

\* The types of the variables that TypeOK leaves out.
WorkType ==
    /\ calls \in [Procs -> Call \cup {None}]
    /\ \A n \in posts : Note(n)
    /\ leaves = [c \in Clients |-> leaves[c]]
    /\ \A c \in Clients : \A n \in leaves[c] :
         Note(n) /\ n.by = c /\ n.kind = "leave" /\ n.who = c

HubInv == Membership /\ WorkType

-----------------------------------------------------------------------------
(* Membership.                                                             *)

LEMMA TriggeredType ==
    ASSUME Membership, NEW c \in Clients
    PROVE  triggered(c) \in [Clients -> Stages]
BY DEF Membership, TypeOK, triggered, Stages

LEMMA EnqueueStep ==
    ASSUME Membership, NEW c \in Clients, enqueueMsg(c)
    PROVE  outbox' \in [Clients -> 0..OutboxSize] /\ stage' \in [Clients -> Stages]
<1>1. CASE Done(c) /\ UNCHANGED <<outbox, stage>>
  BY <1>1 DEF Membership, TypeOK
<1>2. CASE hasRoom(c) /\ outbox' = [outbox EXCEPT ![c] = @ + 1] /\ UNCHANGED stage
  BY <1>2, HubAssumption DEF Membership, TypeOK, hasRoom
<1>3. CASE stage' = (IF Disconnect THEN triggered(c) ELSE stage) /\ UNCHANGED outbox
  BY <1>3, TriggeredType DEF Membership, TypeOK
<1> QED
  BY <1>1, <1>2, <1>3 DEF enqueueMsg

LEMMA NoteStep ==
    ASSUME NEW n, Note(n), NEW c
    PROVE  /\ Note([n EXCEPT !.to = @ \ {c}])
           /\ n.kind = "roster" => Note([n EXCEPT !.kind = "join"])
BY DEF Note, Post, Presence

\* The hub's three copies, of a step that does not touch them.
LEMMA SameTables ==
    ASSUME Membership, UNCHANGED hub, stage' \in [Clients -> Stages],
           writer' \in [Clients -> {"select", "write", "exit"}], outbox' \in [Clients -> 0..OutboxSize],
           hook' \in [Channels -> [Clients -> Int]], toClose' \subseteq Clients
    PROVE  Membership'
BY DEF Membership, TypeOK, CopiesAgree, hub

LEMMA PostStep ==
    ASSUME HubInv, NEW n \in posts, PostRoster(n) \/ PostEnd(n) \/ (\E c \in n.to : PostFrame(n, c))
    PROVE  HubInv'
<1>n. Note(n) /\ n.to \subseteq Clients /\ (n.kind = "roster" => n.who \in Clients)
  BY DEF HubInv, WorkType, Note, Presence
<1>1. CASE PostRoster(n)
  <2>1. Membership'
    BY <1>1, <1>n, EnqueueStep, SameTables DEF PostRoster, HubInv, Membership, TypeOK, enqueueMsg
  <2>2. WorkType'
    <3> DEFINE m == [n EXCEPT !.kind = "join"]
    <3> HIDE DEF m
    <3>1. Note(m) /\ posts' = (posts \ {n}) \cup {m} /\ UNCHANGED <<calls, leaves>>
      BY <1>1, <1>n, NoteStep DEF PostRoster, m
    <3> QED
      BY <3>1 DEF HubInv, WorkType, Call
  <2> QED
    BY <2>1, <2>2 DEF HubInv
<1>2. ASSUME NEW c \in n.to, PostFrame(n, c) PROVE HubInv'
  <2>1. Membership'
    BY <1>2, <1>n, EnqueueStep, SameTables DEF PostFrame, HubInv, Membership, TypeOK, enqueueMsg
  <2>2. WorkType'
    <3> DEFINE m == [n EXCEPT !.to = @ \ {c}]
    <3> HIDE DEF m
    <3>1. Note(m) /\ posts' = (posts \ {n}) \cup {m} /\ UNCHANGED <<calls, leaves>>
      BY <1>2, <1>n, NoteStep DEF PostFrame, m
    <3> QED
      BY <3>1 DEF HubInv, WorkType, Call
  <2> QED
    BY <2>1, <2>2 DEF HubInv
<1>3. CASE PostEnd(n)
  <2>1. Delta(n) \in Int /\ (Delta(n) # 0 => n.ch \in Channels /\ n.who \in Clients)
    BY <1>n DEF Delta, Note, Presence
  <2>2. hook' \in [Channels -> [Clients -> Int]]
    <3> DEFINE d == Delta(n)
    <3> HIDE DEF d
    <3>1. hook' = IF d = 0 THEN hook ELSE [hook EXCEPT ![n.ch][n.who] = @ + d]
      BY <1>3 DEF PostEnd, d
    <3>2. d \in Int /\ (d # 0 => n.ch \in Channels /\ n.who \in Clients) /\ hook \in [Channels -> [Clients -> Int]]
      BY <2>1 DEF d, HubInv, Membership, TypeOK
    <3> QED
      BY <3>1, <3>2
  <2>3. Membership'
    BY <1>3, <2>2, SameTables DEF PostEnd, HubInv, Membership, TypeOK, conn
  <2>4. WorkType'
    BY <1>3 DEF PostEnd, HubInv, WorkType
  <2> QED
    BY <2>3, <2>4 DEF HubInv
<1> QED
  BY <1>1, <1>2, <1>3

\* The application's calls, and the teardown of a client, on the three copies.
LEMMA ApplicationStep ==
    ASSUME HubInv, NEW p \in Procs, Application(p) \/ subscribe(p)
    PROVE  HubInv'
<1> USE DEF HubInv
<1>1. ASSUME NEW c \in Clients, NEW ch \in Channels, Subscribe(p, c, ch) PROVE HubInv'
  BY <1>1, SameTables DEF Subscribe, Membership, TypeOK, WorkType, Call, conn
<1>2. ASSUME NEW c \in Clients, NEW ch \in Channels, Unsubscribe(p, c, ch) PROVE HubInv'
  <2> DEFINE m == Post(p, "leave", ch, c, members[ch] \ {c})
  <2>1. Note(m)
    BY DEF Post, Note, Presence, Membership, TypeOK
  <2>2. WorkType'
    <3> HIDE DEF m
    <3>1. (posts' = posts \cup {m} \/ posts' = posts) /\ UNCHANGED <<calls, leaves>>
      BY <1>2 DEF Unsubscribe, m
    <3> QED
      BY <2>1, <3>1 DEF WorkType, Call
  <2>3. /\ roster' = IF ch \in PresenceChannels THEN [roster EXCEPT ![ch] = @ \ {c}] ELSE roster
        /\ members' = [members EXCEPT ![ch] = @ \ {c}] /\ joined' = [joined EXCEPT ![c] = @ \ {ch}]
        /\ UNCHANGED <<closed, clients, stage, writer, outbox, hook, toClose>>
    BY <1>2 DEF Unsubscribe, conn
  <2>4. TypeOK' /\ CopiesAgree'
    <3>1. CASE ch \in PresenceChannels
      BY <2>3, <3>1 DEF Membership, TypeOK, CopiesAgree
    <3>2. CASE ch \notin PresenceChannels
      BY <2>3, <3>2 DEF Membership, TypeOK, CopiesAgree
    <3> QED
      BY <3>1, <3>2
  <2> QED
    BY <2>2, <2>4 DEF Membership
<1>3. ASSUME NEW ch \in Channels, NEW e, broadcast(p, ch, e) PROVE HubInv'
  <2> DEFINE m == Post(p, "frame", ch, None, members[ch] \ {e})
  <2>1. Note(m)
    BY DEF Post, Note, Membership, TypeOK
  <2> HIDE DEF m
  <2>2. posts' = posts \cup {m} /\ UNCHANGED <<calls, leaves>>
    BY <1>3 DEF broadcast, m
  <2>3. WorkType'
    BY <2>1, <2>2 DEF WorkType, Call
  <2> QED
    BY <1>3, <2>3, SameTables DEF broadcast, Membership, TypeOK, conn
<1>4. ASSUME NEW c \in Clients, SendTo(p, c) PROVE HubInv'
  <2> DEFINE m == Post(p, "frame", None, None, {c})
  <2>1. Note(m)
    BY DEF Post, Note
  <2> HIDE DEF m
  <2>2. posts' = posts \cup {m} /\ UNCHANGED <<calls, leaves>>
    BY <1>4 DEF SendTo, m
  <2>3. WorkType'
    BY <2>1, <2>2 DEF WorkType, Call
  <2> QED
    BY <1>4, <2>3, SameTables DEF SendTo, Membership, TypeOK, conn
<1>5. CASE subscribe(p)
  <2> DEFINE c == calls[p].c  ch == calls[p].ch
             m == Post(p, "roster", ch, c, members[ch] \cup {c})
  <2>1. c \in Clients /\ ch \in Channels
    BY <1>5 DEF subscribe, WorkType, Call
  <2>2. Note(m)
    BY <2>1 DEF Post, Note, Presence, Membership, TypeOK
  <2>3. (posts' = posts \cup {m} \/ posts' = posts) /\ UNCHANGED leaves /\ calls' = [calls EXCEPT ![p] = None]
    BY <1>5 DEF subscribe
  <2>4. WorkType'
    <3> HIDE DEF m
    <3> QED
      BY <2>2, <2>3 DEF WorkType, Call
  <2>5. \/ UNCHANGED <<members, roster, joined>>
        \/ /\ members' = [members EXCEPT ![ch] = @ \cup {c}]
           /\ joined' = [joined EXCEPT ![c] = @ \cup {ch}]
           /\ IF ch \in PresenceChannels THEN roster' = [roster EXCEPT ![ch] = @ \cup {c}]
                                         ELSE roster' = roster
    BY <1>5 DEF subscribe, join
  <2>6. UNCHANGED <<closed, clients, stage, writer, outbox, hook, toClose>>
    BY <1>5 DEF subscribe, conn
  <2>7. TypeOK' /\ CopiesAgree'
    <3> HIDE DEF c, ch
    <3>1. CASE UNCHANGED <<members, roster, joined>>
      BY <2>6, <3>1 DEF Membership, TypeOK, CopiesAgree
    <3>2. CASE /\ members' = [members EXCEPT ![ch] = @ \cup {c}]
               /\ joined' = [joined EXCEPT ![c] = @ \cup {ch}]
               /\ ch \in PresenceChannels /\ roster' = [roster EXCEPT ![ch] = @ \cup {c}]
      <4>1. TypeOK'
        BY <2>1, <2>6, <3>2 DEF Membership, TypeOK
      <4>2. CopiesAgree'
        BY <2>1, <2>6, <3>2, ZenonT(30) DEF Membership, TypeOK, CopiesAgree
      <4> QED
        BY <4>1, <4>2
    <3>3. CASE /\ members' = [members EXCEPT ![ch] = @ \cup {c}]
               /\ joined' = [joined EXCEPT ![c] = @ \cup {ch}]
               /\ ch \notin PresenceChannels /\ roster' = roster
      BY <2>1, <2>6, <3>3 DEF Membership, TypeOK, CopiesAgree
    <3> QED
      BY <2>5, <3>1, <3>2, <3>3
  <2> QED
    BY <2>4, <2>7 DEF Membership
<1> QED
  BY <1>1, <1>2, <1>3, <1>4, <1>5 DEF Application

LEMMA RemoveStep ==
    ASSUME HubInv, NEW c \in Clients, remove(c)
    PROVE  HubInv'
<1> USE DEF HubInv
<1>1. leftBy(c) \subseteq Channels
  BY DEF leftBy, Membership, TypeOK
<1>2. TypeOK'
  BY DEF remove, Membership, TypeOK, conn, Stages
<1>3. CopiesAgree'
  <2> SUFFICES ASSUME ~closed, NEW ch \in Channels
               PROVE  /\ members'[ch] = {d \in Clients : ch \in joined'[d]}
                      /\ roster'[ch] = IF ch \in PresenceChannels THEN members'[ch] ELSE {}
    BY DEF CopiesAgree, remove
  <2>1. leftBy(c) = joined[c]
    BY DEF leftBy, Membership, TypeOK, CopiesAgree
  <2>2. members'[ch] = members[ch] \ {c}
    BY <2>1 DEF remove, Membership, TypeOK, CopiesAgree
  <2>3. roster'[ch] = roster[ch] \ {c}
    BY <2>1, SMTT(30) DEF remove, Membership, TypeOK, CopiesAgree
  <2>4. {d \in Clients : ch \in joined'[d]} = {d \in Clients : ch \in joined[d]} \ {c}
    BY DEF remove, Membership, TypeOK
  <2> QED
    BY <2>2, <2>3, <2>4 DEF Membership, CopiesAgree
<1>4. WorkType'
  <2>1. ASSUME NEW n \in leavesOf(c) PROVE Note(n) /\ n.by = c /\ n.kind = "leave" /\ n.who = c
    BY <1>1 DEF leavesOf, Post, Note, Presence, Membership, TypeOK
  <2> DEFINE L == leavesOf(c)
  <2> HIDE DEF L
  <2>2. leaves' = [leaves EXCEPT ![c] = L] /\ UNCHANGED <<calls, posts>>
    BY DEF remove, L
  <2>3. \A n \in L : Note(n) /\ n.by = c /\ n.kind = "leave" /\ n.who = c
    BY <2>1 DEF L
  <2> QED
    BY <2>2, <2>3 DEF WorkType, Call
<1> QED
  BY <1>2, <1>3, <1>4 DEF Membership

LEMMA ClientStep ==
    ASSUME HubInv, NEW c \in Clients,
           \/ Add(c) \/ CloseDone(c) \/ removeNotify(c) \/ CloseConn(c) \/ CloseNext(c)
           \/ WriteTake(c) \/ WriteDone(c) \/ WriteFails(c) \/ WriterExit(c)
    PROVE  HubInv'
<1> USE DEF HubInv
<1>1. CASE Add(c)
  BY <1>1 DEF Add, Membership, TypeOK, CopiesAgree, WorkType, Call, conn, Stages
<1>2. CASE CloseDone(c) \/ CloseConn(c) \/ CloseNext(c)
  <2>1. WorkType'
    BY <1>2 DEF CloseDone, CloseConn, CloseNext, WorkType, Call
  <2> QED
    BY <1>2, <2>1, SameTables DEF CloseDone, CloseConn, CloseNext, Membership, TypeOK, conn, Stages
<1>3. CASE removeNotify(c)
  <2>1. WorkType'
    <3>1. PICK n \in leaves[c] : leaves' = [leaves EXCEPT ![c] = @ \ {n}] /\ posts' = posts \cup {n}
      BY <1>3 DEF removeNotify
    <3> QED
      BY <1>3, <3>1 DEF removeNotify, WorkType, Call
  <2> QED
    BY <1>3, <2>1, SameTables DEF removeNotify, Membership, TypeOK, conn
<1>4. CASE WriteTake(c) \/ WriteDone(c) \/ WriterExit(c) \/ WriteFails(c)
  <2>1. WorkType'
    BY <1>4 DEF WriteTake, WriteDone, WriterExit, WriteFails, WorkType, Call
  <2>2. outbox' \in [Clients -> 0..OutboxSize]
    BY <1>4, HubAssumption DEF WriteTake, WriteDone, WriterExit, WriteFails, Membership, TypeOK
  <2> QED
    BY <1>4, <2>1, <2>2, SameTables, TriggeredType
    DEF WriteTake, WriteDone, WriterExit, WriteFails, Membership, TypeOK
<1> QED
  BY <1>1, <1>2, <1>3, <1>4

LEMMA HubStep ==
    ASSUME HubInv, [Next]_vars
    PROVE  HubInv'
<1>1. CASE Close
  BY <1>1 DEF Close, HubInv, Membership, TypeOK, CopiesAgree, WorkType, Call, conn
<1>2. CASE UNCHANGED vars
  BY <1>2 DEF vars, hub, conn, HubInv, Membership, TypeOK, CopiesAgree, WorkType, Call
<1> QED
  BY <1>1, <1>2, ApplicationStep, RemoveStep, ClientStep, PostStep DEF Next, Teardown, Delivery

LEMMA HubInit == Init => HubInv
<1> SUFFICES ASSUME Init PROVE HubInv
  OBVIOUS
<1>1. outbox \in [Clients -> 0..OutboxSize] /\ hook \in [Channels -> [Clients -> Int]]
  BY HubAssumption DEF Init
<1>2. TypeOK
  BY <1>1 DEF Init, TypeOK, Stages
<1>3. CopiesAgree /\ WorkType
  BY DEF Init, CopiesAgree, WorkType
<1> QED
  BY <1>2, <1>3 DEF HubInv, Membership

\* Subscribe, Unsubscribe, remove and Close keep the channel's members, its roster
\* and the clients' own lists of channels in step.
THEOREM MembershipHolds == Spec => []Membership
<1>1. HubInv /\ [Next]_vars => HubInv'
  BY HubStep
<1>2. HubInv => Membership
  BY DEF HubInv
<1> QED
  BY <1>1, <1>2, HubInit, PTL DEF Spec

-----------------------------------------------------------------------------
(* The OnPresence hook.                                                    *)

\* remove has taken the client out.
Gone(c) == stage[c] \in {"removed", "closed"}

\* A goroutine carries out one notification at a time; a client's Close has one
\* leave for each channel it took the client out of, and starts with none.
OneEach ==
    /\ IsFiniteSet(posts)
    /\ \A m, n \in posts : m.by = n.by => m = n
    /\ \A p \in Procs : calls[p] # None => \A n \in posts : n.by # p
    /\ \A c \in Clients : \A m, n \in leaves[c] : m.ch = n.ch => m = n
    /\ \A c \in Clients : \A n \in posts, m \in leaves[c] : n.by = c => n.ch # m.ch
    /\ \A c \in Clients : ~Gone(c) =>
         leaves[c] = {} /\ \A n \in posts : n.by # c

\* The notifications that Pending counts.
About(kinds, ch, c) == {n \in posts \cup leaves[c] : n.kind \in kinds /\ n.ch = ch /\ n.who = c}

LEMMA AboutFinite ==
    ASSUME OneEach, NEW kinds, NEW ch, NEW c \in Clients
    PROVE  IsFiniteSet(About(kinds, ch, c))
<1> DEFINE L == {n \in leaves[c] : n.kind \in kinds /\ n.ch = ch /\ n.who = c}
           P == {n \in posts : n.kind \in kinds /\ n.ch = ch /\ n.who = c}
<1>1. IsFiniteSet(P)
  BY FS_Subset DEF OneEach
<1>2. IsFiniteSet(L)
  <2>1. CASE L = {}
    BY <2>1, FS_EmptySet
  <2>2. ASSUME NEW m \in L PROVE L = {m}
    BY <2>2 DEF OneEach
  <2> HIDE DEF L
  <2> QED
    BY <2>1, <2>2, FS_Singleton
<1>3. About(kinds, ch, c) = P \cup L
  BY DEF About
<1> HIDE DEF L, P
<1> QED
  BY <1>1, <1>2, <1>3, FS_Union

\* One element of a finite set is replaced by another, or added, or taken away.
LEMMA Replaced ==
    ASSUME NEW S, IsFiniteSet(S), NEW a \in S, NEW b, b \notin S \ {a}
    PROVE  Cardinality((S \ {a}) \cup {b}) = Cardinality(S)
<1>1. IsFiniteSet(S \ {a}) /\ Cardinality(S \ {a}) = Cardinality(S) - 1 /\ Cardinality(S) \in Nat
  BY FS_RemoveElement, FS_CardinalityType
<1> QED
  BY <1>1, FS_AddElement, SMTT(30)

\* A notification on its way that loses a recipient, or whose roster is out, is
\* still one notification.
LEMMA PostMoves ==
    ASSUME OneEach, WorkType, NEW n \in posts, NEW m,
           m.by = n.by, m.ch = n.ch, m.who = n.who,
           m.kind = n.kind \/ (n.kind = "roster" /\ m.kind = "join"),
           posts' = (posts \ {n}) \cup {m}, UNCHANGED <<calls, leaves>>,
           \A c \in Clients : Gone(c)' <=> Gone(c)
    PROVE  /\ OneEach'
           /\ \A ch \in Channels, c \in Clients :
                /\ Pending({"roster", "join"}, ch, c)' = Pending({"roster", "join"}, ch, c)
                /\ Pending({"leave"}, ch, c)' = Pending({"leave"}, ch, c)
<1>1. OneEach'
  <2>1. IsFiniteSet(posts')
    BY FS_AddElement, FS_RemoveElement DEF OneEach
  <2> QED
    BY <2>1 DEF OneEach
<1>2. ASSUME NEW kinds, m.kind \in kinds <=> n.kind \in kinds, NEW ch \in Channels, NEW c \in Clients
      PROVE  Pending(kinds, ch, c)' = Pending(kinds, ch, c)
  <2> DEFINE S == About(kinds, ch, c)
  <2>1. IsFiniteSet(S)
    BY AboutFinite
  <2>2. CASE n \in S /\ n \notin leaves[c]
    <3>1. About(kinds, ch, c)' = (S \ {n}) \cup {m}
      BY <1>2, <2>2 DEF About
    <3>2. m \notin S \ {n}
      <4>1. m \notin posts \ {n}
        BY DEF OneEach
      <4>2. m \notin leaves[c]
        BY <2>2 DEF OneEach, WorkType, About
      <4> QED
        BY <4>1, <4>2 DEF About
    <3>3. Cardinality(About(kinds, ch, c)') = Cardinality(S)
      <4> HIDE DEF S
      <4> QED
        BY <2>1, <2>2, <3>1, <3>2, Replaced
    <3> QED
      BY <3>3 DEF Pending, About
  <2>3. CASE n \notin S
    <3>1. About(kinds, ch, c)' = S
      BY <1>2, <2>3 DEF About
    <3> QED
      BY <3>1 DEF Pending, About
  <2>4. n \notin leaves[c]
    BY DEF OneEach, WorkType
  <2> QED
    BY <2>2, <2>3, <2>4
<1>3. /\ m.kind \in {"roster", "join"} <=> n.kind \in {"roster", "join"}
      /\ m.kind \in {"leave"} <=> n.kind \in {"leave"}
  OBVIOUS
<1> QED
  BY <1>1, <1>2, <1>3

\* A notification starts: it is one more of its kind, of its channel and client.
LEMMA PostStarts ==
    ASSUME OneEach, WorkType, NEW p \in Procs, NEW m, m.by = p, \A n \in posts : n.by # p,
           posts' = posts \cup {m}, UNCHANGED leaves, calls' \in [Procs -> Call \cup {None}],
           calls'[p] = None, \A q \in Procs : q # p => calls'[q] = calls[q],
           UNCHANGED stage,
           NEW kinds, NEW ch \in Channels, NEW c \in Clients
    PROVE  /\ OneEach'
           /\ Pending(kinds, ch, c)' = IF m.kind \in kinds /\ m.ch = ch /\ m.who = c
                                       THEN Pending(kinds, ch, c) + 1 ELSE Pending(kinds, ch, c)
<1>1. OneEach'
  <2>1. IsFiniteSet(posts')
    BY FS_AddElement DEF OneEach
  <2>2. p \notin Clients
    BY HubAssumption
  <2> QED
    BY <2>1, <2>2 DEF OneEach, Gone
<1>2. Pending(kinds, ch, c)' = IF m.kind \in kinds /\ m.ch = ch /\ m.who = c
                               THEN Pending(kinds, ch, c) + 1 ELSE Pending(kinds, ch, c)
  <2> DEFINE S == About(kinds, ch, c)
  <2>1. IsFiniteSet(S)
    BY AboutFinite
  <2>2. CASE m.kind \in kinds /\ m.ch = ch /\ m.who = c
    <3>1. About(kinds, ch, c)' = S \cup {m}
      BY <2>2 DEF About
    <3>2. m \notin S
      BY HubAssumption DEF About, WorkType
    <3>3. Cardinality(About(kinds, ch, c)') = Cardinality(S) + 1
      <4> HIDE DEF S
      <4> QED
        BY <2>1, <3>1, <3>2, FS_AddElement
    <3> QED
      BY <2>2, <3>3 DEF Pending, About
  <2>3. CASE ~(m.kind \in kinds /\ m.ch = ch /\ m.who = c)
    <3>1. About(kinds, ch, c)' = S
      BY <2>3 DEF About
    <3> QED
      BY <2>3, <3>1 DEF Pending, About
  <2> QED
    BY <2>2, <2>3
<1> QED
  BY <1>1, <1>2

\* A notification ends: one less.
LEMMA PostEnds ==
    ASSUME OneEach, WorkType, NEW n \in posts, posts' = posts \ {n}, UNCHANGED <<calls, leaves, stage>>,
           NEW kinds, NEW ch \in Channels, NEW c \in Clients
    PROVE  /\ OneEach'
           /\ Pending(kinds, ch, c)' = IF n.kind \in kinds /\ n.ch = ch /\ n.who = c
                                       THEN Pending(kinds, ch, c) - 1 ELSE Pending(kinds, ch, c)
<1>1. OneEach'
  <2>1. IsFiniteSet(posts')
    BY FS_RemoveElement DEF OneEach
  <2> QED
    BY <2>1 DEF OneEach, Gone
<1>2. Pending(kinds, ch, c)' = IF n.kind \in kinds /\ n.ch = ch /\ n.who = c
                               THEN Pending(kinds, ch, c) - 1 ELSE Pending(kinds, ch, c)
  <2> DEFINE S == About(kinds, ch, c)
  <2>1. IsFiniteSet(S)
    BY AboutFinite
  <2>2. n \notin leaves[c]
    BY DEF OneEach, WorkType
  <2>3. CASE n.kind \in kinds /\ n.ch = ch /\ n.who = c
    <3>1. About(kinds, ch, c)' = S \ {n} /\ n \in S
      BY <2>2, <2>3 DEF About
    <3>2. Cardinality(About(kinds, ch, c)') = Cardinality(S) - 1
      <4> HIDE DEF S
      <4> QED
        BY <2>1, <3>1, FS_RemoveElement
    <3> QED
      BY <2>3, <3>2 DEF Pending, About
  <2>4. CASE ~(n.kind \in kinds /\ n.ch = ch /\ n.who = c)
    <3>1. About(kinds, ch, c)' = S
      BY <2>4 DEF About
    <3> QED
      BY <2>4, <3>1 DEF Pending, About
  <2> QED
    BY <2>3, <2>4
<1> QED
  BY <1>1, <1>2

LEMMA PendingNat ==
    ASSUME OneEach, NEW kinds, NEW ch, NEW c \in Clients
    PROVE  Pending(kinds, ch, c) \in Nat
<1>1. IsFiniteSet(About(kinds, ch, c))
  BY AboutFinite
<1>2. Pending(kinds, ch, c) = Cardinality(About(kinds, ch, c))
  BY DEF Pending, About
<1> QED
  BY <1>1, <1>2, FS_CardinalityType

HookInv == OneEach /\ HookAddsUp

\* A step that starts and ends no notification, and tears nobody's memberships down.
LEMMA HookSame ==
    ASSUME HookInv, UNCHANGED <<posts, leaves, hook>>, closed' \/ UNCHANGED <<closed, roster>>,
           \A p \in Procs : calls'[p] # None => calls'[p] = calls[p] \/ ~Busy(p),
           \A c \in Clients : Gone(c)' <=> Gone(c)
    PROVE  HookInv'
<1>1. OneEach'
  BY DEF HookInv, OneEach, Busy
<1>2. HookAddsUp'
  BY DEF HookInv, HookAddsUp, Pending
<1> QED
  BY <1>1, <1>2 DEF HookInv

LEMMA HookPosts ==
    ASSUME HubInv, HookInv, NEW n \in posts,
           PostRoster(n) \/ PostEnd(n) \/ (\E c \in n.to : PostFrame(n, c))
    PROVE  HookInv'
<1>n. Note(n) /\ n.to \subseteq Clients /\ (n.kind = "roster" => n.who \in Clients)
  BY DEF HubInv, WorkType, Note, Presence
<1>e. ASSUME NEW c \in Clients, enqueueMsg(c) PROVE \A d \in Clients : Gone(d)' <=> Gone(d)
  BY <1>e DEF enqueueMsg, triggered, Gone, HubInv, Membership, TypeOK
<1>m. ASSUME NEW m, m.by = n.by, m.ch = n.ch, m.who = n.who,
             m.kind = n.kind \/ (n.kind = "roster" /\ m.kind = "join"),
             posts' = (posts \ {n}) \cup {m}, UNCHANGED <<hub, leaves, calls, hook>>,
             \A d \in Clients : Gone(d)' <=> Gone(d)
      PROVE  HookInv'
  <2>1. /\ OneEach'
        /\ \A ch \in Channels, c \in Clients :
             /\ Pending({"roster", "join"}, ch, c)' = Pending({"roster", "join"}, ch, c)
             /\ Pending({"leave"}, ch, c)' = Pending({"leave"}, ch, c)
    BY <1>m, PostMoves DEF HubInv, HookInv
  <2> QED
    BY <1>m, <2>1, HubAssumption DEF HookInv, HookAddsUp, hub
<1>1. CASE PostRoster(n)
  <2> DEFINE m == [n EXCEPT !.kind = "join"]
  <2>1. m.by = n.by /\ m.ch = n.ch /\ m.who = n.who /\ m.kind = "join"
    BY <1>n DEF Note, Post
  <2> HIDE DEF m
  <2>2. n.kind = "roster" /\ posts' = (posts \ {n}) \cup {m} /\ UNCHANGED <<hub, leaves, calls, hook>>
    BY <1>1 DEF PostRoster, m
  <2> QED
    BY <1>1, <1>n, <1>e, <1>m, <2>1, <2>2 DEF PostRoster
<1>2. ASSUME NEW c \in n.to, PostFrame(n, c) PROVE HookInv'
  <2> DEFINE m == [n EXCEPT !.to = @ \ {c}]
  <2>1. m.by = n.by /\ m.ch = n.ch /\ m.who = n.who /\ m.kind = n.kind
    BY <1>n DEF Note, Post
  <2> HIDE DEF m
  <2>2. posts' = (posts \ {n}) \cup {m} /\ UNCHANGED <<hub, leaves, calls, hook>>
    BY <1>2 DEF PostFrame, m
  <2> QED
    BY <1>2, <1>n, <1>e, <1>m, <2>1, <2>2 DEF PostFrame
<1>3. CASE PostEnd(n)
  <2>1. posts' = posts \ {n} /\ UNCHANGED <<calls, leaves, stage, closed, roster>>
    BY <1>3 DEF PostEnd, hub
  <2>2. n.kind \in {"frame", "join", "leave"} /\ (n.kind # "frame" => n.ch \in Channels /\ n.who \in Clients)
    BY <1>3, <1>n DEF PostEnd, Note, Presence
  <2>3. OneEach'
    BY <2>1, FS_RemoveElement DEF HookInv, OneEach, Gone
  <2>4. HookAddsUp'
    <3> SUFFICES ASSUME ~closed, NEW ch \in PresenceChannels, NEW c \in Clients
                 PROVE  hook'[ch][c] + Pending({"roster", "join"}, ch, c)' - Pending({"leave"}, ch, c)'
                          = IF c \in roster[ch] THEN 1 ELSE 0
      BY <2>1 DEF HookAddsUp
    <3> DEFINE J == Pending({"roster", "join"}, ch, c)  L == Pending({"leave"}, ch, c)
    <3>0. ch \in Channels /\ hook[ch][c] \in Int /\ hook \in [Channels -> [Clients -> Int]]
      BY HubAssumption DEF HubInv, Membership, TypeOK
    <3>1. /\ J' = IF n.kind \in {"roster", "join"} /\ n.ch = ch /\ n.who = c THEN J - 1 ELSE J
          /\ L' = IF n.kind \in {"leave"} /\ n.ch = ch /\ n.who = c THEN L - 1 ELSE L
      <4>1. OneEach /\ WorkType /\ UNCHANGED <<calls, leaves, stage>> /\ posts' = posts \ {n}
        BY <2>1 DEF HubInv, HookInv
      <4>2. \A kinds : Pending(kinds, ch, c)' = IF n.kind \in kinds /\ n.ch = ch /\ n.who = c
                                                THEN Pending(kinds, ch, c) - 1 ELSE Pending(kinds, ch, c)
        BY <3>0, <4>1, PostEnds
      <4> QED
        BY <4>2
    <3>2. hook'[ch][c] = IF n.ch = ch /\ n.who = c /\ n.kind = "join" THEN hook[ch][c] + 1
                         ELSE IF n.ch = ch /\ n.who = c /\ n.kind = "leave" THEN hook[ch][c] - 1
                         ELSE hook[ch][c]
      <4>1. CASE n.kind = "frame"
        BY <1>3, <4>1 DEF PostEnd, Delta
      <4>2. CASE n.kind = "join"
        BY <1>3, <2>2, <3>0, <4>2 DEF PostEnd, Delta
      <4>3. CASE n.kind = "leave"
        BY <1>3, <2>2, <3>0, <4>3 DEF PostEnd, Delta
      <4> QED
        BY <2>2, <4>1, <4>2, <4>3
    <3>3. J \in Nat /\ L \in Nat
      BY PendingNat DEF HookInv
    <3>4. hook[ch][c] + J - L = IF c \in roster[ch] THEN 1 ELSE 0
      BY DEF HookInv, HookAddsUp
    <3> HIDE DEF J, L
    <3>5. hook'[ch][c] + J' - L' = IF c \in roster[ch] THEN 1 ELSE 0
      BY <2>2, <3>0, <3>1, <3>2, <3>3, <3>4
    <3> QED
      BY <3>5 DEF J, L
  <2> QED
    BY <2>3, <2>4 DEF HookInv
<1> QED
  BY <1>1, <1>2, <1>3

\* A goroutine p starts the notification m, of a join, of a leave or of neither.
LEMMA HookStarts ==
    ASSUME HubInv, HookInv, NEW p \in Procs, NEW m, m.by = p, \A n \in posts : n.by # p,
           posts' = posts \cup {m}, UNCHANGED <<leaves, stage, hook, closed>>,
           calls' \in [Procs -> Call \cup {None}],
           calls'[p] = None, \A q \in Procs : q # p => calls'[q] = calls[q],
           \A ch \in PresenceChannels, c \in Clients :
             CASE m.ch = ch /\ m.who = c /\ m.kind = "roster" -> c \notin roster[ch] /\ c \in roster'[ch]
               [] m.ch = ch /\ m.who = c /\ m.kind = "leave" -> c \in roster[ch] /\ c \notin roster'[ch]
               [] OTHER -> m.kind \in {"roster", "leave", "frame"} /\ (c \in roster'[ch] <=> c \in roster[ch])
    PROVE  HookInv'
<1>0. \A kinds : \A ch \in Channels, c \in Clients :
        /\ OneEach'
        /\ Pending(kinds, ch, c)' = IF m.kind \in kinds /\ m.ch = ch /\ m.who = c
                                    THEN Pending(kinds, ch, c) + 1 ELSE Pending(kinds, ch, c)
  BY PostStarts DEF HubInv, HookInv
<1>1. OneEach'
  <2>1. IsFiniteSet(posts')
    BY FS_AddElement DEF HookInv, OneEach
  <2>2. p \notin Clients
    BY HubAssumption
  <2> QED
    BY <2>1, <2>2 DEF HookInv, OneEach, Gone
<1>2. HookAddsUp'
  <2> SUFFICES ASSUME ~closed, NEW ch \in PresenceChannels, NEW c \in Clients
               PROVE  hook[ch][c] + Pending({"roster", "join"}, ch, c)' - Pending({"leave"}, ch, c)'
                        = IF c \in roster'[ch] THEN 1 ELSE 0
    BY DEF HookAddsUp
  <2> DEFINE J == Pending({"roster", "join"}, ch, c)  L == Pending({"leave"}, ch, c)
  <2>0. ch \in Channels /\ hook[ch][c] \in Int
    BY HubAssumption DEF HubInv, Membership, TypeOK
  <2>1. /\ J' = IF m.kind \in {"roster", "join"} /\ m.ch = ch /\ m.who = c THEN J + 1 ELSE J
        /\ L' = IF m.kind \in {"leave"} /\ m.ch = ch /\ m.who = c THEN L + 1 ELSE L
    BY <1>0, <2>0
  <2>3. J \in Nat /\ L \in Nat
    BY PendingNat DEF HookInv
  <2>4. hook[ch][c] + J - L = IF c \in roster[ch] THEN 1 ELSE 0
    BY DEF HookInv, HookAddsUp
  <2> HIDE DEF J, L
  <2>5. hook[ch][c] + J' - L' = IF c \in roster'[ch] THEN 1 ELSE 0
    <3>1. CASE m.ch = ch /\ m.who = c /\ m.kind = "roster"
      BY <2>0, <2>1, <2>3, <2>4, <3>1
    <3>2. CASE m.ch = ch /\ m.who = c /\ m.kind = "leave"
      BY <2>0, <2>1, <2>3, <2>4, <3>2
    <3>3. CASE ~(m.ch = ch /\ m.who = c /\ m.kind \in {"roster", "leave"})
      BY <2>0, <2>1, <2>3, <2>4, <3>3
    <3> QED
      BY <3>1, <3>2, <3>3
  <2> QED
    BY <2>5 DEF J, L
<1> QED
  BY <1>1, <1>2 DEF HookInv

LEMMA HookApplication ==
    ASSUME HubInv, HubInv', HookInv, NEW p \in Procs, Application(p) \/ subscribe(p)
    PROVE  HookInv'
<1>1. ASSUME NEW c \in Clients, NEW ch \in Channels, Subscribe(p, c, ch) PROVE HookInv'
  BY <1>1, HookSame DEF Subscribe, HubInv, WorkType, Free, hub, Gone
<1>2. ASSUME NEW c \in Clients, NEW ch \in Channels, Unsubscribe(p, c, ch) PROVE HookInv'
  <2> DEFINE m == Post(p, "leave", ch, c, members[ch] \ {c})
  <2>0. m.by = p /\ m.kind = "leave" /\ m.ch = ch /\ m.who = c
    BY DEF Post
  <2>1. CASE ch \in PresenceChannels
    <3> HIDE DEF m
    <3>1. /\ posts' = posts \cup {m} /\ roster' = [roster EXCEPT ![ch] = @ \ {c}]
          /\ UNCHANGED <<leaves, stage, hook, closed, calls>> /\ c \in members[ch]
          /\ calls[p] = None /\ \A n \in posts : n.by # p
      BY <1>2, <2>1 DEF Unsubscribe, m, Free, Busy
    <3>2. calls' \in [Procs -> Call \cup {None}]
      BY <3>1 DEF HubInv, WorkType
    <3>3. CASE closed
      BY <2>0, <3>1, <3>2, <3>3, FS_AddElement, HubAssumption DEF HookInv, HookAddsUp, OneEach, Gone
    <3>4. CASE ~closed
      <4>1. c \in roster[ch] /\ roster \in [Channels -> SUBSET Clients]
        BY <2>1, <3>1, <3>4 DEF HubInv, Membership, TypeOK, CopiesAgree
      <4> QED
        BY <2>0, <2>1, <3>1, <3>2, <4>1, HookStarts, HubAssumption
    <3> QED
      BY <3>3, <3>4
  <2>2. CASE ch \notin PresenceChannels
    BY <1>2, <2>2, HookSame DEF Unsubscribe, Gone
  <2> QED
    BY <2>1, <2>2
<1>3. ASSUME NEW m, m.by = p, m.kind = "frame", posts' = posts \cup {m}, Free(p),
             UNCHANGED <<hub, leaves, stage, hook, calls>>
      PROVE  HookInv'
  <2>1. /\ UNCHANGED <<leaves, stage, hook, closed, roster, calls>>
        /\ calls[p] = None /\ \A n \in posts : n.by # p
    BY <1>3 DEF hub, Free, Busy
  <2>2. calls' \in [Procs -> Call \cup {None}]
    BY <2>1 DEF HubInv, WorkType
  <2> QED
    BY <1>3, <2>1, <2>2, HookStarts
<1>4. ASSUME NEW ch \in Channels, NEW e, broadcast(p, ch, e) PROVE HookInv'
  <2> DEFINE m == Post(p, "frame", ch, None, members[ch] \ {e})
  <2>1. m.by = p /\ m.kind = "frame"
    BY DEF Post
  <2> HIDE DEF m
  <2> QED
    BY <1>3, <1>4, <2>1 DEF broadcast, m
<1>5. ASSUME NEW c \in Clients, SendTo(p, c) PROVE HookInv'
  <2> DEFINE m == Post(p, "frame", None, None, {c})
  <2>1. m.by = p /\ m.kind = "frame"
    BY DEF Post
  <2> HIDE DEF m
  <2> QED
    BY <1>3, <1>5, <2>1 DEF SendTo, m
<1>6. CASE subscribe(p)
  <2> DEFINE c == calls[p].c  ch == calls[p].ch
             m == Post(p, "roster", ch, c, members[ch] \cup {c})
  <2>0. m.by = p /\ m.kind = "roster" /\ m.ch = ch /\ m.who = c
    BY DEF Post
  <2>1. c \in Clients /\ ch \in Channels
    BY <1>6 DEF subscribe, HubInv, WorkType, Call
  <2>2. CASE closed \/ c \in members[ch] \/ ch \notin PresenceChannels
    BY <1>6, <2>2, HookSame DEF subscribe, Gone, HubInv, WorkType
  <2>3. CASE ~closed /\ c \notin members[ch] /\ ch \in PresenceChannels
    <3>1. /\ posts' = posts \cup {m} /\ roster' = [roster EXCEPT ![ch] = @ \cup {c}]
          /\ UNCHANGED <<leaves, stage, hook, closed>> /\ calls' = [calls EXCEPT ![p] = None]
      BY <1>6, <2>3 DEF subscribe
    <3>2. \A n \in posts : n.by # p
      BY <1>6 DEF subscribe, HookInv, OneEach
    <3>3. c \notin roster[ch] /\ roster \in [Channels -> SUBSET Clients]
      BY <2>1, <2>3 DEF HubInv, Membership, TypeOK, CopiesAgree
    <3>4. calls' \in [Procs -> Call \cup {None}] /\ calls'[p] = None /\ \A q \in Procs : q # p => calls'[q] = calls[q]
      BY <3>1 DEF HubInv, WorkType
    <3> HIDE DEF m, c, ch
    <3> QED
      BY <2>0, <2>1, <2>3, <3>1, <3>2, <3>3, <3>4, HookStarts, HubAssumption
  <2> QED
    BY <2>2, <2>3
<1> QED
  BY <1>1, <1>2, <1>4, <1>5, <1>6 DEF Application

LEMMA HookRemove ==
    ASSUME HubInv, HookInv, NEW c \in Clients, remove(c)
    PROVE  HookInv'
<1>0. /\ UNCHANGED <<posts, hook, closed, calls>> /\ leaves' = [leaves EXCEPT ![c] = leavesOf(c)]
      /\ leaves = [d \in Clients |-> leaves[d]]
      /\ stage' = [stage EXCEPT ![c] = "removed"] /\ stage \in [Clients -> Stages]
      /\ leaves[c] = {} /\ \A n \in posts : n.by # c
  BY DEF remove, HubInv, WorkType, Membership, TypeOK, HookInv, OneEach, Gone
<1>1. \A n \in leavesOf(c) : n.by = c /\ n.kind = "leave" /\ n.who = c /\ n.ch \in leftBy(c) \cap PresenceChannels
  BY DEF leavesOf, Post
<1>2. \A m, n \in leavesOf(c) : m.ch = n.ch => m = n
  BY DEF leavesOf, Post
<1>3. OneEach'
  <2> DEFINE K == leavesOf(c)
  <2> HIDE DEF K
  <2>1. /\ UNCHANGED <<posts, calls>> /\ leaves' = [leaves EXCEPT ![c] = K]
        /\ \A m, n \in K : m.ch = n.ch => m = n
    BY <1>0, <1>2 DEF K
  <2> QED
    BY <1>0, <2>1 DEF HookInv, OneEach, Gone
<1>4. HookAddsUp'
  <2> SUFFICES ASSUME ~closed, NEW ch \in PresenceChannels, NEW d \in Clients
               PROVE  hook[ch][d] + Pending({"roster", "join"}, ch, d)' - Pending({"leave"}, ch, d)'
                        = IF d \in roster'[ch] THEN 1 ELSE 0
    BY <1>0 DEF HookAddsUp
  <2>0. ch \in Channels /\ hook[ch][d] \in Int
    BY HubAssumption DEF HubInv, Membership, TypeOK
  <2>1. hook[ch][d] + Pending({"roster", "join"}, ch, d) - Pending({"leave"}, ch, d)
          = IF d \in roster[ch] THEN 1 ELSE 0
    BY DEF HookInv, HookAddsUp
  <2>2. CASE d # c
    <3>1. leaves'[d] = leaves[d] /\ posts' = posts
      BY <1>0, <2>2
    <3>2. \A kinds : Pending(kinds, ch, d)' = Pending(kinds, ch, d)
      BY <3>1 DEF Pending
    <3>3. d \in roster'[ch] <=> d \in roster[ch]
      BY <2>0, <2>2 DEF remove
    <3> QED
      BY <2>1, <3>2, <3>3
  <2>3. CASE d = c
    <3> DEFINE J == Pending({"roster", "join"}, ch, c)  L == Pending({"leave"}, ch, c)
               n == Post(c, "leave", ch, c, members[ch] \ {c})
               S == About({"leave"}, ch, c)
    <3>1. leaves'[c] = leavesOf(c) /\ posts' = posts /\ leaves[c] = {}
      BY <1>0
    <3>2. About({"roster", "join"}, ch, c)' = About({"roster", "join"}, ch, c)
      BY <1>1, <3>1 DEF About
    <3>3. J' = J
      BY <3>2 DEF Pending, About
    <3>4. ch \in leftBy(c) <=> c \in roster[ch]
      BY <2>0 DEF leftBy, HubInv, Membership, TypeOK, CopiesAgree
    <3>5. c \notin roster'[ch]
      BY <2>0, <3>4 DEF remove
    <3>6. CASE c \in roster[ch]
      <4>1. n \in leavesOf(c) /\ n.kind = "leave" /\ n.ch = ch /\ n.who = c /\ n.by = c
        BY <3>4, <3>6 DEF leavesOf, Post
      <4> HIDE DEF n
      <4>2. S' = S \cup {n} /\ n \notin S
        BY <1>0, <1>1, <1>2, <3>1, <4>1 DEF About
      <4>3. IsFiniteSet(S)
        BY AboutFinite DEF HookInv
      <4>4. Cardinality(S') = Cardinality(S) + 1
        <5> HIDE DEF S
        <5> QED
          BY <4>2, <4>3, FS_AddElement
      <4>5. L' = L + 1
        BY <4>4 DEF Pending, About
      <4>6. J \in Nat /\ L \in Nat
        BY PendingNat DEF HookInv
      <4> HIDE DEF J, L
      <4>7. hook[ch][c] + J' - L' = 0
        BY <2>0, <2>1, <2>3, <3>3, <3>6, <4>5, <4>6 DEF J, L
      <4> QED
        BY <2>3, <3>5, <4>7 DEF J, L
    <3>7. CASE c \notin roster[ch]
      <4>1. S' = S
        BY <1>1, <3>1, <3>4, <3>7 DEF About
      <4>2. L' = L
        BY <4>1 DEF Pending, About
      <4> HIDE DEF J, L
      <4>3. hook[ch][c] + J' - L' = 0
        BY <2>1, <2>3, <3>3, <3>7, <4>2 DEF J, L
      <4> QED
        BY <2>3, <3>5, <4>3 DEF J, L
    <3> QED
      BY <3>6, <3>7
  <2> QED
    BY <2>2, <2>3
<1> QED
  BY <1>3, <1>4 DEF HookInv

LEMMA HookNotify ==
    ASSUME HubInv, HookInv, NEW c \in Clients, removeNotify(c)
    PROVE  HookInv'
<1>0. PICK n \in leaves[c] : leaves' = [leaves EXCEPT ![c] = @ \ {n}] /\ posts' = posts \cup {n}
  BY DEF removeNotify
<1>1. /\ n.by = c /\ n.who = c /\ n.kind = "leave" /\ leaves = [d \in Clients |-> leaves[d]]
      /\ \A k \in posts : k.by # c
      /\ UNCHANGED <<stage, hook, closed, roster, calls>>
  BY DEF removeNotify, HubInv, WorkType, hub, Busy
<1>2. OneEach'
  <2>1. IsFiniteSet(posts')
    BY <1>0, FS_AddElement DEF HookInv, OneEach
  <2>2. c \notin Procs
    BY HubAssumption
  <2>3. Gone(c)
    BY DEF HookInv, OneEach
  <2>4. \A m \in leaves[c] : m.ch = n.ch => m = n
    BY DEF HookInv, OneEach
  <2> QED
    BY <1>0, <1>1, <2>1, <2>2, <2>3, <2>4 DEF HookInv, OneEach, Gone
<1>3. ASSUME NEW kinds, NEW ch \in Channels, NEW d \in Clients
      PROVE  Pending(kinds, ch, d)' = Pending(kinds, ch, d)
  <2>1. About(kinds, ch, d)' = About(kinds, ch, d)
    BY <1>0, <1>1 DEF About
  <2> QED
    BY <2>1 DEF Pending, About
<1>4. HookAddsUp'
  BY <1>1, <1>3, HubAssumption DEF HookInv, HookAddsUp
<1> QED
  BY <1>2, <1>4 DEF HookInv

LEMMA HookStep ==
    ASSUME HubInv, HubInv', HookInv, [Next]_vars
    PROVE  HookInv'
<1>1. CASE Close
  BY <1>1, HookSame DEF Close, Gone
<1>2. CASE UNCHANGED vars
  BY <1>2, HookSame DEF vars, hub, Gone
<1>3. ASSUME NEW c \in Clients,
             \/ Add(c) \/ CloseDone(c) \/ CloseConn(c) \/ CloseNext(c)
             \/ WriteTake(c) \/ WriteDone(c) \/ WriteFails(c) \/ WriterExit(c)
      PROVE  HookInv'
  <2>1. UNCHANGED <<posts, leaves, hook, closed, roster, calls>>
    BY <1>3 DEF Add, CloseDone, CloseConn, CloseNext, WriteTake, WriteDone, WriteFails, WriterExit, hub
  <2>2. \A d \in Clients : Gone(d)' <=> Gone(d)
    BY <1>3 DEF Add, CloseDone, CloseConn, CloseNext, WriteTake, WriteDone, WriteFails, WriterExit,
                triggered, Gone, HubInv, Membership, TypeOK
  <2> QED
    BY <2>1, <2>2, HookSame
<1> QED
  BY <1>1, <1>2, <1>3, HookApplication, HookRemove, HookNotify, HookPosts DEF Next, Teardown, Delivery

\* The joins and leaves the OnPresence hook has seen, and those under way, add up
\* to the roster.
THEOREM HookMatchesRoster == Spec => []HookAddsUp
<1>1. Init => HubInv /\ HookInv
  <2> SUFFICES ASSUME Init PROVE HubInv /\ HookInv
    OBVIOUS
  <2>1. OneEach
    BY FS_EmptySet DEF Init, OneEach, Gone
  <2>2. \A kinds, ch : \A c \in Clients : Pending(kinds, ch, c) = 0
    <3> SUFFICES ASSUME NEW kinds, NEW ch, NEW c \in Clients PROVE Pending(kinds, ch, c) = 0
      OBVIOUS
    <3>1. About(kinds, ch, c) = {}
      BY DEF Init, About
    <3> QED
      BY <3>1, FS_EmptySet DEF Pending, About
  <2>3. HookAddsUp
    BY <2>2, HubAssumption DEF Init, HookAddsUp
  <2> QED
    BY <2>1, <2>3, HubInit DEF HookInv
<1>2. (HubInv /\ HookInv) /\ [Next]_vars => (HubInv /\ HookInv)'
  BY HubStep, HookStep
<1>3. HubInv /\ HookInv => HookAddsUp
  BY DEF HookInv
<1> QED
  BY <1>1, <1>2, <1>3, PTL DEF Spec
=============================================================================
