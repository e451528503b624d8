--------------------------- MODULE InnerServices ----------------------------
(***************************************************************************)
(* Container, application, registries, telemetry: the services that keep   *)
(* their state inside the process.  Services says how the parts share the  *)
(* variables.                                                              *)
(***************************************************************************)
EXTENDS Services

(* The parts. *)

Cont == INSTANCE Container WITH gen <- v1, stack <- v2, ret <- v3, once <- v4, value <- v5,
       used <- v6, makes <- v7, binds <- v8
App == INSTANCE App WITH entries <- v1, phase <- v2, at <- v3, provs <- v4, hooks <- v5,
       booted <- v6, log <- v7, boots <- v8
Fail == INSTANCE FailedJobs WITH items <- v1, order <- v2, queued <- v3, running <- v4, op <- v5,
       failures <- v6, retried <- v7, settled <- v8, overlapped <- v9
Ws == INSTANCE WebsocketHub WITH hubClosed <- v1, conns <- v2, table <- v3, mine <- v4,
       stage <- v5, doneCloses <- v6, onceDone <- v7, outbox <- v8, lost <- v9, wrt <- v10,
       op <- v11, toClose <- v12, ops <- v13, late <- v14, crossed <- v15
Ev == INSTANCE Events WITH Names <- ChannelNames, arrays <- v1, slice <- v2, stopOn <- v3,
       listened <- v4, forgets <- v5, walk <- v6, registered <- v7, sending <- v8, registers <- v9
Db == INSTANCE Database WITH None <- NoValue, conns <- v1, pool <- v2, log <- v3, mgrLog <- v4,
       defaultName <- v5, calls <- v6, replaced <- v7
Tel == INSTANCE Telescope WITH buf <- v1, next <- v2, full <- v3, nplus <- v4, nplusOrder <- v5,
       written <- v6, queries <- v7
Obs == INSTANCE Observability WITH span <- v1, ring <- v2, rnext <- v3, rfull <- v4, ending <- v5,
       adds <- v6, ends <- v7, family <- v8, families <- v9, series <- v10, value <- v11, g <- v12
-----------------------------------------------------------------------------
(* What the proofs assume of the constants. *)
ASSUME ContAssumption ==
    /\ Kind \in [{"root", "scope"} -> [Keys -> {"singleton", "transient", "instance", "unbound"}]]
    /\ Deps \in [{"root", "scope"} -> [Keys -> Seq(Keys)]]
    /\ MaxBinds \in Nat /\ Goroutines \cap {"new", "done", "nobody"} = {}
ASSUME AppAssumption ==
    /\ Entries \in Seq([name : STRING] \cup [name : STRING, providers : Seq(STRING), own : BOOLEAN, hook : BOOLEAN])
    /\ \A i, j \in DOMAIN Entries : Entries[i].name = Entries[j].name => i = j
    /\ \A i, j \in DOMAIN Entries : App!IsModule(Entries[i]) /\ App!IsModule(Entries[j]) =>
          \A k \in DOMAIN Entries[j].providers : Entries[j].providers[k] # Entries[i].name
ASSUME FailedAssumption == "none" \notin Jobs
ASSUME NotifyAssumption == ChannelNames \in Seq(STRING)
ASSUME DbAssumption == NoValue \notin Pools \cup Names
ASSUME TelAssumption == Capacity \in Nat \ {0} /\ maxNPlusRequests \in Nat \ {0}
ASSUME ObsAssumption == RingCapacity \in Nat \ {0} /\ "none" \notin Spans /\ Adds \in Nat /\ IsFiniteSet(Goroutines)
-----------------------------------------------------------------------------
InnerInit ==
  \/ part = "container" /\ Cont!Init /\ Unused8
  \/ part = "app" /\ App!Init /\ Unused8
  \/ part = "failed" /\ Fail!Init /\ Unused9
  \/ part = "websocket" /\ Ws!Init
  \/ part = "events" /\ Ev!Init /\ Unused9
  \/ part = "notifications" /\ Ev!Init /\ Unused9
  \/ part = "database" /\ Db!Init /\ Unused7
  \/ part = "telescope" /\ Tel!Init /\ Unused7
  \/ part = "tracing" /\ Obs!Init /\ Unused12
  \/ part = "metrics" /\ Obs!Init /\ Unused12

InnerNext ==
  \/ part = "container" /\ Cont!Next /\ UNCHANGED <<part, Rest8>>
  \/ part = "app" /\ App!Next /\ UNCHANGED <<part, Rest8>>
  \/ part = "failed" /\ Fail!Next /\ UNCHANGED <<part, Rest9>>
  \/ part = "websocket" /\ Ws!Next /\ UNCHANGED <<part>>
  \/ part = "events" /\ Ev!EventNext /\ UNCHANGED <<part, v7, v8, v9, Rest9>>
  \/ part = "notifications" /\ Ev!NotifyNext /\ UNCHANGED <<part, v1, v2, v3, v4, v5, v6, Rest9>>
  \/ part = "database" /\ Db!Next /\ UNCHANGED <<part, Rest7>>
  \/ part = "telescope" /\ Tel!Next /\ UNCHANGED <<part, Rest7>>
  \/ part = "tracing" /\ Obs!TraceNext /\ UNCHANGED <<part, v8, v9, v10, v11, v12, Rest12>>
  \/ part = "metrics" /\ Obs!MetricNext /\ UNCHANGED <<part, v1, v2, v3, v4, v5, v6, v7, Rest12>>

InnerSpec == InnerInit /\ [][InnerNext]_vars
-----------------------------------------------------------------------------
(* The properties, by theme; each conjunct is stated and explained in its module. *)
\* container.Make: a goroutine that meets its own cycle panics instead of waiting for itself,
\* a singleton's factory runs once, a singleton never keeps what a scope made, and goroutines
\* that wait for each other are on a cycle of the bindings.
Resolution ==
  /\ part = "container" => Cont!NoSelfDeadlock /\ Cont!OneFactoryRun /\ Cont!NoCaptiveDependency /\ Cont!DeadlockNeedsCycle
\* app.Boot: repeated Boots mount once, and all providers are registered before any is booted.
Startup ==
  /\ part = "app" => App!MountedOnce /\ App!TwoPhases
\* Tables that goroutines share: connections and channels of the websocket adapter, listeners and
\* notification channels, failed jobs and database connections; nothing is listed twice, left over,
\* skipped or closed twice, but for the overlaps each module names.
Registries ==
  /\ part = "websocket" => Ws!DoneClosedOnce /\ Ws!NoGhostMembers
  /\ part = "events" => Ev!DispatchSeesItsListeners
  /\ part = "notifications" => Ev!AllChannelsTried
  /\ part = "failed" => Fail!ListedOnce /\ Fail!InOnePlace
  /\ part = "database" => Db!PoolsOwned /\ Db!LoggersAgree
\* telescope and observability: the rings show the newest entries in order and each span once,
\* spans of one tree share a trace, and no addition to a counter is lost.
Telemetry ==
  /\ part = "telescope" => Tel!NewestShown /\ Tel!BooksAgree
  /\ part = "tracing" => Obs!SpansShownOnce /\ Obs!OneTracePerTree
  /\ part = "metrics" => Obs!NoAdditionLost
=============================================================================
