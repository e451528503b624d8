--------------------------- MODULE OuterServices ----------------------------
(***************************************************************************)
(* Migrations, access control, transports, storage: the services that face *)
(* clients, files and the database.  Services says how the parts share the *)
(* variables.                                                              *)
(***************************************************************************)
EXTENDS Services

(* The parts. *)

Mig == INSTANCE Migrator WITH tables <- v1, records <- v2, ensured <- v3, lock <- v4, at <- v5,
       commands <- v6, faulty <- v7, raced <- v8
Ses == INSTANCE Session WITH items <- v1, stale <- v2, req <- v3, cookies <- v4, ids <- v5,
       started <- v6, anonymous <- v7, ended <- v8, shared <- v9
Aut == INSTANCE Auth WITH saved <- v1, issued <- v2, consuming <- v3, wins <- v4, overlapped <- v5,
       tokens <- v6, made <- v7, doing <- v8, revokedIds <- v9, raced <- v10, accepted <- v11,
       window <- v12, at <- v13, hits <- v14, guesses <- v15
Az == INSTANCE Authz WITH MaxWrites <- MaxRegistrations, gate <- v1, policy <- v2, hooks <- v3,
       readers <- v4, writes <- v5, call <- v6
Tr == INSTANCE Transport WITH owner <- v1, header <- v2, wrote <- v3, call <- v4, open <- v5,
       groups <- v6, routes <- v7, program <- v8, req <- v9, run <- v10, server <- v11,
       drained <- v12, rpc <- v13
St == INSTANCE Storage WITH Unset <- NoValue, dir <- v1, inode <- v2, op <- v3, rows <- v4,
       seq <- v5, copy <- v6, outdated <- v7, gone <- v8, stale <- v9, chunk <- v10, always <- v11
-----------------------------------------------------------------------------
(* What the proofs assume of the constants. *)
ASSUME MigAssumption == "free" \notin Migrators /\ Mig!MigrationNames \subseteq Nat \ {0} /\ Source \in [Migrators -> [Mig!MigrationNames -> Nat]]
ASSUME AuthAssumption == TTL \in Nat /\ maxAttempts \in Nat \ {0} /\ Window \in Nat /\ IsFiniteSet(Logins)
ASSUME ClientAssumption == Tr!Base \notin Clients /\ MaxRetries \in Nat /\ MaxBody \in Nat
ASSUME WebAssumption == Guards \subseteq {"auth", "csrf", "rate"}
ASSUME GrpcAssumption == HasAuth \in BOOLEAN /\ RecoveryOption \in BOOLEAN /\ Logging \in BOOLEAN /\ Extra \in Nat
ASSUME DiskAssumption == Paths \cap Writers = {} /\ NoValue \notin Paths \cup Writers /\ Chunks \in Nat
ASSUME OrmAssumption == MaxRows \in Nat /\ Size \in Nat \ {0}
-----------------------------------------------------------------------------
OuterInit ==
  \/ part = "migrator" /\ Mig!Init /\ Unused8
  \/ part = "session" /\ Ses!Init /\ Unused9
  \/ part = "onetime" /\ Aut!Init
  \/ part = "access" /\ Aut!Init
  \/ part = "throttle" /\ Aut!Init
  \/ part = "authz" /\ Az!Init /\ Unused6
  \/ part = "httpclient" /\ Tr!Init /\ Unused13
  \/ part = "web" /\ Tr!Init /\ Unused13
  \/ part = "grpc" /\ Tr!Init /\ Unused13
  \/ part = "disk" /\ St!Init /\ Unused11
  \/ part = "orm" /\ St!Init /\ Unused11

OuterNext ==
  \/ part = "migrator" /\ Mig!Next /\ UNCHANGED <<part, Rest8>>
  \/ part = "session" /\ Ses!Next /\ UNCHANGED <<part, Rest9>>
  \/ part = "onetime" /\ Aut!AccountNext /\ UNCHANGED <<part, v6, v7, v8, v9, v10, v11, v12, v13, v14, v15>>
  \/ part = "access" /\ Aut!AccessNext /\ UNCHANGED <<part, v1, v2, v3, v4, v5, v12, v13, v14, v15>>
  \/ part = "throttle" /\ Aut!ThrottleNext /\ UNCHANGED <<part, v1, v2, v3, v4, v5, v6, v7, v8, v9, v10, v11>>
  \/ part = "authz" /\ Az!Next /\ UNCHANGED <<part, Rest6>>
  \/ part = "httpclient" /\ Tr!ClientNext /\ UNCHANGED <<part, v6, v7, v8, v9, v10, v11, v12, v13, Rest13>>
  \/ part = "web" /\ Tr!WebNext /\ UNCHANGED <<part, v1, v2, v3, v4, v5, v10, v11, v12, v13, Rest13>>
  \/ part = "grpc" /\ Tr!GrpcNext /\ UNCHANGED <<part, v1, v2, v3, v4, v5, v6, v7, v8, v9, Rest13>>
  \/ part = "disk" /\ St!DiskNext /\ UNCHANGED <<part, v4, v5, v6, v7, v8, v9, v10, v11, Rest11>>
  \/ part = "orm" /\ St!OrmNext /\ UNCHANGED <<part, v1, v2, v3, Rest11>>

OuterSpec == OuterInit /\ [][OuterNext]_vars
-----------------------------------------------------------------------------
(* The properties, by theme; each conjunct is stated and explained in its module. *)
\* migrations.Migrator: one migrator at a time changes the schema, tables and records agree,
\* batches grow in order, a lock is left behind only after a fault, and Reset leaves no more than
\* others applied meanwhile; a Fresh, which takes no lock, is the exception.
Migrations ==
  /\ part = "migrator" => Mig!OneMigrator /\ Mig!SchemaInStep /\ Mig!BatchesOrdered /\ Mig!LeakNeedsFault /\ Mig!ResetBounded
\* session, auth and authz: no session id survives a login, a logout is undone only by a request
\* that was under way, tokens are used once and stay revoked unless calls on them overlapped,
\* guesses are limited, and a decision follows gates and policies that were in force together.
AccessControl ==
  /\ part = "session" => Ses!NoFixation /\ Ses!LogoutSticks /\ Ses!CacheIsCurrent
  /\ part = "onetime" => Aut!SingleUse
  /\ part = "access" => Aut!RevocationSticks
  /\ part = "throttle" => Aut!GuessesBounded
  /\ part = "authz" => Az!AllowedByOneMoment /\ Az!StuckNeedsPanic
\* http client, grpc adapter and web framework: clones share nothing, every attempt sends the whole
\* body and bodies are closed; panics are answered, handlers have claims and none outlives a
\* graceful stop; guards hold on every route, and each request gets one answer and its error.
Exchanges ==
  /\ part = "httpclient" => Tr!ClientsApart /\ Tr!BodiesClosed /\ Tr!WholeBodyEachTime
  /\ part = "grpc" => Tr!PanicsAnswered /\ Tr!HandlerHasClaims /\ Tr!NothingLeftRunning
  /\ part = "web" => Tr!GuardsHold /\ Tr!OneAnswer /\ Tr!ErrorShown
\* filesystem.Local and orm: readers see whole files and no temporary file outlives its writer;
\* chunks visit each row once, saves keep created_at and, unless stale, deletions.
Storage ==
  /\ part = "disk" => St!WholeFiles /\ St!NoTempLeft
  /\ part = "orm" => St!ChunkOnce /\ St!CreatedAtKept /\ St!DeletedStays
=============================================================================
