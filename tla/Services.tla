------------------------------ MODULE Services ------------------------------
(***************************************************************************)
(* The state of the services that share none with each other.  A behaviour *)
(* is about one part, chosen in the initial state, and v1, v2 ... are the  *)
(* variables of that part: the instances in InnerServices (what runs       *)
(* inside the process) and OuterServices (what faces clients, files and    *)
(* the database) say which of them stand for its own.  The variables a     *)
(* part does not have stay NoValue.                                        *)
(***************************************************************************)
EXTENDS Integers, Sequences, FiniteSets

CONSTANTS
    NoValue,                                                                  \* not a value of any part
    Goroutines, Keys, Kind, Deps, MaxMakes, MaxBinds,                         \* container
    Entries, Booters, MaxBoots,                                               \* app
    Migrators, Source, Enforcing, MaxCommands, MaxFaults,                     \* migrations
    Requests, User, MaxIds, MaxRequests,                                      \* session
    Jobs, Operators, MaxFailures,                                             \* failed jobs
    Tokens, Callers, TTL, Logins, maxAttempts, Window, MaxHits,               \* auth
    Conns, Channels, Procs, Outbox, MaxOps,                                   \* websocket adapter
    Dispatchers, MaxListeners, MaxForgets, ChannelNames, MaxRegister,         \* events, notifications
    Names, Pools, MaxLoggers,                                                 \* database
    Capacity, maxNPlusRequests, Statements, MaxEntries,                       \* telescope
    Spans, Enders, RingCapacity, MaxEnds, Adds,                               \* observability
    MaxRows, Size,                                                            \* orm
    Clients, MaxRetries, MaxBody, Guards, MaxDecls, MaxWrites,                \* httpclient, web
    Calls, HasAuth, RecoveryOption, Logging, Extra,                           \* grpc adapter
    Writers, Paths, Chunks,                                                   \* local disk
    MaxRegistrations                                                          \* authz
VARIABLES part, v1, v2, v3, v4, v5, v6, v7, v8, v9, v10, v11, v12, v13, v14, v15

-----------------------------------------------------------------------------
(* The variables after the n-th: not used by a part with n variables. *)

Unused14 == v15 = NoValue
Unused13 == v14 = NoValue /\ Unused14
Unused12 == v13 = NoValue /\ Unused13
Unused11 == v12 = NoValue /\ Unused12
Unused10 == v11 = NoValue /\ Unused11
Unused9 == v10 = NoValue /\ Unused10
Unused8 == v9 = NoValue /\ Unused9
Unused7 == v8 = NoValue /\ Unused8
Unused6 == v7 = NoValue /\ Unused7
Unused5 == v6 = NoValue /\ Unused6
Unused4 == v5 = NoValue /\ Unused5
Unused3 == v4 = NoValue /\ Unused4
Unused2 == v3 = NoValue /\ Unused3
Unused1 == v2 = NoValue /\ Unused2

Rest14 == <<v15>>
Rest13 == <<v14, Rest14>>
Rest12 == <<v13, Rest13>>
Rest11 == <<v12, Rest12>>
Rest10 == <<v11, Rest11>>
Rest9 == <<v10, Rest10>>
Rest8 == <<v9, Rest9>>
Rest7 == <<v8, Rest8>>
Rest6 == <<v7, Rest7>>
Rest5 == <<v6, Rest6>>
Rest4 == <<v5, Rest5>>
Rest3 == <<v4, Rest4>>
Rest2 == <<v3, Rest3>>
Rest1 == <<v2, Rest2>>
vars == <<part, v1, Rest1>>
=============================================================================
