------------------------------ MODULE Session -------------------------------
(***************************************************************************)
(* session.MemoryStore, Manager, Session and its middleware, and the login *)
(* state auth/guard keeps in it: concurrent requests that may carry any    *)
(* cookie ever issued.  Session data is abstracted to the guard's user id. *)
(* The store is read, and an expired item evicted, in two critical         *)
(* sections; Save writes back what the request loaded earlier.             *)
(***************************************************************************)
EXTENDS Integers, FiniteSets

CONSTANTS
    Requests,       \* requests in progress at a time
    User,           \* the user who logs in
    MaxIds,         \* bound: session IDs generated
    MaxRequests     \* bound: requests started

VARIABLES
    items,      \* MemoryStore.items: ID -> user id, or absent
    stale,      \* IDs whose item has expired
    req,        \* req[r]: Session, sessionWriter.saved and the guard's user cache
    cookies,    \* IDs sent to clients
    ids,        \* IDs generated
    started,
    anonymous,  \* IDs sent to a client before anyone logged in with them
    ended,      \* IDs that a logout or Destroy gave up ...
    shared      \* ... while another request held them too

sesVars == <<items, stale, req, cookies, ids, started, anonymous, ended, shared>>

Session(pc, i, u, new) == [pc |-> pc, id |-> i, user |-> u, isNew |-> new, dirty |-> FALSE,
                           destroyed |-> FALSE, saved |-> FALSE, cache |-> "none"]
Idle == Session("idle", 0, "guest", FALSE)

Init ==
    /\ items = [i \in {} |-> "guest"] /\ stale = {} /\ cookies = {} /\ ids = 0 /\ started = 0
    /\ req = [r \in Requests |-> Idle]
    /\ anonymous = {} /\ ended = {} /\ shared = {}

-----------------------------------------------------------------------------
Without(i) == [j \in DOMAIN items \ {i} |-> items[j]]
With(i, u) == [j \in DOMAIN items \cup {i} |-> IF j = i THEN u ELSE items[j]]
Holders(i) == {r \in Requests : req[r].pc # "idle" /\ req[r].id = i}

\* Manager.Start with a cookie, or 0 for none: Read under RLock.
Start(r, c) ==
    /\ req[r].pc = "idle" /\ started < MaxRequests
    /\ started' = started + 1
    /\ IF c \in DOMAIN items /\ c \in stale
       THEN req' = [req EXCEPT ![r] = Session("evict", c, "guest", FALSE)] /\ UNCHANGED ids
       ELSE IF c \in DOMAIN items
       THEN req' = [req EXCEPT ![r] = Session("run", c, items[c], FALSE)] /\ UNCHANGED ids
       ELSE /\ ids < MaxIds /\ ids' = ids + 1
            /\ req' = [req EXCEPT ![r] = Session("run", ids + 1, "guest", TRUE)]
    /\ UNCHANGED <<items, stale, cookies, anonymous, ended, shared>>

\* Read deletes the item it found expired, and Start makes a new session.
evict(r) ==
    /\ req[r].pc = "evict" /\ ids < MaxIds
    /\ items' = Without(req[r].id) /\ stale' = stale \ {req[r].id}
    /\ ids' = ids + 1
    /\ req' = [req EXCEPT ![r] = Session("run", ids + 1, "guest", TRUE)]
    /\ UNCHANGED <<cookies, started, anonymous, ended, shared>>

\* Put of application data: the guard's key is untouched.
Put(r) ==
    /\ req[r].pc = "run" /\ ~req[r].dirty
    /\ req' = [req EXCEPT ![r].dirty = TRUE]
    /\ UNCHANGED <<items, stale, cookies, ids, started, anonymous, ended, shared>>

\* Regenerate: the old ID is destroyed in the store, the data kept for the new one.
destroyOld_not(i) == UNCHANGED <<items, stale>>
destroyOld(i) == items' = Without(i) /\ stale' = stale \ {i}

newId(r) == ids + 1

clearCachedUser(r) == "none"

\* Guard.Login: Regenerate, then Put of the user id, then the cache.
Login(r) ==
    /\ req[r].pc = "run" /\ ids < MaxIds
    /\ destroyOld(req[r].id)
    /\ ids' = ids + 1
    /\ req' = [req EXCEPT ![r] = [@ EXCEPT !.id = newId(r), !.user = User, !.dirty = TRUE,
                                           !.cache = clearCachedUser(r)]]
    /\ UNCHANGED <<cookies, started, anonymous, ended, shared>>

\* Guard.Logout: Forget, Flush, Regenerate, then the cache.
Logout(r) ==
    /\ req[r].pc = "run" /\ ids < MaxIds
    /\ destroyOld(req[r].id)
    /\ ids' = ids + 1
    /\ req' = [req EXCEPT ![r] = [@ EXCEPT !.id = ids + 1, !.user = "guest", !.dirty = TRUE,
                                           !.cache = clearCachedUser(r)]]
    /\ ended' = ended \cup {req[r].id}
    /\ shared' = (IF Holders(req[r].id) = {r} THEN shared ELSE shared \cup {req[r].id})
    /\ UNCHANGED <<cookies, started, anonymous>>

\* Session.Destroy: out of the store, the data emptied, and no Save afterwards.
Destroy(r) ==
    /\ req[r].pc = "run"
    /\ destroyOld(req[r].id)
    /\ req' = [req EXCEPT ![r] = [@ EXCEPT !.user = "guest", !.destroyed = TRUE]]
    /\ ended' = ended \cup {req[r].id}
    /\ shared' = (IF Holders(req[r].id) = {r} THEN shared ELSE shared \cup {req[r].id})
    /\ UNCHANGED <<cookies, ids, started, anonymous>>

\* Guard.User: the cache box when loaded, else the session's id through the provider,
\* which may no longer know it: that answer is kept too.
currentUser(r) ==
    /\ req[r].pc = "run" /\ req[r].cache = "none" /\ req[r].user # "guest"
    /\ \E u \in {req[r].user, "nobody"} : req' = [req EXCEPT ![r].cache = u]
    /\ UNCHANGED <<items, stale, cookies, ids, started, anonymous, ended, shared>>

\* flushSave, at the first write of the response or after the handler: once, and not
\* for a destroyed session.  Save writes when dirty or new and sets the cookie.
mustSkip(r) == req[r].destroyed
Save(r) ==
    LET i == req[r].id IN
    /\ IF req[r].dirty \/ req[r].isNew
       THEN items' = With(i, req[r].user) /\ stale' = stale \ {i}
       ELSE UNCHANGED <<items, stale>>
    /\ cookies' = cookies \cup {i}
    /\ anonymous' = (IF req[r].user = "guest" THEN anonymous \cup {i} ELSE anonymous)
flushSave(r) ==
    /\ req[r].pc = "run" /\ ~req[r].saved
    /\ req' = [req EXCEPT ![r].saved = TRUE]
    /\ IF mustSkip(r) THEN UNCHANGED <<items, stale, cookies, anonymous>>
       ELSE Save(r)
    /\ UNCHANGED <<ids, started, ended, shared>>

\* The handler is done; flushSave has run by then.
Finish(r) ==
    /\ req[r].pc = "run" /\ req[r].saved
    /\ req' = [req EXCEPT ![r] = Idle]
    /\ UNCHANGED <<items, stale, cookies, ids, started, anonymous, ended, shared>>

Expire(i) ==
    /\ i \in DOMAIN items \ stale
    /\ stale' = stale \cup {i}
    /\ UNCHANGED <<items, req, cookies, ids, started, anonymous, ended, shared>>

sweep ==
    /\ stale # {}
    /\ items' = [j \in DOMAIN items \ stale |-> items[j]] /\ stale' = {}
    /\ UNCHANGED <<req, cookies, ids, started, anonymous, ended, shared>>

Next ==
    \/ \E r \in Requests : \/ \E c \in cookies \cup {0} : Start(r, c)
                           \/ evict(r) \/ Put(r) \/ Login(r) \/ Logout(r) \/ Destroy(r)
                           \/ currentUser(r) \/ flushSave(r) \/ Finish(r)
    \/ \E i \in DOMAIN items : Expire(i)
    \/ sweep

-----------------------------------------------------------------------------
\* An ID that a client held before a login never carries a user afterwards: every
\* Login moves to an ID nobody has seen.
NoFixation == \A i \in DOMAIN items : items[i] # "guest" => i \notin anonymous

\* An ID given up by a logout or Destroy comes back into the store only through a
\* request that had loaded it before.
LogoutSticks == \A i \in ended \ shared : i \notin DOMAIN items

\* A user that Guard.User answers from its cache is the one the session holds, also
\* after a login or logout later in the same request.
CacheIsCurrent ==
    \A r \in Requests : req[r].cache \in {"none", "nobody"} \/ req[r].destroyed \/ req[r].cache = req[r].user
-----------------------------------------------------------------------------
(* The inductive invariants of the properties above (OuterServicesProofs). *)
Held(r) == req[r].pc = "run" /\ ~req[r].destroyed
SessionRecords == [pc : {"idle", "evict", "run"}, id : Nat, user : {"guest", User}, isNew : BOOLEAN,
                   dirty : BOOLEAN, destroyed : BOOLEAN, saved : BOOLEAN, cache : {"none", "nobody", "guest", User}]
TypeOK ==
    /\ ids \in Nat /\ DOMAIN items \subseteq 1 .. ids
    /\ cookies \subseteq 1 .. ids /\ anonymous \subseteq 1 .. ids /\ ended \subseteq 1 .. ids
    /\ req \in [Requests -> SessionRecords]
    /\ \A r \in Requests : req[r].id <= ids /\ (req[r].pc # "idle" => req[r].id # 0)
    /\ \A i \in DOMAIN items : items[i] \in {"guest", User}

\* The requests that may still save an ID agree with each other and with the store on
\* its user; a known ID has none, and one that was given up has no such request.
HoldersAgree ==
    /\ \A r, s \in Requests : Held(r) /\ Held(s) /\ req[r].id = req[s].id => req[r].user = req[s].user
    /\ \A r \in Requests : Held(r) /\ req[r].id \in DOMAIN items => items[req[r].id] = req[r].user
    /\ \A r \in Requests : Held(r) /\ req[r].id \in anonymous => req[r].user = "guest"
    /\ \A r \in Requests : Held(r) => req[r].id \notin ended \ shared
Inv == TypeOK /\ HoldersAgree /\ NoFixation /\ LogoutSticks /\ CacheIsCurrent
=============================================================================
