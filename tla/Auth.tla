-------------------------------- MODULE Auth --------------------------------
(***************************************************************************)
(* auth/account and auth/token: three services that share no state.        *)
(* Account tokens (reset, verification) expire and may be used once.       *)
(* Personal access tokens may be revoked.  Both read a copy of a record    *)
(* from the store, check it and write it back, in two critical sections    *)
(* with other calls between them.  The login throttle counts failures      *)
(* under its mutex: Check, the attempt, then Hit or Clear.                 *)
(***************************************************************************)
EXTENDS Integers, FiniteSets

-----------------------------------------------------------------------------
(* account.Tokens over a MemoryTokenStore.                                 *)

CONSTANTS
    Tokens,     \* selectors
    Callers,
    TTL         \* Tokens.ttl in ticks

VARIABLES
    saved,      \* MemoryTokenStore.items: selector -> [purpose, left, used]
    issued,     \* history: selectors issued
    consuming,  \* consuming[c]: the token and the record lookup returned to c's Consume
    wins,       \* history: successful Consumes of a token
    overlapped  \* history: tokens two Consumes held at a time

accountVars == <<saved, issued, consuming, wins, overlapped>>

Purposes == {"password_reset", "email_verify"}
Put(t, rec) == [u \in DOMAIN saved \cup {t} |-> IF u = t THEN rec ELSE saved[u]]
NoRecord == [purpose |-> "none", left |-> 0, used |-> FALSE]
Idle == [token |-> "none", rec |-> NoRecord]

AccountInit ==
    /\ saved = [t \in {} |-> NoRecord] /\ issued = {}
    /\ consuming = [c \in Callers |-> Idle]
    /\ wins = [t \in Tokens |-> 0] /\ overlapped = {}

\* A fresh selector and secret; only the hash is stored.
Issue(t, purpose) ==
    /\ t \notin issued
    /\ issued' = issued \cup {t}
    /\ saved' = Put(t, [purpose |-> purpose, left |-> TTL, used |-> FALSE])
    /\ UNCHANGED <<consuming, wins, overlapped>>

Used(rec) == rec.used
Expired(rec) == rec.left < 0

\* lookup: whether the token, presented with this secret and for this purpose, is good.
lookup(t, purpose, rightSecret) ==
    /\ t \in DOMAIN saved
    /\ saved[t].purpose = purpose
    /\ rightSecret
    /\ ~Used(saved[t]) /\ ~Expired(saved[t])

\* Consume up to the end of lookup; a token that is not good changes nothing.
Consume(c, t, purpose, rightSecret) ==
    /\ consuming[c] = Idle
    /\ lookup(t, purpose, rightSecret)
    /\ consuming' = [consuming EXCEPT ![c] = [token |-> t, rec |-> saved[t]]]
    /\ overlapped' = IF \E d \in Callers : consuming[d].token = t THEN overlapped \cup {t} ELSE overlapped
    /\ UNCHANGED <<saved, issued, wins>>

\* Consume marks its copy and saves it.
markUsed(rec) == [rec EXCEPT !.used = TRUE]
ConsumeSave(c) ==
    /\ consuming[c] # Idle
    /\ saved' = Put(consuming[c].token, markUsed(consuming[c].rec))
    /\ wins' = [wins EXCEPT ![consuming[c].token] = @ + 1]
    /\ consuming' = [consuming EXCEPT ![c] = Idle]
    /\ UNCHANGED <<issued, overlapped>>

\* The store fails to save: Consume reports the error, and the token stays good.
ConsumeFails(c) ==
    /\ consuming[c] # Idle
    /\ consuming' = [consuming EXCEPT ![c] = Idle]
    /\ UNCHANGED <<saved, issued, wins, overlapped>>

Delete(t) ==
    /\ t \in DOMAIN saved
    /\ saved' = [u \in DOMAIN saved \ {t} |-> saved[u]]
    /\ UNCHANGED <<issued, consuming, wins, overlapped>>

AccountTick ==
    /\ \E t \in DOMAIN saved : ~Expired(saved[t])
    /\ saved' = [t \in DOMAIN saved |-> [saved[t] EXCEPT !.left = IF @ < 0 THEN @ ELSE @ - 1]]
    /\ UNCHANGED <<issued, consuming, wins, overlapped>>

AccountNext ==
    \/ \E t \in Tokens : Delete(t) \/ \E p \in Purposes : Issue(t, p)
    \/ \E c \in Callers :
          \/ ConsumeSave(c) \/ ConsumeFails(c)
          \/ \E t \in Tokens, p \in Purposes, right \in BOOLEAN : Consume(c, t, p, right)
    \/ AccountTick

\* A token is consumed at most once, unless two Consumes of it overlapped: the one
\* that looks it up after another has returned is refused, also when records that
\* were read earlier are still being written back.
SingleUse == \A t \in Tokens : wins[t] > 1 => t \in overlapped

-----------------------------------------------------------------------------
(* token.Issuer over a MemoryStore: Find and Revoke save whole records.    *)

VARIABLES
    tokens,     \* MemoryStore.items: id -> [left, revoked]
    made,       \* history: ids issued
    doing,      \* doing[c]: the call of c between its Get and its Save
    revokedIds, \* history: tokens whose Revoke has returned
    raced,      \* history: tokens a Find held while a Revoke or DeleteToken went through
    accepted    \* history: tokens that a Find which began after Revoke returned accepted

accessVars == <<tokens, made, doing, revokedIds, raced, accepted>>

NoCall == [op |-> "none", id |-> "none", left |-> 0]
PutToken(t, rec) == [u \in DOMAIN tokens \cup {t} |-> IF u = t THEN rec ELSE tokens[u]]

AccessInit ==
    /\ tokens = [t \in {} |-> NoCall] /\ made = {}
    /\ doing = [c \in Callers |-> NoCall]
    /\ revokedIds = {} /\ raced = {} /\ accepted = {}

IssueToken(t, ttl) ==
    /\ t \notin made
    /\ made' = made \cup {t}
    /\ tokens' = PutToken(t, [left |-> ttl, revoked |-> FALSE])
    /\ UNCHANGED <<doing, revokedIds, raced, accepted>>

\* ExpiresAt is zero for a token that never expires, here TTL + 1.
Never == TTL + 1
ExpiredToken(rec) == rec.left < 0
Revoked(rec) == rec.revoked

\* Find up to its Get and the checks on the copy; the secret's hash must match.
Find(c, t, rightSecret) ==
    /\ doing[c] = NoCall /\ t \in DOMAIN tokens
    /\ rightSecret /\ ~Revoked(tokens[t]) /\ ~ExpiredToken(tokens[t])
    /\ doing' = [doing EXCEPT ![c] = [op |-> "find", id |-> t, left |-> tokens[t].left]]
    /\ accepted' = IF t \in revokedIds THEN accepted \cup {t} ELSE accepted
    /\ UNCHANGED <<tokens, made, revokedIds, raced>>

\* Find saves its copy, which was not revoked when it was read.
stampLastUsed(c) ==
    /\ doing[c].op = "find"
    /\ tokens' = PutToken(doing[c].id, [left |-> doing[c].left, revoked |-> FALSE])
    /\ doing' = [doing EXCEPT ![c] = NoCall]
    /\ UNCHANGED <<made, revokedIds, raced, accepted>>

\* Revoke up to its Get, also from RevokePlain; a revoked token is left alone.
Revoke(c, t) ==
    /\ doing[c] = NoCall /\ t \in DOMAIN tokens
    /\ IF tokens[t].revoked
       THEN revokedIds' = revokedIds \cup {t} /\ UNCHANGED doing
       ELSE /\ doing' = [doing EXCEPT ![c] = [op |-> "revoke", id |-> t, left |-> tokens[t].left]]
            /\ UNCHANGED revokedIds
    /\ UNCHANGED <<tokens, made, raced, accepted>>

Finding(t) == \E c \in Callers : doing[c].op = "find" /\ doing[c].id = t
revoked(c) == [left |-> doing[c].left, revoked |-> TRUE]
RevokeSave(c) ==
    /\ doing[c].op = "revoke"
    /\ tokens' = PutToken(doing[c].id, revoked(c))
    /\ revokedIds' = revokedIds \cup {doing[c].id}
    /\ raced' = IF Finding(doing[c].id) THEN raced \cup {doing[c].id} ELSE raced
    /\ doing' = [doing EXCEPT ![c] = NoCall]
    /\ UNCHANGED <<made, accepted>>

DeleteToken(t) ==
    /\ t \in DOMAIN tokens
    /\ tokens' = [u \in DOMAIN tokens \ {t} |-> tokens[u]]
    /\ raced' = IF \E c \in Callers : doing[c].id = t THEN raced \cup {t} ELSE raced
    /\ UNCHANGED <<made, doing, revokedIds, accepted>>

AccessTick ==
    /\ \E t \in DOMAIN tokens : tokens[t].left \in 0 .. TTL
    /\ tokens' = [t \in DOMAIN tokens |->
                    [tokens[t] EXCEPT !.left = IF @ \in 0 .. TTL THEN @ - 1 ELSE @]]
    /\ UNCHANGED <<made, doing, revokedIds, raced, accepted>>

AccessNext ==
    \/ \E t \in Tokens : DeleteToken(t) \/ \E ttl \in {TTL, Never} : IssueToken(t, ttl)
    \/ \E c \in Callers :
          \/ stampLastUsed(c) \/ RevokeSave(c)
          \/ \E t \in Tokens : Revoke(c, t) \/ \E right \in BOOLEAN : Find(c, t, right)
    \/ AccessTick

\* A Find that begins after Revoke has returned is refused, unless another Find
\* held the record meanwhile: only its late LastUsedAt can bring a token back.
RevocationSticks == accepted \subseteq raced

-----------------------------------------------------------------------------
(* account.Throttle, by concurrent requests for one identifier.            *)

CONSTANTS
    Logins,         \* requests
    maxAttempts,
    Window,         \* windowDur in ticks
    MaxHits         \* bound: failures

VARIABLES
    window,     \* attempts[key]: [count, left], left the ticks until resetAt; count 0 when absent
    at,         \* at[l]: "idle" or "admitted" (Check returned nil)
    hits,       \* failures so far
    guesses     \* history: failures admitted since the window began

throttleVars == <<window, at, hits, guesses>>
NoWindow == [count |-> 0, left |-> -1]

ThrottleInit ==
    /\ window = NoWindow /\ at = [l \in Logins |-> "idle"]
    /\ hits = 0 /\ guesses = 0

isOver == window.left < 0
overLimit(n) == n >= maxAttempts

\* Check: an elapsed window is dropped, a full one refuses.
Check(l) ==
    /\ at[l] = "idle"
    /\ window' = IF isOver THEN NoWindow ELSE window
    /\ at' = [at EXCEPT ![l] = IF overLimit(window'.count) THEN "idle" ELSE "admitted"]
    /\ guesses' = IF isOver THEN 0 ELSE guesses
    /\ UNCHANGED hits

\* A failed attempt.
startWindow == [count |-> 0, left |-> Window]
Hit(l) ==
    /\ at[l] = "admitted" /\ hits < MaxHits
    /\ hits' = hits + 1
    /\ window' = LET w == IF isOver THEN startWindow ELSE window IN [w EXCEPT !.count = @ + 1]
    /\ guesses' = IF isOver THEN 1 ELSE guesses + 1
    /\ at' = [at EXCEPT ![l] = "idle"]

\* A successful one.
Clear(l) ==
    /\ at[l] = "admitted"
    /\ window' = NoWindow /\ guesses' = 0
    /\ at' = [at EXCEPT ![l] = "idle"]
    /\ UNCHANGED hits

ThrottleTick ==
    /\ window.left >= 0
    /\ window' = [window EXCEPT !.left = @ - 1]
    /\ UNCHANGED <<at, hits, guesses>>

ThrottleNext == (\E l \in Logins : Check(l) \/ Hit(l) \/ Clear(l)) \/ ThrottleTick

\* A window admits at most maxAttempts - 1 failures more than there are requests
\* at a time: only requests that pass Check together overshoot the limit.
GuessesBounded == ~isOver => guesses <= maxAttempts - 1 + Cardinality(Logins)

-----------------------------------------------------------------------------
Init == AccountInit /\ AccessInit /\ ThrottleInit
Next ==
    \/ AccountNext /\ UNCHANGED <<accessVars, throttleVars>>
    \/ AccessNext /\ UNCHANGED <<accountVars, throttleVars>>
    \/ ThrottleNext /\ UNCHANGED <<accountVars, accessVars>>
-----------------------------------------------------------------------------
(* The inductive invariants of the properties above (OuterServicesProofs). *)
\* A token that no two Consumes held together is consumed by one of them at most: it is
\* marked, or gone, from then on, and nobody holds a copy that is not.
Records == [purpose : Purposes \cup {"none"}, left : Int, used : BOOLEAN]
Holds(c, t) == consuming[c] # Idle /\ consuming[c].token = t
AccountTypeOK ==
    /\ DOMAIN saved \subseteq issued /\ \A t \in DOMAIN saved : saved[t] \in Records
    /\ \A c \in Callers : consuming[c] # Idle => consuming[c].token \in issued /\ consuming[c].rec \in Records
    /\ consuming \in [Callers -> [token : issued \cup {"none"}, rec : Records]]
    /\ issued \subseteq Tokens /\ wins \in [Tokens -> Nat] 
UsedOnce(t) ==
    /\ \A c, d \in Callers : Holds(c, t) /\ Holds(d, t) => c = d
    /\ wins[t] > 0 => /\ wins[t] = 1 /\ t \in issued /\ \A c \in Callers : ~Holds(c, t)
                      /\ t \in DOMAIN saved => saved[t].used
AccountInv == AccountTypeOK /\ \A t \in Tokens \ overlapped : UsedOnce(t)
\* A token that no Find held while it was revoked or deleted stays revoked, or gone, once it
\* is: no Find of it is under way, and so none can write its unrevoked copy back.
AccessRecords == [left : Int, revoked : BOOLEAN]
AccessTypeOK ==
    /\ DOMAIN tokens \subseteq made /\ \A t \in DOMAIN tokens : tokens[t] \in AccessRecords
    /\ doing \in [Callers -> [op : {"none", "find", "revoke"}, id : made \cup {"none"}, left : Int]]
    /\ \A c \in Callers : doing[c].op # "none" => doing[c].id \in made
    /\ revokedIds \subseteq made
StaysRevoked(t) ==
    /\ t \in revokedIds => (t \in DOMAIN tokens => tokens[t].revoked) /\ ~Finding(t)
    /\ t \in DOMAIN tokens /\ tokens[t].revoked => ~Finding(t)
AccessInv == AccessTypeOK /\ (\A t \in made \ raced : StaysRevoked(t)) /\ RevocationSticks
\* The window counts the failures since it began, and a request in progress was admitted
\* while there was room: failures and requests in progress together are bounded.
Admitted == {l \in Logins : at[l] = "admitted"}
ThrottleInv ==
    /\ window \in [count : Nat, left : Int] /\ at \in [Logins -> {"idle", "admitted"}]
    /\ guesses \in Nat /\ guesses = window.count
    /\ guesses + Cardinality(Admitted) <= maxAttempts - 1 + Cardinality(Logins)
=============================================================================
