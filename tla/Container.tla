----------------------------- MODULE Container ------------------------------
(***************************************************************************)
(* container.Container: goroutines that resolve bindings of a root         *)
(* container and of one scope while factories run, wait for one another,   *)
(* fail or panic, and bindings are replaced.  A provider is its container, *)
(* key and generation (register replaces the provider).  The stack of a    *)
(* goroutine is root.resolving[gid] together with the factories' frames.   *)
(***************************************************************************)
EXTENDS Integers, Sequences

CONSTANTS
    Goroutines,
    Keys,           \* bound keys and at least one that is not
    Kind,           \* Kind[c][k]: "singleton", "transient", "instance" or "unbound"
    Deps,           \* Deps[c][k]: the keys its factory resolves, in order
    MaxMakes,       \* bound: calls of Make
    MaxBinds        \* bound: bindings replaced

VARIABLES
    gen,        \* gen[c][k]: generation of the provider bound there
    stack,      \* stack[g]: frames, the innermost last
    ret,        \* what the last resolve of g returned, until the factory below takes it
    once,       \* once[p]: "new", "done" or the goroutine inside once.Do
    value,      \* value[p]: "none", "built", "err" or "zero" (the factory panicked)
    used,       \* used[p]: the containers whose providers went into p's instance
    makes, binds

conVars == <<gen, stack, ret, once, value, used, makes, binds>>

Containers == {"root", "scope"}
Providers == Containers \X Keys \X (0 .. MaxBinds)
idle == <<>>

Init ==
    /\ gen = [c \in Containers |-> [k \in Keys |-> 0]]
    /\ stack = [g \in Goroutines |-> idle]
    /\ ret = [g \in Goroutines |-> "none"]
    /\ once = [p \in Providers |-> "new"]
    /\ value = [p \in Providers |-> "none"]
    /\ used = [p \in Providers |-> {}]
    /\ makes = 0 /\ binds = 0

-----------------------------------------------------------------------------
\* lookup: the container itself, then its ancestors; "none" when nobody has k.
lookup(c, k) ==
    IF Kind[c][k] # "unbound" THEN c
    ELSE IF c = "scope" /\ Kind["root"][k] # "unbound" THEN "root" ELSE "none"

\* The key is on this goroutine's resolve stack.
isCyclic_never(g, k) == FALSE
isCyclic(g, k) == \E i \in DOMAIN stack[g] : stack[g][i].key = k

\* The container the factory resolves in: its owner's for a singleton.
factoryArg(c, owner, k) == IF Kind[owner][k] = "singleton" THEN owner ELSE c

Frame(c, k) ==
    LET owner == lookup(c, k) IN
    [key |-> k, owner |-> owner, prov |-> <<owner, k, gen[owner][k]>>,
     ctx |-> factoryArg(c, owner, k), next |-> 1, inside |-> FALSE]

\* resolve up to the push: not bound, cyclic, or one more frame.
enter(g, c, k) ==
    \/ /\ lookup(c, k) = "none" \/ isCyclic(g, k)
       /\ ret' = [ret EXCEPT ![g] = "err"]
       /\ UNCHANGED stack
    \/ /\ lookup(c, k) # "none" /\ ~isCyclic(g, k)
       /\ stack' = [stack EXCEPT ![g] = Append(@, Frame(c, k))]
       /\ ret' = [ret EXCEPT ![g] = "none"]

Top(g) == stack[g][Len(stack[g])]
withTop(g, f) == [stack[g] EXCEPT ![Len(stack[g])] = f]
KindOf(f) == Kind[f.owner][f.key]

\* The deferred pop, and the value handed to the frame below.
return(g, v) ==
    /\ stack' = [stack EXCEPT ![g] = SubSeq(@, 1, Len(@) - 1)]
    /\ ret' = [ret EXCEPT ![g] = v]

-----------------------------------------------------------------------------
Make(g) ==
    /\ stack[g] = idle /\ makes < MaxMakes
    /\ makes' = makes + 1
    /\ \E c \in Containers, k \in Keys : enter(g, c, k)
    /\ UNCHANGED <<gen, once, value, used, binds>>

\* Bind, Singleton, Instance: register replaces the provider of k on c.
register(c, k) ==
    /\ Kind[c][k] # "unbound" /\ binds < MaxBinds
    /\ gen' = [gen EXCEPT ![c][k] = @ + 1]
    /\ binds' = binds + 1
    /\ UNCHANGED <<stack, ret, once, value, used, makes>>

\* An instance, or a singleton somebody has resolved, is returned as it is.
Cached(g) ==
    /\ stack[g] # idle
    /\ LET f == Top(g) IN
       /\ KindOf(f) = "instance" \/ (KindOf(f) = "singleton" /\ once[f.prov] = "done")
       /\ return(g, IF KindOf(f) = "instance" THEN "built" ELSE value[f.prov])
    /\ UNCHANGED <<gen, once, value, used, makes, binds>>

\* once.Do lets the first goroutine in; the others stay where they are.
mayRun(g, f) == KindOf(f) = "singleton" /\ once[f.prov] = "new"
onceDo(g) ==
    /\ stack[g] # idle
    /\ LET f == Top(g) IN
       /\ ~f.inside /\ mayRun(g, f)
       /\ once' = [once EXCEPT ![f.prov] = g]
       /\ stack' = [stack EXCEPT ![g] = withTop(g, [f EXCEPT !.inside = TRUE])]
    /\ UNCHANGED <<gen, ret, value, used, makes, binds>>

Running(g) == stack[g] # idle /\ (Top(g).inside \/ KindOf(Top(g)) = "transient")

\* The factory resolves its next dependency.
factory(g) ==
    /\ Running(g)
    /\ LET f == Top(g) IN
       /\ ret[g] # "err" /\ f.next <= Len(Deps[f.owner][f.key])
       /\ LET d == Deps[f.owner][f.key][f.next]
              s == withTop(g, [f EXCEPT !.next = @ + 1])
          IN \/ /\ lookup(f.ctx, d) = "none" \/ isCyclic(g, d)
                /\ ret' = [ret EXCEPT ![g] = "err"] /\ stack' = [stack EXCEPT ![g] = s]
             \/ /\ lookup(f.ctx, d) # "none" /\ ~isCyclic(g, d)
                /\ stack' = [stack EXCEPT ![g] = Append(s, Frame(f.ctx, d))]
                /\ ret' = [ret EXCEPT ![g] = "none"]
    /\ UNCHANGED <<gen, once, value, used, makes, binds>>

\* sync.Once is done whatever the factory returned.
onceAfter(g, v) == "done"

\* The factory returns: an error of a dependency is its own, and it may fail by itself.
factoryReturns(g) ==
    /\ Running(g)
    /\ LET f == Top(g)
           all == ret[g] # "err" /\ f.next > Len(Deps[f.owner][f.key])
           deps == Deps[f.owner][f.key]
       IN \E v \in (IF all THEN {"built", "err"} ELSE IF ret[g] = "err" THEN {"err"} ELSE {}) :
          /\ return(g, v)
          /\ IF f.inside
             THEN /\ once' = [once EXCEPT ![f.prov] = onceAfter(g, v)]
                  /\ value' = [value EXCEPT ![f.prov] = v]
                  /\ used' = [used EXCEPT ![f.prov] = {lookup(f.ctx, deps[i]) : i \in DOMAIN deps}]
             ELSE UNCHANGED <<once, value, used>>
    /\ UNCHANGED <<gen, makes, binds>>

\* A factory panics: every frame unwinds, each once it is inside counts as done.
Panic(g) ==
    /\ Running(g)
    /\ LET ps == {stack[g][i].prov : i \in {j \in DOMAIN stack[g] : stack[g][j].inside}} IN
       /\ once' = [p \in Providers |-> IF p \in ps THEN "done" ELSE once[p]]
       /\ value' = [p \in Providers |-> IF p \in ps THEN "zero" ELSE value[p]]
    /\ stack' = [stack EXCEPT ![g] = idle]
    /\ ret' = [ret EXCEPT ![g] = "none"]
    /\ UNCHANGED <<gen, used, makes, binds>>

Next ==
    \/ \E g \in Goroutines : Make(g) \/ Cached(g) \/ onceDo(g) \/ factory(g) \/ factoryReturns(g) \/ Panic(g)
    \/ \E c \in Containers, k \in Keys : register(c, k)

-----------------------------------------------------------------------------
\* The goroutine g waits inside once.Do for: the one that runs the factory.
WaitsFor(g) ==
    IF stack[g] # idle /\ ~Top(g).inside /\ KindOf(Top(g)) = "singleton" THEN once[Top(g).prov] ELSE "nobody"

\* No goroutine waits for a sync.Once it is inside of itself: a chain that
\* comes back to a key, across scopes too, is reported instead.
NoSelfDeadlock == \A g \in Goroutines : WaitsFor(g) # g

\* However Make, failures, panics and rebinding interleave, at most one goroutine
\* is inside a singleton's factory, and none once the instance is published.
OneFactoryRun ==
    \A g, h \in Goroutines : \A i \in DOMAIN stack[g], j \in DOMAIN stack[h] :
       /\ stack[g][i].inside => once[stack[g][i].prov] = g
       /\ (stack[g][i].inside /\ stack[h][j].inside /\ stack[g][i].prov = stack[h][j].prov)
             => g = h /\ i = j

\* A singleton of the root is never built from what a scope overrides, whoever
\* resolves it first.
NoCaptiveDependency ==
    \A p \in Providers : p[1] = "root" /\ value[p] = "built" => "scope" \notin used[p]

\* The keys that factories of k resolve, and those they reach through others: the keys
\* in every set that has the former and is closed under it.
Needs(k) == UNION {{Deps[c][k][i] : i \in DOMAIN Deps[c][k]} : c \in Containers}
Reaches(k, l) ==
    \A S \in SUBSET Keys : Needs(k) \subseteq S /\ (\A x \in S : Needs(x) \subseteq S) => l \in S

\* Goroutines wait for each other only when the singletons they build depend on
\* each other: the per-goroutine check misses exactly those cycles.
DeadlockNeedsCycle ==
    \A g, h \in Goroutines :
       g # h /\ WaitsFor(g) = h /\ WaitsFor(h) = g
          => Reaches(Top(g).key, Top(h).key) /\ Reaches(Top(h).key, Top(g).key)
-----------------------------------------------------------------------------
(* The inductive invariants of the properties above (InnerServicesProofs). *)
Frames == [key : Keys, owner : Containers, prov : Providers, ctx : Containers, next : Nat, inside : BOOLEAN]
ContType ==
    /\ binds \in 0 .. MaxBinds /\ gen \in [Containers -> [Keys -> Nat]] /\ \A c \in Containers, k \in Keys : gen[c][k] <= binds
    /\ stack \in [Goroutines -> Seq(Frames)]
    /\ once \in [Providers -> Goroutines \cup {"new", "done"}]
    /\ used \in [Providers -> SUBSET {"root", "scope", "none"}]
\* A frame: a singleton's factory resolves in the container that owns it.
FrameOK(f) ==
    /\ f.prov[1] = f.owner /\ f.prov[2] = f.key
    /\ KindOf(f) = "singleton" => f.ctx = f.owner
    /\ f.inside => KindOf(f) = "singleton"
    /\ f.next >= 1
\* The keys of a stack are distinct, and each frame is a dependency of the one below.
StackOK(s) ==
    /\ \A i \in DOMAIN s : FrameOK(s[i])
    /\ \A i, j \in DOMAIN s : s[i].key = s[j].key => i = j
    /\ \A i \in DOMAIN s : i + 1 \in DOMAIN s => s[i + 1].key \in Needs(s[i].key)
Entered(s) == {s[i].prov : i \in {j \in DOMAIN s : s[j].inside}}
ContInv ==
    /\ ContType /\ \A g \in Goroutines : StackOK(stack[g])
    /\ \A g \in Goroutines, p \in Providers : once[p] = g <=> p \in Entered(stack[g])
    /\ \A p \in Providers : p[1] = "root" => "scope" \notin used[p]
=============================================================================
