-------------------------------- MODULE App ---------------------------------
(***************************************************************************)
(* app.App: modules are flattened into providers at Boot, which registers  *)
(* all of them, boots those that can boot, and then mounts the modules'    *)
(* routes and migrations.  A provider may fail; Boot may be called again.  *)
(* Migrations are registered in a migrations.Registry, which panics on a   *)
(* name it has.  One goroutine configures and boots the application.       *)
(***************************************************************************)
EXTENDS Integers, Sequences, FiniteSets

CONSTANTS
    Entries,    \* what the program registers, in order: [name, providers, own, hook] of a module
                \* (own: it has RegisterFn or BootFn; hook: it has Routes and Migrations), or [name, bare]
    Booters,    \* the providers that implement Booter
    MaxBoots    \* bound: calls of Boot

VARIABLES
    entries,    \* App.entries, as a prefix length of Entries
    phase,      \* where Boot is: "idle", "flatten", "register", "boot" or "mount"
    at,         \* how far the loop of this phase is
    provs,      \* the flattened providers of this Boot
    hooks,      \* and its modules
    booted,     \* App.booted
    log,        \* the callbacks that ran, in order: <<what, name>>
    boots

appVars == <<entries, phase, at, provs, hooks, booted, log, boots>>

Init ==
    /\ entries = 0 /\ phase = "idle" /\ at = 0 /\ provs = <<>> /\ hooks = <<>>
    /\ booted = FALSE /\ log = <<>> /\ boots = 0

-----------------------------------------------------------------------------
Elements(s) == {s[i] : i \in DOMAIN s}
IsModule(e) == "providers" \in DOMAIN e
isBooter(p) == p \in Booters

\* What NewModule's options gave the module: RegisterFn or BootFn; Routes and Migrations.
hasCallbacks(m) == m.own
hasHooks(m) == m.hook

\* A module's providers, then its own callbacks; a bare provider is itself.
providersOf(e) ==
    IF ~IsModule(e) THEN <<e.name>> ELSE e.providers \o (IF hasCallbacks(e) THEN <<e.name>> ELSE <<>>)

Register ==
    /\ phase = "idle" /\ entries < Len(Entries)
    /\ entries' = entries + 1
    /\ UNCHANGED <<phase, at, provs, hooks, booted, log, boots>>

Boot ==
    /\ phase = "idle" /\ boots < MaxBoots
    /\ boots' = boots + 1
    /\ IF booted THEN UNCHANGED <<phase, at, provs, hooks>>
       ELSE phase' = "flatten" /\ at' = 0 /\ provs' = <<>> /\ hooks' = <<>>
    /\ UNCHANGED <<entries, booted, log>>

\* The next round of a loop, or the phase that follows it.
Goes == at' = at + 1 /\ UNCHANGED phase
Then(p) == at' = 0 /\ phase' = p

flatten ==
    /\ phase = "flatten"
    /\ \/ /\ at < entries /\ Goes
          /\ provs' = provs \o providersOf(Entries[at + 1])
          /\ hooks' = (IF IsModule(Entries[at + 1]) THEN Append(hooks, Entries[at + 1]) ELSE hooks)
       \/ at = entries /\ Then("register") /\ UNCHANGED <<provs, hooks>>
    /\ UNCHANGED <<entries, booted, log, boots>>

\* Provider.Register of the next one; an error ends Boot.
registerPhase ==
    /\ phase = "register"
    /\ \/ /\ at < Len(provs) /\ (Goes \/ Then("idle"))
          /\ log' = Append(log, <<"register", provs[at + 1]>>)
       \/ at = Len(provs) /\ Then("boot") /\ UNCHANGED log
    /\ UNCHANGED <<entries, provs, hooks, booted, boots>>

bootPhase ==
    /\ phase = "boot"
    /\ \/ at < Len(provs) /\ ~isBooter(provs[at + 1]) /\ Goes /\ UNCHANGED log
       \/ /\ at < Len(provs) /\ isBooter(provs[at + 1]) /\ (Goes \/ Then("idle"))
          /\ log' = Append(log, <<"boot", provs[at + 1]>>)
       \/ at = Len(provs) /\ Then("mount") /\ UNCHANGED log
    /\ UNCHANGED <<entries, provs, hooks, booted, boots>>

\* Routes and Migrations of the next module; they cannot fail.
mount ==
    /\ at < Len(hooks) /\ Goes
    /\ log' = (IF hasHooks(hooks[at + 1]) THEN Append(log, <<"mount", hooks[at + 1].name>>) ELSE log)
    /\ UNCHANGED booted
mountPhase_reentrant ==
    /\ phase = "mount"
    /\ mount \/ (at = Len(hooks) /\ Then("idle") /\ UNCHANGED <<booted, log>>)
    /\ UNCHANGED <<entries, provs, hooks, boots>>
mountPhase ==
    /\ phase = "mount"
    /\ mount \/ (at = Len(hooks) /\ Then("idle") /\ booted' = TRUE /\ UNCHANGED log)
    /\ UNCHANGED <<entries, provs, hooks, boots>>

Next == Register \/ Boot \/ flatten \/ registerPhase \/ bootPhase \/ mountPhase

-----------------------------------------------------------------------------
\* However often Boot fails and is called again, a module's routes and migrations
\* are mounted once: a second registration of a migration would panic.
MountedOnce == \A i, j \in DOMAIN log : log[i] = log[j] /\ log[i][1] = "mount" => i = j

\* A provider that boots finds every provider of that Boot registered, and a module
\* registers after the providers it brings.
TwoPhases ==
    /\ phase \in {"boot", "mount"} => \A k \in DOMAIN provs : <<"register", provs[k]>> \in Elements(log)
    /\ \A i \in DOMAIN log : log[i][1] = "register" =>
          \A e \in Elements(Entries) : IsModule(e) /\ e.name = log[i][2] =>
             \A k \in DOMAIN e.providers : \E j \in 1 .. i - 1 : log[j] = <<"register", e.providers[k]>>
-----------------------------------------------------------------------------
(* The inductive invariants of the properties above (InnerServicesProofs). *)
Modules == {Entries[i] : i \in {j \in DOMAIN Entries : IsModule(Entries[j])}}
AppType ==
    /\ entries \in 0 .. Len(Entries) /\ at \in Nat /\ provs \in Seq(STRING) /\ hooks \in Seq(Modules)
    /\ booted \in BOOLEAN /\ log \in Seq({"register", "boot", "mount"} \X STRING)
    /\ phase \in {"idle", "flatten", "register", "boot", "mount"}
\* Among the flattened providers a module comes after the ones it brings, and the modules
\* to mount are distinct entries that have been flattened.
BroughtFirst(s) ==
    \A k \in DOMAIN s, e \in Modules : e.name = s[k] =>
        \A n \in DOMAIN e.providers : \E j \in 1 .. k - 1 : s[j] = e.providers[n]
Flattened ==
    /\ BroughtFirst(provs)
    /\ \A i, j \in DOMAIN hooks : hooks[i].name = hooks[j].name => i = j
    /\ phase = "flatten" => at <= entries /\ \A k \in DOMAIN hooks : \E i \in 1 .. at : hooks[k] = Entries[i]
Registered ==
    phase = "register" => at <= Len(provs) /\ \A k \in 1 .. at : \E j \in DOMAIN log : log[j] = <<"register", provs[k]>>
\* Only the one mount phase mounts, and it has reached the modules it has mounted.
Mounted ==
    /\ booted => phase = "idle"
    /\ ~booted => \A i \in DOMAIN log : log[i][1] = "mount" =>
          phase = "mount" /\ \E k \in 1 .. at : k \in DOMAIN hooks /\ log[i][2] = hooks[k].name
    /\ phase = "mount" => at <= Len(hooks)
AppInv == AppType /\ Flattened /\ Registered /\ Mounted /\ MountedOnce /\ TwoPhases
=============================================================================
