------------------------------- MODULE Authz -------------------------------
(***************************************************************************)
(* The authorization gate of src/authz/authz.go: checks of one ability by  *)
(* several callers while gates, policies and before hooks are registered.  *)
(* A check takes a snapshot under the read lock and calls user code after  *)
(* it.  The policy lookup dereferences a pointer resource under the lock,  *)
(* and panics there on a nil pointer: nothing then releases the lock.      *)
(***************************************************************************)
EXTENDS Naturals, FiniteSets

CONSTANTS Callers,
          MaxWrites     \* bound: registrations
VARIABLES
  gate,      \* the closure registered for the ability: what it answers
  policy,    \* what the method of the policy of the resource type answers
  hooks,     \* is a before hook registered (it lets the admin through)
  readers,   \* callers that hold the read lock
  writes,    \* registrations so far
  call       \* per caller: its step, its resource, its snapshot, its answer
azVars == <<gate, policy, hooks, readers, writes, call>>

Resources == {"none", "value", "pointer", "nilPointer", "other"}
Verdicts == {"yes", "no", "error"}   \* of a policy method: (bool, error)
Unset == "unset"
Nothing == [gate |-> Unset, hooks |-> FALSE, policy |-> Unset]
Idle == [pc |-> "idle", user |-> "guest", res |-> "none", seen |-> Nothing, answer |-> Unset]

Init ==
  /\ gate = Unset /\ policy = Unset /\ hooks = FALSE
  /\ readers = {} /\ writes = 0
  /\ call = [c \in Callers |-> Idle]
----------------------------------------------------------------------------
(* Define, Before and Policy take the write lock: they wait for every      *)
(* reader, and a reader that comes after them waits for them.              *)
Waiting == \E c \in Callers : call[c].pc = "waiting"
Register(c) ==
  /\ call[c].pc = "idle" /\ ~Waiting /\ writes < MaxWrites
  /\ writes' = writes + 1
  /\ \/ /\ readers = {}
        /\ \/ gate' \in {"yes", "no"} /\ UNCHANGED <<policy, hooks>>
           \/ policy' \in Verdicts /\ UNCHANGED <<gate, hooks>>
           \/ hooks' = TRUE /\ UNCHANGED <<gate, policy>>
        /\ UNCHANGED call
     \/ /\ readers # {}
        /\ call' = [call EXCEPT ![c].pc = "waiting"]
        /\ UNCHANGED <<gate, policy, hooks>>
  /\ UNCHANGED readers

(* The policy found for a resource: by its type, or by what it points to.  *)
policyFor(res) == IF res \in {"value", "pointer"} THEN policy ELSE Unset
(* The lookup of Allows ends with the lock given back, or with the panic.  *)
runlock(c, panics) == IF panics THEN readers \cup {c} ELSE readers
lookup(c, user, res) ==
  LET panics == gate = Unset /\ res = "nilPointer" /\ policy # Unset IN
  /\ call[c].pc = "idle" /\ ~Waiting
  /\ readers' = runlock(c, panics)
  /\ call' = [call EXCEPT ![c] =
       [pc |-> IF panics THEN "panicked" ELSE "found", user |-> user, res |-> res, answer |-> Unset,
        seen |-> [gate |-> gate, hooks |-> hooks, policy |-> IF gate = Unset THEN policyFor(res) ELSE Unset]]]
  /\ UNCHANGED <<gate, policy, hooks, writes>>

(* A gate defined for the resource's type refuses a resource of another    *)
(* type, a pointer to it included, and gets the zero value for none.       *)
callGate(verdict, res) == IF res \in {"none", "value"} THEN verdict ELSE "no"
Allows(user, res, seen) ==
  CASE seen.hooks /\ user = "admin" -> "yes"
    [] seen.gate # Unset -> callGate(seen.gate, res)
    [] seen.policy # Unset -> seen.policy
    [] OTHER -> "error"
(* The hooks, the gate and the policy run after the lock is released. *)
answer(c) ==
  /\ call[c].pc = "found"
  /\ call' = [call EXCEPT ![c].pc = "answered",
                          ![c].answer = Allows(call[c].user, call[c].res, call[c].seen)]
  /\ UNCHANGED <<gate, policy, hooks, readers, writes>>
(* Denies, Authorize and Check are Allows with errors as denials. *)
Denies(out) == out # "yes"
return(c) ==
  /\ call[c].pc \in {"answered", "panicked"}
  /\ call' = [call EXCEPT ![c] = Idle]
  /\ UNCHANGED <<gate, policy, hooks, readers, writes>>
Next ==
  \E c \in Callers :
    \/ Register(c) \/ answer(c) \/ return(c)
    \/ \E user \in {"admin", "guest"}, res \in Resources : lookup(c, user, res)
Spec == Init /\ [][Next]_azVars
----------------------------------------------------------------------------
(* A check lets a caller through only on the word of a hook, a gate or a   *)
(* policy that was registered, together with the others, at the moment of  *)
(* its lookup; a policy decides for a pointer what it decides for a value. *)
AllowedByOneMoment ==
  \A c \in Callers :
    LET k == call[c] IN
    k.pc = "answered" /\ ~Denies(k.answer) =>
      \/ k.seen.hooks /\ k.user = "admin"
      \/ k.seen.gate = "yes" /\ k.res \in {"none", "value"}
      \/ k.seen.gate = Unset /\ k.seen.policy = "yes" /\ k.res \in {"value", "pointer"}

(* Registration and checks wait for each other for good only after a check *)
(* of a nil pointer panicked inside the lookup: every other way out of it, *)
(* an unknown ability included, has given the read lock back.              *)
StuckNeedsPanic ==
  /\ Waiting => readers # {}
  /\ readers # {} => gate = Unset /\ policy # Unset
-----------------------------------------------------------------------------
(* The inductive invariants of the properties above (OuterServicesProofs). *)
(* What a check has seen is what was registered: a policy only for a resource it is    *)
(* about and only without a gate; and its answer follows from it alone.                *)
Snapshots == [gate : {Unset, "yes", "no"}, hooks : BOOLEAN, policy : Verdicts \cup {Unset}]
TypeOK ==
  /\ gate \in {Unset, "yes", "no"} /\ policy \in Verdicts \cup {Unset} /\ hooks \in BOOLEAN
  /\ readers \subseteq Callers /\ writes \in Nat
  /\ call \in [Callers -> [pc : {"idle", "waiting", "found", "answered", "panicked"}, user : {"admin", "guest"},
                           res : Resources, seen : Snapshots, answer : Verdicts \cup {Unset}]]
SeenTogether ==
  \A c \in Callers :
    /\ call[c].seen.policy # Unset => call[c].res \in {"value", "pointer"} /\ call[c].seen.gate = Unset
    /\ call[c].pc = "answered" => call[c].answer = Allows(call[c].user, call[c].res, call[c].seen)
Inv == TypeOK /\ SeenTogether /\ StuckNeedsPanic
============================================================================
