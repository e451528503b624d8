--------------------------- MODULE SqlQueueProofs ---------------------------
(***************************************************************************)
(* Proofs about SqlQueue, for any number of jobs, workers, faults and      *)
(* cancelled contexts and any timing.                                      *)
(***************************************************************************)
EXTENDS SqlQueue, TLAPS

\* The delay handle computes is a number whatever the attempts are.
LEMMA RetryDelayType == \A n \in Nat : RetryDelay(n) \in Int
<1> SUFFICES ASSUME NEW n \in Nat PROVE RetryDelay(n) \in Int
  OBVIOUS
<1> DEFINE shift == IF n < 0 THEN 0 ELSE IF n > MaxShift THEN MaxShift ELSE n
<1>1. shift \in Nat
  BY DEF MaxShift
<1>2. 2 ^ shift \in Int
  BY <1>1
<1> HIDE DEF shift
<1>3. Backoff * (2 ^ shift) \in Int
  BY <1>2, BackoffAssumption
<1> QED
  BY <1>3 DEF RetryDelay, backoffMultiplier, shift

-----------------------------------------------------------------------------
(* Type correctness.                                                       *)

\* Every step of the queue and its workers preserves the types.
LEMMA TypeStep == TypeOK /\ [Next]_vars => TypeOK'
<1> SUFFICES ASSUME TypeOK, [Next]_vars PROVE TypeOK'
  OBVIOUS
<1> USE JobsAssumption, TimesAssumption, BoundsAssumption
        DEF TypeOK, NotReserved, AgeCap, PC, Holding, InTx,
            tvars, wvars, fvars, hvars
<1>1. ASSUME NEW j \in Jobs, NEW d \in 0..MaxDelay, Push(j, d) PROVE TypeOK'
  BY <1>1 DEF Push
<1>2. ASSUME NEW w \in Workers, recoverOrphans(w) PROVE TypeOK'
  BY <1>2 DEF recoverOrphans, recoveredAttempts
<1>3. ASSUME NEW w \in Workers, recoverOrphansFails(w) PROVE TypeOK'
  BY <1>3 DEF recoverOrphansFails
<1>4. ASSUME NEW w \in Workers, NEW j \in Jobs, claim(w, j) PROVE TypeOK'
  BY <1>4 DEF claim, Eligible
<1>5. ASSUME NEW w \in Workers, claimEmpty(w) PROVE TypeOK'
  BY <1>5 DEF claimEmpty
<1>6. ASSUME NEW w \in Workers, reserveOnce(w) PROVE TypeOK'
  BY <1>6 DEF reserveOnce, reserve
<1>7. ASSUME NEW w \in Workers, reserveFails(w) PROVE TypeOK'
  BY <1>7 DEF reserveFails, reserve
<1>8. ASSUME NEW w \in Workers, handleSucceeds(w) PROVE TypeOK'
  BY <1>8 DEF handleSucceeds
<1>9. ASSUME NEW w \in Workers, handleFails(w) PROVE TypeOK'
  BY <1>9 DEF handleFails
<1>10. ASSUME NEW w \in Workers, Ack(w) PROVE TypeOK'
  BY <1>10 DEF Ack, Release
<1>11. ASSUME NEW w \in Workers, Nack(w) PROVE TypeOK'
  <2>1. RetryDelay(tries[w]) \in Int
    BY RetryDelayType
  <2> QED
    BY <1>11, <2>1 DEF Nack, Release, nackedAttempts
<1>12. ASSUME NEW w \in Workers, SettleFails(w) PROVE TypeOK'
  BY <1>12 DEF SettleFails, Release
<1>13. ASSUME NEW w \in Workers, Crash(w) PROVE TypeOK'
  BY <1>13 DEF Crash
<1>14. ASSUME NEW w \in Workers, Cancel(w) PROVE TypeOK'
  BY <1>14 DEF Cancel
<1>15. ASSUME NEW w \in Workers, PopCancelled(w) PROVE TypeOK'
  BY <1>15 DEF PopCancelled, Release
<1>16. ASSUME NEW w \in Workers, RunExit(w) PROVE TypeOK'
  BY <1>16 DEF RunExit
<1>17. ASSUME NEW w \in Workers, RunStart(w) PROVE TypeOK'
  BY <1>17 DEF RunStart
<1>18. CASE Tick
  BY <1>18 DEF Tick
<1>19. CASE UNCHANGED vars
  BY <1>19 DEF vars
<1> QED
  BY <1>1, <1>2, <1>3, <1>4, <1>5, <1>6, <1>7, <1>8, <1>9, <1>10, <1>11, <1>12,
     <1>13, <1>14, <1>15, <1>16, <1>17, <1>18, <1>19 DEF Next, Work, Fault

\* The table, the workers and the history variables keep their types.
THEOREM TypeCorrect == Spec => []TypeOK
<1>1. Init => TypeOK
  BY JobsAssumption, TimesAssumption, BoundsAssumption
     DEF Init, TypeOK, NotReserved, AgeCap, PC, Holding, InTx
<1> QED
  BY <1>1, TypeStep, PTL DEF Spec

-----------------------------------------------------------------------------
(* Deliveries are told apart by their attempts.                            *)

\* A claim in progress has its row to itself: the row is there, unreserved,
\* and its attempts are what the claim has read.
TxInv ==
    \A w \in Workers : InTx(w) =>
        /\ job[w] \in rows
        /\ age[job[w]] = NotReserved
        /\ attempts[job[w]] = tries[w]
        /\ \A v \in Workers : InTx(v) /\ job[v] = job[w] => v = w

\* A row that may be claimed has more attempts than any delivery of it so far
\* carried; a reserved one at least as many.
AttemptsInv ==
    \A j \in Jobs :
        /\ last[j] <= attempts[j]
        /\ age[j] = NotReserved => last[j] < attempts[j]

\* No worker holds a delivery later than the last one.
TriesInv == \A w \in Workers : pc[w] \in Holding => tries[w] <= last[job[w]]

DeliveryInv == TypeOK /\ TxInv /\ AttemptsInv /\ TriesInv /\ DistinctDeliveries

\* Every step preserves the four facts together: claims are exclusive because
\* row locks are, and attempts rise whenever a reservation ends early.
LEMMA DeliveryStep == DeliveryInv /\ [Next]_vars => DeliveryInv'
<1> SUFFICES ASSUME DeliveryInv, [Next]_vars PROVE (TxInv /\ AttemptsInv /\ TriesInv /\ DistinctDeliveries)'
  BY TypeStep DEF DeliveryInv
<1> DEFINE Goal == TxInv /\ AttemptsInv /\ TriesInv /\ DistinctDeliveries
<1> USE JobsAssumption, TimesAssumption, BoundsAssumption
        DEF DeliveryInv, TypeOK, TxInv, AttemptsInv, TriesInv, DistinctDeliveries, Holds,
            NotReserved, AgeCap, PC, Holding, InTx, tvars, wvars, fvars, hvars
<1>1. ASSUME NEW j \in Jobs, NEW d \in 0..MaxDelay, Push(j, d) PROVE Goal'
  BY <1>1 DEF Push, CanWrite
<1>2. ASSUME NEW w \in Workers, recoverOrphans(w) PROVE Goal'
  BY <1>2 DEF recoverOrphans, recoveredAttempts, Orphan
<1>3. ASSUME NEW w \in Workers, recoverOrphansFails(w) PROVE Goal'
  BY <1>3 DEF recoverOrphansFails
<1>4. ASSUME NEW w \in Workers, NEW j \in Jobs, claim(w, j) PROVE Goal'
  BY <1>4 DEF claim, Eligible, Unlocked
<1>5. ASSUME NEW w \in Workers, claimEmpty(w) PROVE Goal'
  BY <1>5 DEF claimEmpty
<1>6. ASSUME NEW w \in Workers, reserveOnce(w) PROVE Goal'
  BY <1>6 DEF reserveOnce, reserve
<1>7. ASSUME NEW w \in Workers, reserveFails(w) PROVE Goal'
  BY <1>7 DEF reserveFails, reserve
<1>8. ASSUME NEW w \in Workers, handleSucceeds(w) PROVE Goal'
  BY <1>8 DEF handleSucceeds
<1>9. ASSUME NEW w \in Workers, handleFails(w) PROVE Goal'
  BY <1>9 DEF handleFails
<1>10. ASSUME NEW w \in Workers, Ack(w) PROVE Goal'
  BY <1>10 DEF Ack, Release, Unlocked
<1>11. ASSUME NEW w \in Workers, Nack(w) PROVE Goal'
  BY <1>11 DEF Nack, Release, nackedAttempts, Unlocked
<1>12. ASSUME NEW w \in Workers, SettleFails(w) PROVE Goal'
  BY <1>12 DEF SettleFails, Release
<1>13. ASSUME NEW w \in Workers, Crash(w) PROVE Goal'
  BY <1>13 DEF Crash
<1>14. ASSUME NEW w \in Workers, Cancel(w) PROVE Goal'
  BY <1>14 DEF Cancel
<1>15. ASSUME NEW w \in Workers, PopCancelled(w) PROVE Goal'
  BY <1>15 DEF PopCancelled, Release
<1>16. ASSUME NEW w \in Workers, RunExit(w) PROVE Goal'
  BY <1>16 DEF RunExit
<1>17. ASSUME NEW w \in Workers, RunStart(w) PROVE Goal'
  BY <1>17 DEF RunStart
<1>18. CASE Tick
  BY <1>18 DEF Tick
<1>19. CASE UNCHANGED vars
  BY <1>19 DEF vars
<1> QED
  BY <1>1, <1>2, <1>3, <1>4, <1>5, <1>6, <1>7, <1>8, <1>9, <1>10, <1>11, <1>12,
     <1>13, <1>14, <1>15, <1>16, <1>17, <1>18, <1>19 DEF Next, Work, Fault

\* Whatever faults and timing do, no two workers are given a job with the same
\* attempts.
THEOREM DeliveriesDistinct == Spec => []Deliveries
<1>1. Init => DeliveryInv
  BY JobsAssumption, TimesAssumption, BoundsAssumption
     DEF Init, DeliveryInv, TypeOK, TxInv, AttemptsInv, TriesInv, DistinctDeliveries, Holds,
         NotReserved, AgeCap, PC, Holding, InTx
<1>2. DeliveryInv => Deliveries
  BY DEF DeliveryInv, Deliveries
<1> QED
  BY <1>1, <1>2, DeliveryStep, PTL DEF Spec

\* ... and each delivery of a job carries more attempts than the one before.
THEOREM AttemptsAlwaysGrow == Spec => AttemptsGrow
<1>1. Init => DeliveryInv
  BY JobsAssumption, TimesAssumption, BoundsAssumption
     DEF Init, DeliveryInv, TypeOK, TxInv, AttemptsInv, TriesInv, DistinctDeliveries, Holds,
         NotReserved, AgeCap, PC, Holding, InTx
<1>2. DeliveryInv /\ [Next]_vars => [\A j \in Jobs : starts'[j] # starts[j] => last'[j] > last[j]]_vars
  <2> SUFFICES ASSUME DeliveryInv, Next, NEW j \in Jobs, starts'[j] # starts[j]
               PROVE  last'[j] > last[j]
    BY DEF vars
  <2>1. PICK w \in Workers : reserveOnce(w)
    BY DEF Next, Work, Fault, Push, recoverOrphans, recoverOrphansFails, claim, claimEmpty,
           reserveFails, handleSucceeds, handleFails, Ack, Nack, SettleFails, Crash, Cancel,
           PopCancelled, RunExit, RunStart, Tick, hvars
  <2> QED
    BY <2>1 DEF reserveOnce, DeliveryInv, TypeOK, TxInv, AttemptsInv, InTx
<1> QED
  BY <1>1, <1>2, DeliveryStep, PTL DEF Spec, AttemptsGrow

-----------------------------------------------------------------------------
(* Handlers that finish in time have their jobs to themselves.             *)

\* A job in a worker's hands is in the table under a reservation as old as the
\* claim, and no claim is older than HandlerMax.
HoldInv ==
    \A w \in Workers :
        /\ InTx(w) \/ pc[w] \in Holding => held[w] <= HandlerMax
        /\ pc[w] \in Holding => job[w] \in rows /\ age[job[w]] = held[w]

ExclusiveInv == DeliveryInv /\ HoldInv /\ Exclusive

\* With handlers that finish within the visibility timeout no reservation in
\* use expires, so every step keeps jobs with one worker each.
LEMMA ExclusiveStep ==
    ASSUME HandlerMax <= VisTout
    PROVE  ExclusiveInv /\ [Next]_vars => ExclusiveInv'
<1> SUFFICES ASSUME ExclusiveInv, [Next]_vars PROVE (HoldInv /\ Exclusive)'
  BY DeliveryStep DEF ExclusiveInv
<1> DEFINE Goal == HoldInv /\ Exclusive
<1> USE JobsAssumption, TimesAssumption, BoundsAssumption
        DEF ExclusiveInv, DeliveryInv, TypeOK, TxInv, HoldInv, Exclusive, Holds,
            NotReserved, AgeCap, PC, Holding, InTx, tvars, wvars, fvars, hvars
<1>1. ASSUME NEW j \in Jobs, NEW d \in 0..MaxDelay, Push(j, d) PROVE Goal'
  BY <1>1 DEF Push, CanWrite
<1>2. ASSUME NEW w \in Workers, recoverOrphans(w) PROVE Goal'
  BY <1>2 DEF recoverOrphans, recoveredAttempts, Orphan
<1>3. ASSUME NEW w \in Workers, recoverOrphansFails(w) PROVE Goal'
  BY <1>3 DEF recoverOrphansFails
<1>4. ASSUME NEW w \in Workers, NEW j \in Jobs, claim(w, j) PROVE Goal'
  BY <1>4 DEF claim, Eligible, Unlocked
<1>5. ASSUME NEW w \in Workers, claimEmpty(w) PROVE Goal'
  BY <1>5 DEF claimEmpty
<1>6. ASSUME NEW w \in Workers, reserveOnce(w) PROVE Goal'
  BY <1>6 DEF reserveOnce, reserve
<1>7. ASSUME NEW w \in Workers, reserveFails(w) PROVE Goal'
  BY <1>7 DEF reserveFails, reserve
<1>8. ASSUME NEW w \in Workers, handleSucceeds(w) PROVE Goal'
  BY <1>8 DEF handleSucceeds
<1>9. ASSUME NEW w \in Workers, handleFails(w) PROVE Goal'
  BY <1>9 DEF handleFails
<1>10. ASSUME NEW w \in Workers, Ack(w) PROVE Goal'
  BY <1>10 DEF Ack, Release, Unlocked
<1>11. ASSUME NEW w \in Workers, Nack(w) PROVE Goal'
  BY <1>11 DEF Nack, Release, nackedAttempts, Unlocked
<1>12. ASSUME NEW w \in Workers, SettleFails(w) PROVE Goal'
  BY <1>12 DEF SettleFails, Release
<1>13. ASSUME NEW w \in Workers, Crash(w) PROVE Goal'
  BY <1>13 DEF Crash
<1>14. ASSUME NEW w \in Workers, Cancel(w) PROVE Goal'
  BY <1>14 DEF Cancel
<1>15. ASSUME NEW w \in Workers, PopCancelled(w) PROVE Goal'
  BY <1>15 DEF PopCancelled, Release
<1>16. ASSUME NEW w \in Workers, RunExit(w) PROVE Goal'
  BY <1>16 DEF RunExit
<1>17. ASSUME NEW w \in Workers, RunStart(w) PROVE Goal'
  BY <1>17 DEF RunStart
<1>18. CASE Tick
  BY <1>18 DEF Tick
<1>19. CASE UNCHANGED vars
  BY <1>19 DEF vars
<1> QED
  BY <1>1, <1>2, <1>3, <1>4, <1>5, <1>6, <1>7, <1>8, <1>9, <1>10, <1>11, <1>12,
     <1>13, <1>14, <1>15, <1>16, <1>17, <1>18, <1>19 DEF Next, Work, Fault

\* No two workers handle the same job at the same time, through every crash,
\* failed statement and cancelled context, if handlers finish within the
\* visibility timeout.
THEOREM ReservationExclusive ==
    ASSUME HandlerMax <= VisTout
    PROVE  Spec => []Exclusive
<1>1. Init => ExclusiveInv
  BY JobsAssumption, TimesAssumption, BoundsAssumption
     DEF Init, ExclusiveInv, DeliveryInv, TypeOK, TxInv, AttemptsInv, TriesInv,
         DistinctDeliveries, HoldInv, Exclusive, Holds, NotReserved, AgeCap, PC, Holding, InTx
<1>2. ExclusiveInv => Exclusive
  BY DEF ExclusiveInv
<1>3. ExclusiveInv /\ [Next]_vars => ExclusiveInv'
  BY ExclusiveStep
<1> QED
  BY <1>1, <1>2, <1>3, PTL DEF Spec

-----------------------------------------------------------------------------
(* Runs beyond MaxRetry are paid for by faults and cancelled contexts.      *)

\* A reserved row that no worker can settle any more: its worker is gone, or
\* runs under a cancelled context.  It will be recovered as an orphan.
Doomed(j) ==
    j \in rows /\ age[j] # NotReserved /\ \A w \in Workers : Holds(w, j) => w \in ctxDone

\* A job's runs so far, and the attempts that its row has or, as an orphan, is
\* about to get.
Paid(j) ==
    /\ j \notin pushed => age[j] = NotReserved
    /\ starts[j] <= last[j] + 1
    /\ attempts[j] < MaxRetry + faults + cancels
    /\ Doomed(j) => attempts[j] + 1 < MaxRetry + faults + cancels

\* A worker holds the row with its latest attempts, and hands it back only
\* while another attempt is left.
NackInv ==
    \A w \in Workers : /\ pc[w] \in Holding => tries[w] = attempts[job[w]]
                       /\ pc[w] = "nack" => tries[w] + 1 < MaxRetry

BudgetInv == ExclusiveInv /\ NackInv /\ \A j \in Jobs : Paid(j)

\* A Nack spends an attempt that was left; an orphan's attempt was paid for by
\* the fault or the cancelled context that made it one.
LEMMA BudgetStep ==
    ASSUME HandlerMax <= VisTout
    PROVE  BudgetInv /\ [Next]_vars => BudgetInv'
<1> SUFFICES ASSUME BudgetInv, [Next]_vars PROVE (NackInv /\ \A i \in Jobs : Paid(i))'
  BY ExclusiveStep DEF BudgetInv
<1> DEFINE Goal == NackInv /\ \A i \in Jobs : Paid(i)
<1> USE JobsAssumption, TimesAssumption, BoundsAssumption, MaxRetryAssumption
        DEF BudgetInv, ExclusiveInv, DeliveryInv, TypeOK, TxInv, AttemptsInv, HoldInv, Exclusive,
            NackInv, Paid, Doomed, Holds, NotReserved, AgeCap, PC, Holding, InTx,
            tvars, wvars, fvars, hvars
<1>1. ASSUME NEW j \in Jobs, NEW d \in 0..MaxDelay, Push(j, d) PROVE Goal'
  BY <1>1 DEF Push, CanWrite
<1>2. ASSUME NEW w \in Workers, recoverOrphans(w) PROVE Goal'
  BY <1>2 DEF recoverOrphans, recoveredAttempts, Orphan
<1>3. ASSUME NEW w \in Workers, recoverOrphansFails(w) PROVE Goal'
  BY <1>3 DEF recoverOrphansFails
<1>4. ASSUME NEW w \in Workers, NEW j \in Jobs, claim(w, j) PROVE Goal'
  BY <1>4 DEF claim, Eligible, Unlocked
<1>5. ASSUME NEW w \in Workers, claimEmpty(w) PROVE Goal'
  BY <1>5 DEF claimEmpty
<1>6. ASSUME NEW w \in Workers, reserveOnce(w) PROVE Goal'
  BY <1>6 DEF reserveOnce, reserve
<1>7. ASSUME NEW w \in Workers, reserveFails(w) PROVE Goal'
  BY <1>7 DEF reserveFails, reserve
<1>8. ASSUME NEW w \in Workers, handleSucceeds(w) PROVE Goal'
  BY <1>8 DEF handleSucceeds
<1>9. ASSUME NEW w \in Workers, handleFails(w) PROVE Goal'
  BY <1>9 DEF handleFails, Exhausted
<1>10. ASSUME NEW w \in Workers, Ack(w) PROVE Goal'
  BY <1>10 DEF Ack, Release
<1>11. ASSUME NEW w \in Workers, Nack(w) PROVE Goal'
  BY <1>11, SMTT(30) DEF Nack, Release, nackedAttempts
<1>12. ASSUME NEW w \in Workers, SettleFails(w) PROVE Goal'
  BY <1>12 DEF SettleFails, Release
<1>13. ASSUME NEW w \in Workers, Crash(w) PROVE Goal'
  BY <1>13 DEF Crash
<1>14. ASSUME NEW w \in Workers, Cancel(w) PROVE Goal'
  BY <1>14 DEF Cancel
<1>15. ASSUME NEW w \in Workers, PopCancelled(w) PROVE Goal'
  BY <1>15 DEF PopCancelled, Release
<1>16. ASSUME NEW w \in Workers, RunExit(w) PROVE Goal'
  BY <1>16 DEF RunExit
<1>17. ASSUME NEW w \in Workers, RunStart(w) PROVE Goal'
  BY <1>17 DEF RunStart
<1>18. CASE Tick
  BY <1>18 DEF Tick
<1>19. CASE UNCHANGED vars
  BY <1>19 DEF vars
<1> QED
  BY <1>1, <1>2, <1>3, <1>4, <1>5, <1>6, <1>7, <1>8, <1>9, <1>10, <1>11, <1>12,
     <1>13, <1>14, <1>15, <1>16, <1>17, <1>18, <1>19 DEF Next, Work, Fault

\* If handlers finish within the visibility timeout, a job runs at most MaxRetry
\* times, plus once for each crash, failed statement and cancelled context.
THEOREM RunsAreBudgeted ==
    ASSUME HandlerMax <= VisTout
    PROVE  Spec => []RetryBudget
<1>1. Init => BudgetInv
  BY JobsAssumption, TimesAssumption, BoundsAssumption, MaxRetryAssumption
     DEF Init, BudgetInv, ExclusiveInv, DeliveryInv, TypeOK, TxInv, AttemptsInv, TriesInv,
         DistinctDeliveries, HoldInv, Exclusive, NackInv, Paid, Doomed, Holds,
         NotReserved, AgeCap, PC, Holding, InTx
<1>2. BudgetInv => RetryBudget
  BY MaxRetryAssumption, BoundsAssumption
  DEF BudgetInv, ExclusiveInv, DeliveryInv, TypeOK, AttemptsInv, Paid, RetryBudget
<1>3. BudgetInv /\ [Next]_vars => BudgetInv'
  BY BudgetStep
<1> QED
  BY <1>1, <1>2, <1>3, PTL DEF Spec

-----------------------------------------------------------------------------
(* At-least-once delivery.                                                 *)

\* A worker about to Ack has concluded a delivery of its job.
AckInv == \A w \in Workers : pc[w] = "ack" => job[w] \in concluded

\* Ack is reached only through a verdict on the job, and verdicts stay.
LEMMA AckStep == TypeOK /\ AckInv /\ [Next]_vars => AckInv'
<1> SUFFICES ASSUME TypeOK, AckInv, [Next]_vars PROVE AckInv'
  OBVIOUS
<1> USE JobsAssumption DEF TypeOK, AckInv, PC, Holding, InTx, tvars, wvars, fvars, hvars
<1>1. ASSUME NEW j \in Jobs, NEW d \in 0..MaxDelay, Push(j, d) PROVE AckInv'
  BY <1>1 DEF Push, CanWrite
<1>2. ASSUME NEW w \in Workers, recoverOrphans(w) PROVE AckInv'
  BY <1>2 DEF recoverOrphans, recoveredAttempts, Orphan
<1>3. ASSUME NEW w \in Workers, recoverOrphansFails(w) PROVE AckInv'
  BY <1>3 DEF recoverOrphansFails
<1>4. ASSUME NEW w \in Workers, NEW j \in Jobs, claim(w, j) PROVE AckInv'
  BY <1>4 DEF claim, Eligible, Unlocked
<1>5. ASSUME NEW w \in Workers, claimEmpty(w) PROVE AckInv'
  BY <1>5 DEF claimEmpty
<1>6. ASSUME NEW w \in Workers, reserveOnce(w) PROVE AckInv'
  BY <1>6 DEF reserveOnce, reserve
<1>7. ASSUME NEW w \in Workers, reserveFails(w) PROVE AckInv'
  BY <1>7 DEF reserveFails, reserve
<1>8. ASSUME NEW w \in Workers, handleSucceeds(w) PROVE AckInv'
  BY <1>8 DEF handleSucceeds
<1>9. ASSUME NEW w \in Workers, handleFails(w) PROVE AckInv'
  BY <1>9 DEF handleFails
<1>10. ASSUME NEW w \in Workers, Ack(w) PROVE AckInv'
  BY <1>10 DEF Ack, Release, Unlocked
<1>11. ASSUME NEW w \in Workers, Nack(w) PROVE AckInv'
  BY <1>11 DEF Nack, Release, nackedAttempts, Unlocked
<1>12. ASSUME NEW w \in Workers, SettleFails(w) PROVE AckInv'
  BY <1>12 DEF SettleFails, Release
<1>13. ASSUME NEW w \in Workers, Crash(w) PROVE AckInv'
  BY <1>13 DEF Crash
<1>14. ASSUME NEW w \in Workers, Cancel(w) PROVE AckInv'
  BY <1>14 DEF Cancel
<1>15. ASSUME NEW w \in Workers, PopCancelled(w) PROVE AckInv'
  BY <1>15 DEF PopCancelled, Release
<1>16. ASSUME NEW w \in Workers, RunExit(w) PROVE AckInv'
  BY <1>16 DEF RunExit
<1>17. ASSUME NEW w \in Workers, RunStart(w) PROVE AckInv'
  BY <1>17 DEF RunStart
<1>18. CASE Tick
  BY <1>18 DEF Tick
<1>19. CASE UNCHANGED vars
  BY <1>19 DEF vars
<1> QED
  BY <1>1, <1>2, <1>3, <1>4, <1>5, <1>6, <1>7, <1>8, <1>9, <1>10, <1>11, <1>12,
     <1>13, <1>14, <1>15, <1>16, <1>17, <1>18, <1>19 DEF Next, Work, Fault

\* Every step of the driver is a step of the contract or none.
LEMMA ContractStep == TypeOK /\ AckInv /\ [Next]_vars => [C!Next]_(C!vars)
<1> SUFFICES ASSUME TypeOK, AckInv, [Next]_vars PROVE [C!Next]_(C!vars)
  OBVIOUS
<1> USE DEF TypeOK, AckInv, Holding, InTx, tvars, wvars, fvars, hvars, C!vars
<1>1. ASSUME NEW j \in Jobs, NEW d \in 0..MaxDelay, Push(j, d) PROVE C!Push(j)
  BY <1>1 DEF Push, C!Push
<1>2. ASSUME NEW w \in Workers, reserveOnce(w) PROVE C!Conclude(job[w]) \/ UNCHANGED C!vars
  BY <1>2 DEF reserveOnce, C!Conclude
<1>3. ASSUME NEW w \in Workers, handleSucceeds(w) PROVE C!Conclude(job[w])
  BY <1>3 DEF handleSucceeds, C!Conclude
<1>4. ASSUME NEW w \in Workers, handleFails(w) PROVE C!Conclude(job[w]) \/ UNCHANGED C!vars
  BY <1>4 DEF handleFails, C!Conclude
<1>5. ASSUME NEW w \in Workers, Ack(w) PROVE C!Remove(job[w]) \/ UNCHANGED C!vars
  BY <1>5 DEF Ack, Release, C!Remove
<1>6. ASSUME NEW w \in Workers,
             \/ reserveOnce(w) \/ handleSucceeds(w) \/ handleFails(w) \/ Ack(w)
      PROVE  job[w] \in Jobs
  BY <1>6 DEF reserveOnce, handleSucceeds, handleFails, Ack
<1>7. ASSUME NEW w \in Workers,
             \/ recoverOrphans(w) \/ recoverOrphansFails(w) \/ \E j \in Jobs : claim(w, j)
             \/ claimEmpty(w) \/ reserveFails(w) \/ Nack(w) \/ SettleFails(w) \/ Crash(w)
             \/ Cancel(w) \/ PopCancelled(w) \/ RunExit(w) \/ RunStart(w)
      PROVE  UNCHANGED C!vars
  BY <1>7 DEF recoverOrphans, recoverOrphansFails, claim, claimEmpty, reserveFails, Nack,
              SettleFails, Crash, Cancel, PopCancelled, RunExit, RunStart, Release
<1>8. CASE Tick
  BY <1>8 DEF Tick
<1>9. CASE UNCHANGED vars
  BY <1>9 DEF vars
<1> QED
  BY <1>1, <1>2, <1>3, <1>4, <1>5, <1>6, <1>7, <1>8, <1>9 DEF Next, Work, Fault, C!Next

\* The driver implements the Queue contract: however workers crash and
\* statements fail, a row is deleted only after a delivery of it was concluded.
THEOREM ImplementsContract == Spec => AtLeastOnce
<1>1. Init => AckInv /\ C!Init
  BY DEF Init, AckInv, C!Init
<1> QED
  BY <1>1, TypeCorrect, AckStep, ContractStep, PTL DEF Spec, AtLeastOnce, C!Spec
=============================================================================
