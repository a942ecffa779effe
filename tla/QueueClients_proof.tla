-------------------------- MODULE QueueClients_proof -------------------------
(* The safety properties of QueueClients, for any threads and any jobs. *)
EXTENDS QueueClients, DataLemmas

(***************************************************************************)
(* The type invariant is inductive by itself.                              *)
(***************************************************************************)

LEMMA TypeOKInit == Init => TypeOK
<1>1. <<>> \in Seq(Jobs)
  BY EmptySeq
<1>2. Init => held \in [Threads -> SUBSET Jobs]
  BY DEF Init
<1>3. Init => terminate \in BOOLEAN
  BY DEF Init, QueueInit
<1>4. QED BY <1>1, <1>2, <1>3 DEF Init, QueueInit, TypeOK

LEMMA TypeOKStep ==
  ASSUME TypeOK, [Next]_clientVars
  PROVE  TypeOK'
<1> USE DEF TypeOK
<1>1. ASSUME NEW t \in Threads, Push(t)
      PROVE  TypeOK'
  BY <1>1 DEF Push, work_queue_push, Signal
<1>2. ASSUME NEW t \in Threads, CallPop(t)
      PROVE  TypeOK'
  BY <1>2 DEF CallPop, queueVars
<1>3. ASSUME NEW t \in Threads, TakeJob(t)
      PROVE  TypeOK'
  <2>1. Head_job \in Jobs
    BY <1>3, LastElement DEF TakeJob, PopJob, Head_job
  <2>2. stack' \in Seq(Jobs)
    BY <1>3, AllButLast DEF TakeJob, PopJob, Prev_items
  <2>3. QED BY <1>3, <2>1, <2>2 DEF TakeJob, PopJob
<1>4. ASSUME NEW t \in Threads, Wait(t)
      PROVE  TypeOK'
  BY <1>4 DEF Wait, PopWait
<1>5. ASSUME NEW t \in Threads, GetNull(t)
      PROVE  TypeOK'
  BY <1>5 DEF GetNull, PopClose, PopNull, queueVars
<1>6. ASSUME NEW t \in Threads, Report(t)
      PROVE  TypeOK'
  BY <1>6 DEF Report, MarkProcessed
<1>7. ASSUME NEW t \in Threads, Wake(t)
      PROVE  TypeOK'
  BY <1>7 DEF Wake, SpuriousWake
<1>8. CASE UNCHANGED clientVars
  BY <1>8 DEF clientVars
<1>9. QED BY <1>1, <1>2, <1>3, <1>4, <1>5, <1>6, <1>7, <1>8 DEF Next

\* The operations of work_queue.c keep every field of the queue, and every
\* record the clients keep of their jobs, in its type.
THEOREM TypeCorrect == Spec => []TypeOK
BY TypeOKInit, TypeOKStep, PTL DEF Spec

(***************************************************************************)
(* EnoughAwake.  A thread that leaves a closed queue would break it, were  *)
(* there still somebody asleep, so it is inductive together with           *)
(* ClosedWakesAll.                                                         *)
(***************************************************************************)
Awake == popping \ waiters

WakeInv ==
  /\ TypeOK
  /\ IsFiniteSet(popping)
  /\ ClosedWakesAll
  /\ EnoughAwake

LEMMA AwakeFinite ==
  ASSUME WakeInv
  PROVE  IsFiniteSet(Awake) /\ Cardinality(Awake) \in Nat
BY FS_Difference, FS_CardinalityType DEF WakeInv, Awake

\* One thread more, awake in work_queue_pop.
LEMMA OneMoreAwake ==
  ASSUME WakeInv, NEW t, t \notin Awake, Awake' = Awake \cup {t}
  PROVE  Cardinality(Awake') = Cardinality(Awake) + 1
BY AwakeFinite, FS_AddElement

LEMMA WakeInvStep ==
  ASSUME WakeInv, TypeOK', [Next]_clientVars
  PROVE  WakeInv'
<1> USE DEF WakeInv, ClosedWakesAll
<1>0. Len(stack) \in Nat
  BY LenProperties DEF TypeOK
<1>1. ASSUME NEW t \in Threads, Push(t)
      PROVE  WakeInv'
  <2>1. PICK job \in Jobs : work_queue_push(job) /\ UNCHANGED popping
    BY <1>1 DEF Push, TypeOK
  <2>2. Len(stack') = Len(stack) + 1
    BY <2>1, OneMore DEF work_queue_push, TypeOK
  <2>3. CASE waiters = {}
    BY <2>1, <2>3 DEF work_queue_push, Signal, EnoughAwake
  <2>4. CASE waiters # {}
    <3>1. PICK u \in waiters : waiters' = waiters \ {u}
      BY <2>1, <2>4 DEF work_queue_push, Signal
    <3>2. u \notin Awake /\ Awake' = Awake \cup {u}
      BY <2>1, <3>1 DEF Awake, TypeOK
    <3>3. Cardinality(Awake') = Cardinality(Awake) + 1
      BY <3>2, OneMoreAwake
    <3>4. Len(stack) <= Cardinality(Awake)
      BY <2>4 DEF EnoughAwake, Awake
    <3>5. Len(stack') <= Cardinality(Awake')
      BY <3>3, <3>4, <2>2, <1>0, AwakeFinite
    <3>6. ClosedWakesAll' /\ IsFiniteSet(popping')
      BY <2>1, <3>1 DEF work_queue_push
    <3>7. QED BY <3>5, <3>6 DEF EnoughAwake, Awake
  <2>5. QED BY <2>3, <2>4
<1>2. ASSUME NEW t \in Threads, CallPop(t)
      PROVE  WakeInv'
  <2>1. /\ t \notin Awake /\ Awake' = Awake \cup {t}
        /\ UNCHANGED <<stack, terminate, waiters>>
    BY <1>2 DEF CallPop, queueVars, Awake, TypeOK
  <2>2. Cardinality(Awake') = Cardinality(Awake) + 1
    BY <2>1, OneMoreAwake
  <2>3. IsFiniteSet(popping')
    BY <1>2, FS_AddElement DEF CallPop
  <2>4. EnoughAwake'
    BY <2>1, <2>2, <1>0, AwakeFinite DEF EnoughAwake, Awake
  <2>5. QED BY <2>1, <2>3, <2>4
<1>3. ASSUME NEW t \in Threads, TakeJob(t)
      PROVE  WakeInv'
  <2>1. t \in Awake /\ Awake' = Awake \ {t}
    BY <1>3 DEF TakeJob, PopJob, Awake
  <2>2. Cardinality(Awake') = Cardinality(Awake) - 1
    BY <2>1, AwakeFinite, FS_RemoveElement
  <2>3. Len(stack') = Len(stack) - 1
    BY <1>3, AllButLast DEF TakeJob, PopJob, Prev_items, TypeOK
  <2>4. IsFiniteSet(popping')
    BY <1>3, FS_RemoveElement DEF TakeJob
  <2>5. EnoughAwake'
    BY <1>3, <2>2, <2>3, <1>0, AwakeFinite DEF TakeJob, PopJob, EnoughAwake, Awake
  <2>6. QED BY <1>3, <2>4, <2>5 DEF TakeJob, PopJob
<1>4. ASSUME NEW t \in Threads, Wait(t)
      PROVE  WakeInv'
  <2>1. stack' = <<>> /\ popping' = popping /\ ~terminate'
    BY <1>4 DEF Wait, PopWait
  <2>2. Cardinality(Awake') \in Nat
    BY <2>1, FS_Difference, FS_CardinalityType DEF Awake
  <2>3. EnoughAwake'
    BY <2>1, <2>2, EmptySeq DEF EnoughAwake, Awake
  <2>4. QED BY <2>1, <2>3
<1>5. ASSUME NEW t \in Threads, GetNull(t)
      PROVE  WakeInv'
  <2>1. waiters' = {}
    BY <1>5 DEF GetNull, PopClose, PopNull, queueVars
  <2>2. IsFiniteSet(popping')
    BY <1>5, FS_RemoveElement DEF GetNull
  <2>3. QED BY <2>1, <2>2 DEF EnoughAwake
<1>6. ASSUME NEW t \in Threads, Report(t)
      PROVE  WakeInv'
  BY <1>6 DEF Report, MarkProcessed, EnoughAwake
<1>7. ASSUME NEW t \in Threads, Wake(t)
      PROVE  WakeInv'
  <2>1. /\ t \notin Awake /\ Awake' = Awake \cup {t}
        /\ waiters # {} /\ waiters' \subseteq waiters
        /\ UNCHANGED <<stack, terminate, popping>>
    BY <1>7 DEF Wake, SpuriousWake, Awake, TypeOK
  <2>2. Cardinality(Awake') = Cardinality(Awake) + 1
    BY <2>1, OneMoreAwake
  <2>3. EnoughAwake'
    BY <2>1, <2>2, <1>0, AwakeFinite DEF EnoughAwake, Awake
  <2>4. QED BY <2>1, <2>3
<1>8. CASE UNCHANGED clientVars
  BY <1>8 DEF clientVars, EnoughAwake
<1>9. QED BY <1>1, <1>2, <1>3, <1>4, <1>5, <1>6, <1>7, <1>8 DEF Next

LEMMA WakeInvCorrect == Spec => []WakeInv
<1>1. Init /\ TypeOK => WakeInv
  BY FS_EmptySet DEF Init, QueueInit, WakeInv, ClosedWakesAll, EnoughAwake
<1>2. QED BY <1>1, WakeInvStep, TypeCorrect, PTL DEF Spec

\* However many threads sleep in work_queue_pop, the jobs in the list never outnumber
\* the threads awake in it: one pthread_cond_signal per push is enough.
THEOREM SignalSuffices == Spec => []EnoughAwake
<1>1. WakeInv => EnoughAwake
  BY DEF WakeInv
<1>2. QED BY <1>1, WakeInvCorrect, PTL

\* No thread sleeps in front of a closed queue.
THEOREM ClosedQueueIsAwake == Spec => []ClosedWakesAll
<1>1. WakeInv => ClosedWakesAll
  BY DEF WakeInv
<1>2. QED BY <1>1, WakeInvCorrect, PTL

(***************************************************************************)
(* HandedOutOnce, inductive together with the fact that a job that is      *)
(* still to be pushed is not listed.                                       *)
(***************************************************************************)
OnceInv ==
  /\ TypeOK
  /\ HandedOutOnce
  /\ fresh \cap Range(stack) = {}

LEMMA OnceInvStep ==
  ASSUME OnceInv, TypeOK', [Next]_clientVars
  PROVE  OnceInv'
<1> USE DEF OnceInv, HandedOutOnce, Range
<1>0. Len(stack) \in Nat /\ DOMAIN stack = 1 .. Len(stack)
  BY LenProperties DEF TypeOK
<1>1. ASSUME NEW t \in Threads, Push(t)
      PROVE  OnceInv'
  <2>1. PICK job \in fresh : /\ stack' = Append(stack, job)
                             /\ fresh' = fresh \ {job}
                             /\ held' = held
    BY <1>1 DEF Push, work_queue_push
  <2>2. /\ DOMAIN stack' = 1 .. Len(stack) + 1
        /\ \A i \in 1 .. Len(stack) : stack'[i] = stack[i]
        /\ stack'[Len(stack) + 1] = job
    <3>1. job \in Jobs /\ stack' \in Seq(Jobs) /\ stack \in Seq(Jobs)
      BY <2>1 DEF TypeOK
    <3>2. QED BY <2>1, <3>1, OneMore, LenProperties
  <2>3. Range(stack') = Range(stack) \cup {job}
    BY <1>0, <2>2
  <2>4. \A i, j \in DOMAIN stack' : stack'[i] = stack'[j] => i = j
    <3>1. \A i \in 1 .. Len(stack) : stack[i] # job
      BY <1>0, <2>1
    <3>2. QED BY <1>0, <2>2, <3>1
  <2>5. QED BY <2>1, <2>3, <2>4
<1>2. ASSUME NEW t \in Threads, CallPop(t)
      PROVE  OnceInv'
  BY <1>2 DEF CallPop, queueVars
<1>3. ASSUME NEW t \in Threads, TakeJob(t)
      PROVE  OnceInv'
  <2> DEFINE job == stack[Len(stack)]
  <2>1. /\ DOMAIN stack' = 1 .. Len(stack) - 1
        /\ \A i \in 1 .. Len(stack) - 1 : stack'[i] = stack[i]
        /\ Len(stack) \in 1 .. Len(stack)
    <3>1. stack # <<>> /\ stack' = SubSeq(stack, 1, Len(stack) - 1)
      BY <1>3 DEF TakeJob, PopJob, Prev_items
    <3>2. stack \in Seq(Jobs) /\ stack' \in Seq(Jobs)
      BY DEF TypeOK
    <3>3. QED BY <3>1, <3>2, AllButLast, LastElement, LenProperties
  <2>2. /\ Range(stack') = Range(stack) \ {job}
        /\ job \in Range(stack)
    BY <1>0, <2>1
  <2>3. /\ \A u \in Threads : held'[u] = IF u = t THEN held[t] \cup {job} ELSE held[u]
        /\ fresh' = fresh
    BY <1>3 DEF TakeJob, Head_job, TypeOK
  <2>4. \A i, j \in DOMAIN stack' : stack'[i] = stack'[j] => i = j
    BY <1>0, <2>1
  <2>5. \A u \in Threads : held'[u] \cap (fresh' \cup Range(stack')) = {}
    BY <2>2, <2>3
  <2>6. \A u, v \in Threads : u # v => held'[u] \cap held'[v] = {}
    BY <2>2, <2>3
  <2>7. QED BY <2>2, <2>3, <2>4, <2>5, <2>6
<1>4. ASSUME NEW t \in Threads, Wait(t)
      PROVE  OnceInv'
  BY <1>4 DEF Wait, PopWait
<1>5. ASSUME NEW t \in Threads, GetNull(t)
      PROVE  OnceInv'
  BY <1>5 DEF GetNull, PopClose, PopNull, queueVars
<1>6. ASSUME NEW t \in Threads, Report(t)
      PROVE  OnceInv'
  <2>1. /\ stack' = stack /\ fresh' = fresh
        /\ \A u \in Threads : held'[u] \subseteq held[u]
    BY <1>6 DEF Report, MarkProcessed, TypeOK
  <2>2. QED BY <2>1
<1>7. ASSUME NEW t \in Threads, Wake(t)
      PROVE  OnceInv'
  BY <1>7 DEF Wake, SpuriousWake
<1>8. CASE UNCHANGED clientVars
  BY <1>8 DEF clientVars
<1>9. QED BY <1>1, <1>2, <1>3, <1>4, <1>5, <1>6, <1>7, <1>8 DEF Next

LEMMA OnceInvInit == Init => OnceInv
<1> SUFFICES ASSUME Init
             PROVE  OnceInv
  OBVIOUS
<1>1. stack = <<>> /\ held = [t \in Threads |-> {}]
  BY DEF Init, QueueInit
<1>2. DOMAIN stack = {}
  BY <1>1
<1>3. QED BY <1>1, <1>2, TypeOKInit DEF OnceInv, HandedOutOnce, Range

LEMMA OnceInvCorrect == Spec => []OnceInv
BY OnceInvInit, OnceInvStep, TypeCorrect, PTL DEF Spec

\* No job is handed out twice, or handed out and still listed, whatever pushes and
\* pops the threads make.
THEOREM JobsHandedOutOnce == Spec => []HandedOutOnce
<1>1. OnceInv => HandedOutOnce
  BY DEF OnceInv
<1>2. QED BY <1>1, OnceInvCorrect, PTL

(***************************************************************************)
(* ClosesWhenIdle: the difference of the two counters is the number of     *)
(* jobs in service, because each is handed out once.                       *)
(***************************************************************************)
InService == UNION {held[t] : t \in Threads}

Accounting ==
  /\ IsFiniteSet(InService)
  /\ total_pop = total_processed + Cardinality(InService)

LEMMA AccountingStep ==
  ASSUME OnceInv, Accounting, [Next]_clientVars
  PROVE  Accounting'
<1>0. Cardinality(InService) \in Nat /\ total_pop \in Nat /\ total_processed \in Nat
  BY FS_CardinalityType DEF Accounting, OnceInv, TypeOK
<1>1. ASSUME NEW t \in Threads, TakeJob(t)
      PROVE  Accounting'
  <2> DEFINE job == stack[Len(stack)]
  <2>1. \A u \in Threads : held'[u] = IF u = t THEN held[t] \cup {job} ELSE held[u]
    BY <1>1 DEF TakeJob, Head_job, OnceInv, TypeOK
  <2>2. InService' = InService \cup {job}
    BY <2>1 DEF InService
  <2>3. job \in Range(stack)
    <3>1. Len(stack) \in Nat \ {0} /\ DOMAIN stack = 1 .. Len(stack)
      BY <1>1, LastElement, LenProperties DEF TakeJob, PopJob, OnceInv, TypeOK
    <3>2. QED BY <3>1 DEF Range
  <2>4. job \notin InService
    BY <2>3 DEF InService, OnceInv, HandedOutOnce
  <2>5. total_pop' = total_pop + 1 /\ total_processed' = total_processed
    BY <1>1 DEF TakeJob, PopJob
  <2>6. /\ IsFiniteSet(InService \cup {job})
        /\ Cardinality(InService \cup {job}) = Cardinality(InService) + 1
    BY <2>4, FS_AddElement DEF Accounting
  <2>7. QED BY <1>0, <2>2, <2>5, <2>6 DEF Accounting
<1>2. ASSUME NEW t \in Threads, Report(t)
      PROVE  Accounting'
  <2>1. PICK job \in held[t] : held' = [held EXCEPT ![t] = @ \ {job}]
    BY <1>2 DEF Report
  <2>2. \A u \in Threads : held'[u] = IF u = t THEN held[t] \ {job} ELSE held[u]
    BY <2>1 DEF OnceInv, TypeOK
  <2>3. \A u \in Threads : u # t => job \notin held[u]
    BY <2>1 DEF OnceInv, HandedOutOnce
  <2>4. InService' = InService \ {job} /\ job \in InService
    BY <2>1, <2>2, <2>3 DEF InService
  <2>5. total_pop' = total_pop /\ total_processed' = total_processed + 1
    BY <1>2 DEF Report, MarkProcessed
  <2>6. /\ IsFiniteSet(InService \ {job})
        /\ Cardinality(InService \ {job}) = Cardinality(InService) - 1
    BY <2>4, FS_RemoveElement DEF Accounting
  <2>7. QED BY <1>0, <2>4, <2>5, <2>6 DEF Accounting
<1>3. ASSUME NEW t \in Threads,
             Push(t) \/ CallPop(t) \/ Wait(t) \/ GetNull(t) \/ Wake(t)
      PROVE  Accounting'
  <2>1. UNCHANGED <<held, total_pop, total_processed>>
    BY <1>3 DEF Push, work_queue_push, CallPop, Wait, PopWait, GetNull, PopClose, PopNull,
                Wake, SpuriousWake, queueVars
  <2>2. QED BY <2>1 DEF Accounting, InService
<1>4. CASE UNCHANGED clientVars
  BY <1>4 DEF clientVars, Accounting, InService
<1>5. QED BY <1>1, <1>2, <1>3, <1>4 DEF Next

LEMMA AccountingInit == Init => Accounting
<1> SUFFICES ASSUME Init
             PROVE  Accounting
  OBVIOUS
<1>1. InService = {} /\ total_pop = 0 /\ total_processed = 0
  BY DEF Init, QueueInit, InService
<1>2. QED BY <1>1, FS_EmptySet DEF Accounting

LEMMA AccountingCorrect == Spec => []Accounting
BY AccountingInit, AccountingStep, OnceInvCorrect, PTL DEF Spec

\* work_queue_pop, which compares two counters and looks at no thread, closes the
\* queue only at a moment when no job is in service.
THEOREM CountersDecideIdleness == Spec => ClosesWhenIdle
<1>1. ASSUME TypeOK, Accounting, [Next]_clientVars
      PROVE  [~terminate /\ terminate' => stack = <<>> /\ \A t \in Threads : held[t] = {}]_clientVars
  <2> SUFFICES ASSUME Next, ~terminate, terminate'
               PROVE  stack = <<>> /\ \A t \in Threads : held[t] = {}
    BY <1>1
  <2>1. PICK t \in Threads : PopClose(t)
    BY DEF Next, Push, work_queue_push, CallPop, TakeJob, PopJob, Wait, PopWait, GetNull, PopNull,
           Report, MarkProcessed, Wake, SpuriousWake, queueVars
  <2>2. stack = <<>> /\ total_pop = total_processed
    BY <2>1 DEF PopClose
  <2>3. Cardinality(InService) = 0
    BY <1>1, <2>2, FS_CardinalityType DEF Accounting, TypeOK
  <2>4. InService = {}
    BY <1>1, <2>3, FS_EmptySet DEF Accounting
  <2>5. QED BY <2>2, <2>4 DEF InService
<1>2. QED BY <1>1, TypeCorrect, AccountingCorrect, PTL DEF Spec, ClosesWhenIdle

=============================================================================
