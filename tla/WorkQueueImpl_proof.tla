-------------------------- MODULE WorkQueueImpl_proof ------------------------
(* The linked list, the lock and the condition variable of work_queue.c implement *)
(* QueueClients, for any threads and any finite set of jobs.                      *)
EXTENDS WorkQueueImpl, DataLemmas

(***************************************************************************)
(* What a critical section has done so far, told from the statement that   *)
(* its owner has reached.                                                  *)
(***************************************************************************)
OwnerAt(statements) == lock # NULL /\ pc[lock] \in statements

PushLinked == {"push_size", "push_signal", "push_unlock"}
PopUnlinked == {"pop_count", "pop_unlock"}

\* What the list holds, oldest item first.
Contents ==
  IF OwnerAt(PushLinked) THEN Append(committed.stack, job[lock])
  ELSE IF OwnerAt(PopUnlinked) THEN SubSeq(committed.stack, 1, Len(committed.stack) - 1)
  ELSE committed.stack

\* The pop that closes the queue has set terminate and still holds the mutex.
Closing == terminate /\ ~committed.terminate

\* s is linked in both directions, from head to the oldest item.
IsList(s) ==
  /\ s \in Seq(Jobs)
  /\ \A i, j \in 1 .. Len(s) : s[i] = s[j] => i = j
  /\ s = <<>> => head = NULL
  /\ s # <<>> => s[Len(s)] = head /\ prev[s[1]] = NULL
  /\ \A i \in 1 .. Len(s) - 1 : prev[s[i + 1]] = s[i] /\ next[s[i]] = s[i + 1]

TypeInv ==
  /\ lock \in Threads \cup {NULL}
  /\ \A t \in Threads : (lock = t) <=> (pc[t] \in Critical)
  /\ cond \cup woken \subseteq {t \in Threads : pc[t] = "pop_blocked"}
  /\ head \in Jobs \cup {NULL}
  /\ next \in [Jobs -> Jobs \cup {NULL}] /\ prev \in [Jobs -> Jobs \cup {NULL}]
  /\ size \in Nat
  /\ total_pop \in Nat /\ total_processed \in Nat /\ terminate \in BOOLEAN
  /\ pc \in [Threads -> {"idle"} \cup Pushing \cup Popping]
  /\ job \in [Threads -> Jobs \cup {NULL}]
  /\ fresh \subseteq Jobs /\ held \in [Threads -> SUBSET Jobs]
  /\ committed = [stack |-> committed.stack, total_pop |-> committed.total_pop,
                  terminate |-> committed.terminate]

\* The jobs being pushed are neither fresh nor each other's.
JobsInv ==
  /\ \A t \in Threads : pc[t] \in Pushing => job[t] \in Jobs \ fresh
  /\ \A t, u \in Threads : pc[t] \in Pushing /\ pc[u] \in Pushing /\ job[t] = job[u] => t = u
  /\ \A t \in Threads : pc[t] \in PopUnlinked => job[t] = committed.stack[Len(committed.stack)]

CountInv ==
  /\ size = IF OwnerAt({"push_size"}) THEN Len(Contents) - 1
            ELSE IF OwnerAt({"pop_count"}) THEN Len(Contents) + 1
            ELSE Len(Contents)
  /\ total_pop = IF OwnerAt({"pop_unlock"}) THEN committed.total_pop + 1 ELSE committed.total_pop

\* What the tests of work_queue_pop have established by the time a statement is reached.
TestsInv ==
  /\ OwnerAt({"pop_compare", "pop_terminate", "pop_retest", "pop_wait"}) =>
       committed.stack = <<>> /\ ~terminate
  /\ OwnerAt({"pop_broadcast"}) => Closing
  /\ OwnerAt({"pop_closed"}) => terminate \/ committed.stack # <<>>
  /\ OwnerAt({"pop_null"}) => terminate
  /\ OwnerAt({"pop_unlink"} \cup PopUnlinked) => committed.stack # <<>> /\ ~terminate

\* The decision to close is still right when the mutex is released: nobody has a job
\* to report, so total_processed cannot change.
CloseInv ==
  /\ committed.terminate => terminate
  /\ Closing => OwnerAt({"pop_broadcast", "pop_closed", "pop_null"})
  /\ Closing \/ OwnerAt({"pop_terminate"}) =>
       /\ committed.stack = <<>>
       /\ committed.total_pop = total_processed
       /\ \A t \in Threads : held[t] = {}

\* Whom the open critical section has woken.
WokenInv ==
  /\ cond \cap woken = {}
  /\ woken # {} => Closing \/ OwnerAt({"push_unlock"})
  /\ OwnerAt({"push_unlock"}) => (woken = {} /\ cond = {}) \/ \E u \in Threads : woken = {u}
  /\ Closing => OwnerAt({"pop_broadcast"}) \/ cond = {}

ListInv == IsList(Contents)

\* The state of the abstract queue, as in ImplementsQueueClients.
Waiters == cond \cup woken \cup {t \in Threads : pc[t] \in {"pop_retest", "pop_wait"}}
InPop == {t \in Threads : pc[t] \in Popping}
Unpushed == fresh \cup {job[t] : t \in {u \in Threads : pc[u] \in Pushing}}

\* What QueueClients_proof shows of it.
Abstract == INSTANCE QueueClients_proof WITH
  stack <- committed.stack, total_pop <- committed.total_pop, terminate <- committed.terminate,
  waiters <- Waiters, popping <- InPop, fresh <- Unpushed

ImplInv ==
  /\ TypeInv /\ JobsInv /\ ListInv /\ CountInv /\ TestsInv /\ CloseInv /\ WokenInv
  /\ Abstract!OnceInv /\ Abstract!Accounting

(***************************************************************************)
(* What Listed finds.                                                      *)
(***************************************************************************)

\* A list of distinct items has no more elements than there are items.
LEMMA DistinctItems ==
  ASSUME NEW s \in Seq(Jobs), \A i, j \in 1 .. Len(s) : s[i] = s[j] => i = j
  PROVE  Len(s) \in 0 .. Cardinality(Jobs)
<1>1. Len(s) \in Nat /\ s \in [1 .. Len(s) -> Jobs]
  BY LenProperties
<1>2. s \in Injection(1 .. Len(s), Jobs)
  BY <1>1 DEF Injection, IsInjective
<1>3. Cardinality(1 .. Len(s)) <= Cardinality(Jobs)
  BY <1>2, ImplAssumption, FS_Injection
<1>4. Cardinality(1 .. Len(s)) = Len(s)
  <2>1. PICK n \in Nat : n = Len(s)
    BY <1>1
  <2>2. Cardinality(1 .. n) = IF 1 > n THEN 0 ELSE n - 1 + 1
    BY FS_Interval
  <2>3. QED BY <2>1, <2>2
<1>5. QED BY <1>1, <1>3, <1>4, ImplAssumption, FS_CardinalityType

\* Two walks from head through prev agree as far as they both go, and none goes
\* further than a list that ends in a null pointer.
LEMMA WalksAgree ==
  ASSUME NEW s, IsList(s), NEW u \in Seq(Jobs),
         u # <<>> => u[Len(u)] = head,
         \A i \in 1 .. Len(u) - 1 : u[i] = prev[u[i + 1]]
  PROVE  Len(u) <= Len(s) /\ (Len(u) = Len(s) => u = s)
<1> DEFINE Differ == {k \in Nat : k < Len(u) /\ (k < Len(s) => u[Len(u) - k] # s[Len(s) - k])}
<1>0. s \in Seq(Jobs) /\ Len(s) \in Nat /\ Len(u) \in Nat
  BY LenProperties DEF IsList
<1>1. \A i \in 1 .. Len(u) : u[i] \in Jobs
  BY ElementOfSeq
<1>2. Differ = {}
  <2> SUFFICES ASSUME Differ # {}
               PROVE  FALSE
    OBVIOUS
  <2>1. PICK k \in Differ : \A m \in Differ : k <= m
    BY LeastNat
  <2>2. k # 0
    <3> SUFFICES ASSUME k = 0
                 PROVE  FALSE
      OBVIOUS
    <3>1. u # <<>> /\ u[Len(u)] = head /\ head \in Jobs
      BY <1>0, <1>1, <2>1
    <3>2. s # <<>> /\ s[Len(s)] = head
      BY <3>1, ImplAssumption DEF IsList
    <3>3. Len(s) # 0
      BY <1>0, <3>2, EmptySeq
    <3>4. QED BY <1>0, <2>1, <3>1, <3>2, <3>3
  <2> DEFINE above == u[Len(u) - k + 1]
  <2>3. k - 1 < Len(s) /\ above = s[Len(s) - k + 1]
    <3>1. k - 1 \in Nat /\ k - 1 \notin Differ
      BY <2>1, <2>2
    <3>2. k - 1 < Len(s) /\ u[Len(u) - (k - 1)] = s[Len(s) - (k - 1)]
      BY <1>0, <2>1, <3>1
    <3>3. Len(u) - (k - 1) = Len(u) - k + 1 /\ Len(s) - (k - 1) = Len(s) - k + 1
      BY <1>0, <2>1
    <3>4. QED BY <3>2, <3>3
  <2>4. u[Len(u) - k] = prev[above] /\ u[Len(u) - k] \in Jobs
    BY <1>0, <1>1, <2>1, <2>2
  <2>5. CASE k < Len(s)
    <3>1. prev[s[Len(s) - k + 1]] = s[Len(s) - k]
      BY <1>0, <2>1, <2>2, <2>5 DEF IsList
    <3>2. QED BY <2>1, <2>3, <2>4, <2>5, <3>1
  <2>6. CASE k = Len(s)
    <3>1. s # <<>>
      BY <1>0, <2>2, <2>6, EmptySeq
    <3>2. above = s[1] /\ prev[s[1]] = NULL
      BY <1>0, <2>3, <2>6, <3>1 DEF IsList
    <3>3. QED BY <2>4, <3>2, ImplAssumption
  <2>7. QED BY <1>0, <2>1, <2>2, <2>3, <2>5, <2>6
<1>3. Len(u) <= Len(s)
  <2>1. Len(s) \in Nat /\ Len(s) \notin Differ
    BY <1>0, <1>2
  <2>2. QED BY <1>0, <2>1
<1>4. ASSUME Len(u) = Len(s), NEW i \in 1 .. Len(u)
      PROVE  u[i] = s[i]
  <2>1. \A n \in Nat : \A j \in 1 .. n : \E k \in Nat : k < n /\ n - k = j
    <3>1. ASSUME NEW n \in Nat, NEW j \in 1 .. n
          PROVE  n - j \in Nat /\ n - j < n /\ n - (n - j) = j
      OBVIOUS
    <3>2. QED BY <3>1
  <2>2. PICK k \in Nat : k < Len(u) /\ Len(u) - k = i
    BY <1>0, <2>1, Zenon
  <2>3. u[Len(u) - k] = s[Len(s) - k]
    <3>1. k \notin Differ
      BY <1>2
    <3>2. k < Len(s)
      BY <1>4, <2>2
    <3>3. QED BY <2>2, <3>1, <3>2, Zenon
  <2>4. QED BY <1>4, <2>2, <2>3
<1>5. QED BY <1>0, <1>3, <1>4, SeqEqual

\* The walk from head finds exactly the items that are linked.
LEMMA ListedIsTheList ==
  ASSUME NEW s, IsList(s)
  PROVE  Listed = s
<1>1. s \in Chains
  <2>1. s \in Seq(Jobs) /\ Len(s) \in 0 .. Cardinality(Jobs)
    BY DistinctItems DEF IsList
  <2>2. s \in [1 .. Len(s) -> Jobs]
    BY <2>1, LenProperties
  <2>3. s \in UNION {[1 .. n -> Jobs] : n \in 0 .. Cardinality(Jobs)}
    BY <2>1, <2>2
  <2>4. QED BY <2>3 DEF Chains, IsList
<1>2. ASSUME NEW u \in Chains
      PROVE  Len(u) <= Len(s) /\ (Len(u) = Len(s) => u = s)
  <2>1. PICK n \in 0 .. Cardinality(Jobs) : u \in [1 .. n -> Jobs]
    BY DEF Chains
  <2>2. u \in Seq(Jobs)
    <3>1. n \in Nat
      BY <2>1
    <3>2. QED BY <2>1, <3>1, SeqDef
  <2>3. /\ u # <<>> => u[Len(u)] = head
        /\ \A i \in 1 .. Len(u) - 1 : u[i] = prev[u[i + 1]]
    BY DEF Chains
  <2>4. QED BY <2>2, <2>3, WalksAgree
<1>3. /\ Listed \in Chains
      /\ \A u \in Chains : Len(u) <= Len(Listed)
  BY <1>1, <1>2 DEF Listed
<1>4. Len(Listed) = Len(s)
  <2>1. Len(s) <= Len(Listed) /\ Len(Listed) <= Len(s)
    BY <1>1, <1>2, <1>3
  <2>2. Len(s) \in Nat /\ Len(Listed) \in Nat
    <3>1. \A u \in Chains : Len(u) \in Nat
      BY SeqDef, LenProperties DEF Chains
    <3>2. QED BY <1>1, <1>3, <3>1
  <2>3. QED BY <2>1, <2>2
<1>5. QED BY <1>2, <1>3, <1>4

(***************************************************************************)
(* TypeInv.                                                                *)
(***************************************************************************)
Step(t) ==
  \/ CallPush(t) \/ PushLock(t) \/ PushLink(t) \/ PushSize(t) \/ PushSignal(t) \/ PushUnlock(t)
  \/ CallPop(t) \/ PopLock(t) \/ PopLoop(t)
  \/ PopCompare(t) \/ PopTerminate(t) \/ PopBroadcast(t)
  \/ PopRetest(t) \/ PopWait(t) \/ PopRelock(t)
  \/ PopClosed(t) \/ PopNull(t) \/ PopUnlink(t) \/ PopCount(t) \/ PopUnlock(t)
  \/ Report(t) \/ SpuriousWake(t)

\* Inside a critical section the owner of the mutex is the thread that runs it.
LEMMA Owner ==
  ASSUME TypeInv, NEW t \in Threads, pc[t] \in Critical
  PROVE  lock = t /\ lock # NULL /\ \A S : OwnerAt(S) <=> pc[t] \in S
BY ImplAssumption DEF TypeInv, OwnerAt

\* The list the queue held at the start of the section, and the list it holds.
LEMMA Lists ==
  ASSUME ImplInv
  PROVE  /\ committed.stack \in Seq(Jobs)
         /\ Len(committed.stack) \in Nat
         /\ \A i, j \in 1 .. Len(committed.stack) : committed.stack[i] = committed.stack[j] => i = j
         /\ committed.stack # <<>> => committed.stack[Len(committed.stack)] \in Jobs
         /\ Contents \in Seq(Jobs)
         /\ Len(Contents) \in Nat
<1>1. committed.stack \in Seq(Jobs)
  BY DEF ImplInv, Abstract!OnceInv, Abstract!TypeOK
<1>2. Contents \in Seq(Jobs)
  BY DEF ImplInv, ListInv, IsList
<1>3. \A i, j \in DOMAIN committed.stack : committed.stack[i] = committed.stack[j] => i = j
  BY DEF ImplInv, Abstract!OnceInv, Abstract!HandedOutOnce
<1>4. QED BY <1>1, <1>2, <1>3, LenProperties, LastElement

\* pthread_cond_wait has returned to everybody the last section woke, or will.
LEMMA NobodyWoken ==
  ASSUME ImplInv, lock = NULL
  PROVE  woken = {} /\ ~Closing
BY DEF ImplInv, WokenInv, CloseInv, OwnerAt

LEMMA TypeInvStep ==
  ASSUME ImplInv, NEW t \in Threads, Step(t)
  PROVE  TypeInv'
<1> USE ImplAssumption DEF TypeInv, Critical, PoppingLocked, Popping, Pushing, At, Unlock, Snapshot
<1>1. CASE CallPush(t)
  BY <1>1 DEF CallPush, Lock, sync, list, client, history, ImplInv
<1>2. CASE PushLock(t)
  BY <1>2 DEF PushLock, Lock, sync, list, client, history, ImplInv
<1>3. CASE PushLink(t)
  BY <1>3 DEF PushLink, Lock, sync, list, client, history, ImplInv
<1>4. CASE PushSize(t)
  BY <1>4 DEF PushSize, Lock, sync, list, client, history, ImplInv
<1>5. CASE PushSignal(t)
  BY <1>5 DEF PushSignal, Lock, sync, list, client, history, ImplInv
<1>6. CASE PushUnlock(t)
  BY <1>6 DEF PushUnlock, Lock, sync, list, client, history, ImplInv
<1>7. CASE CallPop(t)
  BY <1>7 DEF CallPop, Lock, sync, list, client, history, ImplInv
<1>8. CASE PopLock(t)
  BY <1>8 DEF PopLock, Lock, sync, list, client, history, ImplInv
<1>9. CASE PopLoop(t)
  BY <1>9 DEF PopLoop, Lock, sync, list, client, history, ImplInv
<1>10. CASE PopCompare(t)
  BY <1>10 DEF PopCompare, Lock, sync, list, client, history, ImplInv
<1>11. CASE PopTerminate(t)
  BY <1>11 DEF PopTerminate, Lock, sync, list, client, history, ImplInv
<1>12. CASE PopBroadcast(t)
  BY <1>12 DEF PopBroadcast, Lock, sync, list, client, history, ImplInv
<1>13. CASE PopRetest(t)
  BY <1>13 DEF PopRetest, Lock, sync, list, client, history, ImplInv
<1>14. CASE PopWait(t)
  BY <1>14 DEF PopWait, Lock, sync, list, client, history, ImplInv
<1>15. CASE PopRelock(t)
  <2>1. woken = {}
    BY <1>15, NobodyWoken DEF PopRelock, Lock
  <2>2. QED BY <1>15, <2>1 DEF PopRelock, Lock, sync, list, client, history, ImplInv
<1>16. CASE PopClosed(t)
  BY <1>16 DEF PopClosed, Lock, sync, list, client, history, ImplInv
<1>17. CASE PopNull(t)
  BY <1>17 DEF PopNull, Lock, sync, list, client, history, ImplInv
<1>18. CASE PopUnlink(t)
  <2>1. Contents = committed.stack /\ committed.stack # <<>>
    BY <1>18, Owner DEF PopUnlink, ImplInv, TestsInv, Contents, PushLinked, PopUnlinked
  <2>2. head \in Jobs
    BY <2>1, Lists DEF ImplInv, ListInv, IsList
  <2>3. QED BY <1>18, <2>2 DEF PopUnlink, sync, client, history, ImplInv
<1>19. CASE PopCount(t)
  <2>1. OwnerAt({"pop_count"})
    BY <1>19, Owner DEF PopCount, ImplInv
  <2>2. size = Len(Contents) + 1
    BY <2>1 DEF ImplInv, CountInv, OwnerAt
  <2>3. QED BY <1>19, <2>2, Lists DEF PopCount, sync, list, client, history, ImplInv
<1>20. CASE PopUnlock(t)
  <2>1. job[t] = committed.stack[Len(committed.stack)] /\ committed.stack # <<>>
    BY <1>20, Owner DEF PopUnlock, ImplInv, JobsInv, TestsInv, PopUnlinked
  <2>2. QED BY <1>20, <2>1, Lists DEF PopUnlock, sync, list, client, history, ImplInv
<1>21. CASE Report(t)
  BY <1>21 DEF Report, Lock, sync, list, client, history, ImplInv
<1>22. CASE SpuriousWake(t)
  BY <1>22 DEF SpuriousWake, Lock, sync, list, client, history, ImplInv
<1>23. QED BY <1>1, <1>2, <1>3, <1>4, <1>5, <1>6, <1>7, <1>8, <1>9, <1>10, <1>11, <1>12, <1>13, <1>14, <1>15, <1>16, <1>17, <1>18, <1>19, <1>20, <1>21, <1>22 DEF Step

(***************************************************************************)
(* ListInv.                                                                *)
(***************************************************************************)

\* Releasing the mutex publishes what the section has done.
LEMMA UnlockPublishes ==
  ASSUME ImplInv, NEW t \in Threads, Unlock(t)
  PROVE  /\ committed'.stack = Contents
         /\ committed'.total_pop = total_pop
         /\ committed'.terminate = terminate
         /\ Contents' = Contents
         /\ lock' = NULL /\ woken' = {}
<1>1. Listed = Contents
  BY ListedIsTheList DEF ImplInv, ListInv
<1>2. QED BY <1>1 DEF Unlock, Snapshot, Contents, OwnerAt

\* Who is not in the list is neither followed nor found.
LEMMA LinksElsewhere ==
  ASSUME TypeInv, NEW s, IsList(s), NEW j \in Jobs, \A i \in 1 .. Len(s) : s[i] # j,
         NEW x, NEW y, head' = head,
         next' = [next EXCEPT ![j] = x], prev' = [prev EXCEPT ![j] = y]
  PROVE  /\ s # <<>> => s[Len(s)] = head' /\ prev'[s[1]] = NULL
         /\ \A i \in 1 .. Len(s) - 1 : prev'[s[i + 1]] = s[i] /\ next'[s[i]] = s[i + 1]
<1>1. Len(s) \in Nat /\ (s # <<>> => Len(s) # 0) /\ \A i \in 1 .. Len(s) : s[i] \in Jobs
  BY LenProperties, EmptySeq, ElementOfSeq DEF IsList
<1>2. \A i \in 1 .. Len(s) : prev'[s[i]] = prev[s[i]] /\ next'[s[i]] = next[s[i]]
  BY <1>1 DEF TypeInv
<1>3. s # <<>> => s[Len(s)] = head' /\ prev'[s[1]] = NULL
  BY <1>1, <1>2 DEF IsList
<1>4. \A i \in 1 .. Len(s) - 1 : prev'[s[i + 1]] = s[i] /\ next'[s[i]] = s[i + 1]
  BY <1>1, <1>2 DEF IsList
<1>5. QED BY <1>3, <1>4

\* What is listed is not fresh.
LEMMA FreshElsewhere ==
  ASSUME ImplInv, NEW j \in fresh, NEW i \in 1 .. Len(Contents)
  PROVE  Contents[i] # j
<1>1. \A k \in 1 .. Len(committed.stack) : committed.stack[k] \notin fresh
  BY Lists, LenProperties DEF ImplInv, Abstract!OnceInv, Abstract!Range, Unpushed
<1>2. CASE OwnerAt(PushLinked)
  <2>1. Contents = Append(committed.stack, job[lock]) /\ job[lock] \in Jobs \ fresh
    BY <1>2 DEF Contents, OwnerAt, ImplInv, TypeInv, JobsInv, PushLinked, Pushing
  <2>2. QED BY <1>1, <2>1, Lists, OneMore
<1>3. CASE ~OwnerAt(PushLinked) /\ OwnerAt(PopUnlinked)
  <2>1. Contents = SubSeq(committed.stack, 1, Len(committed.stack) - 1) /\ committed.stack # <<>>
    BY <1>3 DEF Contents, OwnerAt, ImplInv, TestsInv
  <2>2. QED BY <1>1, <2>1, Lists, AllButLast
<1>4. CASE ~OwnerAt(PushLinked) /\ ~OwnerAt(PopUnlinked)
  BY <1>1, <1>4 DEF Contents
<1>5. QED BY <1>2, <1>3, <1>4

\* The list stays as it is.
LEMMA ListStays ==
  ASSUME ImplInv, Contents' = Contents, UNCHANGED list
  PROVE  ListInv'
BY DEF ImplInv, ListInv, IsList, list

LEMMA ContentsStay ==
  ASSUME ImplInv, NEW t \in Threads, Step(t), ~PushLink(t), ~PopUnlink(t)
  PROVE  Contents' = Contents
<1>1. CASE PushUnlock(t) \/ PopWait(t) \/ PopNull(t) \/ PopUnlock(t)
  BY <1>1, UnlockPublishes DEF PushUnlock, PopWait, PopNull, PopUnlock
<1>2. CASE PushLock(t) \/ PopLock(t) \/ PopRelock(t)
  <2>1. /\ lock = NULL /\ lock' = t /\ pc'[t] \in {"push_link", "pop_loop"}
        /\ committed' = committed
    BY <1>2 DEF PushLock, PopLock, PopRelock, Lock, At, history, ImplInv, TypeInv
  <2>2. QED BY <2>1 DEF Contents, OwnerAt, PushLinked, PopUnlinked
<1>3. CASE CallPush(t) \/ CallPop(t) \/ Report(t) \/ SpuriousWake(t)
  <2>1. /\ pc[t] \notin Critical /\ lock' = lock /\ committed' = committed
        /\ \A u \in Threads : u # t => pc'[u] = pc[u] /\ job'[u] = job[u]
    BY <1>3 DEF CallPush, CallPop, Report, SpuriousWake, At, sync, client, history, ImplInv, TypeInv,
                Critical, PoppingLocked, Pushing
  <2>2. lock # t /\ (lock # NULL => pc'[lock] = pc[lock] /\ job'[lock] = job[lock])
    BY <2>1 DEF ImplInv, TypeInv
  <2>3. QED BY <2>1, <2>2 DEF Contents, OwnerAt
<1>4. CASE \/ PushSize(t) \/ PushSignal(t) \/ PopCount(t)
           \/ PopLoop(t) \/ PopCompare(t) \/ PopTerminate(t) \/ PopBroadcast(t)
           \/ PopRetest(t) \/ PopClosed(t)
  <2>1. /\ pc[t] \in Critical /\ lock' = lock /\ job' = job
        /\ committed' = committed
        /\ pc[t] \in PushLinked <=> pc'[t] \in PushLinked
        /\ pc[t] \in PopUnlinked <=> pc'[t] \in PopUnlinked
    BY <1>4 DEF PushSize, PushSignal, PopCount, PopLoop, PopCompare, PopTerminate, PopBroadcast,
                PopRetest, PopClosed, At, sync, list, client, history, ImplInv, TypeInv,
                Critical, PoppingLocked, Pushing, PushLinked, PopUnlinked
  <2>2. lock = t
    BY <2>1 DEF ImplInv, TypeInv
  <2>3. QED BY <2>1, <2>2 DEF Contents, OwnerAt
<1>5. QED BY <1>1, <1>2, <1>3, <1>4 DEF Step

LEMMA ListInvCallPush ==
  ASSUME ImplInv, NEW t \in Threads, CallPush(t)
  PROVE  ListInv'
<1>1. Contents' = Contents
  <2>1. Step(t) /\ ~PushLink(t) /\ ~PopUnlink(t)
    BY DEF Step, CallPush, PushLink, PopUnlink, At
  <2>2. QED BY <2>1, ContentsStay
<1>2. PICK j \in fresh, garbage \in Jobs \cup {NULL} :
         /\ next' = [next EXCEPT ![j] = garbage]
         /\ prev' = [prev EXCEPT ![j] = garbage]
         /\ head' = head
  BY DEF CallPush
<1>3. /\ Contents # <<>> => Contents[Len(Contents)] = head' /\ prev'[Contents[1]] = NULL
      /\ \A i \in 1 .. Len(Contents) - 1 :
           prev'[Contents[i + 1]] = Contents[i] /\ next'[Contents[i]] = Contents[i + 1]
  <2>1. j \in Jobs /\ IsList(Contents) /\ TypeInv
    BY DEF ImplInv, TypeInv, ListInv
  <2>2. \A i \in 1 .. Len(Contents) : Contents[i] # j
    BY FreshElsewhere
  <2>3. QED BY <1>2, <2>1, <2>2, LinksElsewhere
<1>4. /\ Contents \in Seq(Jobs)
      /\ \A i, j_1 \in 1 .. Len(Contents) : Contents[i] = Contents[j_1] => i = j_1
      /\ Contents = <<>> => head' = NULL
  BY <1>2 DEF ImplInv, ListInv, IsList
<1>5. QED BY <1>1, <1>3, <1>4 DEF ListInv, IsList

LEMMA ListInvPushLink ==
  ASSUME ImplInv, NEW t \in Threads, PushLink(t)
  PROVE  ListInv' /\ Len(Contents') = Len(Contents) + 1
<1> DEFINE s == committed.stack
<1> DEFINE p == Append(committed.stack, job[t])
<1>1. lock = t /\ Contents = s /\ job[t] \in Jobs /\ Contents' = p
  <2>1. pc[t] = "push_link" /\ pc'[t] = "push_size" /\ lock' = lock /\ job' = job /\ committed' = committed
    BY DEF PushLink, At, sync, client, history, ImplInv, TypeInv
  <2>2. lock = t /\ lock # NULL
    BY <2>1, ImplAssumption DEF ImplInv, TypeInv, Critical, Pushing
  <2>3. job[t] \in Jobs
    BY <2>1 DEF ImplInv, JobsInv, Pushing
  <2>4. QED BY <2>1, <2>2, <2>3 DEF Contents, OwnerAt, PushLinked, PopUnlinked
<1>2. \A i \in 1 .. Len(s) : s[i] # job[t]
  <2>1. job[t] \in {job[u] : u \in {v \in Threads : pc[v] \in Pushing}}
    BY DEF PushLink, At, Pushing
  <2>2. \A i \in 1 .. Len(s) : s[i] \notin {job[u] : u \in {v \in Threads : pc[v] \in Pushing}}
    <3>1. \A i \in 1 .. Len(s) : s[i] \in Abstract!Range(s)
      BY Lists, LenProperties DEF Abstract!Range
    <3>2. {job[u] : u \in {v \in Threads : pc[v] \in Pushing}} \cap Abstract!Range(s) = {}
      BY DEF ImplInv, Abstract!OnceInv, Unpushed
    <3>3. QED BY <3>1, <3>2
  <2>3. QED BY <2>1, <2>2
<1>3. /\ s \in Seq(Jobs) /\ Len(s) \in Nat /\ \A i \in 1 .. Len(s) : s[i] \in Jobs
      /\ p \in Seq(Jobs) /\ Len(p) = Len(s) + 1 /\ p # <<>>
      /\ \A i \in 1 .. Len(s) : p[i] = s[i]
      /\ p[Len(s) + 1] = job[t]
  <2>1. s \in Seq(Jobs) /\ Len(s) \in Nat /\ \A i \in 1 .. Len(s) : s[i] \in Jobs
    BY Lists, ElementOfSeq
  <2>2. /\ p \in Seq(Jobs) /\ Len(p) = Len(s) + 1
        /\ \A i \in 1 .. Len(s) : p[i] = s[i]
        /\ p[Len(s) + 1] = job[t]
    BY <1>1, <2>1, OneMore
  <2>3. Len(p) # 0
    BY <2>1, <2>2
  <2>4. QED BY <2>1, <2>2, <2>3, EmptySeq
<1>4. \A i, j \in 1 .. Len(p) : p[i] = p[j] => i = j
  BY <1>2, <1>3, Lists
<1>5. head' = job[t] /\ p[Len(p)] = head'
  BY <1>3 DEF PushLink
<1>6. CASE s = <<>>
  <2>1. head = NULL /\ Len(s) = 0
    BY <1>1, <1>6, EmptySeq DEF ImplInv, ListInv, IsList
  <2>2. prev'[p[1]] = NULL
    BY <1>1, <1>3, <2>1 DEF PushLink, ImplInv, TypeInv
  <2>3. QED BY <1>1, <1>3, <1>4, <1>5, <2>1, <2>2 DEF ListInv, IsList
<1>7. CASE s # <<>>
  <2>1. /\ Len(s) \in 1 .. Len(s) /\ head = s[Len(s)] /\ head # NULL /\ head \in Jobs
        /\ prev[s[1]] = NULL
        /\ \A i \in 1 .. Len(s) - 1 : prev[s[i + 1]] = s[i] /\ next[s[i]] = s[i + 1]
    <3>1. Len(s) # 0
      BY <1>3, <1>7, EmptySeq
    <3>2. QED BY <1>1, <1>3, <1>7, <3>1, ImplAssumption DEF ImplInv, ListInv, IsList
  <2>2. /\ next' = [next EXCEPT ![head] = job[t]]
        /\ prev' = [prev EXCEPT ![job[t]] = head]
    BY <2>1 DEF PushLink
  <2>3. /\ \A i \in 1 .. Len(s) : prev'[s[i]] = prev[s[i]]
        /\ \A i \in 1 .. Len(s) - 1 : next'[s[i]] = next[s[i]]
        /\ next'[head] = job[t] /\ prev'[job[t]] = head
    <3>1. ASSUME NEW i \in 1 .. Len(s) - 1
          PROVE  next'[s[i]] = next[s[i]]
      <4>1. i \in 1 .. Len(s) /\ i # Len(s)
        BY <1>3
      <4>2. s[i] # head
        BY <2>1, <4>1, Lists
      <4>3. QED BY <1>3, <2>1, <2>2, <4>1, <4>2 DEF ImplInv, TypeInv
    <3>2. \A i \in 1 .. Len(s) : prev'[s[i]] = prev[s[i]]
      BY <1>2, <1>3, <2>2 DEF ImplInv, TypeInv
    <3>3. next'[head] = job[t] /\ prev'[job[t]] = head
      BY <1>1, <2>1, <2>2 DEF ImplInv, TypeInv
    <3>4. QED BY <3>1, <3>2, <3>3
  <2>4. prev'[p[1]] = NULL
    BY <1>3, <2>1, <2>3, SMTT(30)
  <2>5. ASSUME NEW i \in 1 .. Len(p) - 1
        PROVE  prev'[p[i + 1]] = p[i] /\ next'[p[i]] = p[i + 1]
    <3>1. CASE i = Len(s)
      BY <1>3, <2>1, <2>3, <3>1
    <3>2. CASE i # Len(s)
      <4>1. i \in 1 .. Len(s) - 1 /\ i \in 1 .. Len(s) /\ i + 1 \in 1 .. Len(s)
        BY <1>3, <3>2
      <4>2. QED BY <1>3, <2>1, <2>3, <4>1
    <3>3. QED BY <3>1, <3>2
  <2>6. QED BY <1>1, <1>3, <1>4, <1>5, <2>4, <2>5 DEF ListInv, IsList
<1>8. QED BY <1>1, <1>3, <1>6, <1>7

LEMMA ListInvPopUnlink ==
  ASSUME ImplInv, NEW t \in Threads, PopUnlink(t)
  PROVE  /\ ListInv'
         /\ Len(Contents') = Len(Contents) - 1
         /\ job'[t] = committed.stack[Len(committed.stack)]
<1> DEFINE s == committed.stack
<1> DEFINE p == SubSeq(committed.stack, 1, Len(committed.stack) - 1)
<1>1. lock = t /\ Contents = s /\ s # <<>> /\ Contents' = p
  <2>1. pc[t] = "pop_unlink" /\ pc'[t] = "pop_count" /\ lock' = lock /\ committed' = committed
    BY DEF PopUnlink, At, sync, client, history, ImplInv, TypeInv
  <2>2. lock = t /\ lock # NULL
    BY <2>1, ImplAssumption DEF ImplInv, TypeInv, Critical, PoppingLocked
  <2>3. QED BY <2>1, <2>2 DEF Contents, OwnerAt, PushLinked, PopUnlinked, ImplInv, TestsInv
<1>2. /\ s \in Seq(Jobs) /\ Len(s) \in Nat \ {0} /\ \A i \in 1 .. Len(s) : s[i] \in Jobs
      /\ p \in Seq(Jobs) /\ Len(p) = Len(s) - 1
      /\ \A i \in 1 .. Len(s) - 1 : p[i] = s[i]
  BY <1>1, Lists, ElementOfSeq, AllButLast, LastElement
<1>3. /\ head = s[Len(s)] /\ prev[s[1]] = NULL
      /\ \A i \in 1 .. Len(s) - 1 : prev[s[i + 1]] = s[i] /\ next[s[i]] = s[i + 1]
  BY <1>1 DEF ImplInv, ListInv, IsList
<1>4. \A i, j \in 1 .. Len(p) : p[i] = p[j] => i = j
  <2>1. \A i, j \in 1 .. Len(s) : s[i] = s[j] => i = j
    BY Lists
  <2> SUFFICES ASSUME NEW i \in 1 .. Len(p), NEW j \in 1 .. Len(p), p[i] = p[j]
               PROVE  i = j
    OBVIOUS
  <2>2. i \in 1 .. Len(s) /\ j \in 1 .. Len(s) /\ i \in 1 .. Len(s) - 1 /\ j \in 1 .. Len(s) - 1
    BY <1>2
  <2>3. s[i] = s[j]
    BY <1>2, <2>2
  <2>4. QED BY <2>1, <2>2, <2>3
<1>5. head' = prev[head] /\ prev' = prev /\ job'[t] = head
  BY DEF PopUnlink, ImplInv, TypeInv
<1>6. CASE Len(s) = 1
  <2>1. head' = NULL
    BY <1>3, <1>5, <1>6
  <2>2. p = <<>> /\ Len(p) = 0
    BY <1>2, <1>6, EmptySeq
  <2>3. QED BY <1>1, <1>2, <1>3, <1>4, <1>5, <2>1, <2>2 DEF ListInv, IsList
<1>7. CASE Len(s) # 1
  <2>1. Len(s) - 1 \in 1 .. Len(s) - 1 /\ (Len(s) - 1) + 1 = Len(s) /\ 1 \in 1 .. Len(s) - 1
    <3>1. \A n \in Nat \ {0} : n # 1 => n - 1 \in 1 .. n - 1 /\ (n - 1) + 1 = n /\ 1 \in 1 .. n - 1
      OBVIOUS
    <3>2. QED BY <1>2, <1>7, <3>1, Zenon
  <2>2. head' = s[Len(s) - 1] /\ head' \in Jobs
    BY <1>2, <1>3, <1>5, <2>1
  <2>3. next' = [next EXCEPT ![head'] = NULL]
    BY <1>5, <2>2, ImplAssumption DEF PopUnlink
  <2>4. ASSUME NEW i \in 1 .. Len(p) - 1
        PROVE  next'[p[i]] = p[i + 1] /\ prev'[p[i + 1]] = p[i]
    <3>1. /\ i \in 1 .. Len(s) - 1 /\ i + 1 \in 1 .. Len(s) - 1
          /\ i \in 1 .. Len(s) /\ Len(s) - 1 \in 1 .. Len(s) /\ i # Len(s) - 1
      BY <1>2, <2>1
    <3>2. s[i] # head'
      BY <2>2, <3>1, Lists
    <3>3. next'[s[i]] = next[s[i]]
      BY <1>2, <2>2, <2>3, <3>1, <3>2 DEF ImplInv, TypeInv
    <3>4. QED BY <1>2, <1>3, <1>5, <3>1, <3>3
  <2>5. p # <<>> /\ p[Len(p)] = head' /\ prev'[p[1]] = NULL
    <3>1. Len(p) # 0 /\ p[Len(p)] = s[Len(s) - 1] /\ p[1] = s[1]
      BY <1>2, <2>1
    <3>2. QED BY <1>3, <1>5, <2>2, <3>1, EmptySeq
  <2>6. QED BY <1>1, <1>2, <1>3, <1>4, <1>5, <2>4, <2>5 DEF ListInv, IsList
<1>8. job'[t] = s[Len(s)] /\ Len(Contents') = Len(Contents) - 1
  BY <1>1, <1>2, <1>3, <1>5
<1>9. QED BY <1>6, <1>7, <1>8

LEMMA ListInvStep ==
  ASSUME ImplInv, NEW t \in Threads, Step(t)
  PROVE  ListInv'
<1>1. CASE ~PushLink(t) /\ ~PopUnlink(t) /\ ~CallPush(t)
  <2>1. UNCHANGED list
    BY <1>1 DEF Step, PushLock, PushSize, PushSignal, PushUnlock, CallPop, PopLock, PopLoop,
                PopCompare, PopTerminate, PopBroadcast, PopRetest, PopWait, PopRelock, PopClosed,
                PopNull, PopCount, PopUnlock, Report, SpuriousWake, Lock, list
  <2>2. QED BY <1>1, <2>1, ContentsStay, ListStays
<1>2. QED BY <1>1, ListInvCallPush, ListInvPushLink, ListInvPopUnlink

LEMMA JobsInvStep ==
  ASSUME ImplInv, TypeInv', NEW t \in Threads, Step(t)
  PROVE  JobsInv'
<1>0. PopUnlink(t) => job'[t] = committed.stack[Len(committed.stack)]
  BY ListInvPopUnlink
<1> USE ImplAssumption DEF ImplInv, TypeInv, JobsInv, Critical, PoppingLocked, Popping, Pushing, PushLinked, PopUnlinked, At, Lock, sync, list, client, history
<1>1. CASE CallPush(t)
  BY <1>1 DEF CallPush
<1>2. CASE PushLock(t)
  BY <1>2, NobodyWoken DEF PushLock
<1>3. CASE PushLink(t)
  BY <1>3, ListInvPushLink DEF PushLink
<1>4. CASE PushSize(t)
  BY <1>4 DEF PushSize
<1>5. CASE PushSignal(t)
  BY <1>5 DEF PushSignal
<1>6. CASE PushUnlock(t)
  BY <1>6, UnlockPublishes DEF PushUnlock
<1>7. CASE CallPop(t)
  BY <1>7 DEF CallPop
<1>8. CASE PopLock(t)
  BY <1>8, NobodyWoken DEF PopLock
<1>9. CASE PopLoop(t)
  BY <1>9 DEF PopLoop
<1>10. CASE PopCompare(t)
  BY <1>10 DEF PopCompare
<1>11. CASE PopTerminate(t)
  BY <1>11 DEF PopTerminate
<1>12. CASE PopBroadcast(t)
  BY <1>12 DEF PopBroadcast
<1>13. CASE PopRetest(t)
  BY <1>13 DEF PopRetest
<1>14. CASE PopWait(t)
  BY <1>14, UnlockPublishes DEF PopWait
<1>15. CASE PopRelock(t)
  BY <1>15, NobodyWoken DEF PopRelock
<1>16. CASE PopClosed(t)
  BY <1>16 DEF PopClosed
<1>17. CASE PopNull(t)
  BY <1>17, UnlockPublishes DEF PopNull
<1>18. CASE PopUnlink(t)
  <2>1. /\ job'[t] = committed.stack[Len(committed.stack)] /\ committed' = committed
        /\ lock = t /\ pc[t] = "pop_unlink" /\ fresh' = fresh
        /\ \A u \in Threads : u # t => job'[u] = job[u] /\ pc'[u] = pc[u]
        /\ pc'[t] = "pop_count"
    BY <1>0, <1>18 DEF PopUnlink
  <2>2. \A u \in Threads : pc'[u] \in Pushing => u # t
    BY <2>1
  <2>3. \A u \in Threads : pc'[u] \in PopUnlinked => u = t
    BY <2>1
  <2> HIDE DEF Pushing, PopUnlinked
  <2>4. QED BY <2>1, <2>2, <2>3
<1>19. CASE PopCount(t)
  BY <1>19 DEF PopCount
<1>20. CASE PopUnlock(t)
  BY <1>20, UnlockPublishes DEF PopUnlock
<1>21. CASE Report(t)
  BY <1>21 DEF Report
<1>22. CASE SpuriousWake(t)
  BY <1>22 DEF SpuriousWake
<1>23. QED BY <1>1, <1>2, <1>3, <1>4, <1>5, <1>6, <1>7, <1>8, <1>9, <1>10, <1>11, <1>12, <1>13, <1>14, <1>15, <1>16, <1>17, <1>18, <1>19, <1>20, <1>21, <1>22 DEF Step

LEMMA CountInvStep ==
  ASSUME ImplInv, TypeInv', NEW t \in Threads, Step(t)
  PROVE  CountInv'
<1> DEFINE Uneven == {"push_size", "pop_count", "pop_unlock"}
<1>0. /\ Len(Contents) \in Nat
      /\ \A x \in {"push_link", "push_size", "push_signal", "pop_unlink", "pop_count", "pop_unlock"} :
           pc[t] = x => lock = t /\ \A S : OwnerAt(S) <=> x \in S
  BY Lists, Owner DEF ImplInv, Critical, Pushing, PoppingLocked
<1>1. \A x \in {"push_size", "push_signal", "pop_count", "pop_unlock"} :
        pc'[t] = x /\ lock' = t => \A S : OwnerAt(S)' <=> x \in S
  BY ImplAssumption DEF OwnerAt
<1>2. CASE PushLink(t)
  <2>1. pc[t] = "push_link" /\ pc'[t] = "push_size" /\ UNCHANGED <<lock, size, total_pop, committed>>
    BY <1>2 DEF PushLink, At, sync, history, ImplInv, TypeInv
  <2>2. Len(Contents') = Len(Contents) + 1
    BY <1>2, ListInvPushLink
  <2>3. QED BY <1>0, <1>1, <2>1, <2>2 DEF ImplInv, CountInv
<1>3. CASE PushSize(t)
  <2>1. /\ pc[t] = "push_size" /\ pc'[t] = "push_signal" /\ size' = size + 1
        /\ UNCHANGED <<lock, total_pop, committed>>
    BY <1>3 DEF PushSize, At, sync, history, ImplInv, TypeInv
  <2>2. Contents' = Contents
    BY <1>3, <2>1, ContentsStay DEF Step, PushLink, PopUnlink, At
  <2>3. QED BY <1>0, <1>1, <2>1, <2>2 DEF ImplInv, CountInv
<1>4. CASE PopUnlink(t)
  <2>1. pc[t] = "pop_unlink" /\ pc'[t] = "pop_count" /\ UNCHANGED <<lock, size, total_pop, committed>>
    BY <1>4 DEF PopUnlink, At, sync, history, ImplInv, TypeInv
  <2>2. Len(Contents') = Len(Contents) - 1
    BY <1>4, ListInvPopUnlink
  <2>3. QED BY <1>0, <1>1, <2>1, <2>2 DEF ImplInv, CountInv
<1>5. CASE PopCount(t)
  <2>1. /\ pc[t] = "pop_count" /\ pc'[t] = "pop_unlock" /\ size' = size - 1 /\ total_pop' = total_pop + 1
        /\ UNCHANGED <<lock, committed>>
    BY <1>5 DEF PopCount, At, sync, history, ImplInv, TypeInv
  <2>2. Contents' = Contents
    BY <1>5, <2>1, ContentsStay DEF Step, PushLink, PopUnlink, At
  <2>3. QED BY <1>0, <1>1, <2>1, <2>2 DEF ImplInv, CountInv
<1>6. CASE PushUnlock(t) \/ PopWait(t) \/ PopNull(t) \/ PopUnlock(t)
  <2>1. Unlock(t) /\ UNCHANGED <<size, total_pop>> /\ pc[t] \notin {"push_size", "pop_count"} /\ lock = t
    BY <1>6 DEF PushUnlock, PopWait, PopNull, PopUnlock, At, ImplInv, TypeInv, Critical,
                PoppingLocked, Pushing
  <2>2. /\ committed'.total_pop = total_pop /\ Contents' = Contents /\ lock' = NULL
    BY <2>1, UnlockPublishes
  <2>3. size = Len(Contents)
    BY <2>1 DEF ImplInv, CountInv, OwnerAt
  <2>4. QED BY <2>1, <2>2, <2>3 DEF CountInv, OwnerAt
<1>7. CASE \/ CallPush(t) \/ CallPop(t) \/ PushLock(t) \/ PopLock(t) \/ PopRelock(t) \/ PushSignal(t)
           \/ PopLoop(t) \/ PopCompare(t) \/ PopTerminate(t) \/ PopBroadcast(t) \/ PopRetest(t)
           \/ PopClosed(t) \/ Report(t) \/ SpuriousWake(t)
  <2>1. /\ pc[t] \notin Uneven /\ pc'[t] \notin Uneven
        /\ \A u \in Threads : u # t => pc'[u] = pc[u]
        /\ lock' = lock \/ (lock = NULL /\ lock' = t)
        /\ UNCHANGED <<size, total_pop, committed>>
    BY <1>7 DEF CallPush, CallPop, PushLock, PopLock, PopRelock, PushSignal, PopLoop, PopCompare,
                PopTerminate, PopBroadcast, PopRetest, PopClosed, Report, SpuriousWake,
                Lock, At, sync, history, ImplInv, TypeInv
  <2>2. Contents' = Contents
    <3>1. ~PushLink(t) /\ ~PopUnlink(t)
      BY <1>7 DEF CallPush, CallPop, PushLock, PopLock, PopRelock, PushSignal, PopLoop, PopCompare,
                  PopTerminate, PopBroadcast, PopRetest, PopClosed, Report, SpuriousWake,
                  Lock, PushLink, PopUnlink, At, ImplInv, TypeInv
    <3>2. QED BY <3>1, ContentsStay
  <2>3. /\ OwnerAt({"push_size"})' = OwnerAt({"push_size"})
        /\ OwnerAt({"pop_count"})' = OwnerAt({"pop_count"})
        /\ OwnerAt({"pop_unlock"})' = OwnerAt({"pop_unlock"})
    BY <2>1 DEF OwnerAt, ImplInv, TypeInv
  <2>4. QED BY <2>1, <2>2, <2>3 DEF ImplInv, CountInv
<1>8. QED BY <1>2, <1>3, <1>4, <1>5, <1>6, <1>7 DEF Step

\* The queue is empty exactly when size says so.
LEMMA SizeTellsEmpty ==
  ASSUME ImplInv, NEW t \in Threads, pc[t] = "pop_loop"
  PROVE  size = 0 <=> committed.stack = <<>>
<1>1. lock = t /\ lock # NULL
  BY Owner DEF ImplInv, Critical, PoppingLocked
<1>2. size = Len(committed.stack)
  BY <1>1 DEF ImplInv, CountInv, Contents, OwnerAt, PushLinked, PopUnlinked
<1>3. QED BY <1>2, Lists, EmptySeq

\* The counters are equal only if no job is in service.
LEMMA CountersTellIdle ==
  ASSUME ImplInv, NEW t \in Threads, pc[t] = "pop_compare", total_pop = total_processed
  PROVE  /\ committed.stack = <<>>
         /\ committed.total_pop = total_processed
         /\ \A u \in Threads : held[u] = {}
<1>1. lock = t /\ lock # NULL
  BY Owner DEF ImplInv, Critical, PoppingLocked
<1>2. committed.stack = <<>> /\ committed.total_pop = total_processed
  BY <1>1 DEF ImplInv, CountInv, TestsInv, OwnerAt
<1>3. Abstract!InService = {}
  <2>1. \A S : Abstract!Cardinality(S) = Cardinality(S) /\ Abstract!IsFiniteSet(S) = IsFiniteSet(S)
    BY DEF Abstract!Cardinality, Cardinality, Abstract!IsFiniteSet, IsFiniteSet
  <2>2. total_processed \in Nat
    BY DEF ImplInv, TypeInv
  <2>3. IsFiniteSet(Abstract!InService) /\ Cardinality(Abstract!InService) = 0
    BY <1>2, <2>1, <2>2, FS_CardinalityType DEF ImplInv, Abstract!Accounting
  <2>4. QED BY <2>3, FS_EmptySet
<1>4. \A u \in Threads : held[u] \subseteq Abstract!InService
  BY DEF Abstract!InService
<1>5. QED BY <1>2, <1>3, <1>4

LEMMA TestsInvStep ==
  ASSUME ImplInv, TypeInv', NEW t \in Threads, Step(t)
  PROVE  TestsInv'
<1> USE ImplAssumption DEF ImplInv, TypeInv, TestsInv, OwnerAt, Closing, Critical, PoppingLocked, Popping, Pushing, PushLinked, PopUnlinked, At, Lock, sync, list, client, history
<1>1. CASE CallPush(t)
  BY <1>1 DEF CallPush
<1>2. CASE PushLock(t)
  BY <1>2, NobodyWoken DEF PushLock
<1>3. CASE PushLink(t)
  BY <1>3, ListInvPushLink DEF PushLink
<1>4. CASE PushSize(t)
  BY <1>4 DEF PushSize
<1>5. CASE PushSignal(t)
  BY <1>5 DEF PushSignal
<1>6. CASE PushUnlock(t)
  BY <1>6, UnlockPublishes DEF PushUnlock
<1>7. CASE CallPop(t)
  BY <1>7 DEF CallPop
<1>8. CASE PopLock(t)
  BY <1>8, NobodyWoken DEF PopLock
<1>9. CASE PopLoop(t)
  BY <1>9, SizeTellsEmpty DEF PopLoop
<1>10. CASE PopCompare(t)
  BY <1>10 DEF PopCompare
<1>11. CASE PopTerminate(t)
  BY <1>11 DEF PopTerminate, CloseInv
<1>12. CASE PopBroadcast(t)
  BY <1>12 DEF PopBroadcast
<1>13. CASE PopRetest(t)
  BY <1>13 DEF PopRetest
<1>14. CASE PopWait(t)
  BY <1>14, UnlockPublishes DEF PopWait
<1>15. CASE PopRelock(t)
  BY <1>15, NobodyWoken DEF PopRelock
<1>16. CASE PopClosed(t)
  BY <1>16 DEF PopClosed
<1>17. CASE PopNull(t)
  BY <1>17, UnlockPublishes DEF PopNull
<1>18. CASE PopUnlink(t)
  BY <1>18, ListInvPopUnlink DEF PopUnlink
<1>19. CASE PopCount(t)
  BY <1>19 DEF PopCount
<1>20. CASE PopUnlock(t)
  BY <1>20, UnlockPublishes DEF PopUnlock
<1>21. CASE Report(t)
  BY <1>21 DEF Report
<1>22. CASE SpuriousWake(t)
  BY <1>22 DEF SpuriousWake
<1>23. QED BY <1>1, <1>2, <1>3, <1>4, <1>5, <1>6, <1>7, <1>8, <1>9, <1>10, <1>11, <1>12, <1>13, <1>14, <1>15, <1>16, <1>17, <1>18, <1>19, <1>20, <1>21, <1>22 DEF Step

LEMMA CloseInvStep ==
  ASSUME ImplInv, TypeInv', NEW t \in Threads, Step(t)
  PROVE  CloseInv'
<1> USE ImplAssumption DEF ImplInv, TypeInv, CloseInv, OwnerAt, Closing, Critical, PoppingLocked, Popping, Pushing, PushLinked, PopUnlinked, At, Lock, sync, list, client, history
<1>1. CASE CallPush(t)
  BY <1>1 DEF CallPush
<1>2. CASE PushLock(t)
  BY <1>2, NobodyWoken DEF PushLock
<1>3. CASE PushLink(t)
  BY <1>3, ListInvPushLink DEF PushLink
<1>4. CASE PushSize(t)
  BY <1>4 DEF PushSize
<1>5. CASE PushSignal(t)
  BY <1>5 DEF PushSignal
<1>6. CASE PushUnlock(t)
  BY <1>6, UnlockPublishes DEF PushUnlock
<1>7. CASE CallPop(t)
  BY <1>7 DEF CallPop
<1>8. CASE PopLock(t)
  BY <1>8, NobodyWoken DEF PopLock
<1>9. CASE PopLoop(t)
  BY <1>9 DEF PopLoop
<1>10. CASE PopCompare(t)
  BY <1>10, CountersTellIdle DEF PopCompare
<1>11. CASE PopTerminate(t)
  BY <1>11 DEF PopTerminate
<1>12. CASE PopBroadcast(t)
  BY <1>12 DEF PopBroadcast
<1>13. CASE PopRetest(t)
  BY <1>13 DEF PopRetest
<1>14. CASE PopWait(t)
  BY <1>14, UnlockPublishes DEF PopWait
<1>15. CASE PopRelock(t)
  BY <1>15, NobodyWoken DEF PopRelock
<1>16. CASE PopClosed(t)
  BY <1>16 DEF PopClosed
<1>17. CASE PopNull(t)
  BY <1>17, UnlockPublishes DEF PopNull
<1>18. CASE PopUnlink(t)
  BY <1>18, ListInvPopUnlink DEF PopUnlink
<1>19. CASE PopCount(t)
  BY <1>19 DEF PopCount
<1>20. CASE PopUnlock(t)
  BY <1>20, UnlockPublishes DEF PopUnlock
<1>21. CASE Report(t)
  BY <1>21 DEF Report
<1>22. CASE SpuriousWake(t)
  BY <1>22 DEF SpuriousWake
<1>23. QED BY <1>1, <1>2, <1>3, <1>4, <1>5, <1>6, <1>7, <1>8, <1>9, <1>10, <1>11, <1>12, <1>13, <1>14, <1>15, <1>16, <1>17, <1>18, <1>19, <1>20, <1>21, <1>22 DEF Step

LEMMA WokenInvStep ==
  ASSUME ImplInv, TypeInv', NEW t \in Threads, Step(t)
  PROVE  WokenInv'
<1> USE ImplAssumption DEF ImplInv, TypeInv, WokenInv, OwnerAt, Closing, Critical, PoppingLocked, Popping, Pushing, PushLinked, PopUnlinked, At, Lock, sync, list, client, history
<1>1. CASE CallPush(t)
  BY <1>1 DEF CallPush
<1>2. CASE PushLock(t)
  BY <1>2, NobodyWoken DEF PushLock
<1>3. CASE PushLink(t)
  BY <1>3, ListInvPushLink DEF PushLink
<1>4. CASE PushSize(t)
  BY <1>4 DEF PushSize
<1>5. CASE PushSignal(t)
  <2>1. /\ lock = t /\ pc[t] = "push_signal" /\ pc'[t] = "push_unlock" /\ lock' = lock
        /\ woken = {} /\ ~Closing /\ ~Closing'
    BY <1>5 DEF PushSignal, CloseInv
  <2>2. CASE cond = {} /\ UNCHANGED <<cond, woken>>
    BY <2>1, <2>2
  <2>3. ASSUME NEW u \in cond, cond' = cond \ {u}, woken' = woken \cup {u}
        PROVE  WokenInv'
    <3>1. woken' = {u} /\ u \in Threads /\ cond' \cap woken' = {}
      BY <2>1, <2>3
    <3>2. QED BY <2>1, <3>1
  <2>4. QED BY <1>5, <2>2, <2>3 DEF PushSignal
<1>6. CASE PushUnlock(t)
  BY <1>6, UnlockPublishes DEF PushUnlock
<1>7. CASE CallPop(t)
  BY <1>7 DEF CallPop
<1>8. CASE PopLock(t)
  BY <1>8, NobodyWoken DEF PopLock
<1>9. CASE PopLoop(t)
  BY <1>9 DEF PopLoop
<1>10. CASE PopCompare(t)
  BY <1>10 DEF PopCompare
<1>11. CASE PopTerminate(t)
  BY <1>11 DEF PopTerminate
<1>12. CASE PopBroadcast(t)
  <2>1. /\ lock = t /\ pc[t] = "pop_broadcast" /\ pc'[t] = "pop_closed" /\ lock' = lock
        /\ cond' = {} /\ Closing /\ Closing'
    BY <1>12 DEF PopBroadcast, TestsInv
  <2>2. QED BY <2>1
<1>13. CASE PopRetest(t)
  BY <1>13 DEF PopRetest
<1>14. CASE PopWait(t)
  BY <1>14, UnlockPublishes DEF PopWait
<1>15. CASE PopRelock(t)
  BY <1>15, NobodyWoken DEF PopRelock
<1>16. CASE PopClosed(t)
  BY <1>16 DEF PopClosed
<1>17. CASE PopNull(t)
  BY <1>17, UnlockPublishes DEF PopNull
<1>18. CASE PopUnlink(t)
  BY <1>18, ListInvPopUnlink DEF PopUnlink
<1>19. CASE PopCount(t)
  BY <1>19 DEF PopCount
<1>20. CASE PopUnlock(t)
  BY <1>20, UnlockPublishes DEF PopUnlock
<1>21. CASE Report(t)
  BY <1>21 DEF Report
<1>22. CASE SpuriousWake(t)
  BY <1>22 DEF SpuriousWake
<1>23. QED BY <1>1, <1>2, <1>3, <1>4, <1>5, <1>6, <1>7, <1>8, <1>9, <1>10, <1>11, <1>12, <1>13, <1>14, <1>15, <1>16, <1>17, <1>18, <1>19, <1>20, <1>21, <1>22 DEF Step

(***************************************************************************)
(* Every step is a step of the abstract queue, or changes nothing in it.   *)
(***************************************************************************)

\* Most steps of a critical section are not seen.
Unseen(t) ==
  \/ CallPush(t) \/ PushLock(t) \/ PushLink(t) \/ PushSize(t) \/ PushSignal(t)
  \/ PopLock(t) \/ PopLoop(t) \/ (PopCompare(t) /\ total_pop = total_processed)
  \/ PopTerminate(t) \/ PopBroadcast(t) \/ PopRetest(t) \/ PopWait(t) \/ PopRelock(t)
  \/ PopClosed(t) \/ PopUnlink(t) \/ PopCount(t)

LEMMA UnseenStep ==
  ASSUME ImplInv, NEW t \in Threads, Unseen(t)
  PROVE  UNCHANGED <<committed, total_processed, Waiters, InPop, Unpushed, held>>
<1>0. pc \in [Threads -> {"idle"} \cup Pushing \cup Popping] /\ job \in [Threads -> Jobs \cup {NULL}]
  BY DEF ImplInv, TypeInv
<1>1. UNCHANGED <<total_processed, held>>
  BY DEF Unseen, CallPush, PushLock, PushLink, PushSize, PushSignal, PopLock, PopLoop, PopCompare,
         PopTerminate, PopBroadcast, PopRetest, PopWait, PopRelock, PopClosed, PopUnlink, PopCount,
         Lock, client
<1>2. UNCHANGED committed
  <2>1. CASE PopWait(t)
    <3>1. OwnerAt({"pop_wait"})
      BY <2>1, Owner DEF PopWait, At, ImplInv, Critical, PoppingLocked
    <3>2. ~terminate /\ ~committed.terminate
      BY <3>1 DEF ImplInv, TestsInv, CloseInv, OwnerAt
    <3>3. Contents = committed.stack /\ total_pop = committed.total_pop
      BY <3>1 DEF ImplInv, CountInv, Contents, OwnerAt, PushLinked, PopUnlinked
    <3>4. committed' = [stack |-> Contents, total_pop |-> total_pop, terminate |-> terminate]
      BY <2>1, ListedIsTheList DEF PopWait, Unlock, Snapshot, ImplInv, ListInv
    <3>5. terminate = committed.terminate
      BY <3>2 DEF ImplInv, TypeInv, Abstract!OnceInv, Abstract!TypeOK
    <3>6. committed = [stack |-> committed.stack, total_pop |-> committed.total_pop,
                       terminate |-> committed.terminate]
      BY DEF ImplInv, TypeInv
    <3>7. QED BY <3>3, <3>4, <3>5, <3>6
  <2>2. CASE ~PopWait(t)
    BY <2>2 DEF Unseen, CallPush, PushLock, PushLink, PushSize, PushSignal, PopLock, PopLoop,
         PopCompare, PopTerminate, PopBroadcast, PopRetest, PopRelock, PopClosed, PopUnlink, PopCount,
         Lock, history
  <2>3. QED BY <2>1, <2>2
<1>3. /\ \A u \in Threads : pc'[u] \in Popping <=> pc[u] \in Popping
      /\ \A u \in Threads : u # t => pc'[u] = pc[u] /\ job'[u] = job[u]
  BY <1>0 DEF Unseen, CallPush, PushLock, PushLink, PushSize, PushSignal, PopLock, PopLoop, PopCompare,
         PopTerminate, PopBroadcast, PopRetest, PopWait, PopRelock, PopClosed, PopUnlink, PopCount,
         Lock, client, At, Popping, PoppingLocked
<1>4. UNCHANGED InPop
  BY <1>3 DEF InPop
<1>5. UNCHANGED Unpushed
  <2>1. CASE CallPush(t)
    <3>1. PICK j \in fresh : fresh' = fresh \ {j} /\ job' = [job EXCEPT ![t] = j]
      BY <2>1 DEF CallPush
    <3>2. pc[t] \notin Pushing /\ pc'[t] \in Pushing
      BY <1>0, <2>1 DEF CallPush, At, Pushing
    <3>3. QED BY <1>0, <1>3, <3>1, <3>2 DEF Unpushed
  <2>2. CASE ~CallPush(t)
    <3>1. /\ fresh' = fresh
          /\ pc'[t] \in Pushing <=> pc[t] \in Pushing
          /\ pc[t] \in Pushing => job'[t] = job[t]
      BY <1>0, <2>2 DEF Unseen, PushLock, PushLink, PushSize, PushSignal, PopLock, PopLoop, PopCompare,
         PopTerminate, PopBroadcast, PopRetest, PopWait, PopRelock, PopClosed, PopUnlink, PopCount,
         Lock, client, At, Pushing
    <3>2. QED BY <1>3, <3>1 DEF Unpushed
  <2>3. QED BY <2>1, <2>2
<1>6. UNCHANGED Waiters
  <2> DEFINE Asleep == {u \in Threads : pc[u] \in {"pop_retest", "pop_wait"}}
  <2>1. CASE PushSignal(t) \/ PopBroadcast(t)
    <3>1. cond' \cup woken' = cond \cup woken
      BY <2>1 DEF PushSignal, PopBroadcast
    <3>2. UNCHANGED Asleep
      BY <1>0, <2>1 DEF PushSignal, PopBroadcast, At
    <3>3. QED BY <3>1, <3>2 DEF Waiters
  <2>2. CASE PopWait(t)
    <3>1. OwnerAt({"pop_wait"})
      BY <2>2, Owner DEF PopWait, At, ImplInv, Critical, PoppingLocked
    <3>2. woken = {}
      BY <3>1 DEF ImplInv, WokenInv, CloseInv, OwnerAt
    <3>3. cond' = cond \cup {t} /\ woken' = {}
      BY <2>2 DEF PopWait, Unlock
    <3>4. Asleep = {t} /\ Asleep' = {}
      BY <1>0, <2>2, Owner DEF PopWait, At, ImplInv, TypeInv, Critical, PoppingLocked
    <3>5. QED BY <3>2, <3>3, <3>4 DEF Waiters
  <2>3. CASE ~PushSignal(t) /\ ~PopBroadcast(t) /\ ~PopWait(t)
    <3>1. UNCHANGED <<cond, woken>>
      BY <2>3 DEF Unseen, CallPush, PushLock, PushLink, PushSize, PopLock, PopLoop, PopCompare,
         PopTerminate, PopRetest, PopRelock, PopClosed, PopUnlink, PopCount,
         Lock, sync, history
    <3>2. pc'[t] \in {"pop_retest", "pop_wait"} <=> pc[t] \in {"pop_retest", "pop_wait"}
      <4>1. PopRetest(t) => ~terminate
        BY Owner DEF PopRetest, At, ImplInv, TestsInv, Critical, PoppingLocked
      <4>2. QED BY <1>0, <2>3, <4>1 DEF Unseen, CallPush, PushLock, PushLink, PushSize, PopLock, PopLoop,
         PopCompare, PopTerminate, PopRetest, PopRelock, PopClosed, PopUnlink, PopCount, Lock, At
    <3>3. UNCHANGED Asleep
      BY <1>3, <3>2
    <3>4. QED BY <3>1, <3>3 DEF Waiters
  <2>4. QED BY <2>1, <2>2, <2>3
<1>7. QED BY <1>1, <1>2, <1>4, <1>5, <1>6

LEMMA SeenStep ==
  ASSUME ImplInv, NEW t \in Threads, Step(t), ~Unseen(t)
  PROVE  Abstract!Next
<1>0. /\ pc \in [Threads -> {"idle"} \cup Pushing \cup Popping] /\ job \in [Threads -> Jobs \cup {NULL}]
      /\ held \in [Threads -> SUBSET Jobs]
  BY DEF ImplInv, TypeInv
<1>1. CASE PushUnlock(t)
  <2> DEFINE j == job[t]
  <2>1. pc[t] = "push_unlock" /\ lock = t /\ OwnerAt({"push_unlock"}) /\ OwnerAt(PushLinked)
    BY <1>1, Owner DEF PushUnlock, At, ImplInv, Critical, Pushing, PushLinked
  <2>2. /\ committed'.stack = Append(committed.stack, j)
        /\ committed'.total_pop = committed.total_pop
        /\ committed'.terminate = committed.terminate
    <3>1. Contents = Append(committed.stack, j)
      BY <2>1 DEF Contents
    <3>2. total_pop = committed.total_pop /\ terminate = committed.terminate
      BY <2>1 DEF ImplInv, TypeInv, CountInv, CloseInv, Closing, OwnerAt, Abstract!OnceInv, Abstract!TypeOK
    <3>3. QED BY <1>1, <3>1, <3>2, UnlockPublishes DEF PushUnlock
  <2>3. /\ t \notin InPop /\ InPop' = InPop
        /\ UNCHANGED <<held, total_processed>>
    BY <1>0, <1>1 DEF PushUnlock, At, client, InPop, Popping, PoppingLocked
  <2>4. Waiters = cond \cup woken /\ Waiters' = cond /\ cond' = cond
    <3>1. \A u \in Threads : pc[u] \notin {"pop_retest", "pop_wait"}
      BY <2>1 DEF ImplInv, TypeInv, Critical, PoppingLocked
    <3>2. \A u \in Threads : pc'[u] \notin {"pop_retest", "pop_wait"}
      BY <1>0, <1>1, <3>1 DEF PushUnlock, At
    <3>3. cond' = cond /\ woken' = {}
      BY <1>1 DEF PushUnlock, Unlock
    <3>4. QED BY <3>1, <3>2, <3>3 DEF Waiters
  <2>5. Abstract!Signal
    <3>1. CASE woken = {} /\ cond = {}
      BY <2>4, <3>1 DEF Abstract!Signal
    <3>2. CASE \E u \in Threads : woken = {u}
      <4>1. PICK u \in Threads : woken = {u}
        BY <3>2
      <4>2. u \notin cond
        BY <4>1 DEF ImplInv, WokenInv
      <4>3. u \in Waiters /\ Waiters' = Waiters \ {u}
        BY <2>4, <4>1, <4>2
      <4>4. QED BY <4>3 DEF Abstract!Signal
    <3>3. QED BY <2>1, <3>1, <3>2 DEF ImplInv, WokenInv
  <2>6. j \in Unpushed /\ Unpushed' = Unpushed \ {j}
    <3>1. pc[t] \in Pushing /\ pc'[t] \notin Pushing /\ fresh' = fresh
      BY <1>0, <1>1 DEF PushUnlock, At, client, Pushing
    <3>2. \A u \in Threads : u # t => pc'[u] = pc[u] /\ job'[u] = job[u]
      BY <1>0, <1>1 DEF PushUnlock, At
    <3>3. j \notin fresh /\ \A u \in Threads : u # t /\ pc[u] \in Pushing => job[u] # j
      BY <3>1 DEF ImplInv, JobsInv
    <3>4. QED BY <3>1, <3>2, <3>3 DEF Unpushed
  <2>7. Abstract!Push(t)
    BY <2>2, <2>3, <2>5, <2>6 DEF Abstract!Push, Abstract!work_queue_push
  <2>8. QED BY <2>7 DEF Abstract!Next
<1>2. CASE CallPop(t)
  <2>1. /\ t \notin InPop /\ InPop' = InPop \cup {t}
        /\ UNCHANGED <<committed, total_processed, held>>
    BY <1>0, <1>2 DEF CallPop, At, client, history, InPop, Popping, PoppingLocked
  <2>2. UNCHANGED <<Waiters, Unpushed>>
    BY <1>0, <1>2 DEF CallPop, At, sync, client, history, Waiters, Unpushed, Pushing
  <2>3. Abstract!CallPop(t)
    BY <2>1, <2>2 DEF Abstract!CallPop, Abstract!queueVars
  <2>4. QED BY <2>3 DEF Abstract!Next
<1>3. CASE PopCompare(t) /\ total_pop # total_processed
  <2>1. pc[t] = "pop_compare" /\ lock = t /\ OwnerAt({"pop_compare"}) /\ pc'[t] = "pop_retest"
    BY <1>0, <1>3, Owner DEF PopCompare, At, ImplInv, Critical, PoppingLocked
  <2>2. /\ committed.stack = <<>> /\ ~committed.terminate
        /\ committed.total_pop # total_processed
    BY <1>3, <2>1 DEF ImplInv, TestsInv, CountInv, CloseInv, OwnerAt
  <2>3. /\ t \in InPop /\ InPop' = InPop
        /\ UNCHANGED <<committed, total_processed, held>>
    BY <1>0, <1>3 DEF PopCompare, At, client, history, InPop, Popping, PoppingLocked
  <2>4. UNCHANGED Unpushed
    BY <1>0, <1>3 DEF PopCompare, At, client, Unpushed, Pushing
  <2>5. t \notin Waiters /\ Waiters' = Waiters \cup {t}
    BY <1>0, <1>3, <2>1 DEF PopCompare, At, sync, history, Waiters, ImplInv, TypeInv
  <2>6. Abstract!Wait(t)
    BY <2>2, <2>3, <2>4, <2>5 DEF Abstract!Wait, Abstract!PopWait
  <2>7. QED BY <2>6 DEF Abstract!Next
<1>4. CASE PopNull(t)
  <2>1. pc[t] = "pop_null" /\ lock = t /\ OwnerAt({"pop_null"}) /\ pc'[t] = "idle"
    BY <1>0, <1>4, Owner DEF PopNull, At, ImplInv, Critical, PoppingLocked
  <2>2. /\ terminate /\ total_pop = committed.total_pop /\ Contents = committed.stack
    BY <2>1 DEF ImplInv, TestsInv, CountInv, Contents, OwnerAt, PushLinked, PopUnlinked
  <2>3. /\ committed'.stack = committed.stack
        /\ committed'.total_pop = committed.total_pop
        /\ committed'.terminate = TRUE
    BY <1>4, <2>2, UnlockPublishes DEF PopNull, ImplInv, TypeInv
  <2>4. /\ t \in InPop /\ InPop' = InPop \ {t}
        /\ UNCHANGED <<total_processed, held>>
    BY <1>0, <1>4 DEF PopNull, At, client, InPop, Popping, PoppingLocked
  <2>5. UNCHANGED Unpushed
    BY <1>0, <1>4 DEF PopNull, At, client, Unpushed, Pushing
  <2>6. t \notin Waiters /\ Waiters = cond \cup woken /\ Waiters' = cond
    <3>1. \A u \in Threads : pc[u] \notin {"pop_retest", "pop_wait"}
      BY <2>1 DEF ImplInv, TypeInv, Critical, PoppingLocked
    <3>2. \A u \in Threads : pc'[u] \notin {"pop_retest", "pop_wait"}
      BY <1>0, <1>4, <3>1 DEF PopNull, At
    <3>3. cond' = cond /\ woken' = {} /\ t \notin cond \cup woken
      BY <1>4, <2>1 DEF PopNull, Unlock, ImplInv, TypeInv
    <3>4. QED BY <3>1, <3>2, <3>3 DEF Waiters
  <2>7. CASE Closing
    <3>1. /\ committed.stack = <<>> /\ committed.total_pop = total_processed
          /\ ~committed.terminate /\ cond = {}
      BY <2>1, <2>7 DEF ImplInv, CloseInv, WokenInv, Closing, OwnerAt
    <3>2. Abstract!PopClose(t)
      BY <2>3, <2>4, <2>6, <3>1 DEF Abstract!PopClose
    <3>3. QED BY <2>4, <2>5, <3>2 DEF Abstract!Next, Abstract!GetNull
  <2>8. CASE ~Closing
    <3>1. committed.terminate = TRUE /\ woken = {}
      BY <2>1, <2>2, <2>8 DEF ImplInv, WokenInv, Closing, OwnerAt, Abstract!OnceInv, Abstract!TypeOK
    <3>2. Abstract!PopNull(t)
      BY <2>3, <2>4, <2>6, <3>1 DEF Abstract!PopNull, Abstract!queueVars
    <3>3. QED BY <2>4, <2>5, <3>2 DEF Abstract!Next, Abstract!GetNull
  <2>9. QED BY <2>7, <2>8
<1>5. CASE PopUnlock(t)
  <2>1. pc[t] = "pop_unlock" /\ lock = t /\ OwnerAt({"pop_unlock"}) /\ OwnerAt(PopUnlinked)
        /\ ~OwnerAt(PushLinked)
    BY <1>5, Owner DEF PopUnlock, At, ImplInv, Critical, PoppingLocked, PushLinked, PopUnlinked
  <2>2. /\ committed.stack # <<>> /\ ~committed.terminate
        /\ job[t] = committed.stack[Len(committed.stack)]
    BY <2>1 DEF ImplInv, TestsInv, CloseInv, JobsInv, OwnerAt, PopUnlinked
  <2>3. /\ committed'.stack = SubSeq(committed.stack, 1, Len(committed.stack) - 1)
        /\ committed'.total_pop = committed.total_pop + 1
        /\ committed'.terminate = committed.terminate
    <3>1. Contents = SubSeq(committed.stack, 1, Len(committed.stack) - 1)
      BY <2>1 DEF Contents
    <3>2. total_pop = committed.total_pop + 1 /\ terminate = committed.terminate
      BY <2>1 DEF ImplInv, TypeInv, CountInv, CloseInv, Closing, OwnerAt, Abstract!OnceInv, Abstract!TypeOK
    <3>3. QED BY <1>5, <3>1, <3>2, UnlockPublishes DEF PopUnlock
  <2>4. /\ t \in InPop /\ InPop' = InPop \ {t}
        /\ total_processed' = total_processed
        /\ held' = [held EXCEPT ![t] = @ \cup {job[t]}]
    BY <1>0, <1>5 DEF PopUnlock, At, InPop, Popping, PoppingLocked
  <2>5. UNCHANGED Unpushed
    BY <1>0, <1>5 DEF PopUnlock, At, Unpushed, Pushing
  <2>6. t \notin Waiters /\ UNCHANGED Waiters
    <3>1. \A u \in Threads : pc[u] \notin {"pop_retest", "pop_wait"}
      BY <2>1 DEF ImplInv, TypeInv, Critical, PoppingLocked
    <3>2. \A u \in Threads : pc'[u] \notin {"pop_retest", "pop_wait"}
      BY <1>0, <1>5, <3>1 DEF PopUnlock, At
    <3>3. cond' = cond /\ woken' = {} /\ woken = {} /\ t \notin cond
      BY <1>5, <2>1 DEF PopUnlock, Unlock, ImplInv, TypeInv, WokenInv, CloseInv, OwnerAt
    <3>4. QED BY <3>1, <3>2, <3>3 DEF Waiters
  <2>7. Abstract!PopJob(t)
    BY <2>2, <2>3, <2>4, <2>6 DEF Abstract!PopJob, Abstract!Prev_items
  <2>8. Abstract!TakeJob(t)
    BY <2>2, <2>4, <2>5, <2>7 DEF Abstract!TakeJob, Abstract!Head_job
  <2>9. QED BY <2>8 DEF Abstract!Next
<1>6. CASE Report(t)
  <2>1. t \notin InPop /\ UNCHANGED <<committed, InPop, Waiters, Unpushed>>
    BY <1>6 DEF Report, sync, history, InPop, Waiters, Unpushed, Popping, PoppingLocked
  <2>2. Abstract!Report(t)
    BY <1>6, <2>1 DEF Report, Abstract!Report, Abstract!MarkProcessed
  <2>3. QED BY <2>2 DEF Abstract!Next
<1>7. CASE SpuriousWake(t)
  <2>1. UNCHANGED <<committed, total_processed, InPop, Unpushed, held>>
    BY <1>7 DEF SpuriousWake, client, history, InPop, Unpushed
  <2>2. t \in Waiters /\ Waiters' = Waiters \ {t}
    BY <1>7 DEF SpuriousWake, history, Waiters, ImplInv, TypeInv, WokenInv
  <2>3. Abstract!Wake(t)
    BY <2>1, <2>2 DEF Abstract!Wake, Abstract!SpuriousWake
  <2>4. QED BY <2>3 DEF Abstract!Next
<1>8. QED BY <1>1, <1>2, <1>3, <1>4, <1>5, <1>6, <1>7 DEF Step, Unseen

LEMMA StepIsAbstract ==
  ASSUME ImplInv, NEW t \in Threads, Step(t)
  PROVE  [Abstract!Next]_Abstract!clientVars
<1>1. CASE Unseen(t)
  BY <1>1, UnseenStep DEF Abstract!clientVars
<1>2. CASE ~Unseen(t)
  BY <1>2, SeenStep
<1>3. QED BY <1>1, <1>2

(***************************************************************************)
(* The theorems.                                                           *)
(***************************************************************************)

LEMMA AbstractInit == Init => Abstract!Init
<1> SUFFICES ASSUME Init
             PROVE  Abstract!Init
  OBVIOUS
<1>1. Waiters = {} /\ InPop = {} /\ Unpushed = Jobs
  BY DEF Init, Waiters, InPop, Unpushed, Popping, PoppingLocked, Pushing
<1>2. /\ committed.stack = <<>> /\ committed.total_pop = 0 /\ committed.terminate = FALSE
      /\ total_processed = 0 /\ held = [t \in Threads |-> {}]
  BY DEF Init
<1>3. QED BY <1>1, <1>2 DEF Abstract!Init, Abstract!QueueInit

LEMMA ImplInvInit == Init => ImplInv
<1> SUFFICES ASSUME Init
             PROVE  ImplInv
  OBVIOUS
<1>1. TypeInv
  BY ImplAssumption DEF Init, TypeInv, Critical, PoppingLocked, Pushing
<1>2. \A S : ~OwnerAt(S)
  BY DEF Init, OwnerAt
<1>3. Contents = <<>> /\ Len(Contents) = 0
  BY <1>2, EmptySeq DEF Init, Contents
<1>4. ListInv
  BY <1>3, EmptySeq DEF Init, ListInv, IsList
<1>5. JobsInv /\ CountInv /\ TestsInv /\ CloseInv /\ WokenInv
  BY <1>2, <1>3 DEF Init, JobsInv, CountInv, TestsInv, CloseInv, WokenInv, Closing, Pushing, PopUnlinked
<1>6. Abstract!OnceInv /\ Abstract!Accounting
  BY AbstractInit, Abstract!OnceInvInit, Abstract!AccountingInit
<1>7. QED BY <1>1, <1>4, <1>5, <1>6 DEF ImplInv

LEMMA ImplInvStep ==
  ASSUME ImplInv, [Next]_vars
  PROVE  ImplInv'
<1>1. ASSUME NEW t \in Threads, Step(t)
      PROVE  ImplInv'
  <2>1. TypeInv'
    BY <1>1, TypeInvStep
  <2>2. [Abstract!Next]_Abstract!clientVars
    BY <1>1, StepIsAbstract
  <2>3. Abstract!OnceInv /\ Abstract!Accounting /\ Abstract!TypeOK
    BY DEF ImplInv, Abstract!OnceInv
  <2>4. Abstract!TypeOK'
    BY <2>2, <2>3, Abstract!TypeOKStep
  <2>5. Abstract!OnceInv'
    BY <2>2, <2>3, <2>4, Abstract!OnceInvStep
  <2>6. Abstract!Accounting'
    BY <2>2, <2>3, Abstract!AccountingStep
  <2>7. ListInv' /\ JobsInv' /\ CountInv' /\ TestsInv' /\ CloseInv' /\ WokenInv'
    BY <1>1, <2>1, ListInvStep, JobsInvStep, CountInvStep, TestsInvStep, CloseInvStep, WokenInvStep
  <2>8. QED BY <2>1, <2>5, <2>6, <2>7 DEF ImplInv
<1>2. CASE UNCHANGED vars
  <2>1. UNCHANGED <<Contents, Waiters, InPop, Unpushed, committed, held, total_processed>>
    BY <1>2 DEF vars, Contents, OwnerAt, Waiters, InPop, Unpushed
  <2>2. TypeInv' /\ JobsInv' /\ CountInv' /\ TestsInv' /\ CloseInv' /\ WokenInv'
    BY <1>2, <2>1 DEF vars, ImplInv, TypeInv, JobsInv, CountInv, TestsInv, CloseInv, WokenInv, OwnerAt, Closing
  <2>3. ListInv'
    BY <1>2, <2>1, ListStays DEF vars, list
  <2>4. UNCHANGED Abstract!clientVars
    BY <2>1 DEF Abstract!clientVars
  <2>5. Abstract!OnceInv /\ Abstract!Accounting /\ Abstract!TypeOK
    BY DEF ImplInv, Abstract!OnceInv
  <2>6. Abstract!TypeOK'
    BY <2>4, <2>5, Abstract!TypeOKStep
  <2>7. Abstract!OnceInv' /\ Abstract!Accounting'
    BY <2>4, <2>5, <2>6, Abstract!OnceInvStep, Abstract!AccountingStep
  <2>8. QED BY <2>2, <2>3, <2>7 DEF ImplInv
<1>3. QED BY <1>1, <1>2 DEF Next, Step

LEMMA ImplInvCorrect == Spec => []ImplInv
BY ImplInvInit, ImplInvStep, PTL DEF Spec

\* Every field keeps its type, size never exceeds the number of items, and the mutex is
\* owned by exactly the thread that is inside a critical section.
THEOREM TypeCorrect == Spec => []TypeOK
<1>1. ImplInv => TypeOK
  <2> SUFFICES ASSUME ImplInv
               PROVE  TypeOK
    OBVIOUS
  <2>1. Len(Contents) \in 0 .. Cardinality(Jobs) /\ Cardinality(Jobs) \in Nat
    BY DistinctItems, ImplAssumption, FS_CardinalityType DEF ImplInv, ListInv, IsList
  <2>2. size \in 0 .. Cardinality(Jobs)
    <3>1. CASE OwnerAt({"pop_count"})
      <4>1. size = Len(Contents) + 1 \/ size = Len(Contents)
        BY <3>1 DEF ImplInv, CountInv, OwnerAt
      <4>2. Contents = SubSeq(committed.stack, 1, Len(committed.stack) - 1) /\ committed.stack # <<>>
        BY <3>1 DEF OwnerAt, Contents, PushLinked, PopUnlinked, ImplInv, TestsInv
      <4>3. Len(Contents) = Len(committed.stack) - 1
        BY <4>2, Lists, AllButLast
      <4>4. Len(committed.stack) \in 0 .. Cardinality(Jobs)
        BY Lists, DistinctItems
      <4>5. QED BY <2>1, <4>1, <4>3, <4>4
    <3>2. CASE OwnerAt({"push_size"})
      BY <2>1, <3>2 DEF ImplInv, CountInv, TypeInv
    <3>3. CASE ~OwnerAt({"pop_count"}) /\ ~OwnerAt({"push_size"})
      BY <2>1, <3>3 DEF ImplInv, CountInv
    <3>4. QED BY <3>1, <3>2, <3>3
  <2>3. QED BY <2>2 DEF ImplInv, TypeInv, TypeOK
<1>2. QED BY <1>1, ImplInvCorrect, PTL

\* Between critical sections the list holds size items, linked in both directions,
\* whatever the malloc of work_queue_push left in the fields of an item.
THEOREM ListStaysWellFormed == Spec => []ListWellFormed
<1>1. ImplInv => ListWellFormed
  <2> SUFFICES ASSUME ImplInv, lock = NULL
               PROVE  /\ Len(Listed) = size
                      /\ size > 0 => prev[Listed[1]] = NULL
                      /\ \A i \in 1 .. size - 1 : next[Listed[i]] = Listed[i + 1]
    BY DEF ListWellFormed
  <2>1. Listed = Contents /\ IsList(Contents)
    BY ListedIsTheList DEF ImplInv, ListInv
  <2>2. size = Len(Contents)
    BY DEF ImplInv, CountInv, OwnerAt
  <2>3. size > 0 => Contents # <<>>
    BY <2>2, EmptySeq
  <2>4. QED BY <2>1, <2>2, <2>3 DEF IsList
<1>2. QED BY <1>1, ImplInvCorrect, PTL

\* assert(queue->head != NULL) in work_queue_pop never fails: a thread that leaves the
\* loop of work_queue_pop on an open queue finds an item.
THEOREM AssertionHolds == Spec => []HeadAsserted
<1>1. ImplInv => HeadAsserted
  <2> SUFFICES ASSUME ImplInv, NEW t \in Threads, pc[t] = "pop_unlink"
               PROVE  head # NULL
    BY DEF HeadAsserted
  <2>1. OwnerAt({"pop_unlink"}) /\ Contents = committed.stack /\ committed.stack # <<>>
    BY Owner DEF ImplInv, TestsInv, Contents, PushLinked, PopUnlinked, Critical, PoppingLocked
  <2>2. head \in Jobs
    BY <2>1, Lists DEF ImplInv, ListInv, IsList
  <2>3. QED BY <2>2, ImplAssumption
<1>2. QED BY <1>1, ImplInvCorrect, PTL

\* The two names of the abstract queue mean the same.
LEMMA AbstractIsClients ==
  /\ Abstract!Init => Clients!Init
  /\ [Abstract!Next]_Abstract!clientVars => [Clients!Next]_Clients!clientVars
<1> USE DEF Waiters, InPop, Unpushed
<1>1. Abstract!Init => Clients!Init
  BY DEF Abstract!Init, Clients!Init, Abstract!QueueInit, Clients!QueueInit
<1>2. ASSUME NEW t \in Threads, Abstract!Push(t)
      PROVE  Clients!Push(t)
  BY <1>2 DEF Abstract!Push, Clients!Push, Abstract!work_queue_push, Clients!work_queue_push,
              Abstract!Signal, Clients!Signal
<1>3. ASSUME NEW t \in Threads, Abstract!CallPop(t)
      PROVE  Clients!CallPop(t)
  BY <1>3 DEF Abstract!CallPop, Clients!CallPop, Abstract!queueVars, Clients!queueVars
<1>4. ASSUME NEW t \in Threads, Abstract!TakeJob(t)
      PROVE  Clients!TakeJob(t)
  BY <1>4 DEF Abstract!TakeJob, Clients!TakeJob, Abstract!PopJob, Clients!PopJob,
              Abstract!Head_job, Clients!Head_job, Abstract!Prev_items, Clients!Prev_items
<1>5. ASSUME NEW t \in Threads, Abstract!Wait(t)
      PROVE  Clients!Wait(t)
  BY <1>5 DEF Abstract!Wait, Clients!Wait, Abstract!PopWait, Clients!PopWait
<1>6. ASSUME NEW t \in Threads, Abstract!GetNull(t)
      PROVE  Clients!GetNull(t)
  BY <1>6 DEF Abstract!GetNull, Clients!GetNull, Abstract!PopClose, Clients!PopClose,
              Abstract!PopNull, Clients!PopNull, Abstract!queueVars, Clients!queueVars
<1>7. ASSUME NEW t \in Threads, Abstract!Report(t)
      PROVE  Clients!Report(t)
  BY <1>7 DEF Abstract!Report, Clients!Report, Abstract!MarkProcessed, Clients!MarkProcessed
<1>8. ASSUME NEW t \in Threads, Abstract!Wake(t)
      PROVE  Clients!Wake(t)
  BY <1>8 DEF Abstract!Wake, Clients!Wake, Abstract!SpuriousWake, Clients!SpuriousWake
<1>9. Abstract!Next => Clients!Next
  BY <1>2, <1>3, <1>4, <1>5, <1>6, <1>7, <1>8 DEF Abstract!Next, Clients!Next
<1>10. QED BY <1>1, <1>9 DEF Abstract!clientVars, Clients!clientVars

\* work_queue.c, statement by statement, does nothing that the atomic queue of
\* QueueClients does not: whatever is proved of that queue holds of the code.
THEOREM CodeImplementsQueue == Spec => ImplementsQueueClients
<1>1. ImplInv /\ [Next]_vars => [Clients!Next]_Clients!clientVars
  <2> SUFFICES ASSUME ImplInv, [Next]_vars
               PROVE  [Abstract!Next]_Abstract!clientVars
    BY AbstractIsClients
  <2>1. CASE UNCHANGED vars
    BY <2>1 DEF vars, Abstract!clientVars, Waiters, InPop, Unpushed
  <2>2. CASE Next
    <3>1. PICK t \in Threads : Step(t)
      BY <2>2 DEF Next, Step
    <3>2. QED BY <3>1, StepIsAbstract
  <2>3. QED BY <2>1, <2>2
<1>2. Init => Clients!Init
  BY AbstractInit, AbstractIsClients
<1>3. QED BY <1>1, <1>2, ImplInvCorrect, PTL DEF Spec, ImplementsQueueClients, Clients!Spec

====
