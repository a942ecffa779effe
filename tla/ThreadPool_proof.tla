--------------------------- MODULE ThreadPool_proof --------------------------
(***************************************************************************)
(* quicksort_threadpool_parallelism sorts: for every array, every number   *)
(* of threads and every threshold, the threads' steps keep the ranges that *)
(* are still to be sorted apart, keep every disorder inside one of them,   *)
(* and so implement SortSpec.  The queue comes first: it knows nothing of  *)
(* the array.                                                              *)
(***************************************************************************)
EXTENDS ThreadPool, Partition_proof

(***************************************************************************)
(* The queue: its threads are counted right, woken in time, and sent home  *)
(* only when no work is left.  Nothing here depends on the array or on how *)
(* a range is sorted.                                                      *)
(***************************************************************************)

\* The part of TypeOK that the queue needs.
QueueTypeOK ==
  /\ total_pop \in Nat
  /\ total_processed \in Nat
  /\ terminate \in BOOLEAN
  /\ pc \in [Threads -> Labels]
  /\ waiters \subseteq {t \in Threads : pc[t] = "pop"}

\* TerminationSound and SomeoneAwake, each needed to keep the other.
QueueInv ==
  /\ QueueTypeOK
  /\ PopAccounting
  /\ TerminationSound
  /\ terminate => waiters = {}
  /\ SomeoneAwake

\* The steps a thread takes by itself while it has a job.
Works(t) ==
  \/ ServeTrivial(t) \/ ServeSmall(t) \/ ServeLarge(t)
  \/ ScanUp(t) \/ ScanDown(t) \/ Exchange(t) \/ Return(t)
  \/ RecReturn(t) \/ RecPartition(t) \/ RecDone(t)

LEMMA BusyFinite == IsFiniteSet(Busy) /\ Cardinality(Busy) \in Nat
BY PoolAssumption, FS_Subset, FS_CardinalityType DEF Busy

\* Such a step leaves the queue alone, and the thread keeps its job.
LEMMA WorksKeepsJob ==
  ASSUME QueueTypeOK, NEW t \in Threads, Works(t)
  PROVE  /\ UNCHANGED queueVars
         /\ pc' \in [Threads -> Labels]
         /\ pc[t] \notin {"pop", "exit"} /\ pc'[t] \notin {"pop", "exit"}
         /\ \A u \in Threads : u # t => pc'[u] = pc[u]
<1> USE DEF QueueTypeOK, Labels, Goto
<1>1. CASE ServeTrivial(t)
  BY <1>1 DEF ServeTrivial, queueVars
<1>2. CASE ServeSmall(t)
  BY <1>2 DEF ServeSmall, queueVars
<1>3. CASE ServeLarge(t)
  BY <1>3 DEF ServeLarge, Enter, queueVars
<1>4. CASE ScanUp(t) \/ ScanDown(t) \/ Exchange(t)
  BY <1>4 DEF ScanUp, ScanDown, Exchange, InPartition, queueVars
<1>5. CASE Return(t)
  BY <1>5 DEF Return, InPartition, queueVars
<1>6. CASE RecReturn(t)
  BY <1>6 DEF RecReturn, queueVars
<1>7. CASE RecPartition(t)
  BY <1>7 DEF RecPartition, Enter, queueVars
<1>8. CASE RecDone(t)
  BY <1>8 DEF RecDone, queueVars
<1>9. QED BY <1>1, <1>2, <1>3, <1>4, <1>5, <1>6, <1>7, <1>8 DEF Works

LEMMA QueueInvInit == Init => QueueInv
<1> SUFFICES ASSUME Init
             PROVE  QueueInv
  OBVIOUS
<1>1. QueueTypeOK
  <2>1. terminate \in BOOLEAN
    BY DEF Init, QueueInit
  <2>2. QED BY <2>1 DEF Init, QueueInit, QueueTypeOK, Labels
<1>2. Busy = {}
  BY DEF Init, Busy
<1>3. PopAccounting
  BY <1>2, FS_EmptySet DEF Init, QueueInit, PopAccounting
<1>4. TerminationSound
  BY DEF Init, QueueInit, TerminationSound
<1>5. waiters = {} /\ SomeoneAwake
  BY PoolAssumption DEF Init, QueueInit, SomeoneAwake
<1>6. QED BY <1>1, <1>3, <1>4, <1>5 DEF QueueInv

LEMMA QueueInvStep == QueueInv /\ [Next]_vars => QueueInv'
<1> SUFFICES ASSUME QueueInv, [Next]_vars
             PROVE  QueueInv'
  OBVIOUS
<1> USE DEF QueueInv, Goto
<1>0. total_pop \in Nat /\ total_processed \in Nat /\ total_pop = total_processed + Cardinality(Busy)
  BY DEF QueueTypeOK, PopAccounting
<1>1. ASSUME NEW t \in Threads, Take(t)
      PROVE  QueueInv'
  <2>1. /\ pc[t] = "pop" /\ t \notin waiters /\ ~terminate /\ ~terminate'
        /\ total_pop' = total_pop + 1
        /\ UNCHANGED <<total_processed, waiters>>
        /\ pc' = [pc EXCEPT ![t] = "serve"]
    BY <1>1 DEF Take, PopJob
  <2>2. QueueTypeOK'
    BY <1>1, <2>1 DEF QueueTypeOK, Labels, Take, PopJob
  <2>3. t \notin Busy /\ Busy' = Busy \cup {t}
    BY <2>1 DEF Busy, QueueTypeOK
  <2>4. PopAccounting'
    <3>1. Cardinality(Busy') = Cardinality(Busy) + 1
      BY <2>3, BusyFinite, FS_AddElement
    <3>2. total_pop' = total_processed' + Cardinality(Busy')
      BY <1>0, <2>1, <3>1, BusyFinite
    <3>3. QED BY <3>2 DEF PopAccounting
  <2>5. TerminationSound'
    BY <2>1 DEF TerminationSound, QueueTypeOK
  <2>6. SomeoneAwake'
    BY <2>1, <2>2 DEF SomeoneAwake, QueueTypeOK
  <2>7. QED BY <2>1, <2>2, <2>4, <2>5, <2>6
<1>2. ASSUME NEW t \in Threads, Sleep(t)
      PROVE  QueueInv'
  <2>1. /\ pc[t] = "pop" /\ ~terminate /\ ~terminate'
        /\ total_pop # total_processed
        /\ waiters' = waiters \cup {t}
        /\ UNCHANGED <<total_pop, total_processed, pc, stack>>
    BY <1>2 DEF Sleep, PopWait
  <2>2. QueueTypeOK'
    BY <1>2, <2>1 DEF QueueTypeOK, Sleep, PopWait
  <2>3. PICK u \in Busy : TRUE
    <3>1. Cardinality(Busy) # 0
      BY <1>0, <2>1
    <3>2. Busy # {}
      BY <3>1, FS_EmptySet
    <3>3. QED BY <3>2
  <2>4. SomeoneAwake'
    BY <2>1, <2>2, <2>3 DEF SomeoneAwake, Busy, QueueTypeOK
  <2>5. PopAccounting' /\ TerminationSound'
    BY <2>1 DEF PopAccounting, TerminationSound, Busy
  <2>6. QED BY <2>1, <2>2, <2>4, <2>5
<1>3. ASSUME NEW t \in Threads, Leave(t)
      PROVE  QueueInv'
  <2>1. /\ pc[t] = "pop" /\ terminate' /\ waiters' = {}
        /\ UNCHANGED <<total_pop, total_processed, stack>>
        /\ pc' = [pc EXCEPT ![t] = "exit"]
    BY <1>3 DEF Leave, PopClose, PopNull, queueVars
  <2>2. QueueTypeOK'
    BY <1>3, <2>1 DEF QueueTypeOK, Labels, Leave, PopClose, PopNull, queueVars
  <2>3. Busy' = Busy
    BY <2>1 DEF Busy, QueueTypeOK
  <2>4. PopAccounting'
    BY <2>1, <2>3 DEF PopAccounting
  <2>5. stack = <<>> /\ Busy = {}
    <3>1. CASE PopClose(t)
      <4>1. stack = <<>> /\ total_pop = total_processed
        BY <3>1 DEF PopClose
      <4>2. Cardinality(Busy) = 0
        BY <4>1, BusyFinite DEF PopAccounting, QueueTypeOK
      <4>3. QED BY <4>1, <4>2, BusyFinite, FS_EmptySet
    <3>2. CASE PopNull(t)
      BY <3>2 DEF PopNull, TerminationSound
    <3>3. QED BY <1>3, <3>1, <3>2 DEF Leave
  <2>6. TerminationSound'
    BY <2>1, <2>3, <2>5 DEF TerminationSound
  <2>7. SomeoneAwake'
    BY <2>1 DEF SomeoneAwake, Returned
  <2>8. QED BY <2>1, <2>2, <2>4, <2>6, <2>7
<1>4. ASSUME NEW t \in Threads, Works(t)
      PROVE  QueueInv'
  <2>1. /\ UNCHANGED <<stack, total_pop, total_processed, terminate, waiters>>
        /\ pc' \in [Threads -> Labels]
        /\ pc[t] \notin {"pop", "exit"} /\ pc'[t] \notin {"pop", "exit"}
        /\ \A u \in Threads : u # t => pc'[u] = pc[u]
    BY <1>4, WorksKeepsJob DEF queueVars
  <2>2. QueueTypeOK' /\ Busy' = Busy
    BY <2>1 DEF QueueTypeOK, Busy
  <2>3. PopAccounting' /\ TerminationSound'
    BY <2>1, <2>2 DEF PopAccounting, TerminationSound
  <2>4. SomeoneAwake'
    BY <2>1, <2>2 DEF SomeoneAwake, QueueTypeOK
  <2>5. QED BY <2>1, <2>2, <2>3, <2>4
<1>5. ASSUME NEW t \in Threads, Push(t)
      PROVE  QueueInv'
  <2>1. /\ pc[t] = "push" /\ pc' = [pc EXCEPT ![t] = pc'[t]] /\ pc'[t] \in {"push", "finish"}
        /\ waiters' \subseteq waiters
        /\ UNCHANGED <<total_pop, total_processed, terminate>>
    BY <1>5 DEF Push, work_queue_push, Signal, QueueTypeOK
  <2>2. QueueTypeOK'
    BY <2>1 DEF QueueTypeOK, Labels
  <2>3. Busy' = Busy /\ t \in Busy
    BY <2>1 DEF Busy, QueueTypeOK
  <2>4. PopAccounting'
    BY <2>1, <2>3 DEF PopAccounting
  <2>5. ~terminate /\ \A u \in Threads : pc[u] # "exit"
    BY <2>3 DEF TerminationSound
  <2>6. TerminationSound'
    BY <2>1, <2>5 DEF TerminationSound, QueueTypeOK
  <2>7. SomeoneAwake'
    BY <2>1, <2>2 DEF SomeoneAwake, QueueTypeOK
  <2>8. QED BY <2>1, <2>2, <2>4, <2>5, <2>6, <2>7
<1>6. ASSUME NEW t \in Threads, Finish(t)
      PROVE  QueueInv'
  <2>1. /\ pc[t] = "finish" /\ pc' = [pc EXCEPT ![t] = "pop"]
        /\ total_processed' = total_processed + 1
        /\ UNCHANGED <<stack, total_pop, terminate, waiters>>
    BY <1>6 DEF Finish, MarkProcessed
  <2>2. QueueTypeOK'
    BY <1>6, <2>1 DEF QueueTypeOK, Labels, Finish, MarkProcessed
  <2>3. t \in Busy /\ Busy' = Busy \ {t}
    BY <2>1 DEF Busy, QueueTypeOK
  <2>4. PopAccounting'
    <3>1. Cardinality(Busy') = Cardinality(Busy) - 1
      BY <2>3, BusyFinite, FS_RemoveElement
    <3>2. total_pop' = total_processed' + Cardinality(Busy')
      BY <1>0, <2>1, <3>1, BusyFinite
    <3>3. QED BY <3>2 DEF PopAccounting
  <2>5. ~terminate /\ \A u \in Threads : pc[u] # "exit"
    BY <2>3 DEF TerminationSound
  <2>6. TerminationSound'
    BY <2>1, <2>5 DEF TerminationSound, QueueTypeOK
  <2>7. SomeoneAwake'
    BY <2>1, <2>2 DEF SomeoneAwake, QueueTypeOK
  <2>8. QED BY <2>1, <2>2, <2>4, <2>5, <2>6, <2>7
<1>7. ASSUME NEW t \in Threads, Wake(t)
      PROVE  QueueInv'
  <2>1. /\ t \in waiters /\ waiters' = waiters \ {t}
        /\ UNCHANGED <<stack, total_pop, total_processed, terminate, pc>>
    BY <1>7 DEF Wake, SpuriousWake
  <2>2. QueueTypeOK'
    BY <2>1 DEF QueueTypeOK
  <2>3. PopAccounting' /\ TerminationSound'
    BY <2>1 DEF PopAccounting, TerminationSound, Busy
  <2>4. SomeoneAwake'
    BY <2>1, <2>2 DEF SomeoneAwake, QueueTypeOK
  <2>5. QED BY <2>1, <2>2, <2>3, <2>4
<1>8. CASE UNCHANGED vars
  <2>1. UNCHANGED <<stack, total_pop, total_processed, terminate, waiters, pc>>
    BY <1>8 DEF vars
  <2>2. QED BY <2>1 DEF QueueTypeOK, PopAccounting, TerminationSound, SomeoneAwake, Busy, Returned
<1>9. QED
  BY <1>1, <1>2, <1>3, <1>4, <1>5, <1>6, <1>7, <1>8 DEF Next, Step, Stutter, Works

LEMMA QueueInvCorrect == Spec => []QueueInv
BY QueueInvInit, QueueInvStep, PTL DEF Spec

\* The difference of the queue's two counters is the number of threads that have a
\* job, although one of the counters is incremented outside the mutex.
THEOREM CountersCountThreads == Spec => []PopAccounting
<1>1. QueueInv => PopAccounting
  BY DEF QueueInv
<1>2. QED BY <1>1, QueueInvCorrect, PTL

\* When the queue closes, and whenever a thread has left the parallel region, no job
\* is queued and no thread has one.
THEOREM TerminationDetected == Spec => []TerminationSound
<1>1. QueueInv => TerminationSound
  BY DEF QueueInv
<1>2. QED BY <1>1, QueueInvCorrect, PTL

\* The threads never all sleep in work_queue_pop.
THEOREM NeverAllAsleep == Spec => []SomeoneAwake
<1>1. QueueInv => SomeoneAwake
  BY DEF QueueInv
<1>2. QED BY <1>1, QueueInvCorrect, PTL

(***************************************************************************)
(* The array.                                                              *)
(***************************************************************************)

\* The part of TypeOK that sorting needs.
SortTypeOK ==
  /\ stack \in Seq(Jobs)
  /\ array \in [Index -> Value]
  /\ pc \in [Threads -> Labels]
  /\ todo \in [Threads -> Seq(Jobs)]
  /\ frame \in [Threads -> Frames]

\* How many ranges a thread holds, by where it is.
HoldsByLabel ==
  \A t \in Threads :
    /\ pc[t] \in {"pop", "partition", "finish", "exit"} => todo[t] = <<>>
    /\ pc[t] = "serve" => Len(todo[t]) = 1
    /\ pc[t] = "push" => todo[t] # <<>>

NonEmptyRanges == \A p \in Places : RangeAt(p).start <= RangeAt(p).end

RangesInv ==
  /\ NonEmptyRanges
  /\ ExclusiveRanges
  /\ DisorderIsOutstanding

SortInv ==
  /\ SortTypeOK
  /\ HoldsByLabel
  /\ RangesInv
  /\ PartitionsUndisturbed

(***************************************************************************)
(* Types and places.                                                       *)
(***************************************************************************)
LEMMA IndexNat == /\ Index \subseteq Nat /\ IsFiniteSet(Index)
                  /\ \A i, j \in Index : i .. j \subseteq Index
BY PoolAssumption, FS_Interval DEF Index

LEMMA JobsAreRanges == Jobs \subseteq Ranges
BY IndexNat DEF Jobs, Ranges

LEMMA FramesAreNatFrames == Frames \subseteq NatFrames
<1>1. Index \subseteq Nat /\ Value \cup {0} \subseteq Nat
  BY IndexNat, PoolAssumption
<1>2. QED BY <1>1 DEF Frames, NatFrames

\* A frame that the Hoare lemmas return has its type back once its indices are known to
\* be inside its range.
LEMMA NatFrameIsFrame ==
  ASSUME NEW f \in NatFrames, f.start \in Index, f.end \in Index, f.pivot \in Value \cup {0},
         Within(f.k, f), Within(f.j, f)
  PROVE  f \in Frames
<1>1. f.start .. f.end \subseteq Index
  BY IndexNat
<1>2. f.k \in Index /\ f.j \in Index
  BY <1>1 DEF Within, NatFrames
<1>3. QED BY <1>2 DEF Frames, NatFrames

LEMMA ArrayNat ==
  ASSUME NEW a \in [Index -> Value]
  PROVE  a \in [Index -> Nat]
BY PoolAssumption

\* The three kinds of place, and the range at each.
PlacesAre ==
  /\ \A i \in 1 .. Len(stack) : <<"stack", i>> \in Places /\ RangeAt(<<"stack", i>>) = stack[i]
  /\ \A t \in Threads : \A i \in 1 .. Len(todo[t]) :
       <<t, i>> \in Places /\ RangeAt(<<t, i>>) = todo[t][i]
  /\ \A t \in Threads : InPartition(t) =>
       <<t, 0>> \in Places /\ RangeAt(<<t, 0>>) = SortJob(frame[t].start, frame[t].end)
  /\ \A p \in Places :
       \/ \E i \in 1 .. Len(stack) : p = <<"stack", i>>
       \/ \E t \in Threads : \E i \in 1 .. Len(todo[t]) : p = <<t, i>>
       \/ \E t \in Threads : InPartition(t) /\ p = <<t, 0>>

LEMMA PlaceKinds == SortTypeOK => PlacesAre
<1> SUFFICES ASSUME SortTypeOK
             PROVE  PlacesAre
  OBVIOUS
<1>1. DOMAIN stack = 1 .. Len(stack) /\ Len(stack) \in Nat
  BY LenProperties DEF SortTypeOK
<1>2. \A t \in Threads : DOMAIN todo[t] = 1 .. Len(todo[t]) /\ Len(todo[t]) \in Nat
  BY LenProperties DEF SortTypeOK
<1>3. \A t \in Threads : t # "stack"
  BY PlaceAssumption
<1>4. \A i \in 1 .. Len(stack) : <<"stack", i>> \in Places /\ RangeAt(<<"stack", i>>) = stack[i]
  BY <1>1 DEF Places, Queued, RangeAt
<1>5. \A t \in Threads : \A i \in 1 .. Len(todo[t]) :
        <<t, i>> \in Places /\ RangeAt(<<t, i>>) = todo[t][i]
  BY <1>2, <1>3 DEF Places, Held, RangeAt
<1>6. \A t \in Threads : InPartition(t) =>
        <<t, 0>> \in Places /\ RangeAt(<<t, 0>>) = SortJob(frame[t].start, frame[t].end)
  BY <1>3 DEF Places, Partitioning, RangeAt
<1>7. \A p \in Places :
        \/ \E i \in 1 .. Len(stack) : p = <<"stack", i>>
        \/ \E t \in Threads : \E i \in 1 .. Len(todo[t]) : p = <<t, i>>
        \/ \E t \in Threads : InPartition(t) /\ p = <<t, 0>>
  BY <1>1, <1>2 DEF Places, Queued, Held, Partitioning
<1>8. QED BY <1>4, <1>5, <1>6, <1>7 DEF PlacesAre

OutstandingOK == Outstanding \in [Places -> Ranges]

LEMMA OutstandingType == SortTypeOK => OutstandingOK
<1> SUFFICES ASSUME SortTypeOK, NEW p \in Places
             PROVE  RangeAt(p) \in Ranges
  BY DEF Outstanding, OutstandingOK
<1>1. PlacesAre
  BY PlaceKinds
<1>2. ASSUME NEW i \in 1 .. Len(stack), p = <<"stack", i>>
      PROVE  RangeAt(p) \in Ranges
  <2>1. stack[i] \in Jobs
    BY ElementOfSeq DEF SortTypeOK
  <2>2. QED BY <1>1, <1>2, <2>1, JobsAreRanges DEF PlacesAre
<1>3. ASSUME NEW t \in Threads, NEW i \in 1 .. Len(todo[t]), p = <<t, i>>
      PROVE  RangeAt(p) \in Ranges
  <2>1. todo[t][i] \in Jobs
    BY ElementOfSeq DEF SortTypeOK
  <2>2. QED BY <1>1, <1>3, <2>1, JobsAreRanges DEF PlacesAre
<1>4. ASSUME NEW t \in Threads, InPartition(t), p = <<t, 0>>
      PROVE  RangeAt(p) \in Ranges
  <2>1. frame[t] \in NatFrames
    BY FramesAreNatFrames DEF SortTypeOK
  <2>2. SortJob(frame[t].start, frame[t].end) \in Ranges
    BY <2>1 DEF SortJob, Ranges, NatFrames
  <2>3. QED BY <1>1, <1>4, <2>2 DEF PlacesAre
<1>5. QED BY <1>1, <1>2, <1>3, <1>4 DEF PlacesAre

(***************************************************************************)
(* How the steps move ranges from place to place.                          *)
(***************************************************************************)

\* A function h tells where each range of the next state was.  Ranges that nobody keeps
\* have no two elements.
LEMMA RangesMove ==
  ASSUME SortTypeOK, SortTypeOK', NonEmptyRanges, ExclusiveRanges,
         CoverDisorder(Outstanding, array'),
         NEW h \in [Places' -> Places],
         \A p, q \in Places' : h[p] = h[q] => p = q,
         \A q \in Places' : RangeAt(q)' = RangeAt(h[q]),
         \A p \in Places : RangeAt(p).start >= RangeAt(p).end \/ \E q \in Places' : h[q] = p
  PROVE  RangesInv'
<1>1. Outstanding \in [Places -> Ranges]
  BY OutstandingType DEF OutstandingOK
<1>2. Outstanding' \in [Places' -> Ranges]
  <2>1. OutstandingOK'
    BY OutstandingType, PTL
  <2>2. QED BY <2>1 DEF OutstandingOK
<1>3. \A q \in Places' : Outstanding'[q] = Outstanding[h[q]]
  BY DEF Outstanding
<1>4. NonEmptyRanges'
  BY DEF NonEmptyRanges
<1>5. PairwiseApart(Outstanding')
  BY <1>1, <1>2, <1>3, MovedApart DEF ExclusiveRanges
<1>6. CoverDisorder(Outstanding', array')
  <2>1. \A p \in Places : \/ Outstanding[p].start >= Outstanding[p].end
                          \/ \E q \in Places' : Outstanding'[q] = Outstanding[p]
    BY <1>3 DEF Outstanding
  <2>2. \A i \in DOMAIN array' : i \in Nat
    BY IndexNat DEF SortTypeOK
  <2>3. QED BY <1>1, <1>2, <2>1, <2>2, MovedCover
<1>7. QED BY <1>4, <1>5, <1>6 DEF RangesInv, ExclusiveRanges, DisorderIsOutstanding

\* A step that moves none.
LEMMA RangesStay ==
  ASSUME SortTypeOK, SortTypeOK', RangesInv, CoverDisorder(Outstanding, array'),
         stack' = stack, todo' = todo,
         \A u \in Threads : /\ InPartition(u)' = InPartition(u)
                            /\ frame'[u].start = frame[u].start /\ frame'[u].end = frame[u].end
  PROVE  RangesInv'
<1>1. Places' = Places
  BY DEF Places, Queued, Held, Partitioning
<1>2. \A p \in Places : RangeAt(p)' = RangeAt(p)
  <2>1. PlacesAre /\ PlacesAre'
    BY PlaceKinds, PTL
  <2>2. QED BY <2>1 DEF PlacesAre
<1>3. Outstanding' = Outstanding
  BY <1>1, <1>2 DEF Outstanding
<1>4. QED BY <1>1, <1>2, <1>3
         DEF RangesInv, NonEmptyRanges, ExclusiveRanges, DisorderIsOutstanding

\* What every step does to the threads that do not take it.
OthersKeep(t) ==
  \A u \in Threads : u # t =>
    todo'[u] = todo[u] /\ frame'[u] = frame[u] /\ InPartition(u)' = InPartition(u)

\* work_queue_pop: the range on top of the stack becomes the only one that t holds.
LEMMA RangeTaken ==
  ASSUME SortTypeOK, SortTypeOK', RangesInv, CoverDisorder(Outstanding, array'),
         NEW t \in Threads, OthersKeep(t), ~InPartition(t), ~InPartition(t)', todo[t] = <<>>,
         stack # <<>>, stack' = SubSeq(stack, 1, Len(stack) - 1),
         todo'[t] = <<stack[Len(stack)]>>
  PROVE  RangesInv'
<1> DEFINE top == <<"stack", Len(stack)>>
           h == [q \in Places' |-> IF q = <<t, 1>> THEN top ELSE q]
<1>1. PlacesAre /\ PlacesAre'
  BY PlaceKinds, PTL
<1>2. /\ Len(stack) \in Nat \ {0} /\ Len(stack') = Len(stack) - 1
      /\ \A i \in 1 .. Len(stack) - 1 : stack'[i] = stack[i]
  <2>1. stack \in Seq(Jobs)
    BY DEF SortTypeOK
  <2>2. Len(stack) \in Nat \ {0}
    BY <2>1, LastElement
  <2>3. PICK s, p : s = stack /\ p = stack'
    OBVIOUS
  <2>4. s \in Seq(Jobs) /\ s # <<>> /\ p = SubSeq(s, 1, Len(s) - 1)
    BY <2>1, <2>3
  <2>5. Len(p) = Len(s) - 1 /\ \A i \in 1 .. Len(s) - 1 : p[i] = s[i]
    BY <2>4, AllButLast
  <2>6. QED BY <2>2, <2>3, <2>5
<1>3. /\ Len(todo[t]) = 0
      /\ Len(todo'[t]) = 1 /\ 1 \in 1 .. Len(todo'[t]) /\ todo'[t][1] = stack[Len(stack)]
  OBVIOUS
<1>4. \A u \in Threads : u # "stack"
  BY PlaceAssumption
<1>5. /\ top \in Places /\ RangeAt(top) = stack[Len(stack)] /\ top \notin Places'
      /\ <<t, 1>> \in Places' /\ RangeAt(<<t, 1>>)' = stack[Len(stack)] /\ <<t, 1>> \notin Places
  <2>1. top \in Places /\ RangeAt(top) = stack[Len(stack)]
    BY <1>1, <1>2 DEF PlacesAre
  <2>2. <<t, 1>> \in Places' /\ RangeAt(<<t, 1>>)' = stack[Len(stack)]
    BY <1>1, <1>3 DEF PlacesAre
  <2>3. top \notin Places'
    BY <1>1, <1>2, <1>4 DEF PlacesAre
  <2>4. <<t, 1>> \notin Places
    BY <1>1, <1>3, <1>4 DEF PlacesAre
  <2>5. QED BY <2>1, <2>2, <2>3, <2>4
<1>6. \A q \in Places' : q # <<t, 1>> => q \in Places /\ RangeAt(q)' = RangeAt(q)
  <2> SUFFICES ASSUME NEW q \in Places', q # <<t, 1>>
               PROVE  q \in Places /\ RangeAt(q)' = RangeAt(q)
    OBVIOUS
  <2>1. CASE \E i \in 1 .. Len(stack') : q = <<"stack", i>>
    BY <1>1, <1>2, <2>1, SMTT(30) DEF PlacesAre
  <2>2. CASE \E u \in Threads : \E i \in 1 .. Len(todo'[u]) : q = <<u, i>>
    BY <1>1, <1>3, <2>2, SMTT(30) DEF PlacesAre, OthersKeep
  <2>3. CASE \E u \in Threads : InPartition(u)' /\ q = <<u, 0>>
    BY <1>1, <2>3 DEF PlacesAre, OthersKeep
  <2>4. QED BY <1>1, <2>1, <2>2, <2>3 DEF PlacesAre
<1>7. \A p \in Places : p # top => p \in Places'
  <2> SUFFICES ASSUME NEW p \in Places, p # top
               PROVE  p \in Places'
    OBVIOUS
  <2>1. CASE \E i \in 1 .. Len(stack) : p = <<"stack", i>>
    BY <1>1, <1>2, <2>1 DEF PlacesAre
  <2>2. CASE \E u \in Threads : \E i \in 1 .. Len(todo[u]) : p = <<u, i>>
    BY <1>1, <1>3, <2>2, SMTT(30) DEF PlacesAre, OthersKeep
  <2>3. CASE \E u \in Threads : InPartition(u) /\ p = <<u, 0>>
    BY <1>1, <2>3 DEF PlacesAre, OthersKeep
  <2>4. QED BY <1>1, <2>1, <2>2, <2>3 DEF PlacesAre
<1> HIDE DEF top
<1>8. /\ h \in [Places' -> Places]
      /\ \A p, q \in Places' : h[p] = h[q] => p = q
      /\ \A q \in Places' : RangeAt(q)' = RangeAt(h[q])
  BY <1>5, <1>6
<1>9. \A p \in Places : \E q \in Places' : h[q] = p
  BY <1>5, <1>7
<1> HIDE DEF h
<1>10. QED BY <1>8, <1>9, RangesMove DEF RangesInv

\* The first range that t holds is dropped, partitioned or pushed; the others move up.
FirstGoes(t) ==
  \/ /\ stack' = stack
     /\ ~InPartition(t)'
     /\ Trivial(Head(todo[t]))
  \/ /\ stack' = stack
     /\ InPartition(t)'
     /\ SortJob(frame'[t].start, frame'[t].end) = Head(todo[t])
  \/ /\ stack' = Append(stack, Head(todo[t]))
     /\ ~InPartition(t)'

LEMMA FirstRangeGoes ==
  ASSUME SortTypeOK, SortTypeOK', RangesInv, CoverDisorder(Outstanding, array'),
         NEW t \in Threads, OthersKeep(t), ~InPartition(t),
         todo[t] # <<>>, todo'[t] = Tail(todo[t]), FirstGoes(t)
  PROVE  RangesInv'
<1> PICK dest : dest = IF pc'[t] \in {"partition", "rec_partition"}
                        THEN <<t, 0>> ELSE <<"stack", Len(stack) + 1>>
  OBVIOUS
<1> DEFINE h == [q \in Places' |-> IF q = dest THEN <<t, 1>>
                                   ELSE IF q[1] = t THEN <<t, q[2] + 1>> ELSE q]
<1>0. InPartition(t)' <=> pc'[t] \in {"partition", "rec_partition"}
  BY DEF InPartition
<1>1. PlacesAre /\ PlacesAre'
  BY PlaceKinds, PTL
<1>2. \A u \in Threads : u # "stack"
  BY PlaceAssumption
<1>3. /\ Len(todo[t]) \in Nat \ {0} /\ 1 \in 1 .. Len(todo[t])
      /\ Head(todo[t]) = todo[t][1] /\ Head(todo[t]) \in Jobs
      /\ Len(todo'[t]) = Len(todo[t]) - 1
      /\ \A i \in 1 .. Len(todo[t]) - 1 : todo'[t][i] = todo[t][i + 1]
  <2>1. todo[t] \in Seq(Jobs)
    BY DEF SortTypeOK
  <2>2. Len(todo[t]) \in Nat \ {0}
    BY <2>1, LastElement
  <2>3. QED BY <2>1, <2>2, AllButFirst
<1>4. /\ Len(stack) \in Nat
      /\ \A i \in 1 .. Len(stack) : i \in 1 .. Len(stack') /\ stack'[i] = stack[i]
      /\ \/ Len(stack') = Len(stack) /\ stack' = stack
         \/ Len(stack') = Len(stack) + 1 /\ stack'[Len(stack) + 1] = Head(todo[t])
  <2>1. stack \in Seq(Jobs) /\ Len(stack) \in Nat
    BY LenProperties DEF SortTypeOK
  <2>2. CASE stack' = stack
    BY <2>1, <2>2
  <2>3. CASE stack' = Append(stack, Head(todo[t]))
    BY <1>3, <2>1, <2>3, OneMore
  <2>4. QED BY <2>2, <2>3 DEF FirstGoes
<1>5. <<t, 1>> \in Places /\ RangeAt(<<t, 1>>) = Head(todo[t])
  BY <1>1, <1>3 DEF PlacesAre
<1>6. dest \in Places' => RangeAt(dest)' = Head(todo[t])
  <2> SUFFICES ASSUME dest \in Places'
               PROVE  RangeAt(dest)' = Head(todo[t])
    OBVIOUS
  <2>1. CASE InPartition(t)'
    <3>1. dest = <<t, 0>>
      BY <1>0, <2>1
    <3>2. RangeAt(dest)' = SortJob(frame'[t].start, frame'[t].end)
      BY <1>1, <2>1, <3>1 DEF PlacesAre
    <3>3. stack' # Append(stack, Head(todo[t])) \/ ~InPartition(t)'
      BY <2>1 DEF FirstGoes
    <3>4. QED BY <2>1, <3>2, <3>3 DEF FirstGoes
  <2>2. CASE ~InPartition(t)'
    <3>1. dest = <<"stack", Len(stack) + 1>>
      BY <1>0, <2>2
    <3>2. Len(stack) + 1 \in 1 .. Len(stack')
      BY <1>1, <1>2, <3>1 DEF PlacesAre
    <3>3. RangeAt(dest)' = stack'[Len(stack) + 1]
      BY <1>1, <3>1, <3>2 DEF PlacesAre
    <3>4. QED BY <1>4, <3>2, <3>3
  <2>3. QED BY <2>1, <2>2
<1>7. ASSUME NEW q \in Places', q # dest, q[1] = t
      PROVE  \E i \in 1 .. Len(todo[t]) - 1 :
               /\ q = <<t, i>> /\ <<t, i + 1>> \in Places
               /\ RangeAt(q)' = RangeAt(<<t, i + 1>>)
  <2>1. \E i \in 1 .. Len(todo'[t]) : q = <<t, i>>
    <3>1. CASE \E i \in 1 .. Len(stack') : q = <<"stack", i>>
      <4>1. t # "stack"
        BY <1>2
      <4>2. q[1] = t
        BY <1>7
      <4>3. QED BY <3>1, <4>1, <4>2
    <3>2. CASE \E u \in Threads : \E i \in 1 .. Len(todo'[u]) : q = <<u, i>>
      <4>1. PICK u \in Threads : \E i \in 1 .. Len(todo'[u]) : q = <<u, i>>
        BY <3>2
      <4>2. u = t
        BY <1>7, <4>1
      <4>3. QED BY <4>1, <4>2
    <3>3. CASE \E u \in Threads : InPartition(u)' /\ q = <<u, 0>>
      <4>1. PICK u \in Threads : InPartition(u)' /\ q = <<u, 0>>
        BY <3>3
      <4>2. u = t
        BY <1>7, <4>1
      <4>3. QED BY <1>0, <1>7, <4>1, <4>2
    <3>4. QED BY <1>1, <3>1, <3>2, <3>3 DEF PlacesAre
  <2>2. PICK i \in 1 .. Len(todo[t]) - 1 : q = <<t, i>>
    BY <1>3, <2>1
  <2>3. RangeAt(q)' = todo'[t][i]
    BY <1>1, <1>3, <2>2 DEF PlacesAre
  <2>4. <<t, i + 1>> \in Places /\ RangeAt(<<t, i + 1>>) = todo[t][i + 1]
    <3>1. i + 1 \in 1 .. Len(todo[t])
      BY <1>3
    <3>2. QED BY <1>1, <3>1 DEF PlacesAre
  <2>5. QED BY <1>3, <2>2, <2>3, <2>4
<1>8. ASSUME NEW q \in Places', q # dest, q[1] # t
      PROVE  q \in Places /\ RangeAt(q)' = RangeAt(q)
  <2>1. CASE \E i \in 1 .. Len(stack') : q = <<"stack", i>>
    <3>1. PICK i \in 1 .. Len(stack') : q = <<"stack", i>>
      BY <2>1
    <3>2. i \in 1 .. Len(stack)
      <4>1. CASE Len(stack') = Len(stack)
        BY <4>1
      <4>2. CASE Len(stack') = Len(stack) + 1
        <5>1. ~InPartition(t)'
          BY <1>4, <4>2 DEF FirstGoes
        <5>2. i # Len(stack) + 1
          BY <1>0, <1>8, <3>1, <5>1
        <5>3. QED BY <1>4, <4>2, <5>2
      <4>3. QED BY <1>4, <4>1, <4>2
    <3>3. QED BY <1>1, <1>4, <3>1, <3>2 DEF PlacesAre
  <2>2. CASE \E u \in Threads : \E i \in 1 .. Len(todo'[u]) : q = <<u, i>>
    BY <1>1, <1>8, <2>2 DEF PlacesAre, OthersKeep
  <2>3. CASE \E u \in Threads : InPartition(u)' /\ q = <<u, 0>>
    BY <1>0, <1>1, <1>8, <2>3 DEF PlacesAre, OthersKeep
  <2>4. QED BY <1>1, <2>1, <2>2, <2>3 DEF PlacesAre
<1>9. ASSUME NEW p \in Places, p[1] # t
      PROVE  p \in Places' /\ p # dest
  <2>1. CASE \E i \in 1 .. Len(stack) : p = <<"stack", i>>
    BY <1>1, <1>2, <1>4, <2>1 DEF PlacesAre
  <2>2. CASE \E u \in Threads : \E i \in 1 .. Len(todo[u]) : p = <<u, i>>
    BY <1>1, <1>2, <1>9, <2>2 DEF PlacesAre, OthersKeep
  <2>3. CASE \E u \in Threads : InPartition(u) /\ p = <<u, 0>>
    BY <1>1, <1>2, <1>9, <2>3 DEF PlacesAre, OthersKeep
  <2>4. QED BY <1>1, <2>1, <2>2, <2>3 DEF PlacesAre
<1>10. ASSUME NEW p \in Places, p[1] = t, p # <<t, 1>>
       PROVE  \E i \in 1 .. Len(todo[t]) - 1 :
                p = <<t, i + 1>> /\ <<t, i>> \in Places' /\ <<t, i>> # dest
  <2>1. PICK k \in 1 .. Len(todo[t]) : p = <<t, k>>
    BY <1>1, <1>2, <1>10 DEF PlacesAre
  <2>2. k - 1 \in 1 .. Len(todo[t]) - 1 /\ k = (k - 1) + 1
    BY <1>3, <1>10, <2>1
  <2>3. <<t, k - 1>> \in Places'
    BY <1>1, <1>3, <2>2 DEF PlacesAre
  <2>4. <<t, k - 1>> # dest
    BY <1>2, <2>2
  <2>5. QED BY <2>1, <2>2, <2>3, <2>4
<1>11. dest \notin Places' => Trivial(Head(todo[t]))
  <2>1. CASE InPartition(t)'
    BY <1>0, <1>1, <2>1 DEF PlacesAre
  <2>2. CASE stack' = Append(stack, Head(todo[t])) /\ ~InPartition(t)'
    <3>1. Len(stack) + 1 \in 1 .. Len(stack')
      <4>1. stack \in Seq(Jobs)
        BY DEF SortTypeOK
      <4>2. QED BY <1>3, <1>4, <2>2, <4>1, OneMore
    <3>2. QED BY <1>0, <1>1, <2>2, <3>1 DEF PlacesAre
  <2>3. QED BY <2>1, <2>2 DEF FirstGoes
<1>12. ASSUME NEW q \in Places'
       PROVE  h[q] \in Places /\ RangeAt(q)' = RangeAt(h[q])
  <2>1. CASE q = dest
    BY <1>5, <1>6, <2>1
  <2>2. CASE q # dest /\ q[1] = t
    <3>1. PICK i \in 1 .. Len(todo[t]) - 1 : /\ q = <<t, i>> /\ <<t, i + 1>> \in Places
                                           /\ RangeAt(q)' = RangeAt(<<t, i + 1>>)
      BY <1>7, <2>2
    <3>2. h[q] = <<t, i + 1>>
      BY <2>2, <3>1
    <3>3. QED BY <3>1, <3>2
  <2>3. CASE q # dest /\ q[1] # t
    BY <1>8, <2>3
  <2>4. QED BY <2>1, <2>2, <2>3
<1>13. ASSUME NEW p \in Places', NEW q \in Places', h[p] = h[q]
       PROVE  p = q
  <2>1. ASSUME NEW u \in Places'
        PROVE  \/ u = dest /\ h[u] = <<t, 1>>
               \/ \E i \in 1 .. Len(todo[t]) - 1 : u = <<t, i>> /\ h[u] = <<t, i + 1>>
               \/ u[1] # t /\ h[u] = u
    <3>1. CASE u = dest
      BY <3>1
    <3>2. CASE u # dest /\ u[1] = t
      <4>1. PICK i \in 1 .. Len(todo[t]) - 1 : u = <<t, i>>
        BY <1>7, <3>2
      <4>2. h[u] = <<t, i + 1>>
        BY <3>2, <4>1
      <4>3. QED BY <4>1, <4>2
    <3>3. CASE u # dest /\ u[1] # t
      BY <3>3
    <3>4. QED BY <3>1, <3>2, <3>3
  <2>2. Len(todo[t]) \in Nat
    BY <1>3
  <2>3. QED BY <1>13, <2>1, <2>2, SMTT(30)
<1>14. ASSUME NEW p \in Places
       PROVE  RangeAt(p).start >= RangeAt(p).end \/ \E q \in Places' : h[q] = p
  <2>1. CASE p[1] # t
    BY <1>9, <2>1
  <2>2. CASE p[1] = t /\ p # <<t, 1>>
    BY <1>10, <2>2
  <2>3. CASE p = <<t, 1>> /\ dest \in Places'
    BY <2>3
  <2>4. CASE p = <<t, 1>> /\ dest \notin Places'
    BY <1>5, <1>11, <2>4 DEF Trivial
  <2>5. QED BY <2>1, <2>2, <2>3, <2>4
<1>15. h \in [Places' -> Places]
  BY <1>12
<1> HIDE DEF h
<1>16. QED BY <1>12, <1>13, <1>14, <1>15, RangesMove DEF RangesInv

\* hoare_partition returns: its range becomes the first two that t holds.
LEMMA RangeSplits ==
  ASSUME SortTypeOK, SortTypeOK', RangesInv, array' = array, stack' = stack,
         NEW t \in Threads, OthersKeep(t), InPartition(t), ~InPartition(t)',
         NEW r \in Ranges, r = SortJob(frame[t].start, frame[t].end),
         NEW k \in Nat, r.start < k, k <= r.end,
         todo'[t] = <<SortJob(r.start, k - 1), SortJob(k, r.end)>> \o todo[t],
         \A i \in r.start .. k - 1, j \in k .. r.end : array[i] <= array[j]
  PROVE  RangesInv'
<1> DEFINE left == <<t, 1>>
           right == <<t, 2>>
           here == <<t, 0>>
           h == [q \in Places' |-> IF q \in {left, right} THEN here
                                   ELSE IF q[1] = t THEN <<t, q[2] - 2>> ELSE q]
<1>1. PlacesAre /\ PlacesAre'
  BY PlaceKinds, PTL
<1>2. \A u \in Threads : u # "stack"
  BY PlaceAssumption
<1>3. /\ Len(todo[t]) \in Nat /\ Len(todo'[t]) = Len(todo[t]) + 2
      /\ todo'[t][1] = SortJob(r.start, k - 1) /\ todo'[t][2] = SortJob(k, r.end)
      /\ \A i \in 1 .. Len(todo[t]) : todo'[t][i + 2] = todo[t][i]
  <2>1. todo[t] \in Seq(Jobs)
    BY DEF SortTypeOK
  <2>2. QED BY <2>1, TwoMoreInFront
<1>4. here \in Places /\ RangeAt(here) = r
  BY <1>1 DEF PlacesAre
<1>5. /\ left \in Places' /\ RangeAt(left)' = SortJob(r.start, k - 1)
      /\ right \in Places' /\ RangeAt(right)' = SortJob(k, r.end)
  <2>1. 1 \in 1 .. Len(todo'[t]) /\ 2 \in 1 .. Len(todo'[t])
    BY <1>3
  <2>2. QED BY <1>1, <1>3, <2>1 DEF PlacesAre
<1>6. ASSUME NEW q \in Places', q \notin {left, right}, q[1] = t
      PROVE  \E i \in 1 .. Len(todo[t]) :
               /\ q = <<t, i + 2>> /\ <<t, i>> \in Places
               /\ RangeAt(q)' = RangeAt(<<t, i>>)
  <2>1. PICK i \in 1 .. Len(todo'[t]) : q = <<t, i>>
    <3>1. CASE \E i \in 1 .. Len(stack') : q = <<"stack", i>>
      <4>1. q[1] = "stack"
        BY <3>1
      <4>2. QED BY <1>2, <1>6, <4>1
    <3>2. CASE \E u \in Threads : \E i \in 1 .. Len(todo'[u]) : q = <<u, i>>
      <4>1. PICK u \in Threads : \E i \in 1 .. Len(todo'[u]) : q = <<u, i>>
        BY <3>2
      <4>2. u = t
        BY <1>6, <4>1
      <4>3. QED BY <4>1, <4>2
    <3>3. CASE \E u \in Threads : InPartition(u)' /\ q = <<u, 0>>
      <4>1. PICK u \in Threads : InPartition(u)' /\ q = <<u, 0>>
        BY <3>3
      <4>2. u = t
        BY <1>6, <4>1
      <4>3. QED BY <4>1, <4>2
    <3>4. QED BY <1>1, <3>1, <3>2, <3>3 DEF PlacesAre
  <2>2. i - 2 \in 1 .. Len(todo[t]) /\ i = (i - 2) + 2
    BY <1>3, <1>6, <2>1
  <2>3. RangeAt(q)' = todo'[t][i]
    BY <1>1, <2>1 DEF PlacesAre
  <2>4. <<t, i - 2>> \in Places /\ RangeAt(<<t, i - 2>>) = todo[t][i - 2]
    BY <1>1, <2>2 DEF PlacesAre
  <2>5. QED BY <1>3, <2>1, <2>2, <2>3, <2>4
<1>7. ASSUME NEW q \in Places', q[1] # t
      PROVE  q \in Places /\ RangeAt(q)' = RangeAt(q)
  <2>1. CASE \E i \in 1 .. Len(stack') : q = <<"stack", i>>
    BY <1>1, <2>1 DEF PlacesAre
  <2>2. CASE \E u \in Threads : \E i \in 1 .. Len(todo'[u]) : q = <<u, i>>
    BY <1>1, <1>7, <2>2 DEF PlacesAre, OthersKeep
  <2>3. CASE \E u \in Threads : InPartition(u)' /\ q = <<u, 0>>
    BY <1>1, <1>7, <2>3 DEF PlacesAre, OthersKeep
  <2>4. QED BY <1>1, <2>1, <2>2, <2>3 DEF PlacesAre
<1>8. ASSUME NEW p \in Places, p[1] # t
      PROVE  p \in Places'
  <2>1. CASE \E i \in 1 .. Len(stack) : p = <<"stack", i>>
    BY <1>1, <2>1 DEF PlacesAre
  <2>2. CASE \E u \in Threads : \E i \in 1 .. Len(todo[u]) : p = <<u, i>>
    BY <1>1, <1>8, <2>2 DEF PlacesAre, OthersKeep
  <2>3. CASE \E u \in Threads : InPartition(u) /\ p = <<u, 0>>
    BY <1>1, <1>8, <2>3 DEF PlacesAre, OthersKeep
  <2>4. QED BY <1>1, <2>1, <2>2, <2>3 DEF PlacesAre
<1>9. ASSUME NEW p \in Places, p[1] = t, p # here
      PROVE  \E i \in 1 .. Len(todo[t]) : p = <<t, i>> /\ <<t, i + 2>> \in Places'
  <2>1. PICK i \in 1 .. Len(todo[t]) : p = <<t, i>>
    <3>1. CASE \E i \in 1 .. Len(stack) : p = <<"stack", i>>
      <4>1. p[1] = "stack"
        BY <3>1
      <4>2. QED BY <1>2, <1>9, <4>1
    <3>2. CASE \E u \in Threads : \E i \in 1 .. Len(todo[u]) : p = <<u, i>>
      <4>1. PICK u \in Threads : \E i \in 1 .. Len(todo[u]) : p = <<u, i>>
        BY <3>2
      <4>2. u = t
        BY <1>9, <4>1
      <4>3. QED BY <4>1, <4>2
    <3>3. CASE \E u \in Threads : InPartition(u) /\ p = <<u, 0>>
      <4>1. PICK u \in Threads : InPartition(u) /\ p = <<u, 0>>
        BY <3>3
      <4>2. u = t
        BY <1>9, <4>1
      <4>3. QED BY <1>9, <4>1, <4>2
    <3>4. QED BY <1>1, <3>1, <3>2, <3>3 DEF PlacesAre
  <2>2. i + 2 \in 1 .. Len(todo'[t])
    BY <1>3
  <2>3. QED BY <1>1, <2>1, <2>2 DEF PlacesAre
<1>10. ASSUME NEW u \in Places'
       PROVE  \/ u \in {left, right} /\ h[u] = here
              \/ \E i \in 1 .. Len(todo[t]) : /\ u = <<t, i + 2>> /\ h[u] = <<t, i>> /\ h[u] \in Places
                                             /\ RangeAt(u)' = RangeAt(h[u])
              \/ /\ u[1] # t /\ h[u] = u /\ h[u] \in Places
                 /\ RangeAt(u)' = RangeAt(h[u])
  <2>1. CASE u \in {left, right}
    BY <2>1
  <2>2. CASE u \notin {left, right} /\ u[1] = t
    <3>1. PICK i \in 1 .. Len(todo[t]) : /\ u = <<t, i + 2>> /\ <<t, i>> \in Places
                                        /\ RangeAt(u)' = RangeAt(<<t, i>>)
      BY <1>6, <2>2
    <3>2. h[u] = <<t, i>>
      BY <2>2, <3>1
    <3>3. QED BY <3>1, <3>2
  <2>3. CASE u \notin {left, right} /\ u[1] # t
    BY <1>7, <2>3
  <2>4. QED BY <2>1, <2>2, <2>3
<1>11. \A p \in Places \ {here} : \E q \in Places' \ {left, right} : h[q] = p
  <2> SUFFICES ASSUME NEW p \in Places, p # here
               PROVE  \E q \in Places' \ {left, right} : h[q] = p
    OBVIOUS
  <2>1. CASE p[1] = t
    <3>1. PICK i \in 1 .. Len(todo[t]) : p = <<t, i>> /\ <<t, i + 2>> \in Places'
      BY <1>9, <2>1
    <3>2. <<t, i + 2>> \notin {left, right}
      BY <1>3
    <3>3. h[<<t, i + 2>>] = p
      BY <1>3, <3>1, <3>2
    <3>4. QED BY <3>1, <3>2, <3>3
  <2>2. CASE p[1] # t
    <3>1. p \in Places' /\ p \notin {left, right}
      BY <1>8, <2>2
    <3>2. QED BY <2>2, <3>1
  <2>3. QED BY <2>1, <2>2
<1>12. \A q \in Places' : q \in {left, right} <=> h[q] = here
  BY <1>10
<1>13. ASSUME NEW q \in Places', NEW u \in Places', q \notin {left, right}, u \notin {left, right},
              h[q] = h[u]
       PROVE  q = u
  <2>1. Len(todo[t]) \in Nat /\ h[q] # here
    BY <1>3, <1>12, <1>13
  <2> HIDE DEF h
  <2>2. \/ \E i \in 1 .. Len(todo[t]) : q = <<t, i + 2>> /\ h[q] = <<t, i>>
        \/ q[1] # t /\ h[q] = q
    BY <1>10, <1>13
  <2>3. \/ \E i \in 1 .. Len(todo[t]) : u = <<t, i + 2>> /\ h[u] = <<t, i>>
        \/ u[1] # t /\ h[u] = u
    BY <1>10, <1>13
  <2>4. CASE q[1] = t
    <3>1. PICK i \in 1 .. Len(todo[t]) : q = <<t, i + 2>> /\ h[q] = <<t, i>>
      BY <2>2, <2>4
    <3>2. h[u] = <<t, i>>
      BY <1>13, <3>1
    <3>3. h[u][1] = t
      BY <3>2
    <3>4. PICK m \in 1 .. Len(todo[t]) : u = <<t, m + 2>> /\ h[u] = <<t, m>>
      BY <2>3, <3>3
    <3>5. QED BY <3>1, <3>2, <3>4
  <2>5. CASE q[1] # t
    <3>1. h[u] = q
      BY <1>13, <2>2, <2>5
    <3>2. h[u][1] # t
      BY <2>5, <3>1
    <3>3. h[u] = u
      BY <2>3, <3>2
    <3>4. QED BY <3>1, <3>3
  <2>6. QED BY <2>4, <2>5
<1>14. left # right /\ left[1] = t /\ here[1] = t
  OBVIOUS
<1> HIDE DEF left, right, here, h
<1>15. Outstanding \in [Places -> Ranges] /\ Outstanding' \in [Places' -> Ranges]
  <2>1. OutstandingOK /\ OutstandingOK'
    BY OutstandingType, PTL
  <2>2. QED BY <2>1 DEF OutstandingOK
<1>16. h \in [Places' -> Places]
  BY <1>4, <1>10 DEF h
<1>17. /\ Outstanding[here] = r
       /\ Outstanding'[left] = SortJob(r.start, k - 1) /\ Outstanding'[right] = SortJob(k, r.end)
       /\ \A q \in Places' \ {left, right} : Outstanding'[q] = Outstanding[h[q]]
  <2>1. \A q \in Places' \ {left, right} : RangeAt(q)' = RangeAt(h[q])
    BY <1>10 DEF left, right, here
  <2>2. QED BY <1>4, <1>5, <1>16, <2>1 DEF Outstanding
<1>18. SplitsAt(Outstanding, Outstanding', h, here, k, left, right)
  <2>1. DOMAIN Outstanding = Places /\ DOMAIN Outstanding' = Places'
    BY <1>15
  <2>2. Outstanding[here].start = r.start /\ Outstanding[here].end = r.end
    BY <1>17
  <2>3. \A q \in Places' \ {left, right} : h[q] \in Places \ {here}
    BY <1>12, <1>16
  <2>4. \A q, u \in Places' \ {left, right} : h[q] = h[u] => q = u
    BY <1>13
  <2>5. QED BY <1>4, <1>5, <1>11, <1>15, <1>17, <2>1, <2>2, <2>3, <2>4 DEF SplitsAt
<1>19. PairwiseApart(Outstanding') /\ CoverDisorder(Outstanding', array')
  <2>1. PairwiseApart(Outstanding) /\ CoverDisorder(Outstanding, array)
    BY DEF RangesInv, ExclusiveRanges, DisorderIsOutstanding
  <2>2. \A i \in DOMAIN array : i \in Nat /\ array[i] \in Nat
    BY IndexNat, ArrayNat DEF SortTypeOK
  <2>3. PairwiseApart(Outstanding')
    BY <1>18, <2>1, SplitApart
  <2>4. \A i \in Outstanding[here].start .. k - 1, j \in k .. Outstanding[here].end :
          array[i] <= array[j]
    BY <1>17
  <2>5. CoverDisorder(Outstanding', array)
    BY <1>18, <2>1, <2>2, <2>4, SplitCover, SMTT(30)
  <2>6. QED BY <2>3, <2>5
<1>20. NonEmptyRanges'
  <2>1. ASSUME NEW q \in Places'
        PROVE  RangeAt(q)'.start <= RangeAt(q)'.end
    <3>1. CASE q \in {left, right}
      BY <1>5, <3>1 DEF SortJob, Ranges
    <3>2. CASE q \notin {left, right}
      <4>1. h[q] \in Places /\ RangeAt(q)' = RangeAt(h[q])
        BY <1>10, <3>2
      <4>2. QED BY <4>1 DEF RangesInv, NonEmptyRanges
    <3>3. QED BY <3>1, <3>2
  <2>2. QED BY <2>1 DEF NonEmptyRanges
<1>21. QED BY <1>19, <1>20 DEF RangesInv, ExclusiveRanges, DisorderIsOutstanding

(***************************************************************************)
(* The other threads' partitions.                                          *)
(***************************************************************************)

\* A thread that exchanges two elements of a range it holds disturbs no other thread's
\* call of hoare_partition, and makes no disorder outside the ranges.
LEMMA ExchangeInside ==
  ASSUME SortTypeOK, RangesInv, PartitionsUndisturbed,
         NEW t \in Threads, NEW p \in Places, p[1] = t,
         NEW x \in Index, Within(x, RangeAt(p)),
         NEW y \in Index, Within(y, RangeAt(p)),
         array' = Swap(array, x, y)
  PROVE  /\ array' \in [Index -> Value]
         /\ CoverDisorder(Outstanding, array')
         /\ \A u \in Threads : u # t /\ InPartition(u) => HoareInvariant(array', frame[u])
<1>1. Outstanding \in [Places -> Ranges] /\ Outstanding[p] = RangeAt(p)
  <2>1. OutstandingOK
    BY OutstandingType
  <2>2. QED BY <2>1 DEF OutstandingOK, Outstanding
<1>2. /\ array' \in [Index -> Value]
      /\ \A i \in Index : i # x /\ i # y => array'[i] = array[i]
  <2>1. array \in [Index -> Value]
    BY DEF SortTypeOK
  <2>2. /\ Swap(array, x, y) \in [Index -> Value]
        /\ \A i \in Index : Swap(array, x, y)[i] =
             IF i = y THEN array[x] ELSE IF i = x THEN array[y] ELSE array[i]
    BY <2>1, SwapType
  <2>3. QED BY <2>2
<1>3. CoverDisorder(Outstanding, array')
  <2>1. PairwiseApart(Outstanding) /\ CoverDisorder(Outstanding, array)
    BY DEF RangesInv, ExclusiveRanges, DisorderIsOutstanding
  <2>2. Index \in SUBSET Nat /\ array \in [Index -> Nat]
    BY IndexNat, ArrayNat DEF SortTypeOK
  <2>3. QED BY <1>1, <2>1, <2>2, SwapCover
<1>4. ASSUME NEW u \in Threads, u # t, InPartition(u)
      PROVE  HoareInvariant(array', frame[u])
  <2> DEFINE q == <<u, 0>>
             f == frame[u]
  <2>1. PlacesAre
    BY PlaceKinds
  <2>2. q \in Places /\ q # p /\ RangeAt(q) = SortJob(f.start, f.end)
    BY <1>4, <2>1 DEF PlacesAre
  <2>3. Apart(RangeAt(q), RangeAt(p))
    BY <1>1, <2>2 DEF RangesInv, ExclusiveRanges, PairwiseApart, Outstanding
  <2>4. /\ f \in Frames /\ f \in NatFrames /\ RangeAt(p).start \in Nat /\ RangeAt(p).end \in Nat
        /\ f.start \in Nat /\ f.end \in Nat
    <3>1. f \in Frames
      BY DEF SortTypeOK
    <3>2. RangeAt(p).start \in Nat /\ RangeAt(p).end \in Nat
      BY <1>1 DEF Ranges
    <3>3. f \in NatFrames
      BY <3>1, FramesAreNatFrames
    <3>4. QED BY <3>1, <3>2, <3>3 DEF NatFrames
  <2>5. \A i \in f.start .. f.end : i # x /\ i # y
    <3>1. x \in Nat /\ y \in Nat
      BY IndexNat
    <3>2. RangeAt(q).start = f.start /\ RangeAt(q).end = f.end
      BY <2>2 DEF SortJob
    <3>3. QED BY <2>3, <2>4, <3>1, <3>2 DEF Apart, Within
  <2>6. f.start .. f.end \subseteq Index
    BY <2>4, IndexNat DEF Frames
  <2>7. \A i \in f.start .. f.end : array'[i] = array[i]
    BY <1>2, <2>5, <2>6
  <2>8. HoareInvariant(array, f)
    BY <1>4 DEF PartitionsUndisturbed
  <2> HIDE DEF f
  <2>9. HoareInvariant(array', f)
    BY <2>4, <2>7, <2>8, HoareIsLocal
  <2>10. QED BY <2>9 DEF f
<1>5. QED BY <1>2, <1>3, <1>4

(***************************************************************************)
(* One lemma for each kind of step.                                        *)
(***************************************************************************)

\* Steps that touch neither the array nor a range.
LEMMA QuietStep ==
  ASSUME SortInv, UNCHANGED <<stack, array, todo, frame>>, SortTypeOK', HoldsByLabel',
         \A u \in Threads : InPartition(u)' = InPartition(u)
  PROVE  SortInv'
<1>1. CoverDisorder(Outstanding, array')
  BY DEF SortInv, RangesInv, DisorderIsOutstanding
<1>2. RangesInv'
  BY <1>1, RangesStay DEF SortInv
<1>3. PartitionsUndisturbed'
  BY DEF SortInv, PartitionsUndisturbed
<1>4. QED BY <1>2, <1>3 DEF SortInv

\* Only one thread's label changes.
LEMMA QuietGoto ==
  ASSUME SortInv, UNCHANGED <<stack, array, todo, frame>>, NEW t \in Threads,
         NEW label \in Labels, Goto(t, label), ~InPartition(t),
         label \notin {"partition", "rec_partition", "push"},
         label \in {"pop", "finish", "exit"} => todo[t] = <<>>,
         label = "serve" => Len(todo[t]) = 1
  PROVE  SortInv'
<1>1. /\ pc' \in [Threads -> Labels] /\ pc'[t] = label
      /\ \A u \in Threads : u # t => pc'[u] = pc[u]
  BY DEF SortInv, SortTypeOK, Goto
<1>2. SortTypeOK'
  BY <1>1 DEF SortInv, SortTypeOK
<1>3. HoldsByLabel'
  BY <1>1 DEF SortInv, HoldsByLabel
<1>4. \A u \in Threads : InPartition(u)' = InPartition(u)
  BY <1>1 DEF InPartition
<1>5. QED BY <1>2, <1>3, <1>4, QuietStep

LEMMA QuietKeeps ==
  ASSUME SortInv, NEW t \in Threads,
         \/ Sleep(t) \/ Leave(t) \/ ServeSmall(t) \/ RecDone(t) \/ Finish(t)
         \/ Wake(t) \/ Stutter \/ UNCHANGED vars
  PROVE  SortInv'
<1>1. ASSUME UNCHANGED <<stack, array, pc, todo, frame>>
      PROVE  SortInv'
  <2>1. SortTypeOK' /\ HoldsByLabel' /\ \A u \in Threads : InPartition(u)' = InPartition(u)
    BY <1>1 DEF SortInv, SortTypeOK, HoldsByLabel, InPartition
  <2>2. QED BY <1>1, <2>1, QuietStep
<1>2. CASE Sleep(t) \/ Wake(t)
  BY <1>1, <1>2 DEF Sleep, Wake, PopWait, SpuriousWake
<1>3. CASE Stutter \/ UNCHANGED vars
  BY <1>1, <1>3 DEF Stutter, vars
<1>4. CASE Leave(t)
  <2>1. /\ pc[t] = "pop" /\ UNCHANGED <<stack, array, todo, frame>> /\ Goto(t, "exit")
    BY <1>4 DEF Leave, PopClose, PopNull, queueVars
  <2>2. todo[t] = <<>>
    BY <2>1 DEF SortInv, HoldsByLabel
  <2>3. QED BY <2>1, <2>2, QuietGoto DEF InPartition, Labels
<1>5. CASE ServeSmall(t)
  <2>1. /\ pc[t] = "serve" /\ UNCHANGED <<stack, array, todo, frame>> /\ Goto(t, "seq")
    BY <1>5 DEF ServeSmall, queueVars
  <2>2. QED BY <2>1, QuietGoto DEF InPartition, Labels
<1>6. CASE RecDone(t)
  <2>1. /\ pc[t] = "seq" /\ UNCHANGED <<stack, array, todo, frame>> /\ Goto(t, "finish")
        /\ todo[t] = <<>>
    BY <1>6 DEF RecDone, queueVars
  <2>2. QED BY <2>1, QuietGoto DEF InPartition, Labels
<1>7. CASE Finish(t)
  <2>1. /\ pc[t] = "finish" /\ UNCHANGED <<stack, array, todo, frame>> /\ Goto(t, "pop")
    BY <1>7 DEF Finish, MarkProcessed
  <2>2. todo[t] = <<>>
    BY <2>1 DEF SortInv, HoldsByLabel
  <2>3. QED BY <2>1, <2>2, QuietGoto DEF InPartition, Labels
<1>8. QED BY <1>2, <1>3, <1>4, <1>5, <1>6, <1>7

LEMMA TakeKeeps ==
  ASSUME SortInv, NEW t \in Threads, Take(t)
  PROVE  SortInv'
<1>1. /\ pc[t] = "pop" /\ stack # <<>> /\ stack' = SubSeq(stack, 1, Len(stack) - 1)
      /\ todo' = [todo EXCEPT ![t] = <<stack[Len(stack)]>>]
      /\ Goto(t, "serve") /\ UNCHANGED <<array, frame>>
  BY DEF Take, PopJob, Prev_items, Head_job
<1>2. /\ stack \in Seq(Jobs) /\ todo \in [Threads -> Seq(Jobs)] /\ pc \in [Threads -> Labels]
      /\ todo[t] = <<>>
  BY <1>1 DEF SortInv, SortTypeOK, HoldsByLabel
<1>3. /\ pc' \in [Threads -> Labels] /\ pc'[t] = "serve"
      /\ \A u \in Threads : u # t => pc'[u] = pc[u]
  BY <1>1, <1>2 DEF Goto, Labels
<1>4. /\ todo' \in [Threads -> Seq(Jobs)] /\ todo'[t] = <<stack[Len(stack)]>>
      /\ Len(todo'[t]) = 1
      /\ \A u \in Threads : u # t => todo'[u] = todo[u]
  <2>1. stack[Len(stack)] \in Jobs
    BY <1>1, <1>2, LastElement
  <2>2. <<stack[Len(stack)]>> \in Seq(Jobs)
    BY <2>1
  <2>3. QED BY <1>1, <1>2, <2>2
<1>5. stack' \in Seq(Jobs)
  BY <1>1, <1>2, AllButLast
<1>6. SortTypeOK'
  BY <1>1, <1>3, <1>4, <1>5 DEF SortInv, SortTypeOK
<1>7. HoldsByLabel'
  BY <1>3, <1>4 DEF SortInv, HoldsByLabel
<1>8. /\ ~InPartition(t) /\ ~InPartition(t)'
      /\ \A u \in Threads : InPartition(u)' = InPartition(u)
  BY <1>1, <1>3 DEF InPartition
<1>9. RangesInv'
  <2>1. OthersKeep(t)
    BY <1>1, <1>4, <1>8 DEF OthersKeep
  <2>2. CoverDisorder(Outstanding, array')
    BY <1>1 DEF SortInv, RangesInv, DisorderIsOutstanding
  <2>3. QED BY <1>1, <1>2, <1>4, <1>6, <1>8, <2>1, <2>2, RangeTaken DEF SortInv
<1>10. PartitionsUndisturbed'
  BY <1>1, <1>8 DEF SortInv, PartitionsUndisturbed
<1>11. QED BY <1>6, <1>7, <1>9, <1>10 DEF SortInv

\* A range that is dropped because it is trivial, or pushed.
LEMMA FirstGone ==
  ASSUME SortInv, NEW t \in Threads, UNCHANGED <<array, frame>>, ~InPartition(t),
         NEW label \in {"finish", "push", "seq"}, Goto(t, label),
         todo[t] # <<>>, todo' = [todo EXCEPT ![t] = Tail(todo[t])],
         label = "finish" => Tail(todo[t]) = <<>>,
         label = "push" => Tail(todo[t]) # <<>>,
         \/ stack' = stack /\ Trivial(Head(todo[t]))
         \/ stack' = Append(stack, Head(todo[t]))
  PROVE  SortInv'
<1>1. /\ stack \in Seq(Jobs) /\ todo \in [Threads -> Seq(Jobs)] /\ pc \in [Threads -> Labels]
  BY DEF SortInv, SortTypeOK
<1>2. /\ pc' \in [Threads -> Labels] /\ pc'[t] = label
      /\ \A u \in Threads : u # t => pc'[u] = pc[u]
  BY <1>1 DEF Goto, Labels
<1>3. /\ Head(todo[t]) \in Jobs /\ todo' \in [Threads -> Seq(Jobs)] /\ todo'[t] = Tail(todo[t])
      /\ \A u \in Threads : u # t => todo'[u] = todo[u]
  <2>1. Head(todo[t]) \in Jobs /\ Tail(todo[t]) \in Seq(Jobs)
    BY <1>1, AllButFirst
  <2>2. QED BY <1>1, <2>1
<1>4. stack' \in Seq(Jobs)
  BY <1>1, <1>3, OneMore
<1>5. SortTypeOK'
  BY <1>2, <1>3, <1>4 DEF SortInv, SortTypeOK
<1>6. HoldsByLabel'
  BY <1>2, <1>3 DEF SortInv, HoldsByLabel
<1>7. ~InPartition(t)' /\ \A u \in Threads : InPartition(u)' = InPartition(u)
  BY <1>2 DEF InPartition
<1>8. RangesInv'
  <2>1. OthersKeep(t) /\ FirstGoes(t)
    BY <1>3, <1>7 DEF OthersKeep, FirstGoes
  <2>2. CoverDisorder(Outstanding, array')
    BY DEF SortInv, RangesInv, DisorderIsOutstanding
  <2>3. QED BY <1>3, <1>5, <2>1, <2>2, FirstRangeGoes DEF SortInv
<1>9. PartitionsUndisturbed'
  BY <1>7 DEF SortInv, PartitionsUndisturbed
<1>10. QED BY <1>5, <1>6, <1>8, <1>9 DEF SortInv

LEMMA FirstGoneKeeps ==
  ASSUME SortInv, NEW t \in Threads, ServeTrivial(t) \/ RecReturn(t) \/ Push(t)
  PROVE  SortInv'
<1>1. todo[t] \in Seq(Jobs) /\ pc \in [Threads -> Labels]
  BY DEF SortInv, SortTypeOK
<1>2. ASSUME Len(todo[t]) = 1
      PROVE  todo[t] # <<>> /\ Tail(todo[t]) = <<>>
  <2>1. todo[t] # <<>>
    BY <1>2
  <2>2. Tail(todo[t]) \in Seq(Jobs) /\ Len(Tail(todo[t])) = 0
    BY <1>1, <1>2, <2>1, AllButFirst
  <2>3. QED BY <2>1, <2>2, EmptySeq
<1>3. CASE ServeTrivial(t)
  <2>1. /\ pc[t] = "serve" /\ UNCHANGED <<stack, array, frame>> /\ Goto(t, "finish")
        /\ Trivial(Head(todo[t])) /\ todo' = [todo EXCEPT ![t] = <<>>]
    BY <1>3 DEF ServeTrivial, queueVars
  <2>2. Len(todo[t]) = 1
    BY <2>1 DEF SortInv, HoldsByLabel
  <2>3. todo[t] # <<>> /\ Tail(todo[t]) = <<>> /\ ~InPartition(t)
    BY <1>2, <2>1, <2>2 DEF InPartition
  <2>4. QED BY <2>1, <2>3, FirstGone
<1>4. CASE RecReturn(t)
  <2>1. /\ pc[t] = "seq" /\ UNCHANGED <<stack, array, pc, frame>> /\ todo[t] # <<>>
        /\ Trivial(Head(todo[t])) /\ todo' = [todo EXCEPT ![t] = Tail(todo[t])]
    BY <1>4 DEF RecReturn, queueVars
  <2>2. Goto(t, "seq") /\ ~InPartition(t)
    BY <1>1, <2>1 DEF Goto, InPartition
  <2>3. QED BY <2>1, <2>2, FirstGone
<1>5. CASE Push(t)
  <2>1. /\ pc[t] = "push" /\ UNCHANGED <<array, frame>>
        /\ Goto(t, IF Len(todo[t]) = 1 THEN "finish" ELSE "push")
        /\ stack' = Append(stack, Head(todo[t])) /\ todo' = [todo EXCEPT ![t] = Tail(todo[t])]
    BY <1>5 DEF Push, work_queue_push
  <2>2. todo[t] # <<>> /\ ~InPartition(t)
    BY <2>1 DEF SortInv, HoldsByLabel, InPartition
  <2>3. CASE Len(todo[t]) = 1
    <3>1. Goto(t, "finish") /\ Tail(todo[t]) = <<>>
      BY <1>2, <2>1, <2>3
    <3>2. QED BY <2>1, <2>2, <3>1, FirstGone
  <2>4. CASE Len(todo[t]) # 1
    <3>1. Goto(t, "push")
      BY <2>1, <2>4
    <3>2. Tail(todo[t]) # <<>>
      <4>1. Len(Tail(todo[t])) = Len(todo[t]) - 1 /\ Len(todo[t]) \in Nat
        BY <1>1, <2>2, AllButFirst, LenProperties
      <4>2. Len(Tail(todo[t])) # 0 /\ Len(<<>>) = 0
        BY <2>4, <4>1
      <4>3. QED BY <4>2
    <3>3. QED BY <2>1, <2>2, <3>1, <3>2, FirstGone
  <2>5. QED BY <2>3, <2>4
<1>6. QED BY <1>3, <1>4, <1>5

\* A step inside hoare_partition, which leaves t with the frame g.
LEMMA FrameStep ==
  ASSUME SortInv, NEW t \in Threads, InPartition(t), UNCHANGED <<stack, pc, todo>>,
         NEW g \in NatFrames, frame' = [frame EXCEPT ![t] = g],
         g.start = frame[t].start, g.end = frame[t].end, g.pivot = frame[t].pivot,
         HoareInvariant(array', g), array' \in [Index -> Value],
         CoverDisorder(Outstanding, array'),
         \A u \in Threads : u # t /\ InPartition(u) => HoareInvariant(array', frame[u])
  PROVE  SortInv'
<1>1. /\ frame \in [Threads -> Frames] /\ frame[t] \in Frames
  BY DEF SortInv, SortTypeOK
<1>2. g \in Frames
  <2>1. g.start \in Index /\ g.end \in Index /\ g.pivot \in Value \cup {0}
    BY <1>1 DEF Frames
  <2>2. Within(g.k, g) /\ Within(g.j, g)
    BY DEF HoareInvariant
  <2>3. QED BY <2>1, <2>2, NatFrameIsFrame
<1>3. /\ frame' \in [Threads -> Frames] /\ frame'[t] = g
      /\ \A u \in Threads : u # t => frame'[u] = frame[u]
  BY <1>1, <1>2
<1>4. SortTypeOK' /\ HoldsByLabel'
  BY <1>3 DEF SortInv, SortTypeOK, HoldsByLabel
<1>5. \A u \in Threads : InPartition(u)' = InPartition(u)
  BY DEF InPartition
<1>6. RangesInv'
  BY <1>3, <1>4, <1>5, RangesStay DEF SortInv
<1>7. PartitionsUndisturbed'
  BY <1>3, <1>5 DEF PartitionsUndisturbed
<1>8. QED BY <1>4, <1>6, <1>7 DEF SortInv

\* What is known of the frame of a thread inside hoare_partition.
LEMMA FrameKnown ==
  ASSUME SortInv, NEW t \in Threads, InPartition(t)
  PROVE  /\ frame[t] \in NatFrames /\ frame[t] \in Frames
         /\ frame[t].start .. frame[t].end \subseteq Index
         /\ array \in [Index -> Nat]
         /\ HoareInvariant(array, frame[t])
         /\ CoverDisorder(Outstanding, array)
<1>1. frame[t] \in Frames
  BY DEF SortInv, SortTypeOK
<1>2. frame[t].start \in Index /\ frame[t].end \in Index
  BY <1>1 DEF Frames
<1>3. array \in [Index -> Nat]
  BY ArrayNat DEF SortInv, SortTypeOK
<1>4. QED
  BY <1>1, <1>2, <1>3, FramesAreNatFrames, IndexNat
  DEF SortInv, PartitionsUndisturbed, RangesInv, DisorderIsOutstanding

LEMMA ScanKeeps ==
  ASSUME SortInv, NEW t \in Threads, ScanUp(t) \/ ScanDown(t)
  PROVE  SortInv'
<1> DEFINE f == frame[t]
<1>1. InPartition(t) /\ UNCHANGED <<stack, pc, todo, array>>
  BY DEF ScanUp, ScanDown, queueVars
<1>2. /\ f \in NatFrames /\ f.start .. f.end \subseteq Index /\ array \in [Index -> Nat]
      /\ HoareInvariant(array, f)
  BY <1>1, FrameKnown
<1>3. /\ array' \in [Index -> Value] /\ CoverDisorder(Outstanding, array')
      /\ \A u \in Threads : u # t /\ InPartition(u) => HoareInvariant(array', frame[u])
  BY <1>1 DEF SortInv, SortTypeOK, RangesInv, DisorderIsOutstanding, PartitionsUndisturbed
<1>4. CASE ScanUp(t)
  <2>1. ScansUp(array, f) /\ frame' = [frame EXCEPT ![t] = AfterScanUp(f)]
    BY <1>4 DEF ScanUp
  <2>2. AfterScanUp(f).start = f.start /\ AfterScanUp(f).end = f.end /\ AfterScanUp(f).pivot = f.pivot
    BY <1>2 DEF AfterScanUp, NatFrames
  <2> HIDE DEF f
  <2>3. AfterScanUp(f) \in NatFrames /\ HoareInvariant(array, AfterScanUp(f))
    BY <1>2, <2>1, ScanUpKeeps
  <2>4. QED BY <1>1, <1>3, <2>1, <2>2, <2>3, FrameStep DEF f
<1>5. CASE ScanDown(t)
  <2>1. ScansDown(array, f) /\ frame' = [frame EXCEPT ![t] = AfterScanDown(f)]
    BY <1>5 DEF ScanDown
  <2>2. /\ AfterScanDown(f).start = f.start /\ AfterScanDown(f).end = f.end
        /\ AfterScanDown(f).pivot = f.pivot
    BY <1>2 DEF AfterScanDown, NatFrames
  <2> HIDE DEF f
  <2>3. AfterScanDown(f) \in NatFrames /\ HoareInvariant(array, AfterScanDown(f))
    BY <1>2, <2>1, ScanDownKeeps
  <2>4. QED BY <1>1, <1>3, <2>1, <2>2, <2>3, FrameStep DEF f
<1>6. QED BY <1>4, <1>5

LEMMA ExchangeStepKeeps ==
  ASSUME SortInv, NEW t \in Threads, Exchange(t)
  PROVE  SortInv'
<1> DEFINE f == frame[t]
           p == <<t, 0>>
<1>1. /\ InPartition(t) /\ UNCHANGED <<stack, pc, todo>> /\ Exchanges(array, f)
      /\ array' = Swap(array, f.k, f.j) /\ frame' = [frame EXCEPT ![t] = AfterExchange(f)]
  BY DEF Exchange, queueVars
<1>2. /\ f \in NatFrames /\ f.start .. f.end \subseteq Index /\ array \in [Index -> Nat]
      /\ HoareInvariant(array, f)
  BY <1>1, FrameKnown
<1>3. p \in Places /\ RangeAt(p) = SortJob(f.start, f.end)
  <2>1. PlacesAre
    BY PlaceKinds DEF SortInv
  <2>2. QED BY <1>1, <2>1 DEF PlacesAre
<1>4. /\ f.k \in Index /\ Within(f.k, RangeAt(p))
      /\ f.j \in Index /\ Within(f.j, RangeAt(p))
  <2>1. /\ f.k \in Nat /\ f.j \in Nat /\ Within(f.k, f) /\ Within(f.j, f)
        /\ f.start \in Nat /\ f.end \in Nat
    BY <1>2 DEF HoareInvariant, NatFrames
  <2>2. f.k \in f.start .. f.end /\ f.j \in f.start .. f.end
    BY <2>1 DEF Within
  <2>3. QED BY <1>2, <1>3, <2>1, <2>2 DEF Within, SortJob
<1>5. /\ array' \in [Index -> Value] /\ CoverDisorder(Outstanding, array')
      /\ \A u \in Threads : u # t /\ InPartition(u) => HoareInvariant(array', frame[u])
  <2>1. p[1] = t
    OBVIOUS
  <2> HIDE DEF p
  <2>2. QED BY <1>1, <1>3, <1>4, <2>1, ExchangeInside DEF SortInv
<1>6. AfterExchange(f).start = f.start /\ AfterExchange(f).end = f.end /\ AfterExchange(f).pivot = f.pivot
  BY <1>2 DEF AfterExchange, NatFrames
<1> HIDE DEF f
<1>7. AfterExchange(f) \in NatFrames /\ HoareInvariant(array', AfterExchange(f))
  BY <1>1, <1>2, ExchangeKeeps
<1>8. QED BY <1>1, <1>5, <1>6, <1>7, FrameStep DEF f

\* A call of hoare_partition begins.
LEMMA EnterKeeps ==
  ASSUME SortInv, NEW t \in Threads, UNCHANGED stack, ~InPartition(t),
         NEW label \in {"partition", "rec_partition"}, Enter(t, label),
         todo[t] # <<>>, ~Trivial(Head(todo[t])),
         label = "partition" => Len(todo[t]) = 1
  PROVE  SortInv'
<1> DEFINE r == Head(todo[t])
           f == HoareFrame(array, r)
           p == <<t, 1>>
<1>1. /\ array' = HoareArray(array, r) /\ frame' = [frame EXCEPT ![t] = f]
      /\ todo' = [todo EXCEPT ![t] = Tail(todo[t])] /\ Goto(t, label)
  BY DEF Enter
<1>2. /\ todo[t] \in Seq(Jobs) /\ todo \in [Threads -> Seq(Jobs)] /\ pc \in [Threads -> Labels]
      /\ frame \in [Threads -> Frames] /\ array \in [Index -> Value] /\ array \in [Index -> Nat]
  BY ArrayNat DEF SortInv, SortTypeOK
<1>3. /\ r \in Jobs /\ r = todo[t][1] /\ Tail(todo[t]) \in Seq(Jobs)
      /\ Len(Tail(todo[t])) = Len(todo[t]) - 1 /\ Len(todo[t]) \in Nat \ {0}
  <2>1. Len(todo[t]) \in Nat \ {0}
    BY <1>2, LastElement
  <2>2. QED BY <1>2, <2>1, AllButFirst
<1>4. /\ r \in Ranges /\ r.start \in Index /\ r.end \in Index /\ r.start < r.end
      /\ r.start .. r.end \subseteq Index
  <2>1. r \in Ranges /\ r.start \in Index /\ r.end \in Index
    BY <1>3, JobsAreRanges DEF Jobs
  <2>2. r.start \in Nat /\ r.end \in Nat /\ ~(r.start >= r.end)
    BY <2>1, IndexNat DEF Trivial
  <2> HIDE DEF r
  <2>3. r.start < r.end
    BY <2>2
  <2>4. QED BY <2>1, <2>3, IndexNat
<1>5. p \in Places /\ RangeAt(p) = r /\ p[1] = t
  <2>1. PlacesAre
    BY PlaceKinds DEF SortInv
  <2>2. 1 \in 1 .. Len(todo[t])
    BY <1>3
  <2>3. QED BY <1>3, <2>1, <2>2 DEF PlacesAre
<1>6. /\ Middle(r) \in Index /\ Within(Middle(r), r) /\ Within(r.end, r)
  <2>1. Middle(r) \in Nat /\ Within(Middle(r), r)
    BY <1>4, MiddleWithin
  <2>2. r.start \in Nat /\ r.end \in Nat
    BY <1>4 DEF Ranges
  <2>3. QED BY <1>4, <2>1, <2>2 DEF Within
<1> HIDE DEF r, p
<1>7. /\ array' \in [Index -> Value] /\ CoverDisorder(Outstanding, array')
      /\ \A u \in Threads : u # t /\ InPartition(u) => HoareInvariant(array', frame[u])
  <2>1. array' = Swap(array, r.end, Middle(r))
    BY <1>1 DEF HoareArray
  <2>2. QED BY <1>4, <1>5, <1>6, <2>1, ExchangeInside DEF SortInv
<1>8. f \in NatFrames /\ HoareInvariant(array', f)
  BY <1>1, <1>2, <1>4, HoareEntry
<1>9. f.start = r.start /\ f.end = r.end /\ f.pivot = array[Middle(r)]
  BY DEF HoareFrame
<1> HIDE DEF f
<1>10. f \in Frames
  <2>1. f.start \in Index /\ f.end \in Index /\ f.pivot \in Value \cup {0}
    BY <1>2, <1>4, <1>6, <1>9
  <2>2. Within(f.k, f) /\ Within(f.j, f)
    BY <1>8 DEF HoareInvariant
  <2>3. QED BY <1>8, <2>1, <2>2, NatFrameIsFrame
<1>11. /\ frame' \in [Threads -> Frames] /\ frame'[t] = f
       /\ \A u \in Threads : u # t => frame'[u] = frame[u]
       /\ todo' \in [Threads -> Seq(Jobs)] /\ todo'[t] = Tail(todo[t])
       /\ \A u \in Threads : u # t => todo'[u] = todo[u]
  BY <1>1, <1>2, <1>3, <1>10
<1>12. /\ pc' \in [Threads -> Labels] /\ pc'[t] = label
       /\ \A u \in Threads : u # t => pc'[u] = pc[u]
  BY <1>1, <1>2 DEF Goto, Labels
<1>13. SortTypeOK'
  BY <1>7, <1>11, <1>12 DEF SortInv, SortTypeOK
<1>14. HoldsByLabel'
  <2>1. label = "partition" => todo'[t] = <<>>
    BY <1>3, <1>11, EmptySeq
  <2>2. QED BY <1>11, <1>12, <2>1 DEF SortInv, HoldsByLabel
<1>15. InPartition(t)' /\ \A u \in Threads : u # t => InPartition(u)' = InPartition(u)
  BY <1>12 DEF InPartition
<1>16. RangesInv'
  <2>1. OthersKeep(t)
    BY <1>11, <1>15 DEF OthersKeep
  <2>2. FirstGoes(t)
    <3>1. SortJob(frame'[t].start, frame'[t].end) = r
      BY <1>9, <1>11, <1>4 DEF SortJob, Ranges
    <3>2. QED BY <1>15, <3>1 DEF FirstGoes, r
  <2>3. QED BY <1>7, <1>11, <1>13, <2>1, <2>2, FirstRangeGoes DEF SortInv
<1>17. PartitionsUndisturbed'
  BY <1>7, <1>8, <1>11, <1>15 DEF PartitionsUndisturbed
<1>18. QED BY <1>13, <1>14, <1>16, <1>17 DEF SortInv

LEMMA ReturnKeeps ==
  ASSUME SortInv, NEW t \in Threads, Return(t)
  PROVE  SortInv'
<1> DEFINE f == frame[t]
           r == SortJob(f.start, f.end)
           label == IF pc[t] = "partition" THEN "push" ELSE "seq"
<1>1. /\ InPartition(t) /\ Returns(array, f) /\ UNCHANGED <<stack, array>>
      /\ todo' = [todo EXCEPT ![t] = <<LeftOf(f), RightOf(f)>> \o todo[t]]
      /\ frame' = [frame EXCEPT ![t] = NoFrame] /\ Goto(t, label)
  BY DEF Return, queueVars
<1>2. /\ f \in NatFrames /\ f \in Frames /\ f.start .. f.end \subseteq Index
      /\ array \in [Index -> Nat] /\ HoareInvariant(array, f)
  BY <1>1, FrameKnown
<1>3. /\ todo \in [Threads -> Seq(Jobs)] /\ pc \in [Threads -> Labels]
      /\ frame \in [Threads -> Frames] /\ todo[t] \in Seq(Jobs)
  BY DEF SortInv, SortTypeOK
<1>4. /\ f.start \in Index /\ f.end \in Index /\ f.start \in Nat /\ f.end \in Nat /\ f.k \in Nat
  BY <1>2, IndexNat DEF Frames, NatFrames
<1> HIDE DEF f
<1>5. /\ f.start < f.k /\ f.k <= f.end /\ LeftOf(f) = SortJob(f.start, f.k - 1)
      /\ \A i \in f.start .. f.k - 1, j \in f.k .. f.end : array[i] <= array[j]
  BY <1>1, <1>2, ReturnSplits
<1>6. /\ r \in Ranges /\ r.start = f.start /\ r.end = f.end
  BY <1>4 DEF Ranges, SortJob
<1>7. /\ LeftOf(f) = SortJob(r.start, f.k - 1) /\ RightOf(f) = SortJob(f.k, r.end)
      /\ LeftOf(f) \in Jobs /\ RightOf(f) \in Jobs
  <2>1. f.k - 1 \in f.start .. f.end /\ f.k \in f.start .. f.end
    BY <1>4, <1>5
  <2>2. QED BY <1>2, <1>4, <1>5, <1>6, <2>1 DEF RightOf, SortJob, Jobs
<1>8. /\ todo' \in [Threads -> Seq(Jobs)] /\ todo'[t] = <<LeftOf(f), RightOf(f)>> \o todo[t]
      /\ todo'[t] # <<>>
      /\ \A u \in Threads : u # t => todo'[u] = todo[u]
  <2> DEFINE s == <<LeftOf(f), RightOf(f)>> \o todo[t]
  <2>1. s \in Seq(Jobs) /\ Len(s) = Len(todo[t]) + 2 /\ Len(todo[t]) \in Nat
    BY <1>3, <1>7, TwoMoreInFront, LenProperties
  <2>2. s # <<>>
    <3>1. Len(s) # 0 /\ Len(<<>>) = 0
      BY <2>1
    <3>2. QED BY <3>1
  <2> HIDE DEF s
  <2>3. todo' = [todo EXCEPT ![t] = s]
    BY <1>1 DEF s
  <2>4. todo' \in [Threads -> Seq(Jobs)] /\ todo'[t] = s
        /\ \A u \in Threads : u # t => todo'[u] = todo[u]
    BY <1>3, <2>1, <2>3
  <2>5. QED BY <2>2, <2>4 DEF s
<1>9. /\ pc' \in [Threads -> Labels] /\ pc'[t] = label /\ label \in {"push", "seq"}
      /\ \A u \in Threads : u # t => pc'[u] = pc[u]
  BY <1>1, <1>3 DEF Goto, Labels
<1>10. /\ frame' \in [Threads -> Frames]
       /\ \A u \in Threads : u # t => frame'[u] = frame[u]
  <2>1. NoFrame \in Frames
    BY PoolAssumption DEF NoFrame, Frames, Index
  <2>2. QED BY <1>1, <1>3, <2>1
<1> HIDE DEF label
<1>11. SortTypeOK'
  BY <1>1, <1>8, <1>9, <1>10 DEF SortInv, SortTypeOK
<1>12. HoldsByLabel'
  BY <1>8, <1>9 DEF SortInv, HoldsByLabel
<1>13. ~InPartition(t)' /\ \A u \in Threads : u # t => InPartition(u)' = InPartition(u)
  BY <1>9 DEF InPartition
<1>14. RangesInv'
  <2>1. OthersKeep(t)
    BY <1>8, <1>10, <1>13 DEF OthersKeep
  <2>2. r = SortJob(frame[t].start, frame[t].end)
    BY DEF f
  <2>3. todo'[t] = <<SortJob(r.start, f.k - 1), SortJob(f.k, r.end)>> \o todo[t]
    BY <1>7, <1>8
  <2>4. /\ r.start < f.k /\ f.k <= r.end
        /\ \A i \in r.start .. f.k - 1, j \in f.k .. r.end : array[i] <= array[j]
    BY <1>5, <1>6
  <2> HIDE DEF r
  <2>5. SortTypeOK /\ RangesInv
    BY DEF SortInv
  <2>6. QED BY <1>1, <1>4, <1>6, <1>11, <1>13, <2>1, <2>2, <2>3, <2>4, <2>5, RangeSplits
<1>15. PartitionsUndisturbed'
  BY <1>1, <1>10, <1>13 DEF SortInv, PartitionsUndisturbed
<1>16. QED BY <1>11, <1>12, <1>14, <1>15 DEF SortInv

LEMMA SortInvInit == Init => SortInv
<1> SUFFICES ASSUME Init
             PROVE  SortInv
  OBVIOUS
<1> DEFINE r == SortJob(0, N - 1)
           p == <<"stack", 1>>
<1>1. /\ stack = <<r>> /\ array \in [Index -> Value] /\ pc = [t \in Threads |-> "pop"]
      /\ todo = [t \in Threads |-> <<>>] /\ frame = [t \in Threads |-> NoFrame]
  <2>1. Dec(N) = N - 1
    BY PoolAssumption DEF Dec
  <2>2. QED BY <2>1 DEF Init, QueueInit
<1>2. 0 \in Index /\ N - 1 \in Index /\ N \in Nat \ {0}
  BY PoolAssumption DEF Index
<1>3. SortTypeOK
  <2>1. <<r>> \in Seq(Jobs)
    BY <1>2 DEF Jobs, SortJob
  <2>2. NoFrame \in Frames
    BY <1>2 DEF NoFrame, Frames
  <2>3. <<>> \in Seq(Jobs)
    BY EmptySeq
  <2>4. stack \in Seq(Jobs) /\ todo \in [Threads -> Seq(Jobs)] /\ frame \in [Threads -> Frames]
    BY <1>1, <2>1, <2>2, <2>3
  <2>5. QED BY <1>1, <2>4 DEF SortTypeOK, Labels
<1>4. HoldsByLabel
  BY <1>1 DEF HoldsByLabel
<1>5. PartitionsUndisturbed /\ \A t \in Threads : ~InPartition(t)
  BY <1>1 DEF PartitionsUndisturbed, InPartition
<1>6. Places = {p} /\ RangeAt(p) = r
  <2>1. PlacesAre
    BY <1>3, PlaceKinds
  <2>2. \A t \in Threads : Len(todo[t]) = 0
    BY <1>1
  <2>3. Len(stack) = 1 /\ stack[1] = r
    BY <1>1
  <2> HIDE DEF r
  <2>4. p \in Places /\ RangeAt(p) = r
    BY <2>1, <2>3 DEF PlacesAre
  <2>5. \A q \in Places : q = p
    BY <1>5, <2>1, <2>2, <2>3 DEF PlacesAre
  <2>6. QED BY <2>4, <2>5
<1>7. r.start = 0 /\ r.end = N - 1
  BY DEF SortJob
<1> HIDE DEF r, p
<1>8. RangesInv
  <2>1. NonEmptyRanges
    BY <1>2, <1>6, <1>7 DEF NonEmptyRanges
  <2>2. DOMAIN Outstanding = {p} /\ Outstanding[p] = r
    BY <1>6 DEF Outstanding
  <2>3. ExclusiveRanges
    BY <2>2 DEF ExclusiveRanges, PairwiseApart
  <2>4. \A i \in DOMAIN array : Within(i, r)
    BY <1>1, <1>2, <1>7 DEF Within, Index
  <2>5. DisorderIsOutstanding
    BY <2>2, <2>4 DEF DisorderIsOutstanding, CoverDisorder
  <2>6. QED BY <2>1, <2>3, <2>5 DEF RangesInv
<1>9. QED BY <1>3, <1>4, <1>5, <1>8 DEF SortInv

LEMMA SortInvStep == SortInv /\ [Next]_vars => SortInv'
<1> SUFFICES ASSUME SortInv, [Next]_vars
             PROVE  SortInv'
  OBVIOUS
<1>0. PICK someone \in Threads : TRUE
  BY PoolAssumption
<1>1. CASE Stutter \/ UNCHANGED vars
  BY <1>0, <1>1, QuietKeeps
<1>2. ASSUME NEW t \in Threads, Step(t) \/ Wake(t)
      PROVE  SortInv'
  <2>1. CASE Sleep(t) \/ Leave(t) \/ ServeSmall(t) \/ RecDone(t) \/ Finish(t) \/ Wake(t)
    BY <2>1, QuietKeeps
  <2>2. CASE Take(t)
    BY <2>2, TakeKeeps
  <2>3. CASE ServeTrivial(t) \/ RecReturn(t) \/ Push(t)
    BY <2>3, FirstGoneKeeps
  <2>4. CASE ServeLarge(t)
    <3>1. /\ pc[t] = "serve" /\ ~Trivial(Head(todo[t])) /\ Enter(t, "partition") /\ UNCHANGED stack
      BY <2>4 DEF ServeLarge, queueVars
    <3>2. Len(todo[t]) = 1 /\ ~InPartition(t)
      BY <3>1 DEF SortInv, HoldsByLabel, InPartition
    <3>3. todo[t] # <<>>
      BY <3>2
    <3>4. QED BY <3>1, <3>2, <3>3, EnterKeeps
  <2>5. CASE RecPartition(t)
    <3>1. /\ pc[t] = "seq" /\ ~Trivial(Head(todo[t])) /\ Enter(t, "rec_partition")
          /\ UNCHANGED stack /\ todo[t] # <<>>
      BY <2>5 DEF RecPartition, queueVars
    <3>2. ~InPartition(t)
      BY <3>1 DEF InPartition
    <3>3. QED BY <3>1, <3>2, EnterKeeps
  <2>6. CASE ScanUp(t) \/ ScanDown(t)
    BY <2>6, ScanKeeps
  <2>7. CASE Exchange(t)
    BY <2>7, ExchangeStepKeeps
  <2>8. CASE Return(t)
    BY <2>8, ReturnKeeps
  <2>9. QED BY <1>2, <2>1, <2>2, <2>3, <2>4, <2>5, <2>6, <2>7, <2>8 DEF Step
<1>3. QED BY <1>1, <1>2 DEF Next

LEMMA SortInvCorrect == Spec => []SortInv
BY SortInvInit, SortInvStep, PTL DEF Spec

(***************************************************************************)
(* The theorems.                                                           *)
(***************************************************************************)

\* Every variable keeps its type: in particular, no index of hoare_partition and no
\* bound of a job ever wraps around below 0 or passes the end of the array.
THEOREM TypeCorrect == Spec => []TypeOK
<1>1. QueueInv /\ SortInv => TypeOK
  <2>1. QueueInv => /\ total_pop \in Nat /\ total_processed \in Nat
                    /\ terminate \in BOOLEAN /\ waiters \subseteq Threads
    BY DEF QueueInv, QueueTypeOK
  <2>2. QED BY <2>1 DEF SortInv, SortTypeOK, TypeOK
<1>2. QED BY <1>1, QueueInvCorrect, SortInvCorrect, PTL

\* The ranges that the queue keeps and the threads hold never overlap.
THEOREM RangesNeverOverlap == Spec => []ExclusiveRanges
<1>1. SortInv => ExclusiveRanges
  BY DEF SortInv, RangesInv
<1>2. QED BY <1>1, SortInvCorrect, PTL

\* No thread's write disturbs the call of hoare_partition another thread is in.
THEOREM PartitionsNeverDisturbed == Spec => []PartitionsUndisturbed
<1>1. SortInv => PartitionsUndisturbed
  BY DEF SortInv
<1>2. QED BY <1>1, SortInvCorrect, PTL

\* Two elements in the wrong order always lie in one range still to be sorted.
THEOREM DisorderNeverForgotten == Spec => []DisorderIsOutstanding
<1>1. SortInv => DisorderIsOutstanding
  BY DEF SortInv, RangesInv
<1>2. QED BY <1>1, SortInvCorrect, PTL

\* A step changes the array by exchanging two elements, in a partition, or not at all.
LEMMA ArrayStep ==
  ASSUME SortInv, [Next]_vars
  PROVE  \/ array' = array
         \/ ~Returned /\ ~Returned' /\ \E x, y \in Index : array' = Swap(array, x, y)
<1>1. CASE UNCHANGED array
  BY <1>1
<1>2. ASSUME NEW t \in Threads, Exchange(t)
      PROVE  ~Returned /\ ~Returned' /\ \E x, y \in Index : array' = Swap(array, x, y)
  <2> DEFINE f == frame[t]
  <2>1. InPartition(t) /\ UNCHANGED pc /\ array' = Swap(array, f.k, f.j)
    BY <1>2 DEF Exchange
  <2>2. f \in Frames
    BY <2>1, FrameKnown
  <2>3. f.k \in Index /\ f.j \in Index
    BY <2>2 DEF Frames
  <2>4. ~Returned /\ ~Returned'
    BY <2>1 DEF Returned, InPartition
  <2>5. QED BY <2>1, <2>3, <2>4
<1>3. ASSUME NEW t \in Threads, ServeLarge(t) \/ RecPartition(t)
      PROVE  ~Returned /\ ~Returned' /\ \E x, y \in Index : array' = Swap(array, x, y)
  <2> DEFINE r == Head(todo[t])
  <2>1. PICK label \in {"partition", "rec_partition"} :
          Enter(t, label) /\ ~Trivial(r) /\ pc[t] # "exit" /\ todo[t] # <<>>
    <3>1. CASE ServeLarge(t)
      <4>1. Len(todo[t]) = 1
        BY <3>1 DEF ServeLarge, SortInv, HoldsByLabel
      <4>2. todo[t] # <<>>
        <5>1. Len(todo[t]) # 0 /\ Len(<<>>) = 0
          BY <4>1
        <5>2. QED BY <5>1
      <4>3. Enter(t, "partition") /\ ~Trivial(r) /\ pc[t] # "exit"
        BY <3>1 DEF ServeLarge
      <4>4. QED BY <4>2, <4>3
    <3>2. CASE RecPartition(t)
      BY <3>2 DEF RecPartition
    <3>3. QED BY <1>3, <3>1, <3>2
  <2>2. array' = Swap(array, r.end, Middle(r)) /\ pc'[t] = label
    BY <2>1 DEF Enter, HoareArray, Goto, SortInv, SortTypeOK
  <2>3. r \in Jobs
    BY <2>1, AllButFirst DEF SortInv, SortTypeOK
  <2>4. r \in Ranges /\ r.start \in Index /\ r.end \in Index
    BY <2>3, JobsAreRanges DEF Jobs
  <2>5. r.start \in Nat /\ r.end \in Nat /\ ~(r.start >= r.end)
    BY <2>1, <2>4 DEF Trivial, Ranges
  <2> HIDE DEF r
  <2>6. r.start < r.end
    BY <2>5
  <2>7. Middle(r) \in Nat /\ Within(Middle(r), r)
    BY <2>4, <2>6, MiddleWithin
  <2>8. Middle(r) \in r.start .. r.end
    BY <2>5, <2>7 DEF Within
  <2>9. Middle(r) \in Index
    BY <2>4, <2>8, IndexNat
  <2>10. ~Returned /\ ~Returned'
    BY <2>1, <2>2 DEF Returned
  <2>11. QED BY <2>2, <2>4, <2>9, <2>10
<1>4. ASSUME NEW t \in Threads, Step(t) \/ Wake(t), array' # array
      PROVE  Exchange(t) \/ ServeLarge(t) \/ RecPartition(t)
  BY <1>4 DEF Step, Take, Sleep, Leave, ServeTrivial, ServeSmall, ScanUp, ScanDown, Return,
              Push, RecReturn, RecDone, Finish, Wake
<1>5. QED BY <1>1, <1>2, <1>3, <1>4 DEF Next, Stutter, vars

\* When every thread has returned nothing is left to sort.
LEMMA SortedWhenReturned ==
  ASSUME SortInv, QueueInv, Returned
  PROVE  Sorted(array)
<1>1. \A t \in Threads : pc[t] = "exit" /\ todo[t] = <<>> /\ ~InPartition(t)
  BY DEF Returned, SortInv, HoldsByLabel, InPartition
<1>2. stack = <<>>
  <2>1. \E t \in Threads : pc[t] = "exit"
    BY <1>1, PoolAssumption
  <2>2. QED BY <2>1 DEF QueueInv, TerminationSound
<1>3. Places = {}
  <2>1. PlacesAre
    BY PlaceKinds DEF SortInv
  <2>2. Len(stack) = 0 /\ \A t \in Threads : Len(todo[t]) = 0
    BY <1>1, <1>2
  <2>3. QED BY <1>1, <2>1, <2>2 DEF PlacesAre
<1>4. CoverDisorder(Outstanding, array) /\ DOMAIN Outstanding = {}
  BY <1>3 DEF SortInv, RangesInv, DisorderIsOutstanding, Outstanding
<1>5. \A i, j \in DOMAIN array : i < j => ~(array[i] > array[j])
  BY <1>4 DEF CoverDisorder
<1>6. \A i \in DOMAIN array : array[i] \in Nat
  BY ArrayNat DEF SortInv, SortTypeOK
<1>7. QED BY <1>5, <1>6 DEF Sorted

LEMMA ReturnedIsFinal ==
  ASSUME QueueInv, Returned, [Next]_vars
  PROVE  UNCHANGED <<array, pc>>
<1>1. \A t \in Threads : pc[t] = "exit" /\ t \notin waiters
  BY DEF Returned, QueueInv, QueueTypeOK
<1>2. ASSUME NEW t \in Threads, Step(t)
      PROVE  FALSE
  BY <1>1, <1>2
  DEF Step, Take, Sleep, Leave, ServeTrivial, ServeSmall, ServeLarge, ScanUp, ScanDown,
      Exchange, Return, Push, RecReturn, RecPartition, RecDone, Finish, InPartition
<1>3. ASSUME NEW t \in Threads, Wake(t)
      PROVE  FALSE
  BY <1>1, <1>3 DEF Wake, SpuriousWake
<1>4. QED BY <1>2, <1>3 DEF Next, Stutter, vars

LEMMA StepRefines ==
  ASSUME QueueInv, SortInv, QueueInv', SortInv', [Next]_vars
  PROVE  [Sort!Next]_<<array, Returned>>
<1>1. array \in [Index -> Value] /\ array' \in [Index -> Value] /\ IsFiniteSet(Index)
  BY IndexNat DEF SortInv, SortTypeOK
<1>2. CASE Returned
  <2>1. UNCHANGED <<array, pc>>
    BY <1>2, ReturnedIsFinal
  <2>2. UNCHANGED <<array, Returned>>
    BY <2>1 DEF Returned
  <2>3. QED BY <2>2
<1>3. CASE ~Returned /\ array' = array
  <2>1. CASE Returned'
    <3>1. Sorted(array)'
      BY <2>1, SortedWhenReturned, PTL
    <3>2. Sorted(array)
      BY <1>3, <3>1 DEF Sorted
    <3>3. Sort!Return
      BY <1>3, <2>1, <3>2 DEF Sort!Return, Sorted, Sort!Sorted
    <3>4. QED BY <3>3 DEF Sort!Next
  <2>2. CASE ~Returned'
    <3>1. UNCHANGED <<array, Returned>>
      BY <1>3, <2>2 DEF Returned
    <3>2. QED BY <3>1
  <2>3. QED BY <2>1, <2>2
<1>4. CASE ~Returned /\ ~Returned' /\ \E x, y \in Index : array' = Swap(array, x, y)
  <2>1. SameElements(array, array')
    BY <1>1, <1>4, SwapSameElements
  <2>2. Sort!SameElements(array, array')
    <3>1. \A S : Sort!Cardinality(S) = Cardinality(S)
      BY DEF Cardinality, Sort!Cardinality
    <3>2. QED BY <2>1, <3>1 DEF SameElements, Sort!SameElements
  <2>3. Sort!Rearrange
    <3>1. array' \in Sort!Arrays
      BY <1>1 DEF Sort!Arrays, Index
    <3>2. UNCHANGED Returned
      BY <1>4 DEF Returned
    <3>3. QED BY <1>4, <2>2, <3>1, <3>2 DEF Sort!Rearrange
  <2>4. QED BY <2>3 DEF Sort!Next
<1>5. QED BY <1>2, <1>3, <1>4, ArrayStep

\* The call rearranges the array without losing an element, and when all threads have
\* left the parallel region the array is sorted.
THEOREM Refinement == Spec => ImplementsSortSpec
<1>1. Init => Sort!Init
  <2>1. Init => array \in [Index -> Value] /\ ~Returned
    BY PoolAssumption DEF Init, Returned
  <2>2. QED BY <2>1 DEF Sort!Init, Sort!Arrays, Index
<1>2. QueueInv /\ SortInv /\ QueueInv' /\ SortInv' /\ [Next]_vars
        => [Sort!Next]_<<array, Returned>>
  BY StepRefines
<1>3. QED
  BY <1>1, <1>2, QueueInvCorrect, SortInvCorrect, PTL DEF Spec, ImplementsSortSpec, Sort!Spec

=============================================================================
