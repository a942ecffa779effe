---------------------------- MODULE TaskQuicksort ----------------------------
(***************************************************************************)
(* quicksort_task_parallelism of sorts/quicksort/quicksort_mt.c: every     *)
(* call of task_serve on a long range partitions it and makes each half an *)
(* OpenMP task, which any thread of the team may run, and waits for both.  *)
(*                                                                         *)
(* A task is named by its place in the tree of tasks: <<>> is the body of  *)
(* the single construct, and LeftTask and RightTask are the two tasks that *)
(* the call of a task creates.  The start, pivot and end of a call are     *)
(* shared with its two tasks, which read them from its activation record   *)
(* only when they start.                                                   *)
(*                                                                         *)
(* The tasks are tied.  A thread that waits in a task, or has just created *)
(* one, may start only a descendant of its current task; a thread at the   *)
(* barrier may start any task.  A new task is put off, or run at once by   *)
(* the thread that creates it.                                             *)
(***************************************************************************)
EXTENDS Partition, SequencesExt

CONSTANTS
  Threads,               \* the OpenMP team
  N,                     \* the size of the array
  Value,                 \* what its elements may be
  QSORT_GROUP_MIN_DIST   \* shorter ranges are sorted by the task that has them

ASSUME TeamAssumption ==
  /\ N \in Nat \ {0}
  /\ N - 1 <= SIZE_MAX
  /\ Value \subseteq Nat
  /\ QSORT_GROUP_MIN_DIST \in Nat
  /\ IsFiniteSet(Threads) /\ Threads # {}

VARIABLES
  array,      \* the shared array
  deferred,   \* tasks that have been created and not started
  calls,      \* the activation record of the call of task_serve in each task under way
  running     \* the tasks each thread has started and not finished, the current one last

vars == <<array, deferred, calls, running>>

Index == 0 .. N - 1

LeftTask(p) == Append(p, 1)
RightTask(p) == Append(p, 2)
Parent(p) == Front(p)

\* at: where the call is; todo: the range it has been given, or the pending calls of
\* its quicksort_rec_seq; frame: its call of partition, whose k is the pivot once it
\* has returned.
NoFrame == [start |-> 0, end |-> 0, k |-> 0, j |-> 0, pivot |-> 0]
Call(r) == [at |-> "serve", todo |-> <<r>>, frame |-> NoFrame]

\* The arguments a task passes to task_serve, read when it starts.
Arguments(p) ==
  IF p = <<>> THEN SortJob(0, Dec(N))
  ELSE IF p = LeftTask(Parent(p)) THEN LeftOf(calls[Parent(p)].frame)
  ELSE RightOf(calls[Parent(p)].frame)

-----------------------------------------------------------------------------
\* The single construct, for whichever thread comes first.
Init ==
  /\ array \in [Index -> Value]
  /\ deferred = {<<>>}
  /\ calls = <<>>
  /\ running = [t \in Threads |-> <<>>]

Idle(t) == running[t] = <<>>
Current(t) == Last(running[t])
At(t, label) == ~Idle(t) /\ calls[Current(t)].at = label

\* The calls with that of a new task.
With(others, p, call) ==
  [q \in DOMAIN others \cup {p} |-> IF q = p THEN call ELSE others[q]]

\* t puts its current task aside and starts p.
Begin(t, p) ==
  /\ calls' = With(calls, p, Call(Arguments(p)))
  /\ running' = [running EXCEPT ![t] = Append(@, p)]

\* Task scheduling points: the barrier that ends the region, behind a task construct,
\* and taskwait.
Start(t) ==
  /\ \E p \in deferred :
       /\ Idle(t) \/ ((At(t, "right") \/ At(t, "wait")) /\ IsStrictPrefix(Current(t), p))
       /\ Begin(t, p)
       /\ deferred' = deferred \ {p}
  /\ UNCHANGED array

-----------------------------------------------------------------------------
\* Changes to the current call of t.
Update(t, call) == calls' = [calls EXCEPT ![Current(t)] = call]

Goto(t, label) == Update(t, [calls[Current(t)] EXCEPT !.at = label])

First(t) == Head(calls[Current(t)].todo)

\* Mutant: takes two elements for one.
Trivial_OffByOne(r) == r.start + 1 >= r.end

Trivial(r) == r.start >= r.end
Small(r) == r.end - r.start < QSORT_GROUP_MIN_DIST

\* Enters hoare_partition with the first range of the current call.
Enter(t, label) ==
  LET r == First(t) IN
  /\ array' = HoareArray(array, r)
  /\ Update(t, [at |-> label, todo |-> Tail(calls[Current(t)].todo), frame |-> HoareFrame(array, r)])
  /\ UNCHANGED <<deferred, running>>

\* The three cases of task_serve.
ServeTrivial(t) ==
  /\ At(t, "serve")
  /\ Trivial(First(t))
  /\ Update(t, [at |-> "return", todo |-> <<>>, frame |-> NoFrame])
  /\ UNCHANGED <<array, deferred, running>>

ServeSmall(t) ==
  /\ At(t, "serve")
  /\ ~Trivial(First(t))
  /\ Small(First(t))
  /\ Goto(t, "seq")
  /\ UNCHANGED <<array, deferred, running>>

ServeLarge(t) ==
  /\ At(t, "serve")
  /\ ~Trivial(First(t))
  /\ ~Small(First(t))
  /\ Enter(t, "partition")

-----------------------------------------------------------------------------
\* hoare_partition, called by task_serve or by quicksort_rec_seq.
InPartition(call) == call.at \in {"partition", "rec_partition"}

Scan(t) ==
  /\ ~Idle(t)
  /\ LET call == calls[Current(t)] IN
       /\ InPartition(call)
       /\ \/ ScansUp(array, call.frame) /\ Update(t, [call EXCEPT !.frame = AfterScanUp(@)])
          \/ ScansDown(array, call.frame) /\ Update(t, [call EXCEPT !.frame = AfterScanDown(@)])
  /\ UNCHANGED <<array, deferred, running>>

Exchange(t) ==
  /\ ~Idle(t)
  /\ LET call == calls[Current(t)] IN
       /\ InPartition(call)
       /\ Exchanges(array, call.frame)
       /\ array' = Swap(array, call.frame.k, call.frame.j)
       /\ Update(t, [call EXCEPT !.frame = AfterExchange(@)])
  /\ UNCHANGED <<deferred, running>>

\* The pivot is in the record of the call from here on.
Return(t) ==
  /\ At(t, "partition")
  /\ Returns(array, calls[Current(t)].frame)
  /\ Goto(t, "left")
  /\ UNCHANGED <<array, deferred, running>>

RecReturn(t) ==
  /\ At(t, "rec_partition")
  /\ LET call == calls[Current(t)] IN
       /\ Returns(array, call.frame)
       /\ Update(t, [at |-> "seq", frame |-> NoFrame,
                     todo |-> <<LeftOf(call.frame), RightOf(call.frame)>> \o call.todo])
  /\ UNCHANGED <<array, deferred, running>>

-----------------------------------------------------------------------------
\* A task construct.  The new task is put off, or begins at once.
Defer(t, p, label) ==
  /\ Goto(t, label)
  /\ deferred' = deferred \cup {p}
  /\ UNCHANGED running

Undefer(t, p, label) ==
  /\ calls' = With([calls EXCEPT ![Current(t)].at = label], p, Call(Arguments(p)))
  /\ running' = [running EXCEPT ![t] = Append(@, p)]
  /\ UNCHANGED deferred

CreateLeft(t) ==
  /\ At(t, "left")
  /\ LET p == LeftTask(Current(t)) IN Defer(t, p, "right") \/ Undefer(t, p, "right")
  /\ UNCHANGED array

\* Mutant: does not go on to wait for the tasks it has created.
CreateRight_NoWait(t) ==
  /\ At(t, "right")
  /\ LET p == RightTask(Current(t)) IN Defer(t, p, "return") \/ Undefer(t, p, "return")
  /\ UNCHANGED array

CreateRight(t) ==
  /\ At(t, "right")
  /\ LET p == RightTask(Current(t)) IN Defer(t, p, "wait") \/ Undefer(t, p, "wait")
  /\ UNCHANGED array

Unfinished == deferred \cup DOMAIN calls

\* Mutant: waits for every task of the team.
Children_Everybody(p) == Unfinished \ {p}

Children(p) == Unfinished \cap {LeftTask(p), RightTask(p)}

\* taskwait waits for the children, and for nobody else.
TaskWait(t) ==
  /\ At(t, "wait")
  /\ Children(Current(t)) = {}
  /\ Goto(t, "return")
  /\ UNCHANGED <<array, deferred, running>>

-----------------------------------------------------------------------------
\* quicksort_rec_seq: a call that returns at once, one that partitions its range, and
\* the return of the outermost one.
SeqReturn(t) ==
  /\ At(t, "seq")
  /\ LET call == calls[Current(t)] IN
       /\ call.todo # <<>>
       /\ Trivial(Head(call.todo))
       /\ Update(t, [call EXCEPT !.todo = Tail(@)])
  /\ UNCHANGED <<array, deferred, running>>

SeqPartition(t) ==
  /\ At(t, "seq")
  /\ calls[Current(t)].todo # <<>>
  /\ ~Trivial(First(t))
  /\ Enter(t, "rec_partition")

SeqDone(t) ==
  /\ At(t, "seq")
  /\ calls[Current(t)].todo = <<>>
  /\ Goto(t, "return")
  /\ UNCHANGED <<array, deferred, running>>

\* task_serve returns, its record with it, and the task is finished.
Finish(t) ==
  /\ At(t, "return")
  /\ calls' = Restrict(calls, DOMAIN calls \ {Current(t)})
  /\ running' = [running EXCEPT ![t] = Front(@)]
  /\ UNCHANGED <<array, deferred>>

-----------------------------------------------------------------------------
Step(t) ==
  \/ Start(t)
  \/ ServeTrivial(t) \/ ServeSmall(t) \/ ServeLarge(t)
  \/ Scan(t) \/ Exchange(t) \/ Return(t) \/ RecReturn(t)
  \/ CreateLeft(t) \/ CreateRight(t) \/ TaskWait(t)
  \/ SeqReturn(t) \/ SeqPartition(t) \/ SeqDone(t)
  \/ Finish(t)

\* The end of the region waits for every task.
Returned == Unfinished = {}

Stutter == Returned /\ UNCHANGED vars

Next == (\E t \in Threads : Step(t)) \/ Stutter

Spec == Init /\ [][Next]_vars

\* The operating system runs every thread that can run.
FairSpec == Spec /\ \A t \in Threads : WF_vars(Step(t))

-----------------------------------------------------------------------------
(* Correctness. *)

Jobs == [start : Index, end : Index]

Frames == [start : Index, end : Index, k : Index, j : Index, pivot : Value \cup {0}]

Labels == {"serve", "partition", "left", "right", "wait", "seq", "rec_partition", "return"}

\* The type invariant.  Each task under way belongs to one thread, and no bound wraps
\* around (quicksort_mt.c:53, quicksort_common.c:26, 113).
TypeOK ==
  /\ array \in [Index -> Value]
  /\ \A p \in Unfinished : p \in Seq({1, 2})
  /\ deferred \cap DOMAIN calls = {}
  /\ \A p \in DOMAIN calls : calls[p] \in [at : Labels, todo : Seq(Jobs), frame : Frames]
  /\ \A t \in Threads : running[t] \in Seq(DOMAIN calls) /\ IsInjective(running[t])
  /\ \A p \in DOMAIN calls : \E t \in Threads :
       p \in Range(running[t]) /\ \A u \in Threads \ {t} : p \notin Range(running[u])

\* A task that has been put off finds the record of the call that created it in place,
\* its pivot unchanged, whenever a thread comes to start it (quicksort_mt.c:51-60).
FramesOutliveTasks ==
  \A p \in deferred \ {<<>>} :
    /\ Parent(p) \in DOMAIN calls
    /\ calls[Parent(p)].at \in {"right", "wait"}

\* The ranges still to be sorted: those of tasks that have not started, created or about
\* to be; the range each call is partitioning; and those it has been given.
Created == {p \in DOMAIN calls : calls[p].at = "left"}
HalfCreated == {p \in DOMAIN calls : calls[p].at \in {"left", "right"}}
NotStarted == deferred \cup {LeftTask(p) : p \in Created} \cup {RightTask(p) : p \in HalfCreated}
Partitioning == {p \in DOMAIN calls : InPartition(calls[p])}

Places ==
  ({-1} \X NotStarted) \cup ({0} \X Partitioning)
    \cup UNION {(DOMAIN calls[p].todo) \X {p} : p \in DOMAIN calls}

RangeAt(q) ==
  CASE q[1] = -1 -> Arguments(q[2])
    [] q[1] = 0  -> SortJob(calls[q[2]].frame.start, calls[q[2]].frame.end)
    [] OTHER     -> calls[q[2]].todo[q[1]]

Outstanding == [q \in Places |-> RangeAt(q)]

\* No element belongs to two ranges that are still to be sorted, so no two tasks ever
\* touch the same element (quicksort_mt.c:51-58).
ExclusiveRanges == PairwiseApart(Outstanding)

\* Two elements in the wrong order lie together in a range that is still to be sorted.
DisorderIsOutstanding == CoverDisorder(Outstanding, array)

\* The call permutes its array, which is sorted when the region ends.
Sort == INSTANCE SortSpec WITH done <- Returned
ImplementsSortSpec == Sort!Spec

\* The region ends: threads that wait for their children never wait for one another,
\* although they may start descendants of those children only (quicksort_mt.c:60).
Termination == <>Returned

=============================================================================
