------------------------- MODULE TaskQuicksort_proof -------------------------
(***************************************************************************)
(* quicksort_task_parallelism sorts: for every array, every team and every *)
(* threshold, whichever thread runs a task and whenever it starts, a task  *)
(* finds the record of the call that created it, the ranges still to be    *)
(* sorted stay apart and hold every disorder, and the call implements      *)
(* SortSpec.                                                               *)
(***************************************************************************)
EXTENDS TaskQuicksort, Partition_proof

Tasks == Seq({1, 2})

CallRecords == [at : Labels, todo : Seq(Jobs), frame : Frames]

\* Whoever has not finished has the call that created it, waiting or about to wait; the
\* right task is created last.
ParentsWait ==
  \A p \in Unfinished \ {<<>>} :
    /\ Parent(p) \in DOMAIN calls
    /\ calls[Parent(p)].at \in {"right", "wait"}
    /\ p = RightTask(Parent(p)) => calls[Parent(p)].at = "wait"

\* How many ranges a call holds, by where it is, and the pivot that its tasks will read.
Consistent(call) ==
  /\ call.at = "serve" => Len(call.todo) = 1
  /\ call.at \in {"partition", "left", "right", "wait", "return"} => call.todo = <<>>
  /\ call.at \in {"left", "right", "wait"} =>
       call.frame.start < call.frame.k /\ call.frame.k <= call.frame.end

CallsInv == \A p \in DOMAIN calls : Consistent(calls[p])

\* What hoare_partition knows of its range holds whatever the other threads do.
PartitionsUndisturbed == \A p \in Partitioning : HoareInvariant(array, calls[p].frame)

\* The invariant, without and with the ranges still to be sorted.
CallTree == TypeOK /\ DOMAIN running = Threads /\ ParentsWait /\ CallsInv

RangesInv == ExclusiveRanges /\ DisorderIsOutstanding

SortInv == CallTree /\ RangesInv /\ PartitionsUndisturbed

(***************************************************************************)
(* Types.                                                                  *)
(***************************************************************************)
LEMMA IndexNat == /\ Index \subseteq Nat /\ IsFiniteSet(Index) /\ 0 \in Index /\ N - 1 \in Index
                  /\ \A i, j \in Index : i .. j \subseteq Index
BY TeamAssumption, FS_Interval DEF Index

LEMMA JobsAreRanges == Jobs \subseteq Ranges
BY IndexNat DEF Jobs, Ranges

LEMMA FramesAreNatFrames == Frames \subseteq NatFrames
<1>1. Index \subseteq Nat /\ Value \cup {0} \subseteq Nat
  BY IndexNat, TeamAssumption
<1>2. QED BY <1>1 DEF Frames, NatFrames

\* A frame that the Hoare lemmas return has its type back once its indices are known to
\* be inside its range.
LEMMA NatFrameIsFrame ==
  ASSUME NEW f \in NatFrames, f.start \in Index, f.end \in Index, f.pivot \in Value \cup {0},
         Within(f.k, f), Within(f.j, f)
  PROVE  f \in Frames
<1>1. f.start .. f.end \subseteq Index
  BY IndexNat
<1>2. f.k \in Index /\ f.j \in Index
  BY <1>1 DEF Within, NatFrames
<1>3. QED BY <1>2 DEF Frames, NatFrames

LEMMA ArrayNat ==
  ASSUME NEW a \in [Index -> Value]
  PROVE  a \in [Index -> Nat]
BY TeamAssumption

LEMMA NoFrameType == NoFrame \in Frames
BY IndexNat DEF NoFrame, Frames

\* The two halves of a range that has been partitioned are ranges of the array.
LEMMA HalvesAreJobs ==
  ASSUME NEW f \in Frames, f.start < f.k, f.k <= f.end
  PROVE  /\ LeftOf(f) = SortJob(f.start, f.k - 1) /\ RightOf(f) = SortJob(f.k, f.end)
         /\ LeftOf(f) \in Jobs /\ RightOf(f) \in Jobs
<1>1. /\ f.start \in Index /\ f.end \in Index /\ f.k \in Index
      /\ f.start \in Nat /\ f.end \in Nat /\ f.k \in Nat
  BY IndexNat DEF Frames
<1>2. f.k - 1 \in f.start .. f.end
  BY <1>1
<1>3. f.k - 1 \in Index /\ f.k # 0
  BY <1>1, <1>2, IndexNat
<1>4. QED BY <1>1, <1>3 DEF LeftOf, RightOf, Dec, SortJob, Jobs

(***************************************************************************)
(* The tree of tasks.                                                      *)
(***************************************************************************)

LEMMA FrontIs ==
  ASSUME NEW S, NEW s \in Seq(S), s # <<>>
  PROVE  /\ Front(s) \in Seq(S) /\ Len(Front(s)) = Len(s) - 1
         /\ \A i \in 1 .. Len(s) - 1 : Front(s)[i] = s[i]
<1>1. PICK u : u = SubSeq(s, 1, Len(s) - 1)
  OBVIOUS
<1>2. /\ u \in Seq(S) /\ Len(u) = Len(s) - 1
      /\ \A i \in 1 .. Len(s) - 1 : u[i] = s[i]
  BY <1>1, AllButLast
<1>3. QED BY <1>1, <1>2 DEF Front

\* A call has two tasks, and every task but the first has one call that creates it.
LEMMA ChildTasks ==
  ASSUME NEW c \in Tasks
  PROVE  /\ LeftTask(c) \in Tasks /\ LeftTask(c) # <<>> /\ Parent(LeftTask(c)) = c
         /\ RightTask(c) \in Tasks /\ RightTask(c) # <<>> /\ Parent(RightTask(c)) = c
         /\ LeftTask(c) # RightTask(c)
<1>1. Len(c) \in Nat
  BY LenProperties DEF Tasks
<1>2. ASSUME NEW e \in {1, 2}
      PROVE  /\ Append(c, e) \in Tasks /\ Append(c, e) # <<>>
             /\ Front(Append(c, e)) = c /\ Append(c, e)[Len(c) + 1] = e
  <2> DEFINE s == Append(c, e)
  <2>1. /\ s \in Seq({1, 2}) /\ Len(s) = Len(c) + 1 /\ s[Len(c) + 1] = e
        /\ \A i \in 1 .. Len(c) : s[i] = c[i]
    BY OneMore DEF Tasks
  <2>2. s # <<>>
    <3>1. Len(s) # 0
      BY <1>1, <2>1
    <3>2. QED BY <3>1, EmptySeq
  <2> HIDE DEF s
  <2>3. /\ Front(s) \in Seq({1, 2}) /\ Len(Front(s)) = Len(s) - 1
        /\ \A i \in 1 .. Len(s) - 1 : Front(s)[i] = s[i]
    BY <2>1, <2>2, FrontIs
  <2>4. Len(Front(s)) = Len(c) /\ \A i \in 1 .. Len(c) : Front(s)[i] = c[i]
    BY <1>1, <2>1, <2>3
  <2>5. Front(s) = c
    BY <2>3, <2>4, SeqEqual DEF Tasks
  <2>6. QED BY <2>1, <2>2, <2>5 DEF s, Tasks
<1>3. Append(c, 1) # Append(c, 2)
  BY <1>2
<1>4. QED BY <1>2, <1>3 DEF LeftTask, RightTask, Parent

LEMMA OneParent ==
  ASSUME NEW p \in Tasks, p # <<>>
  PROVE  /\ Parent(p) \in Tasks
         /\ p = LeftTask(Parent(p)) \/ p = RightTask(Parent(p))
<1>1. /\ Len(p) \in Nat \ {0} /\ p[Len(p)] \in {1, 2}
  BY LastElement DEF Tasks
<1>2. /\ Front(p) \in Seq({1, 2}) /\ Len(Front(p)) = Len(p) - 1
      /\ \A i \in 1 .. Len(p) - 1 : Front(p)[i] = p[i]
  BY FrontIs DEF Tasks
<1>3. PICK e \in {1, 2} : e = p[Len(p)]
  BY <1>1
<1>4. /\ Append(Front(p), e) \in Seq({1, 2})
      /\ Len(Append(Front(p), e)) = Len(Front(p)) + 1
      /\ \A i \in 1 .. Len(Front(p)) : Append(Front(p), e)[i] = Front(p)[i]
      /\ Append(Front(p), e)[Len(Front(p)) + 1] = e
  BY <1>2, OneMore
<1>5. Len(Append(Front(p), e)) = Len(p)
  BY <1>1, <1>2, <1>4
<1>6. \A i \in 1 .. Len(p) : Append(Front(p), e)[i] = p[i]
  <2> TAKE i \in 1 .. Len(p)
  <2>1. CASE i = Len(p)
    BY <1>1, <1>2, <1>3, <1>4, <2>1
  <2>2. CASE i # Len(p)
    BY <1>1, <1>2, <1>4, <2>2
  <2>3. QED BY <2>1, <2>2
<1>7. p = Append(Front(p), e)
  BY <1>4, <1>5, <1>6, SeqEqual DEF Tasks
<1>8. QED BY <1>2, <1>7 DEF Parent, LeftTask, RightTask, Tasks

\* The current task of a thread has a call.
LEMMA CurrentTask ==
  ASSUME CallTree, NEW t \in Threads, ~Idle(t)
  PROVE  /\ Current(t) \in DOMAIN calls /\ Current(t) \in Tasks
         /\ calls[Current(t)] \in CallRecords /\ Consistent(calls[Current(t)])
<1>1. running[t] \in Seq(DOMAIN calls) /\ running[t] # <<>>
  BY DEF CallTree, TypeOK, Idle
<1>2. running[t][Len(running[t])] \in DOMAIN calls
  BY <1>1, LastElement
<1>3. Current(t) \in DOMAIN calls
  BY <1>2 DEF Current, Last
<1>4. QED
  BY <1>3 DEF CallTree, TypeOK, CallsInv, Unfinished, Tasks, CallRecords

\* A task that has not started has the range its call computed, of which the call keeps
\* the record.
LEMMA NotStartedParent ==
  ASSUME CallTree, NEW p \in NotStarted
  PROVE  /\ p \in Tasks
         /\ p # <<>> => /\ Parent(p) \in DOMAIN calls
                        /\ calls[Parent(p)].at \in {"left", "right", "wait"}
<1>1. CASE p \in deferred
  BY <1>1 DEF CallTree, TypeOK, ParentsWait, Unfinished, Tasks
<1>2. ASSUME NEW c \in DOMAIN calls, calls[c].at \in {"left", "right"},
             p = LeftTask(c) \/ p = RightTask(c)
      PROVE  p \in Tasks /\ Parent(p) = c
  <2>1. c \in Tasks
    BY DEF CallTree, TypeOK, Unfinished, Tasks
  <2>2. QED BY <1>2, <2>1, ChildTasks
<1>3. QED BY <1>1, <1>2 DEF NotStarted, Created, HalfCreated

LEMMA ArgumentsAreJobs ==
  ASSUME CallTree, NEW p \in NotStarted
  PROVE  Arguments(p) \in Jobs
<1>1. CASE p = <<>>
  <2>1. Dec(N) = N - 1
    BY TeamAssumption DEF Dec
  <2>2. QED BY <1>1, <2>1, IndexNat DEF Arguments, SortJob, Jobs
<1>2. CASE p # <<>>
  <2> DEFINE c == Parent(p)
  <2>1. c \in DOMAIN calls /\ calls[c].at \in {"left", "right", "wait"}
    BY <1>2, NotStartedParent
  <2>2. calls[c].frame \in Frames /\ Consistent(calls[c])
    BY <2>1 DEF CallTree, TypeOK, CallsInv
  <2>3. calls[c].frame.start < calls[c].frame.k /\ calls[c].frame.k <= calls[c].frame.end
    BY <2>1, <2>2 DEF Consistent
  <2> HIDE DEF c
  <2>4. LeftOf(calls[c].frame) \in Jobs /\ RightOf(calls[c].frame) \in Jobs
    BY <2>2, <2>3, HalvesAreJobs
  <2>5. QED BY <1>2, <2>4 DEF Arguments, c
<1>3. QED BY <1>1, <1>2

\* Which the task still finds there after a step that leaves the record as it is.
LEMMA ArgumentsKept ==
  ASSUME NEW p, p # <<>> => calls'[Parent(p)].frame = calls[Parent(p)].frame
  PROVE  Arguments(p)' = Arguments(p)
BY DEF Arguments

(***************************************************************************)
(* Places.                                                                 *)
(***************************************************************************)

\* The three kinds of place, and the range at each.
PlacesAre ==
  /\ \A p \in NotStarted : <<-1, p>> \in Places /\ RangeAt(<<-1, p>>) = Arguments(p)
  /\ \A p \in Partitioning :
       <<0, p>> \in Places /\ RangeAt(<<0, p>>) = SortJob(calls[p].frame.start, calls[p].frame.end)
  /\ \A p \in DOMAIN calls : \A i \in 1 .. Len(calls[p].todo) :
       <<i, p>> \in Places /\ RangeAt(<<i, p>>) = calls[p].todo[i]
  /\ \A q \in Places :
       \/ \E p \in NotStarted : q = <<-1, p>>
       \/ \E p \in Partitioning : q = <<0, p>>
       \/ \E p \in DOMAIN calls : \E i \in 1 .. Len(calls[p].todo) : q = <<i, p>>

LEMMA PlaceKinds == CallTree => PlacesAre
<1> SUFFICES ASSUME CallTree
             PROVE  PlacesAre
  OBVIOUS
<1>1. \A p \in DOMAIN calls :
        DOMAIN calls[p].todo = 1 .. Len(calls[p].todo) /\ Len(calls[p].todo) \in Nat
  BY LenProperties DEF CallTree, TypeOK
<1>2. \A p \in NotStarted : <<-1, p>> \in Places /\ RangeAt(<<-1, p>>) = Arguments(p)
  BY DEF Places, RangeAt
<1>3. \A p \in Partitioning :
        /\ <<0, p>> \in Places
        /\ RangeAt(<<0, p>>) = SortJob(calls[p].frame.start, calls[p].frame.end)
  BY DEF Places, RangeAt
<1>4. \A p \in DOMAIN calls : \A i \in 1 .. Len(calls[p].todo) :
        <<i, p>> \in Places /\ RangeAt(<<i, p>>) = calls[p].todo[i]
  BY <1>1 DEF Places, RangeAt
<1>5. \A q \in Places :
        \/ \E p \in NotStarted : q = <<-1, p>>
        \/ \E p \in Partitioning : q = <<0, p>>
        \/ \E p \in DOMAIN calls : \E i \in 1 .. Len(calls[p].todo) : q = <<i, p>>
  BY <1>1 DEF Places
<1>6. QED BY <1>2, <1>3, <1>4, <1>5 DEF PlacesAre

OutstandingOK == Outstanding \in [Places -> Ranges]

LEMMA OutstandingType == CallTree => OutstandingOK
<1> SUFFICES ASSUME CallTree, NEW q \in Places
             PROVE  RangeAt(q) \in Ranges
  BY DEF Outstanding, OutstandingOK
<1>1. PlacesAre
  BY PlaceKinds
<1>2. ASSUME NEW p \in NotStarted, q = <<-1, p>>
      PROVE  RangeAt(q) \in Ranges
  BY <1>1, <1>2, ArgumentsAreJobs, JobsAreRanges DEF PlacesAre
<1>3. ASSUME NEW p \in Partitioning, q = <<0, p>>
      PROVE  RangeAt(q) \in Ranges
  <2>1. calls[p].frame \in NatFrames
    BY FramesAreNatFrames DEF CallTree, TypeOK, Partitioning
  <2>2. SortJob(calls[p].frame.start, calls[p].frame.end) \in Ranges
    BY <2>1 DEF SortJob, Ranges, NatFrames
  <2>3. QED BY <1>1, <1>3, <2>2 DEF PlacesAre
<1>4. ASSUME NEW p \in DOMAIN calls, NEW i \in 1 .. Len(calls[p].todo), q = <<i, p>>
      PROVE  RangeAt(q) \in Ranges
  <2>1. calls[p].todo \in Seq(Jobs)
    BY DEF CallTree, TypeOK
  <2>2. calls[p].todo[i] \in Jobs
    BY <2>1, ElementOfSeq
  <2>3. QED BY <1>1, <1>4, <2>2, JobsAreRanges DEF PlacesAre
<1>5. QED BY <1>1, <1>2, <1>3, <1>4 DEF PlacesAre

(***************************************************************************)
(* How the steps move ranges from place to place.                          *)
(***************************************************************************)

\* A function h tells where each range of the next state was.  Ranges that nobody keeps
\* have no two elements.
LEMMA RangesMove ==
  ASSUME CallTree, CallTree', ExclusiveRanges, CoverDisorder(Outstanding, array'),
         NEW h \in [Places' -> Places],
         \A p, q \in Places' : h[p] = h[q] => p = q,
         \A q \in Places' : RangeAt(q)' = RangeAt(h[q]),
         \A p \in Places : RangeAt(p).start >= RangeAt(p).end \/ \E q \in Places' : h[q] = p
  PROVE  RangesInv'
<1>1. Outstanding \in [Places -> Ranges]
  BY OutstandingType DEF OutstandingOK
<1>2. Outstanding' \in [Places' -> Ranges]
  <2>1. OutstandingOK'
    BY OutstandingType, PTL
  <2>2. QED BY <2>1 DEF OutstandingOK
<1>3. \A q \in Places' : Outstanding'[q] = Outstanding[h[q]]
  BY DEF Outstanding
<1>4. PairwiseApart(Outstanding')
  BY <1>1, <1>2, <1>3, MovedApart DEF ExclusiveRanges
<1>5. CoverDisorder(Outstanding', array')
  <2>1. \A p \in Places : \/ Outstanding[p].start >= Outstanding[p].end
                          \/ \E q \in Places' : Outstanding'[q] = Outstanding[p]
    BY <1>3 DEF Outstanding
  <2>2. \A i \in DOMAIN array' : i \in Nat
    BY IndexNat DEF CallTree, TypeOK
  <2>3. QED BY <1>1, <1>2, <2>1, <2>2, MovedCover
<1>6. QED BY <1>4, <1>5 DEF RangesInv, ExclusiveRanges, DisorderIsOutstanding

\* A step that moves none; a call that ends holds none.
RangesKept ==
  /\ NotStarted' = NotStarted
  /\ Partitioning' = Partitioning
  /\ DOMAIN calls' \subseteq DOMAIN calls
  /\ \A p \in DOMAIN calls \ DOMAIN calls' : calls[p].todo = <<>>
  /\ \A p \in DOMAIN calls' : calls'[p].todo = calls[p].todo
  /\ \A p \in NotStarted : Arguments(p)' = Arguments(p)
  /\ \A p \in Partitioning : /\ calls'[p].frame.start = calls[p].frame.start
                             /\ calls'[p].frame.end = calls[p].frame.end

LEMMA RangesStay ==
  ASSUME CallTree, CallTree', RangesInv, CoverDisorder(Outstanding, array'), RangesKept
  PROVE  RangesInv'
<1>1. PlacesAre /\ PlacesAre'
  BY PlaceKinds, PTL
<1>2. \A p \in DOMAIN calls \ DOMAIN calls' : Len(calls[p].todo) = 0
  BY DEF RangesKept
<1>3. Places' = Places /\ \A q \in Places : RangeAt(q)' = RangeAt(q)
  <2>1. ASSUME NEW q \in Places
        PROVE  q \in Places' /\ RangeAt(q)' = RangeAt(q)
    <3>1. CASE \E p \in NotStarted : q = <<-1, p>>
      BY <1>1, <3>1 DEF PlacesAre, RangesKept
    <3>2. CASE \E p \in Partitioning : q = <<0, p>>
      BY <1>1, <3>2 DEF PlacesAre, RangesKept
    <3>3. CASE \E p \in DOMAIN calls : \E i \in 1 .. Len(calls[p].todo) : q = <<i, p>>
      BY <1>1, <1>2, <3>3 DEF PlacesAre, RangesKept
    <3>4. QED BY <1>1, <3>1, <3>2, <3>3 DEF PlacesAre
  <2>2. ASSUME NEW q \in Places'
        PROVE  q \in Places
    <3>1. CASE \E p \in NotStarted' : q = <<-1, p>>
      BY <1>1, <3>1 DEF PlacesAre, RangesKept
    <3>2. CASE \E p \in Partitioning' : q = <<0, p>>
      BY <1>1, <3>2 DEF PlacesAre, RangesKept
    <3>3. CASE \E p \in DOMAIN calls' : \E i \in 1 .. Len(calls'[p].todo) : q = <<i, p>>
      BY <1>1, <3>3 DEF PlacesAre, RangesKept
    <3>4. QED BY <1>1, <3>1, <3>2, <3>3 DEF PlacesAre
  <2>3. QED BY <2>1, <2>2
<1>4. Outstanding' = Outstanding
  BY <1>3 DEF Outstanding
<1>5. QED BY <1>4 DEF RangesInv, ExclusiveRanges, DisorderIsOutstanding

\* Task p begins: its range becomes the one that its call has been given.
Begins(p) ==
  /\ p \in NotStarted /\ p \notin DOMAIN calls
  /\ NotStarted' = NotStarted \ {p}
  /\ DOMAIN calls' = DOMAIN calls \cup {p}
  /\ calls'[p] = Call(Arguments(p))
  /\ \A u \in DOMAIN calls : /\ calls'[u].todo = calls[u].todo
                             /\ calls'[u].frame = calls[u].frame
                             /\ InPartition(calls'[u]) <=> InPartition(calls[u])

LEMMA RangeBegins ==
  ASSUME CallTree, CallTree', RangesInv, array' = array, NEW p, Begins(p)
  PROVE  RangesInv'
<1> DEFINE from == <<-1, p>>
           dest == <<1, p>>
           h == [q \in Places' |-> IF q = dest THEN from ELSE q]
<1>1. PlacesAre /\ PlacesAre'
  BY PlaceKinds, PTL
<1>2. /\ calls'[p].todo = <<Arguments(p)>> /\ Len(calls'[p].todo) = 1
      /\ calls'[p].todo[1] = Arguments(p) /\ 1 \in 1 .. Len(calls'[p].todo)
      /\ ~InPartition(calls'[p])
  BY DEF Begins, Call, InPartition
<1>3. Partitioning' = Partitioning
  BY <1>2 DEF Begins, Partitioning
<1>4. from \in Places /\ RangeAt(from) = Arguments(p) /\ from \notin Places'
  BY <1>1, <1>2 DEF PlacesAre, Begins
<1>5. dest \in Places' /\ RangeAt(dest)' = Arguments(p) /\ dest \notin Places
  <2>1. dest \in Places' /\ RangeAt(dest)' = Arguments(p)
    BY <1>1, <1>2 DEF PlacesAre, Begins
  <2>2. dest \notin Places
    BY <1>1 DEF PlacesAre, Begins
  <2>3. QED BY <2>1, <2>2
<1>6. \A u \in NotStarted : Arguments(u)' = Arguments(u)
  BY NotStartedParent, ArgumentsKept DEF Begins
<1>7. ASSUME NEW q \in Places', q # dest
      PROVE  q \in Places /\ RangeAt(q)' = RangeAt(q)
  <2>1. CASE \E u \in NotStarted' : q = <<-1, u>>
    BY <1>1, <1>6, <2>1 DEF PlacesAre, Begins
  <2>2. CASE \E u \in Partitioning' : q = <<0, u>>
    BY <1>1, <1>3, <2>2 DEF PlacesAre, Begins, Partitioning
  <2>3. CASE \E u \in DOMAIN calls' : \E i \in 1 .. Len(calls'[u].todo) : q = <<i, u>>
    BY <1>1, <1>2, <1>7, <2>3 DEF PlacesAre, Begins
  <2>4. QED BY <1>1, <2>1, <2>2, <2>3 DEF PlacesAre
<1>8. ASSUME NEW q \in Places, q # from
      PROVE  q \in Places'
  <2>1. CASE \E u \in NotStarted : q = <<-1, u>>
    BY <1>1, <1>8, <2>1 DEF PlacesAre, Begins
  <2>2. CASE \E u \in Partitioning : q = <<0, u>>
    BY <1>1, <1>3, <2>2 DEF PlacesAre, Begins
  <2>3. CASE \E u \in DOMAIN calls : \E i \in 1 .. Len(calls[u].todo) : q = <<i, u>>
    BY <1>1, <2>3 DEF PlacesAre, Begins
  <2>4. QED BY <1>1, <2>1, <2>2, <2>3 DEF PlacesAre
<1> HIDE DEF from, dest
<1>9. /\ h \in [Places' -> Places]
      /\ \A q, u \in Places' : h[q] = h[u] => q = u
      /\ \A q \in Places' : RangeAt(q)' = RangeAt(h[q])
  BY <1>4, <1>5, <1>7
<1>10. \A q \in Places : \E u \in Places' : h[u] = q
  BY <1>4, <1>5, <1>8
<1> HIDE DEF h
<1>11. QED BY <1>9, <1>10, RangesMove DEF RangesInv, DisorderIsOutstanding

\* What a step does that changes one call and starts and ends none.
OneCall(c) ==
  /\ UNCHANGED <<deferred, running>>
  /\ DOMAIN calls' = DOMAIN calls
  /\ \A u \in DOMAIN calls \ {c} : calls'[u] = calls[u]

Creating(call) == call.at \in {"left", "right"}

\* Unless the call creates its tasks, those that have not started stay the same.
LEMMA NotStartedSame ==
  ASSUME NEW c \in DOMAIN calls, OneCall(c),
         \/ ~Creating(calls[c]) /\ ~Creating(calls'[c])
         \/ calls'[c].at = calls[c].at
  PROVE  NotStarted' = NotStarted
<1>1. Created' = Created /\ HalfCreated' = HalfCreated
  BY DEF OneCall, Creating, Created, HalfCreated
<1>2. QED BY <1>1 DEF OneCall, NotStarted

LEMMA ArgumentsSame ==
  ASSUME CallTree, NEW c \in DOMAIN calls, OneCall(c),
         \/ calls[c].at \notin {"left", "right", "wait"}
         \/ calls'[c].frame = calls[c].frame
  PROVE  \A p \in NotStarted : Arguments(p)' = Arguments(p)
BY NotStartedParent, ArgumentsKept DEF OneCall

\* The first range of call c is dropped, or partitioned; the others move up.
FirstGoes(c) ==
  /\ calls[c].todo # <<>> /\ ~InPartition(calls[c])
  /\ NotStarted' = NotStarted
  /\ \A p \in NotStarted : Arguments(p)' = Arguments(p)
  /\ calls'[c].todo = Tail(calls[c].todo)
  /\ \/ ~InPartition(calls'[c]) /\ Trivial(Head(calls[c].todo))
     \/ /\ InPartition(calls'[c])
        /\ SortJob(calls'[c].frame.start, calls'[c].frame.end) = Head(calls[c].todo)

LEMMA FirstRangeGoes ==
  ASSUME CallTree, CallTree', RangesInv, CoverDisorder(Outstanding, array'),
         NEW c \in DOMAIN calls, OneCall(c), FirstGoes(c)
  PROVE  RangesInv'
<1> DEFINE h == [q \in Places' |-> IF q[2] = c /\ q[1] # -1 THEN <<q[1] + 1, c>> ELSE q]
           todo == calls[c].todo
<1>1. PlacesAre /\ PlacesAre'
  BY PlaceKinds, PTL
<1>2. /\ Len(todo) \in Nat \ {0} /\ 1 \in 1 .. Len(todo) /\ Head(todo) = todo[1]
      /\ Len(calls'[c].todo) = Len(todo) - 1
      /\ \A i \in 1 .. Len(todo) - 1 : calls'[c].todo[i] = todo[i + 1]
  <2>1. todo \in Seq(Jobs) /\ todo # <<>>
    BY DEF CallTree, TypeOK, FirstGoes
  <2>2. Len(todo) \in Nat \ {0}
    BY <2>1, LastElement
  <2>3. PICK rest : rest = Tail(todo)
    OBVIOUS
  <2>4. calls'[c].todo = rest
    BY <2>3 DEF FirstGoes
  <2> HIDE DEF todo
  <2>5. /\ Head(todo) = todo[1] /\ Len(rest) = Len(todo) - 1
        /\ \A i \in 1 .. Len(todo) - 1 : rest[i] = todo[i + 1]
    BY <2>1, <2>3, AllButFirst
  <2>6. QED BY <2>2, <2>4, <2>5
<1>3. <<1, c>> \in Places /\ RangeAt(<<1, c>>) = Head(todo)
  BY <1>1, <1>2 DEF PlacesAre
<1>4. /\ c \in Partitioning' <=> InPartition(calls'[c])
      /\ \A u \in DOMAIN calls \ {c} : u \in Partitioning' <=> u \in Partitioning
      /\ c \notin Partitioning /\ Partitioning \subseteq DOMAIN calls
      /\ Partitioning' \subseteq DOMAIN calls
  BY DEF OneCall, FirstGoes, Partitioning
<1>5. ASSUME NEW q \in Places'
      PROVE  \/ q[2] = c /\ \E i \in 0 .. Len(todo) - 1 :
                  q = <<i, c>> /\ <<i + 1, c>> \in Places /\ RangeAt(q)' = RangeAt(<<i + 1, c>>)
             \/ ~(q[2] = c /\ q[1] # -1) /\ q \in Places /\ RangeAt(q)' = RangeAt(q)
  <2>1. CASE \E p \in NotStarted' : q = <<-1, p>>
    <3>1. PICK p \in NotStarted' : q = <<-1, p>>
      BY <2>1
    <3>2. p \in NotStarted /\ Arguments(p)' = Arguments(p)
      BY DEF FirstGoes
    <3>3. QED BY <1>1, <3>1, <3>2 DEF PlacesAre
  <2>2. CASE \E p \in Partitioning' : q = <<0, p>>
    <3>1. PICK p \in Partitioning' : q = <<0, p>>
      BY <2>2
    <3>2. CASE p = c
      <4>1. RangeAt(q)' = Head(todo)
        BY <1>1, <1>4, <3>1, <3>2 DEF PlacesAre, FirstGoes
      <4>2. 0 \in 0 .. Len(todo) - 1 /\ 0 + 1 = 1
        BY <1>2
      <4>3. QED BY <1>3, <3>1, <3>2, <4>1, <4>2
    <3>3. CASE p # c
      <4>1. p \in Partitioning /\ calls'[p] = calls[p]
        BY <1>4, <3>3 DEF OneCall
      <4>2. QED BY <1>1, <3>1, <3>3, <4>1 DEF PlacesAre
    <3>4. QED BY <3>2, <3>3
  <2>3. CASE \E p \in DOMAIN calls' : \E i \in 1 .. Len(calls'[p].todo) : q = <<i, p>>
    <3>0. PICK p \in DOMAIN calls' : \E i \in 1 .. Len(calls'[p].todo) : q = <<i, p>>
      BY <2>3
    <3>1. PICK i \in 1 .. Len(calls'[p].todo) : q = <<i, p>>
      BY <3>0
    <3>2. CASE p = c
      <4>1. i \in 1 .. Len(todo) - 1
        BY <1>2, <3>2
      <4>2. i \in 0 .. Len(todo) - 1 /\ i + 1 \in 1 .. Len(todo)
        BY <1>2, <4>1
      <4>3. RangeAt(q)' = calls'[c].todo[i]
        BY <1>1, <3>1, <3>2 DEF PlacesAre
      <4>4. <<i + 1, c>> \in Places /\ RangeAt(<<i + 1, c>>) = todo[i + 1]
        BY <1>1, <4>2 DEF PlacesAre
      <4>5. QED BY <1>2, <3>1, <3>2, <4>1, <4>2, <4>3, <4>4
    <3>3. CASE p # c
      <4>1. p \in DOMAIN calls /\ calls'[p] = calls[p]
        BY <3>3 DEF OneCall
      <4>2. QED BY <1>1, <3>1, <3>3, <4>1 DEF PlacesAre
    <3>4. QED BY <3>2, <3>3
  <2>4. QED BY <1>1, <2>1, <2>2, <2>3 DEF PlacesAre
<1>6. ASSUME NEW q \in Places'
      PROVE  /\ h[q] \in Places /\ RangeAt(q)' = RangeAt(h[q])
             /\ \/ \E i \in 0 .. Len(todo) - 1 : q = <<i, c>> /\ h[q] = <<i + 1, c>>
                \/ ~(q[2] = c /\ q[1] # -1) /\ h[q] = q
  <2>1. CASE \E i \in 0 .. Len(todo) - 1 :
               q = <<i, c>> /\ <<i + 1, c>> \in Places /\ RangeAt(q)' = RangeAt(<<i + 1, c>>)
    <3>1. PICK i \in 0 .. Len(todo) - 1 :
               q = <<i, c>> /\ <<i + 1, c>> \in Places /\ RangeAt(q)' = RangeAt(<<i + 1, c>>)
      BY <2>1
    <3>2. i \in Nat /\ i # -1
      BY <1>2
    <3>3. h[q] = <<i + 1, c>>
      BY <3>1, <3>2
    <3> HIDE DEF h
    <3>4. QED BY <3>1, <3>3
  <2>2. CASE ~(q[2] = c /\ q[1] # -1) /\ q \in Places /\ RangeAt(q)' = RangeAt(q)
    BY <2>2
  <2>3. QED BY <1>5, <2>1, <2>2
<1>7. ASSUME NEW q \in Places
      PROVE  RangeAt(q).start >= RangeAt(q).end \/ \E u \in Places' : h[u] = q
  <2>1. CASE \E p \in NotStarted : q = <<-1, p>>
    <3>1. q \in Places' /\ h[q] = q
      BY <1>1, <2>1 DEF PlacesAre, FirstGoes
    <3>2. QED BY <3>1
  <2>2. CASE \E p \in Partitioning : q = <<0, p>>
    <3>1. PICK p \in Partitioning : q = <<0, p>>
      BY <2>2
    <3>2. p \in Partitioning' /\ p # c
      BY <1>4
    <3>3. q \in Places' /\ h[q] = q
      BY <1>1, <3>1, <3>2 DEF PlacesAre
    <3>4. QED BY <3>3
  <2>3. CASE \E p \in DOMAIN calls : \E i \in 1 .. Len(calls[p].todo) : q = <<i, p>>
    <3>0. PICK p \in DOMAIN calls : \E i \in 1 .. Len(calls[p].todo) : q = <<i, p>>
      BY <2>3
    <3>1. PICK i \in 1 .. Len(calls[p].todo) : q = <<i, p>>
      BY <3>0
    <3>2. CASE p # c
      <4>1. p \in DOMAIN calls' /\ calls'[p] = calls[p]
        BY <3>2 DEF OneCall
      <4>2. q \in Places' /\ h[q] = q
        BY <1>1, <3>1, <3>2, <4>1 DEF PlacesAre
      <4>3. QED BY <4>2
    <3>3. CASE p = c /\ i # 1
      <4>1. i - 1 \in 1 .. Len(todo) - 1 /\ i - 1 # -1 /\ (i - 1) + 1 = i
        BY <1>2, <3>3
      <4>2. <<i - 1, c>> \in Places'
        BY <1>1, <1>2, <4>1 DEF PlacesAre, OneCall
      <4>3. h[<<i - 1, c>>] = q
        BY <3>1, <3>3, <4>1, <4>2
      <4>4. QED BY <4>2, <4>3
    <3>4. CASE p = c /\ i = 1 /\ InPartition(calls'[c])
      <4>1. <<0, c>> \in Places'
        BY <1>1, <1>4, <3>4 DEF PlacesAre
      <4>2. h[<<0, c>>] = q
        BY <3>1, <3>4, <4>1
      <4>3. QED BY <4>1, <4>2
    <3>5. CASE p = c /\ i = 1 /\ ~InPartition(calls'[c])
      BY <1>3, <3>1, <3>5 DEF FirstGoes, Trivial
    <3>6. QED BY <3>2, <3>3, <3>4, <3>5
  <2>4. QED BY <1>1, <2>1, <2>2, <2>3 DEF PlacesAre
<1>8. \A q, u \in Places' : h[q] = h[u] => q = u
  <2>1. Len(todo) \in Nat
    BY <1>2
  <2> HIDE DEF h, todo
  <2>2. QED BY <1>6, <2>1
<1>9. h \in [Places' -> Places]
  BY <1>6
<1> HIDE DEF h
<1>10. QED BY <1>6, <1>7, <1>8, <1>9, RangesMove DEF RangesInv

\* The range at p becomes those at l and at r; a function h tells where the others were.
SplitInto(h, p, k, l, r) ==
  /\ p \in Places /\ l \in Places' /\ r \in Places' /\ k \in Nat
  /\ RangeAt(p).start < k /\ k <= RangeAt(p).end
  /\ RangeAt(l)' = SortJob(RangeAt(p).start, k - 1)
  /\ RangeAt(r)' = SortJob(k, RangeAt(p).end)
  /\ \A q \in Places' \ {l, r} : h[q] \in Places \ {p} /\ RangeAt(q)' = RangeAt(h[q])
  /\ \A q, u \in Places' \ {l, r} : h[q] = h[u] => q = u
  /\ \A u \in Places \ {p} : \E q \in Places' \ {l, r} : h[q] = u
  /\ \A i \in RangeAt(p).start .. k - 1, j \in k .. RangeAt(p).end : array[i] <= array[j]

LEMMA RangesSplit ==
  ASSUME CallTree, CallTree', RangesInv, array' = array,
         NEW h, NEW p, NEW k, NEW l, NEW r, SplitInto(h, p, k, l, r)
  PROVE  RangesInv'
<1>1. Outstanding \in [Places -> Ranges]
  BY OutstandingType DEF OutstandingOK
<1>2. Outstanding' \in [Places' -> Ranges]
  <2>1. OutstandingOK'
    BY OutstandingType, PTL
  <2>2. QED BY <2>1 DEF OutstandingOK
<1>3. /\ \A q \in Places : Outstanding[q] = RangeAt(q)
      /\ \A q \in Places' : Outstanding'[q] = RangeAt(q)'
  BY DEF Outstanding
<1>4. SplitsAt(Outstanding, Outstanding', h, p, k, l, r)
  <2>1. DOMAIN Outstanding = Places /\ DOMAIN Outstanding' = Places'
    BY DEF Outstanding
  <2>2. QED BY <1>1, <1>2, <1>3, <2>1 DEF SplitsAt, SplitInto
<1>5. PairwiseApart(Outstanding) /\ CoverDisorder(Outstanding, array)
  BY DEF RangesInv, ExclusiveRanges, DisorderIsOutstanding
<1>6. PairwiseApart(Outstanding')
  BY <1>4, <1>5, SplitApart
<1>7. CoverDisorder(Outstanding', array)
  <2>1. \A i \in DOMAIN array : i \in Nat /\ array[i] \in Nat
    BY IndexNat, ArrayNat DEF CallTree, TypeOK
  <2>2. \A i \in Outstanding[p].start .. k - 1, j \in k .. Outstanding[p].end :
          array[i] <= array[j]
    BY <1>3 DEF SplitInto
  <2>3. QED BY <1>4, <1>5, <2>1, <2>2, SplitCover
<1>8. QED BY <1>6, <1>7 DEF RangesInv, ExclusiveRanges, DisorderIsOutstanding

\* What is known of a call of hoare_partition that returns.
SplitsRange(f) ==
  /\ f.start < f.k /\ f.k <= f.end
  /\ \A i \in f.start .. f.k - 1, j \in f.k .. f.end : array[i] <= array[j]

\* task_serve's call of hoare_partition returns: the halves of its range become the
\* ranges of the two tasks that the call is about to create.
LEMMA HalvesBecomeTasks ==
  ASSUME CallTree, CallTree', RangesInv, array' = array,
         NEW c \in DOMAIN calls, OneCall(c),
         calls[c].at = "partition", calls'[c].at = "left",
         calls'[c].todo = calls[c].todo, calls'[c].frame = calls[c].frame,
         SplitsRange(calls[c].frame)
  PROVE  RangesInv'
<1> DEFINE here == <<0, c>>
           left == <<-1, LeftTask(c)>>
           right == <<-1, RightTask(c)>>
           f == calls[c].frame
           h == [q \in Places' |-> q]
<1>1. PlacesAre /\ PlacesAre'
  BY PlaceKinds, PTL
<1>2. c \in Tasks /\ f \in Frames
  BY DEF CallTree, TypeOK, Unfinished, Tasks
<1>3. /\ Parent(LeftTask(c)) = c /\ Parent(RightTask(c)) = c /\ LeftTask(c) # RightTask(c)
      /\ LeftTask(c) # <<>> /\ RightTask(c) # <<>>
  BY <1>2, ChildTasks
<1>4. LeftTask(c) \notin NotStarted /\ RightTask(c) \notin NotStarted
  BY <1>3, NotStartedParent
<1>5. /\ NotStarted' = NotStarted \cup {LeftTask(c), RightTask(c)}
      /\ Partitioning' = Partitioning \ {c} /\ c \in Partitioning
  <2>1. Created' = Created \cup {c} /\ HalfCreated' = HalfCreated \cup {c}
    BY DEF OneCall, Created, HalfCreated
  <2>2. Partitioning' = Partitioning \ {c} /\ c \in Partitioning
    BY DEF OneCall, Partitioning, InPartition
  <2>3. QED BY <2>1, <2>2 DEF NotStarted, OneCall
<1>6. \A p \in NotStarted : Arguments(p)' = Arguments(p)
  BY ArgumentsSame
<1>7. Arguments(LeftTask(c))' = LeftOf(f) /\ Arguments(RightTask(c))' = RightOf(f)
  BY <1>3 DEF Arguments
<1>8. /\ f.start \in Nat /\ f.end \in Nat /\ f.k \in Nat
      /\ LeftOf(f) = SortJob(f.start, f.k - 1) /\ RightOf(f) = SortJob(f.k, f.end)
  BY <1>2, HalvesAreJobs, IndexNat DEF SplitsRange, Frames
<1>9. /\ here \in Places /\ here \notin Places' /\ RangeAt(here) = SortJob(f.start, f.end)
      /\ left \in Places' /\ left \notin Places /\ RangeAt(left)' = LeftOf(f)
      /\ right \in Places' /\ right \notin Places /\ RangeAt(right)' = RightOf(f)
  <2>1. here \in Places /\ RangeAt(here) = SortJob(f.start, f.end)
    BY <1>1, <1>5 DEF PlacesAre
  <2>2. here \notin Places'
    BY <1>1, <1>5 DEF PlacesAre
  <2>3. left \in Places' /\ RangeAt(left)' = LeftOf(f)
    BY <1>1, <1>5, <1>7 DEF PlacesAre
  <2>4. right \in Places' /\ RangeAt(right)' = RightOf(f)
    BY <1>1, <1>5, <1>7 DEF PlacesAre
  <2>5. left \notin Places /\ right \notin Places
    BY <1>1, <1>4 DEF PlacesAre
  <2>6. QED BY <2>1, <2>2, <2>3, <2>4, <2>5
<1>10. ASSUME NEW q \in Places', q # left, q # right
       PROVE  q \in Places /\ RangeAt(q)' = RangeAt(q)
  <2>1. CASE \E p \in NotStarted' : q = <<-1, p>>
    BY <1>1, <1>5, <1>6, <1>10, <2>1 DEF PlacesAre
  <2>2. CASE \E p \in Partitioning' : q = <<0, p>>
    BY <1>1, <1>5, <2>2 DEF PlacesAre, OneCall, Partitioning
  <2>3. CASE \E p \in DOMAIN calls' : \E i \in 1 .. Len(calls'[p].todo) : q = <<i, p>>
    BY <1>1, <2>3 DEF PlacesAre, OneCall
  <2>4. QED BY <1>1, <2>1, <2>2, <2>3 DEF PlacesAre
<1>11. ASSUME NEW q \in Places, q # here
       PROVE  q \in Places'
  <2>1. CASE \E p \in NotStarted : q = <<-1, p>>
    BY <1>1, <1>5, <2>1 DEF PlacesAre
  <2>2. CASE \E p \in Partitioning : q = <<0, p>>
    BY <1>1, <1>5, <1>11, <2>2 DEF PlacesAre
  <2>3. CASE \E p \in DOMAIN calls : \E i \in 1 .. Len(calls[p].todo) : q = <<i, p>>
    BY <1>1, <2>3 DEF PlacesAre, OneCall
  <2>4. QED BY <1>1, <2>1, <2>2, <2>3 DEF PlacesAre
<1> HIDE DEF here, left, right
<1>12. /\ \A q \in Places' \ {left, right} : h[q] \in Places \ {here} /\ RangeAt(q)' = RangeAt(h[q])
       /\ \A q, u \in Places' \ {left, right} : h[q] = h[u] => q = u
       /\ \A u \in Places \ {here} : \E q \in Places' \ {left, right} : h[q] = u
  BY <1>9, <1>10, <1>11
<1> HIDE DEF h, f
<1>13. RangeAt(here).start = f.start /\ RangeAt(here).end = f.end
  BY <1>9 DEF SortJob
<1>14. /\ f.start < f.k /\ f.k <= f.end
       /\ \A i \in f.start .. f.k - 1, j \in f.k .. f.end : array[i] <= array[j]
  BY DEF SplitsRange, f
<1>15. SplitInto(h, here, f.k, left, right)
  BY <1>8, <1>9, <1>12, <1>13, <1>14 DEF SplitInto
<1>16. QED BY <1>15, RangesSplit

\* quicksort_rec_seq's call returns: the halves of its range become its first two.
LEMMA HalvesBecomePending ==
  ASSUME CallTree, CallTree', RangesInv, array' = array,
         NEW c \in DOMAIN calls, OneCall(c),
         calls[c].at = "rec_partition", calls'[c].at = "seq",
         calls'[c].todo = <<LeftOf(calls[c].frame), RightOf(calls[c].frame)>> \o calls[c].todo,
         SplitsRange(calls[c].frame)
  PROVE  RangesInv'
<1> DEFINE here == <<0, c>>
           left == <<1, c>>
           right == <<2, c>>
           f == calls[c].frame
           todo == calls[c].todo
           h == [q \in Places' |-> IF q[2] = c /\ q[1] # -1 THEN <<q[1] - 2, c>> ELSE q]
<1>1. PlacesAre /\ PlacesAre'
  BY PlaceKinds, PTL
<1>2. f \in Frames /\ todo \in Seq(Jobs)
  BY DEF CallTree, TypeOK
<1>3. /\ f.start \in Nat /\ f.end \in Nat /\ f.k \in Nat
      /\ LeftOf(f) = SortJob(f.start, f.k - 1) /\ RightOf(f) = SortJob(f.k, f.end)
      /\ LeftOf(f) \in Jobs /\ RightOf(f) \in Jobs
  BY <1>2, HalvesAreJobs, IndexNat DEF SplitsRange, Frames
<1>4. /\ Len(todo) \in Nat /\ Len(calls'[c].todo) = Len(todo) + 2
      /\ calls'[c].todo[1] = LeftOf(f) /\ calls'[c].todo[2] = RightOf(f)
      /\ \A i \in 1 .. Len(todo) : calls'[c].todo[i + 2] = todo[i]
  <2>1. PICK more : more = <<LeftOf(f), RightOf(f)>> \o todo
    OBVIOUS
  <2>2. calls'[c].todo = more
    BY <2>1
  <2> HIDE DEF todo, f
  <2>3. QED BY <1>2, <1>3, <2>1, <2>2, TwoMoreInFront, LenProperties
<1>5. NotStarted' = NotStarted /\ \A p \in NotStarted : Arguments(p)' = Arguments(p)
  BY NotStartedSame, ArgumentsSame DEF Creating
<1>6. Partitioning' = Partitioning \ {c} /\ c \in Partitioning
  BY DEF OneCall, Partitioning, InPartition
<1>7. /\ here \in Places /\ RangeAt(here) = SortJob(f.start, f.end)
      /\ left \in Places' /\ RangeAt(left)' = LeftOf(f)
      /\ right \in Places' /\ RangeAt(right)' = RightOf(f)
  <2>1. here \in Places /\ RangeAt(here) = SortJob(f.start, f.end)
    BY <1>1, <1>6 DEF PlacesAre
  <2>2. 1 \in 1 .. Len(calls'[c].todo) /\ 2 \in 1 .. Len(calls'[c].todo)
    BY <1>4
  <2>3. c \in DOMAIN calls'
    BY DEF OneCall
  <2>4. left \in Places' /\ RangeAt(left)' = LeftOf(f)
    BY <1>1, <1>4, <2>2, <2>3 DEF PlacesAre
  <2>5. right \in Places' /\ RangeAt(right)' = RightOf(f)
    BY <1>1, <1>4, <2>2, <2>3 DEF PlacesAre
  <2>6. QED BY <2>1, <2>4, <2>5
<1>8. ASSUME NEW q \in Places', q # left, q # right
      PROVE  \/ \E i \in 1 .. Len(todo) : q = <<i + 2, c>> /\ <<i, c>> \in Places
                                           /\ RangeAt(q)' = RangeAt(<<i, c>>)
             \/ ~(q[2] = c /\ q[1] # -1) /\ q \in Places /\ RangeAt(q)' = RangeAt(q)
  <2>1. CASE \E p \in NotStarted' : q = <<-1, p>>
    <3>1. PICK p \in NotStarted' : q = <<-1, p>>
      BY <2>1
    <3>2. p \in NotStarted /\ Arguments(p)' = Arguments(p)
      BY <1>5
    <3>3. QED BY <1>1, <3>1, <3>2 DEF PlacesAre
  <2>2. CASE \E p \in Partitioning' : q = <<0, p>>
    <3>1. PICK p \in Partitioning' : q = <<0, p>>
      BY <2>2
    <3>2. p \in Partitioning /\ p # c /\ calls'[p] = calls[p]
      BY <1>6 DEF OneCall, Partitioning
    <3>3. QED BY <1>1, <3>1, <3>2 DEF PlacesAre
  <2>3. CASE \E p \in DOMAIN calls' : \E i \in 1 .. Len(calls'[p].todo) : q = <<i, p>>
    <3>1. PICK p \in DOMAIN calls' : \E i \in 1 .. Len(calls'[p].todo) : q = <<i, p>>
      BY <2>3
    <3>2. PICK i \in 1 .. Len(calls'[p].todo) : q = <<i, p>>
      BY <3>1
    <3>3. CASE p # c
      <4>1. p \in DOMAIN calls /\ calls'[p] = calls[p]
        BY <3>3 DEF OneCall
      <4>2. QED BY <1>1, <3>2, <3>3, <4>1 DEF PlacesAre
    <3>4. CASE p = c
      <4>1. i \in 1 .. Len(todo) + 2 /\ i # 1 /\ i # 2
        BY <1>4, <1>8, <3>2, <3>4
      <4>2. PICK j \in 1 .. Len(todo) : i = j + 2
        <5>1. i - 2 \in 1 .. Len(todo) /\ i = (i - 2) + 2
          BY <1>4, <4>1
        <5>2. QED BY <5>1
      <4>3. RangeAt(q)' = calls'[c].todo[j + 2]
        BY <1>1, <3>2, <3>4, <4>2 DEF PlacesAre
      <4>4. <<j, c>> \in Places /\ RangeAt(<<j, c>>) = todo[j]
        BY <1>1 DEF PlacesAre
      <4>5. q = <<j + 2, c>> /\ RangeAt(q)' = RangeAt(<<j, c>>)
        BY <1>4, <3>2, <3>4, <4>2, <4>3, <4>4
      <4>6. QED BY <4>4, <4>5
    <3>5. QED BY <3>3, <3>4
  <2>4. QED BY <1>1, <2>1, <2>2, <2>3 DEF PlacesAre
<1>9. ASSUME NEW q \in Places', q # left, q # right
      PROVE  /\ h[q] \in Places \ {here} /\ RangeAt(q)' = RangeAt(h[q])
             /\ \/ \E i \in 1 .. Len(todo) : q = <<i + 2, c>> /\ h[q] = <<i, c>>
                \/ ~(q[2] = c /\ q[1] # -1) /\ h[q] = q
  <2>1. CASE \E i \in 1 .. Len(todo) :
               q = <<i + 2, c>> /\ <<i, c>> \in Places /\ RangeAt(q)' = RangeAt(<<i, c>>)
    <3>1. PICK i \in 1 .. Len(todo) :
               q = <<i + 2, c>> /\ <<i, c>> \in Places /\ RangeAt(q)' = RangeAt(<<i, c>>)
      BY <2>1
    <3>2. i \in Nat /\ i # 0 /\ i + 2 # -1 /\ (i + 2) - 2 = i
      BY <1>4
    <3>3. h[q] = <<i, c>> /\ <<i, c>> # here
      BY <3>1, <3>2
    <3> HIDE DEF h
    <3>4. QED BY <3>1, <3>3
  <2>2. CASE ~(q[2] = c /\ q[1] # -1) /\ q \in Places /\ RangeAt(q)' = RangeAt(q)
    BY <2>2
  <2>3. QED BY <1>8, <1>9, <2>1, <2>2
<1>10. ASSUME NEW q \in Places, q # here
       PROVE  \E u \in Places' \ {left, right} : h[u] = q
  <2>1. CASE \E p \in NotStarted : q = <<-1, p>>
    <3>1. q \in Places' /\ h[q] = q /\ q # left /\ q # right
      BY <1>1, <1>5, <2>1 DEF PlacesAre
    <3>2. QED BY <3>1
  <2>2. CASE \E p \in Partitioning : q = <<0, p>>
    <3>1. PICK p \in Partitioning : q = <<0, p>>
      BY <2>2
    <3>2. p \in Partitioning' /\ p # c
      BY <1>6, <1>10, <3>1
    <3>3. q \in Places' /\ h[q] = q /\ q # left /\ q # right
      BY <1>1, <3>1, <3>2 DEF PlacesAre
    <3>4. QED BY <3>3
  <2>3. CASE \E p \in DOMAIN calls : \E i \in 1 .. Len(calls[p].todo) : q = <<i, p>>
    <3>1. PICK p \in DOMAIN calls : \E i \in 1 .. Len(calls[p].todo) : q = <<i, p>>
      BY <2>3
    <3>2. PICK i \in 1 .. Len(calls[p].todo) : q = <<i, p>>
      BY <3>1
    <3>3. CASE p # c
      <4>1. p \in DOMAIN calls' /\ calls'[p] = calls[p]
        BY <3>3 DEF OneCall
      <4>2. q \in Places' /\ h[q] = q /\ q # left /\ q # right
        BY <1>1, <3>2, <3>3, <4>1 DEF PlacesAre
      <4>3. QED BY <4>2
    <3>4. CASE p = c
      <4>1. i + 2 \in 1 .. Len(calls'[c].todo) /\ i + 2 # -1 /\ (i + 2) - 2 = i
            /\ i + 2 # 1 /\ i + 2 # 2
        BY <1>4, <3>4
      <4>2. <<i + 2, c>> \in Places'
        BY <1>1, <4>1 DEF PlacesAre, OneCall
      <4>3. h[<<i + 2, c>>] = q /\ <<i + 2, c>> # left /\ <<i + 2, c>> # right
        BY <3>2, <3>4, <4>1, <4>2
      <4>4. QED BY <4>2, <4>3
    <3>5. QED BY <3>3, <3>4
  <2>4. QED BY <1>1, <2>1, <2>2, <2>3 DEF PlacesAre
<1>11. \A q, u \in Places' \ {left, right} : h[q] = h[u] => q = u
  <2> HIDE DEF h, todo, left, right, f
  <2>1. Len(todo) \in Nat
    BY <1>4
  <2>2. QED BY <1>9, <2>1
<1>12. /\ \A q \in Places' \ {left, right} : h[q] \in Places \ {here} /\ RangeAt(q)' = RangeAt(h[q])
       /\ \A u \in Places \ {here} : \E q \in Places' \ {left, right} : h[q] = u
  BY <1>9, <1>10
<1> HIDE DEF h, f, todo, here, left, right
<1>13. RangeAt(here).start = f.start /\ RangeAt(here).end = f.end
  BY <1>7 DEF SortJob
<1>14. /\ f.start < f.k /\ f.k <= f.end
       /\ \A i \in f.start .. f.k - 1, j \in f.k .. f.end : array[i] <= array[j]
  BY DEF SplitsRange, f
<1>15. SplitInto(h, here, f.k, left, right)
  BY <1>3, <1>7, <1>11, <1>12, <1>13, <1>14 DEF SplitInto
<1>16. QED BY <1>15, RangesSplit

(***************************************************************************)
(* The other tasks' partitions.                                            *)
(***************************************************************************)

\* A call that exchanges two elements of a range it holds disturbs no other call of
\* hoare_partition, and makes no disorder outside the ranges.
LEMMA ExchangeInside ==
  ASSUME CallTree, RangesInv, PartitionsUndisturbed,
         NEW c \in DOMAIN calls, NEW q \in Places, q[2] = c,
         NEW x \in Index, Within(x, RangeAt(q)),
         NEW y \in Index, Within(y, RangeAt(q)),
         array' = Swap(array, x, y)
  PROVE  /\ array' \in [Index -> Value]
         /\ CoverDisorder(Outstanding, array')
         /\ \A u \in Partitioning \ {c} : HoareInvariant(array', calls[u].frame)
<1>1. Outstanding \in [Places -> Ranges] /\ Outstanding[q] = RangeAt(q)
  <2>1. OutstandingOK
    BY OutstandingType
  <2>2. QED BY <2>1 DEF OutstandingOK, Outstanding
<1>2. /\ array' \in [Index -> Value]
      /\ \A i \in Index : i # x /\ i # y => array'[i] = array[i]
  <2>1. array \in [Index -> Value]
    BY DEF CallTree, TypeOK
  <2>2. /\ Swap(array, x, y) \in [Index -> Value]
        /\ \A i \in Index : Swap(array, x, y)[i] =
             IF i = y THEN array[x] ELSE IF i = x THEN array[y] ELSE array[i]
    BY <2>1, SwapType
  <2>3. QED BY <2>2
<1>3. CoverDisorder(Outstanding, array')
  <2>1. PairwiseApart(Outstanding) /\ CoverDisorder(Outstanding, array)
    BY DEF RangesInv, ExclusiveRanges, DisorderIsOutstanding
  <2>2. Index \in SUBSET Nat /\ array \in [Index -> Nat]
    BY IndexNat, ArrayNat DEF CallTree, TypeOK
  <2>3. QED BY <1>1, <2>1, <2>2, SwapCover
<1>4. ASSUME NEW u \in Partitioning, u # c
      PROVE  HoareInvariant(array', calls[u].frame)
  <2> DEFINE w == <<0, u>>
             f == calls[u].frame
  <2>1. PlacesAre
    BY PlaceKinds
  <2>2. w \in Places /\ w # q /\ RangeAt(w) = SortJob(f.start, f.end)
    BY <1>4, <2>1 DEF PlacesAre
  <2>3. Apart(RangeAt(w), RangeAt(q))
    BY <1>1, <2>2 DEF RangesInv, ExclusiveRanges, PairwiseApart, Outstanding
  <2>4. /\ f \in Frames /\ f \in NatFrames /\ RangeAt(q).start \in Nat /\ RangeAt(q).end \in Nat
        /\ f.start \in Nat /\ f.end \in Nat
    <3>1. f \in Frames
      BY DEF CallTree, TypeOK, Partitioning
    <3>2. RangeAt(q).start \in Nat /\ RangeAt(q).end \in Nat
      BY <1>1 DEF Ranges
    <3>3. f \in NatFrames
      BY <3>1, FramesAreNatFrames
    <3>4. QED BY <3>1, <3>2, <3>3 DEF NatFrames
  <2>5. \A i \in f.start .. f.end : i # x /\ i # y
    <3>1. x \in Nat /\ y \in Nat
      BY IndexNat
    <3>2. RangeAt(w).start = f.start /\ RangeAt(w).end = f.end
      BY <2>2 DEF SortJob
    <3>3. QED BY <2>3, <2>4, <3>1, <3>2 DEF Apart, Within
  <2>6. f.start .. f.end \subseteq Index
    BY <2>4, IndexNat DEF Frames
  <2>7. \A i \in f.start .. f.end : array'[i] = array[i]
    BY <1>2, <2>5, <2>6
  <2>8. HoareInvariant(array, f)
    BY DEF PartitionsUndisturbed
  <2> HIDE DEF f
  <2>9. HoareInvariant(array', f)
    BY <2>4, <2>7, <2>8, HoareIsLocal
  <2>10. QED BY <2>9 DEF f
<1>5. QED BY <1>2, <1>3, <1>4

(***************************************************************************)
(* How the steps keep the tree of calls.                                   *)
(***************************************************************************)

\* Every task under way is on the stack of one thread, once.
Owned ==
  /\ \A t \in Threads : running[t] \in Seq(DOMAIN calls) /\ IsInjective(running[t])
  /\ \A p \in DOMAIN calls : \E t \in Threads :
       p \in Range(running[t]) /\ \A u \in Threads \ {t} : p \notin Range(running[u])

LEMMA OwnedGrows ==
  ASSUME CallTree, NEW t \in Threads, NEW p, p \notin DOMAIN calls,
         DOMAIN calls' = DOMAIN calls \cup {p},
         running' = [running EXCEPT ![t] = Append(@, p)]
  PROVE  Owned' /\ DOMAIN running' = Threads
<1> DEFINE s == running[t]
           C == DOMAIN calls
           D == DOMAIN calls'
<1>1. /\ DOMAIN running = Threads
      /\ \A u \in Threads : running[u] \in Seq(C) /\ IsInjective(running[u])
      /\ \A q \in C : \E u \in Threads :
           q \in Range(running[u]) /\ \A v \in Threads \ {u} : q \notin Range(running[v])
  BY DEF CallTree, TypeOK
<1>2. /\ DOMAIN running' = Threads /\ running'[t] = Append(s, p)
      /\ \A u \in Threads \ {t} : running'[u] = running[u]
  BY <1>1
<1>3. /\ s \in Seq(D) /\ p \in D /\ C \subseteq D
      /\ \A u \in Threads : running[u] \in Seq(D)
  <2>1. C \subseteq D
    OBVIOUS
  <2>2. \A u \in Threads : running[u] \in Seq(D)
    <3> SUFFICES ASSUME NEW u \in Threads
                 PROVE  running[u] \in Seq(D)
      OBVIOUS
    <3>1. /\ Len(running[u]) \in Nat /\ DOMAIN running[u] = 1 .. Len(running[u])
          /\ \A i \in 1 .. Len(running[u]) : running[u][i] \in C
      BY <1>1, LenProperties, ElementOfSeq
    <3>2. running[u] = [i \in 1 .. Len(running[u]) |-> running[u][i]]
      BY <1>1, SeqDef
    <3>3. \A i \in 1 .. Len(running[u]) : running[u][i] \in D
      BY <2>1, <3>1
    <3> HIDE DEF D
    <3>4. QED BY <3>1, <3>2, <3>3, IsASeq
  <2>3. QED BY <2>1, <2>2
<1>4. PICK w : w = Append(s, p)
  OBVIOUS
<1>5. /\ Len(s) \in Nat /\ DOMAIN s = 1 .. Len(s)
      /\ w \in Seq(D) /\ Len(w) = Len(s) + 1 /\ w[Len(s) + 1] = p
      /\ \A i \in 1 .. Len(s) : w[i] = s[i]
  BY <1>3, <1>4, OneMore, LenProperties
<1>6. DOMAIN w = 1 .. Len(s) + 1 /\ \A i \in 1 .. Len(s) : s[i] \in C
  <2>1. DOMAIN w = 1 .. Len(w)
    BY <1>5, LenProperties
  <2>2. \A i \in 1 .. Len(s) : s[i] \in C
    BY <1>1, <1>5, ElementOfSeq
  <2>3. QED BY <1>5, <2>1, <2>2
<1>7. IsInjective(w)
  <2>1. IsInjective(s)
    BY <1>1
  <2>2. PICK n \in Nat : n = Len(s)
    BY <1>5
  <2> HIDE DEF s, C
  <2>3. \A i, j \in 1 .. n : s[i] = s[j] => i = j
    BY <1>5, <2>1, <2>2 DEF IsInjective
  <2>4. \A i \in 1 .. n : s[i] # p
    BY <1>6, <2>2 DEF C
  <2>5. \A i \in 1 .. n + 1 : i \in 1 .. n \/ i = n + 1
    OBVIOUS
  <2>6. \A i, j \in 1 .. n + 1 : w[i] = w[j] => i = j
    BY <1>5, <2>2, <2>3, <2>4, <2>5
  <2>7. QED BY <1>6, <2>2, <2>6 DEF IsInjective
<1>8. Range(w) = Range(s) \cup {p}
  <2> HIDE DEF s
  <2>1. QED BY <1>5, <1>6 DEF Range
<1>9. \A u \in Threads : p \notin Range(running[u])
  <2> SUFFICES ASSUME NEW u \in Threads, NEW i \in DOMAIN running[u]
               PROVE  running[u][i] # p
    BY DEF Range
  <2>1. running[u] \in Seq(C)
    BY <1>1
  <2>2. running[u][i] \in C
    BY <2>1, ElementOfSeq, LenProperties
  <2>3. QED BY <2>2
<1>10. \A u \in Threads : running'[u] \in Seq(D) /\ IsInjective(running'[u])
  BY <1>1, <1>2, <1>3, <1>4, <1>5, <1>7
<1>11. ASSUME NEW q \in D
       PROVE  \E u \in Threads :
                q \in Range(running'[u]) /\ \A v \in Threads \ {u} : q \notin Range(running'[v])
  <2>1. running'[t] = w
    BY <1>2, <1>4
  <2>2. CASE q = p
    BY <1>2, <1>8, <1>9, <2>1, <2>2
  <2>3. CASE q # p
    <3>1. PICK u \in Threads :
            q \in Range(running[u]) /\ \A v \in Threads \ {u} : q \notin Range(running[v])
      BY <1>1, <2>3
    <3>2. q \in Range(running'[u]) /\ \A v \in Threads \ {u} : q \notin Range(running'[v])
      BY <1>2, <1>8, <2>1, <2>3, <3>1
    <3>3. QED BY <3>2
  <2>4. QED BY <2>2, <2>3
<1>12. QED BY <1>2, <1>10, <1>11 DEF Owned

LEMMA OwnedShrinks ==
  ASSUME CallTree, NEW t \in Threads, ~Idle(t),
         DOMAIN calls' = DOMAIN calls \ {Current(t)},
         running' = [running EXCEPT ![t] = Front(@)]
  PROVE  Owned' /\ DOMAIN running' = Threads
<1> DEFINE s == running[t]
           p == Current(t)
           C == DOMAIN calls
           D == DOMAIN calls'
<1>1. /\ DOMAIN running = Threads
      /\ \A u \in Threads : running[u] \in Seq(C) /\ IsInjective(running[u])
      /\ \A q \in C : \E u \in Threads :
           q \in Range(running[u]) /\ \A v \in Threads \ {u} : q \notin Range(running[v])
  BY DEF CallTree, TypeOK
<1>2. /\ DOMAIN running' = Threads /\ running'[t] = Front(s)
      /\ \A u \in Threads \ {t} : running'[u] = running[u]
  BY <1>1
<1>3. s \in Seq(C) /\ s # <<>> /\ Len(s) \in Nat \ {0} /\ p = s[Len(s)]
  <2>1. s \in Seq(C) /\ s # <<>> /\ p = s[Len(s)]
    BY <1>1 DEF Idle, Current, Last
  <2>2. QED BY <2>1, LastElement
<1>4. PICK w : w = Front(s)
  OBVIOUS
<1>5. /\ w \in Seq(C) /\ Len(w) = Len(s) - 1 /\ \A i \in 1 .. Len(s) - 1 : w[i] = s[i]
  BY <1>3, <1>4, FrontIs
<1>6. DOMAIN w = 1 .. Len(s) - 1 /\ DOMAIN s = 1 .. Len(s)
  <2> HIDE DEF s
  <2>1. DOMAIN w = 1 .. Len(w) /\ DOMAIN s = 1 .. Len(s)
    BY <1>3, <1>5, LenProperties
  <2>2. QED BY <1>5, <2>1
<1>7. IsInjective(s)
  BY <1>1
<1> HIDE DEF s, p
<1>8. IsInjective(w) /\ p \notin Range(w) /\ Range(s) = Range(w) \cup {p}
  <2>1. PICK n \in Nat : n + 1 = Len(s)
    <3>1. Len(s) - 1 \in Nat /\ (Len(s) - 1) + 1 = Len(s)
      BY <1>3
    <3>2. QED BY <3>1
  <2>2. DOMAIN w = 1 .. n /\ DOMAIN s = 1 .. n + 1 /\ p = s[n + 1] /\ \A i \in 1 .. n : w[i] = s[i]
    BY <1>3, <1>5, <1>6, <2>1
  <2>3. \A i, j \in 1 .. n + 1 : s[i] = s[j] => i = j
    BY <1>7, <2>2 DEF IsInjective
  <2>4. \A i : i \in 1 .. n + 1 <=> i \in 1 .. n \/ i = n + 1
    OBVIOUS
  <2>5. n + 1 \notin 1 .. n
    OBVIOUS
  <2>6. IsInjective(w)
    BY <2>2, <2>3, <2>4 DEF IsInjective
  <2>7. p \notin Range(w)
    BY <2>2, <2>3, <2>4, <2>5 DEF Range
  <2>8. Range(s) = Range(w) \cup {p}
    BY <2>2, <2>4 DEF Range
  <2>9. QED BY <2>6, <2>7, <2>8
<1>9. \A u \in Threads \ {t} : p \notin Range(running[u])
  <2>1. p \in Range(s) /\ p \in C
    <3>1. Len(s) \in 1 .. Len(s)
      BY <1>3
    <3>2. QED BY <1>3, <1>6, <1>8, <3>1, ElementOfSeq
  <2>2. PICK u \in Threads :
          p \in Range(running[u]) /\ \A v \in Threads \ {u} : p \notin Range(running[v])
    BY <1>1, <2>1
  <2>3. u = t
    BY <2>1, <2>2 DEF s
  <2>4. QED BY <2>2, <2>3
<1>10. ASSUME NEW v, v \in Seq(C), p \notin Range(v)
       PROVE  v \in Seq(D)
  <2>1. /\ Len(v) \in Nat /\ DOMAIN v = 1 .. Len(v)
        /\ \A i \in 1 .. Len(v) : v[i] \in C
    BY <1>10, LenProperties, ElementOfSeq
  <2>2. v = [i \in 1 .. Len(v) |-> v[i]]
    BY <1>10, SeqDef
  <2>3. \A i \in 1 .. Len(v) : v[i] \in D
    BY <1>10, <2>1 DEF Range, p
  <2> HIDE DEF D
  <2>4. QED BY <2>1, <2>2, <2>3, IsASeq
<1>11. \A u \in Threads : running'[u] \in Seq(D) /\ IsInjective(running'[u])
  <2>1. running'[t] \in Seq(D) /\ IsInjective(running'[t])
    BY <1>2, <1>4, <1>5, <1>8, <1>10
  <2>2. \A u \in Threads \ {t} : running'[u] \in Seq(D) /\ IsInjective(running'[u])
    BY <1>1, <1>2, <1>9, <1>10
  <2>3. QED BY <2>1, <2>2
<1>12. ASSUME NEW q \in D
       PROVE  \E u \in Threads :
                q \in Range(running'[u]) /\ \A v \in Threads \ {u} : q \notin Range(running'[v])
  <2>1. running'[t] = w /\ q \in C /\ q # p
    BY <1>2, <1>4 DEF p
  <2>2. PICK u \in Threads :
          q \in Range(running[u]) /\ \A v \in Threads \ {u} : q \notin Range(running[v])
    BY <1>1, <2>1
  <2>3. q \in Range(running'[u]) /\ \A v \in Threads \ {u} : q \notin Range(running'[v])
    BY <1>2, <1>8, <2>1, <2>2 DEF s
  <2>4. QED BY <2>3
<1>13. QED BY <1>2, <1>11, <1>12 DEF Owned

\* The record of one call changes.
LEMMA CurrentUpdated ==
  ASSUME CallTree, NEW t \in Threads, ~Idle(t), NEW call, Update(t, call),
         UNCHANGED <<deferred, running>>
  PROVE  OneCall(Current(t)) /\ calls'[Current(t)] = call
BY CurrentTask DEF Update, OneCall

LEMMA TreeStays ==
  ASSUME CallTree, NEW c \in DOMAIN calls, OneCall(c), array' \in [Index -> Value],
         calls'[c] \in CallRecords, Consistent(calls'[c]),
         \/ calls[c].at \notin {"right", "wait"}
         \/ Children(c) = {}
  PROVE  CallTree'
<1>1. TypeOK' /\ DOMAIN running' = Threads
  BY DEF CallTree, TypeOK, OneCall, Unfinished, CallRecords
<1>2. CallsInv'
  BY DEF CallTree, CallsInv, OneCall
<1>3. ParentsWait'
  <2> SUFFICES ASSUME NEW p \in Unfinished', p # <<>>
               PROVE  /\ Parent(p) \in DOMAIN calls'
                      /\ calls'[Parent(p)].at \in {"right", "wait"}
                      /\ p = RightTask(Parent(p)) => calls'[Parent(p)].at = "wait"
    BY DEF ParentsWait
  <2>1. /\ p \in Unfinished /\ p \in Tasks /\ Parent(p) \in DOMAIN calls
        /\ calls[Parent(p)].at \in {"right", "wait"}
        /\ p = RightTask(Parent(p)) => calls[Parent(p)].at = "wait"
    BY DEF CallTree, TypeOK, ParentsWait, OneCall, Unfinished, Tasks
  <2>2. Parent(p) # c
    <3>1. SUFFICES ASSUME Parent(p) = c
                   PROVE  FALSE
      OBVIOUS
    <3>2. p \in Children(c)
      BY <2>1, <3>1, OneParent DEF Children
    <3>3. QED BY <2>1, <3>1, <3>2
  <2>3. QED BY <2>1, <2>2 DEF OneCall
<1>4. QED BY <1>1, <1>2, <1>3 DEF CallTree

(***************************************************************************)
(* One lemma for each kind of step.                                        *)
(***************************************************************************)

\* Steps that only move the call on: to quicksort_rec_seq or to its return.
LEMMA QuietKeeps ==
  ASSUME SortInv, NEW t \in Threads, ServeSmall(t) \/ SeqDone(t) \/ TaskWait(t)
  PROVE  SortInv'
<1> DEFINE c == Current(t)
<1>1. CallTree /\ ~Idle(t) /\ UNCHANGED <<array, deferred, running>>
  BY DEF SortInv, ServeSmall, SeqDone, TaskWait, At
<1>2. /\ c \in DOMAIN calls /\ calls[c] \in CallRecords /\ Consistent(calls[c])
  BY <1>1, CurrentTask
<1>3. PICK label : /\ Goto(t, label)
                   /\ \/ calls[c].at = "serve" /\ label = "seq"
                      \/ calls[c].at = "seq" /\ calls[c].todo = <<>> /\ label = "return"
                      \/ calls[c].at = "wait" /\ Children(c) = {} /\ label = "return"
  BY DEF ServeSmall, SeqDone, TaskWait, At
<1>4. OneCall(c) /\ calls'[c] = [calls[c] EXCEPT !.at = label]
  BY <1>1, <1>3, CurrentUpdated DEF Goto
<1>5. /\ calls'[c] \in CallRecords /\ calls'[c].at = label
      /\ calls'[c].todo = calls[c].todo /\ calls'[c].frame = calls[c].frame
  BY <1>2, <1>3, <1>4 DEF CallRecords, Labels
<1> HIDE DEF c
<1>6. Consistent(calls'[c])
  BY <1>2, <1>3, <1>5 DEF Consistent
<1>7. CallTree'
  <2>1. array' \in [Index -> Value]
    BY <1>1 DEF CallTree, TypeOK
  <2>2. calls[c].at \notin {"right", "wait"} \/ Children(c) = {}
    BY <1>3
  <2>3. QED BY <1>1, <1>2, <1>4, <1>5, <1>6, <2>1, <2>2, TreeStays
<1>8. NotStarted' = NotStarted
  BY <1>2, <1>3, <1>4, <1>5, NotStartedSame DEF Creating
<1>9. \A p \in NotStarted : Arguments(p)' = Arguments(p)
  BY <1>1, <1>2, <1>4, <1>5, ArgumentsSame
<1>10. Partitioning' = Partitioning /\ c \notin Partitioning
  BY <1>3, <1>4, <1>5 DEF OneCall, Partitioning, InPartition
<1>11. RangesInv'
  <2>1. RangesKept
    BY <1>4, <1>5, <1>8, <1>9, <1>10 DEF RangesKept, OneCall, Partitioning
  <2>2. CoverDisorder(Outstanding, array')
    BY <1>1 DEF SortInv, RangesInv, DisorderIsOutstanding
  <2>3. QED BY <1>1, <1>7, <2>1, <2>2, RangesStay DEF SortInv
<1>12. PartitionsUndisturbed'
  BY <1>1, <1>4, <1>10 DEF SortInv, PartitionsUndisturbed, OneCall, Partitioning
<1>13. QED BY <1>7, <1>11, <1>12 DEF SortInv

\* What becomes of the sequence of a call's ranges when the first goes.
LEMMA FirstGone ==
  ASSUME NEW todo \in Seq(Jobs), todo # <<>>
  PROVE  /\ Head(todo) \in Jobs /\ Head(todo) = todo[1] /\ 1 \in 1 .. Len(todo)
         /\ Tail(todo) \in Seq(Jobs)
         /\ Len(todo) = 1 => Tail(todo) = <<>>
<1>1. Len(todo) \in Nat \ {0}
  BY LastElement
<1>2. PICK rest : rest = Tail(todo)
  OBVIOUS
<1>3. /\ Head(todo) \in Jobs /\ Head(todo) = todo[1]
      /\ rest \in Seq(Jobs) /\ Len(rest) = Len(todo) - 1
  BY <1>2, AllButFirst
<1>4. Len(todo) = 1 => rest = <<>>
  <2>1. Len(todo) = 1 => Len(rest) = 0
    BY <1>1, <1>3
  <2>2. QED BY <1>3, <2>1, EmptySeq
<1>5. QED BY <1>1, <1>2, <1>3, <1>4

LEMMA NotEmpty ==
  ASSUME NEW s, Len(s) = 1
  PROVE  s # <<>>
<1>1. Len(<<>>) = 0
  OBVIOUS
<1>2. QED BY <1>1

\* A range of one element is dropped.
LEMMA TrivialKeeps ==
  ASSUME SortInv, NEW t \in Threads, ServeTrivial(t) \/ SeqReturn(t)
  PROVE  SortInv'
<1> DEFINE c == Current(t)
           todo == calls[c].todo
<1>1. CallTree /\ ~Idle(t) /\ UNCHANGED <<array, deferred, running>>
  BY DEF SortInv, ServeTrivial, SeqReturn, At
<1>2. /\ c \in DOMAIN calls /\ calls[c] \in CallRecords /\ Consistent(calls[c])
  BY <1>1, CurrentTask
<1>3. PICK call :
        /\ Update(t, call) /\ Trivial(Head(todo)) /\ todo # <<>>
        /\ \/ /\ calls[c].at = "serve" /\ Len(todo) = 1
              /\ call = [at |-> "return", todo |-> <<>>, frame |-> NoFrame]
           \/ /\ calls[c].at = "seq"
              /\ call = [calls[c] EXCEPT !.todo = Tail(todo)]
  <2>1. CASE ServeTrivial(t)
    <3>1. /\ calls[c].at = "serve" /\ Trivial(Head(todo))
          /\ Update(t, [at |-> "return", todo |-> <<>>, frame |-> NoFrame])
      BY <2>1 DEF ServeTrivial, At, First
    <3>2. Len(todo) = 1 /\ todo # <<>>
      BY <1>2, <3>1, NotEmpty DEF Consistent
    <3>3. QED BY <3>1, <3>2
  <2>2. CASE SeqReturn(t)
    BY <2>2 DEF SeqReturn, At
  <2>3. QED BY <2>1, <2>2
<1>4. OneCall(c) /\ calls'[c] = call
  BY <1>1, <1>3, CurrentUpdated
<1>5. /\ todo \in Seq(Jobs) /\ Tail(todo) \in Seq(Jobs)
      /\ Len(todo) = 1 => Tail(todo) = <<>>
  BY <1>2, <1>3, FirstGone DEF CallRecords
<1>6. /\ calls'[c] \in CallRecords /\ calls'[c].todo = Tail(todo)
      /\ calls'[c].at \in {"seq", "return"}
      /\ calls'[c].at = "return" => calls'[c].todo = <<>>
  <2>1. CASE call = [at |-> "return", todo |-> <<>>, frame |-> NoFrame] /\ Len(todo) = 1
    <3>1. <<>> \in Seq(Jobs)
      BY EmptySeq
    <3> HIDE DEF c, todo
    <3>2. QED BY <1>4, <1>5, <2>1, <3>1, NoFrameType DEF CallRecords, Labels
  <2>2. CASE calls[c].at = "seq" /\ call = [calls[c] EXCEPT !.todo = Tail(todo)]
    <3>1. PICK rest : rest = Tail(todo)
      OBVIOUS
    <3>2. rest \in Seq(Jobs)
      BY <1>5, <3>1
    <3>3. calls'[c] = [calls[c] EXCEPT !.todo = rest]
      BY <1>4, <2>2, <3>1
    <3> HIDE DEF c, todo
    <3>4. QED BY <1>2, <2>2, <3>1, <3>2, <3>3 DEF CallRecords, Labels
  <2>3. QED BY <1>3, <2>1, <2>2
<1>7. CallTree'
  <2>1. array' \in [Index -> Value]
    BY <1>1 DEF CallTree, TypeOK
  <2>2. calls[c].at \notin {"right", "wait"}
    BY <1>3
  <2>3. Consistent(calls'[c])
    BY <1>6 DEF Consistent
  <2> HIDE DEF c
  <2>4. QED BY <1>1, <1>2, <1>4, <1>6, <2>1, <2>2, <2>3, TreeStays
<1>8. ~InPartition(calls[c]) /\ ~InPartition(calls'[c])
  BY <1>3, <1>6 DEF InPartition
<1>9. NotStarted' = NotStarted /\ \A p \in NotStarted : Arguments(p)' = Arguments(p)
  <2> HIDE DEF c
  <2>1. ~Creating(calls[c]) /\ ~Creating(calls'[c]) /\ calls[c].at \notin {"left", "right", "wait"}
    BY <1>3, <1>6 DEF Creating
  <2>2. QED BY <1>1, <1>2, <1>4, <2>1, NotStartedSame, ArgumentsSame
<1>10. RangesInv'
  <2>1. FirstGoes(c)
    BY <1>3, <1>6, <1>8, <1>9 DEF FirstGoes
  <2>2. CoverDisorder(Outstanding, array')
    BY <1>1 DEF SortInv, RangesInv, DisorderIsOutstanding
  <2> HIDE DEF c
  <2>3. QED BY <1>1, <1>2, <1>4, <1>7, <2>1, <2>2, FirstRangeGoes DEF SortInv
<1>11. PartitionsUndisturbed'
  <2> HIDE DEF c
  <2>1. QED BY <1>1, <1>4, <1>8 DEF SortInv, PartitionsUndisturbed, OneCall, Partitioning
<1>12. QED BY <1>7, <1>10, <1>11 DEF SortInv

\* hoare_partition moves an index, or exchanges two elements.
LEMMA FrameStep ==
  ASSUME SortInv, NEW t \in Threads, ~Idle(t), InPartition(calls[Current(t)]),
         UNCHANGED <<deferred, running>>,
         NEW g \in NatFrames, Update(t, [calls[Current(t)] EXCEPT !.frame = g]),
         g.start = calls[Current(t)].frame.start, g.end = calls[Current(t)].frame.end,
         g.pivot = calls[Current(t)].frame.pivot,
         HoareInvariant(array', g), array' \in [Index -> Value],
         CoverDisorder(Outstanding, array'),
         \A u \in Partitioning \ {Current(t)} : HoareInvariant(array', calls[u].frame)
  PROVE  SortInv'
<1> DEFINE c == Current(t)
<1>1. CallTree /\ c \in DOMAIN calls /\ calls[c] \in CallRecords /\ Consistent(calls[c])
  BY CurrentTask DEF SortInv
<1>2. g \in Frames
  <2>1. g.start \in Index /\ g.end \in Index /\ g.pivot \in Value \cup {0}
    BY <1>1 DEF CallRecords, Frames
  <2>2. Within(g.k, g) /\ Within(g.j, g)
    BY DEF HoareInvariant
  <2>3. QED BY <2>1, <2>2, NatFrameIsFrame
<1>3. OneCall(c) /\ calls'[c] = [calls[c] EXCEPT !.frame = g]
  BY <1>1, CurrentUpdated
<1>4. /\ calls'[c] \in CallRecords /\ calls'[c].at = calls[c].at
      /\ calls'[c].todo = calls[c].todo /\ calls'[c].frame = g
  BY <1>1, <1>2, <1>3 DEF CallRecords
<1>5. calls[c].at \in {"partition", "rec_partition"}
  BY DEF InPartition
<1>6. g.start = calls[c].frame.start /\ g.end = calls[c].frame.end
      /\ \A u \in Partitioning \ {c} : HoareInvariant(array', calls[u].frame)
  OBVIOUS
<1> HIDE DEF c
<1>7. CallTree'
  <2>1. Consistent(calls'[c])
    BY <1>1, <1>4, <1>5 DEF Consistent
  <2>2. QED BY <1>1, <1>3, <1>4, <1>5, <2>1, TreeStays
<1>8. NotStarted' = NotStarted /\ \A p \in NotStarted : Arguments(p)' = Arguments(p)
  BY <1>1, <1>3, <1>4, <1>5, NotStartedSame, ArgumentsSame
<1>9. Partitioning' = Partitioning
  BY <1>3, <1>4 DEF OneCall, Partitioning, InPartition
<1>10. RangesInv'
  <2>1. RangesKept
    BY <1>3, <1>4, <1>6, <1>8, <1>9 DEF RangesKept, OneCall, Partitioning
  <2>2. QED BY <1>1, <1>7, <2>1, RangesStay DEF SortInv
<1>11. PartitionsUndisturbed'
  BY <1>3, <1>4, <1>6, <1>9 DEF PartitionsUndisturbed, OneCall, Partitioning
<1>12. QED BY <1>7, <1>10, <1>11 DEF SortInv

\* What is known of the frame of a call inside hoare_partition.
LEMMA FrameKnown ==
  ASSUME SortInv, NEW c \in Partitioning
  PROVE  /\ calls[c].frame \in NatFrames /\ calls[c].frame \in Frames
         /\ calls[c].frame.start .. calls[c].frame.end \subseteq Index
         /\ array \in [Index -> Nat]
         /\ HoareInvariant(array, calls[c].frame)
         /\ CoverDisorder(Outstanding, array)
<1>1. calls[c].frame \in Frames
  BY DEF SortInv, CallTree, TypeOK, Partitioning
<1>2. calls[c].frame.start \in Index /\ calls[c].frame.end \in Index
  BY <1>1 DEF Frames
<1>3. array \in [Index -> Nat]
  BY ArrayNat DEF SortInv, CallTree, TypeOK
<1>4. QED
  BY <1>1, <1>2, <1>3, FramesAreNatFrames, IndexNat
  DEF SortInv, PartitionsUndisturbed, RangesInv, DisorderIsOutstanding

LEMMA ScanKeeps ==
  ASSUME SortInv, NEW t \in Threads, Scan(t)
  PROVE  SortInv'
<1> DEFINE c == Current(t)
           f == calls[c].frame
<1>1. ~Idle(t) /\ InPartition(calls[c]) /\ UNCHANGED <<array, deferred, running>>
  BY DEF Scan
<1>2. c \in Partitioning
  BY <1>1, CurrentTask DEF SortInv, Partitioning
<1>3. /\ f \in NatFrames /\ f.start .. f.end \subseteq Index /\ array \in [Index -> Nat]
      /\ HoareInvariant(array, f)
  BY <1>2, FrameKnown
<1>4. /\ array' \in [Index -> Value] /\ CoverDisorder(Outstanding, array')
      /\ \A u \in Partitioning \ {c} : HoareInvariant(array', calls[u].frame)
  BY <1>1 DEF SortInv, CallTree, TypeOK, RangesInv, DisorderIsOutstanding, PartitionsUndisturbed
<1>5. CASE ScansUp(array, f) /\ Update(t, [calls[c] EXCEPT !.frame = AfterScanUp(f)])
  <2>1. AfterScanUp(f).start = f.start /\ AfterScanUp(f).end = f.end /\ AfterScanUp(f).pivot = f.pivot
    BY <1>3 DEF AfterScanUp, NatFrames
  <2> HIDE DEF f
  <2>2. AfterScanUp(f) \in NatFrames /\ HoareInvariant(array, AfterScanUp(f))
    BY <1>3, <1>5, ScanUpKeeps
  <2>3. QED BY <1>1, <1>4, <1>5, <2>1, <2>2, FrameStep DEF f
<1>6. CASE ScansDown(array, f) /\ Update(t, [calls[c] EXCEPT !.frame = AfterScanDown(f)])
  <2>1. /\ AfterScanDown(f).start = f.start /\ AfterScanDown(f).end = f.end
        /\ AfterScanDown(f).pivot = f.pivot
    BY <1>3 DEF AfterScanDown, NatFrames
  <2> HIDE DEF f
  <2>2. AfterScanDown(f) \in NatFrames /\ HoareInvariant(array, AfterScanDown(f))
    BY <1>3, <1>6, ScanDownKeeps
  <2>3. QED BY <1>1, <1>4, <1>6, <2>1, <2>2, FrameStep DEF f
<1>7. QED BY <1>5, <1>6 DEF Scan

LEMMA ExchangeKeepsInv ==
  ASSUME SortInv, NEW t \in Threads, Exchange(t)
  PROVE  SortInv'
<1> DEFINE c == Current(t)
           f == calls[c].frame
           q == <<0, c>>
<1>1. /\ ~Idle(t) /\ InPartition(calls[c]) /\ UNCHANGED <<deferred, running>>
      /\ Exchanges(array, f) /\ array' = Swap(array, f.k, f.j)
      /\ Update(t, [calls[c] EXCEPT !.frame = AfterExchange(f)])
  BY DEF Exchange
<1>2. c \in Partitioning /\ c \in DOMAIN calls
  BY <1>1, CurrentTask DEF SortInv, Partitioning
<1>3. /\ f \in NatFrames /\ f.start .. f.end \subseteq Index /\ array \in [Index -> Nat]
      /\ HoareInvariant(array, f)
  BY <1>2, FrameKnown
<1>4. q \in Places /\ RangeAt(q) = SortJob(f.start, f.end)
  <2>1. PlacesAre
    BY PlaceKinds DEF SortInv
  <2>2. QED BY <1>2, <2>1 DEF PlacesAre
<1>5. /\ f.k \in Index /\ Within(f.k, RangeAt(q))
      /\ f.j \in Index /\ Within(f.j, RangeAt(q))
  <2>1. /\ f.k \in Nat /\ f.j \in Nat /\ Within(f.k, f) /\ Within(f.j, f)
        /\ f.start \in Nat /\ f.end \in Nat
    BY <1>3 DEF HoareInvariant, NatFrames
  <2>2. f.k \in f.start .. f.end /\ f.j \in f.start .. f.end
    BY <2>1 DEF Within
  <2>3. QED BY <1>3, <1>4, <2>1, <2>2 DEF Within, SortJob
<1>6. /\ array' \in [Index -> Value] /\ CoverDisorder(Outstanding, array')
      /\ \A u \in Partitioning \ {c} : HoareInvariant(array', calls[u].frame)
  <2>1. q[2] = c
    OBVIOUS
  <2> HIDE DEF q, c
  <2>2. QED BY <1>1, <1>2, <1>4, <1>5, <2>1, ExchangeInside DEF SortInv
<1>7. AfterExchange(f).start = f.start /\ AfterExchange(f).end = f.end /\ AfterExchange(f).pivot = f.pivot
  BY <1>3 DEF AfterExchange, NatFrames
<1> HIDE DEF f
<1>8. AfterExchange(f) \in NatFrames /\ HoareInvariant(array', AfterExchange(f))
  BY <1>1, <1>3, ExchangeKeeps
<1>9. QED BY <1>1, <1>6, <1>7, <1>8, FrameStep DEF f

\* A call of hoare_partition begins.
LEMMA EnterKeeps ==
  ASSUME SortInv, NEW t \in Threads, ServeLarge(t) \/ SeqPartition(t)
  PROVE  SortInv'
<1> DEFINE c == Current(t)
           todo == calls[c].todo
           r == Head(todo)
           f == HoareFrame(array, r)
           q == <<1, c>>
<1>1. CallTree /\ ~Idle(t) /\ UNCHANGED <<deferred, running>>
  BY DEF SortInv, ServeLarge, SeqPartition, Enter, At
<1>2. /\ c \in DOMAIN calls /\ calls[c] \in CallRecords /\ Consistent(calls[c])
  BY <1>1, CurrentTask
<1>3. PICK label \in {"partition", "rec_partition"} :
        /\ array' = HoareArray(array, r) /\ todo # <<>> /\ ~Trivial(r)
        /\ Update(t, [at |-> label, todo |-> Tail(todo), frame |-> f])
        /\ calls[c].at \in {"serve", "seq"}
        /\ label = "partition" => Len(todo) = 1
  <2>1. CASE ServeLarge(t)
    <3>1. calls[c].at = "serve" /\ ~Trivial(r) /\ Enter(t, "partition")
      BY <2>1 DEF ServeLarge, At, First
    <3>2. Len(todo) = 1 /\ todo # <<>>
      BY <1>2, <3>1, NotEmpty DEF Consistent
    <3>3. QED BY <3>1, <3>2 DEF Enter, First
  <2>2. CASE SeqPartition(t)
    BY <2>2 DEF SeqPartition, Enter, At, First
  <2>3. QED BY <2>1, <2>2
<1>4. /\ todo \in Seq(Jobs) /\ r \in Jobs /\ r = todo[1] /\ 1 \in 1 .. Len(todo)
      /\ Tail(todo) \in Seq(Jobs)
      /\ Len(todo) = 1 => Tail(todo) = <<>>
  BY <1>2, <1>3, FirstGone DEF CallRecords
<1>5. array \in [Index -> Value] /\ array \in [Index -> Nat]
  BY <1>1, ArrayNat DEF CallTree, TypeOK
<1>6. /\ r \in Ranges /\ r.start \in Index /\ r.end \in Index /\ r.start < r.end
      /\ r.start .. r.end \subseteq Index
  <2>1. r \in Ranges /\ r.start \in Index /\ r.end \in Index
    BY <1>4, JobsAreRanges DEF Jobs
  <2>2. r.start \in Nat /\ r.end \in Nat /\ ~(r.start >= r.end)
    BY <1>3, <2>1, IndexNat DEF Trivial
  <2> HIDE DEF r
  <2>3. r.start < r.end
    BY <2>2
  <2>4. QED BY <2>1, <2>3, IndexNat
<1>7. q \in Places /\ RangeAt(q) = r /\ q[2] = c
  <2>1. PlacesAre
    BY <1>1, PlaceKinds
  <2>2. QED BY <1>2, <1>4, <2>1 DEF PlacesAre
<1>8. /\ Middle(r) \in Index /\ Within(Middle(r), r) /\ Within(r.end, r)
  <2>1. Middle(r) \in Nat /\ Within(Middle(r), r)
    BY <1>6, MiddleWithin
  <2>2. r.start \in Nat /\ r.end \in Nat
    BY <1>6 DEF Ranges
  <2>3. QED BY <1>6, <2>1, <2>2 DEF Within
<1>9. /\ array' \in [Index -> Value] /\ CoverDisorder(Outstanding, array')
      /\ \A u \in Partitioning \ {c} : HoareInvariant(array', calls[u].frame)
  <2> HIDE DEF r, q, c
  <2>1. array' = Swap(array, r.end, Middle(r))
    BY <1>3 DEF HoareArray
  <2>2. QED BY <1>2, <1>6, <1>7, <1>8, <2>1, ExchangeInside DEF SortInv
<1> HIDE DEF r, q
<1>10. f \in NatFrames /\ HoareInvariant(array', f)
  BY <1>3, <1>5, <1>6, HoareEntry
<1>11. f.start = r.start /\ f.end = r.end /\ f.pivot = array[Middle(r)]
  BY DEF HoareFrame
<1> HIDE DEF f
<1>12. f \in Frames
  <2>1. f.start \in Index /\ f.end \in Index /\ f.pivot \in Value \cup {0}
    BY <1>5, <1>6, <1>8, <1>11
  <2>2. Within(f.k, f) /\ Within(f.j, f)
    BY <1>10 DEF HoareInvariant
  <2>3. QED BY <1>10, <2>1, <2>2, NatFrameIsFrame
<1>13. /\ OneCall(c) /\ calls'[c] = [at |-> label, todo |-> Tail(todo), frame |-> f]
  BY <1>1, <1>3, CurrentUpdated
<1>14. /\ calls'[c] \in CallRecords /\ calls'[c].at = label
       /\ calls'[c].todo = Tail(todo) /\ calls'[c].frame = f
  <2>1. PICK rest : rest = Tail(todo)
    OBVIOUS
  <2>2. rest \in Seq(Jobs) /\ calls'[c] = [at |-> label, todo |-> rest, frame |-> f]
    BY <1>4, <1>13, <2>1
  <2> HIDE DEF todo, c
  <2>3. QED BY <1>3, <1>12, <2>1, <2>2 DEF CallRecords, Labels
<1>15. /\ ~InPartition(calls[c]) /\ InPartition(calls'[c])
  BY <1>3, <1>14 DEF InPartition
<1>16. NotStarted' = NotStarted /\ \A p \in NotStarted : Arguments(p)' = Arguments(p)
  <2> HIDE DEF c
  <2>1. ~Creating(calls[c]) /\ ~Creating(calls'[c]) /\ calls[c].at \notin {"left", "right", "wait"}
    BY <1>3, <1>14 DEF Creating
  <2>2. QED BY <1>1, <1>2, <1>13, <2>1, NotStartedSame, ArgumentsSame
<1>17. FirstGoes(c)
  <2>1. SortJob(calls'[c].frame.start, calls'[c].frame.end) = Head(todo)
    BY <1>6, <1>11, <1>14 DEF SortJob, Ranges, r
  <2>2. QED BY <1>3, <1>14, <1>15, <1>16, <2>1 DEF FirstGoes
<1>18. Consistent(calls'[c]) /\ calls[c].at \notin {"right", "wait"}
  BY <1>3, <1>4, <1>14 DEF Consistent
<1> HIDE DEF c
<1>19. CallTree'
  BY <1>1, <1>2, <1>9, <1>13, <1>14, <1>18, TreeStays
<1>20. RangesInv'
  BY <1>1, <1>2, <1>9, <1>13, <1>17, <1>19, FirstRangeGoes DEF SortInv
<1>21. PartitionsUndisturbed'
  BY <1>9, <1>10, <1>13, <1>14 DEF PartitionsUndisturbed, OneCall, Partitioning
<1>22. QED BY <1>19, <1>20, <1>21 DEF SortInv

\* It returns: to task_serve, or to quicksort_rec_seq.
LEMMA ReturnKeeps ==
  ASSUME SortInv, NEW t \in Threads, Return(t) \/ RecReturn(t)
  PROVE  SortInv'
<1> DEFINE c == Current(t)
           f == calls[c].frame
           todo == calls[c].todo
           halves == [at |-> "seq", frame |-> NoFrame, todo |-> <<LeftOf(f), RightOf(f)>> \o todo]
<1>1. /\ CallTree /\ ~Idle(t) /\ UNCHANGED <<array, deferred, running>>
      /\ calls[c].at \in {"partition", "rec_partition"} /\ Returns(array, f)
  BY DEF SortInv, Return, RecReturn, At
<1>2. /\ c \in DOMAIN calls /\ calls[c] \in CallRecords /\ Consistent(calls[c])
  BY <1>1, CurrentTask
<1>3. c \in Partitioning
  BY <1>1, <1>2 DEF Partitioning, InPartition
<1>4. /\ f \in NatFrames /\ f \in Frames /\ f.start .. f.end \subseteq Index
      /\ array \in [Index -> Nat] /\ HoareInvariant(array, f)
  BY <1>3, FrameKnown
<1>5. SplitsRange(f)
  <2> HIDE DEF f
  <2>1. QED BY <1>1, <1>4, ReturnSplits DEF SplitsRange
<1>6. LeftOf(f) \in Jobs /\ RightOf(f) \in Jobs
  <2> HIDE DEF f
  <2>1. QED BY <1>4, <1>5, HalvesAreJobs DEF SplitsRange
<1>7. \/ /\ calls[c].at = "partition"
         /\ Update(t, [calls[c] EXCEPT !.at = "left"])
      \/ /\ calls[c].at = "rec_partition"
         /\ Update(t, halves)
  BY DEF Return, RecReturn, At, Goto
<1>8. /\ OneCall(c)
      /\ \/ /\ calls[c].at = "partition"
            /\ calls'[c] = [calls[c] EXCEPT !.at = "left"]
         \/ /\ calls[c].at = "rec_partition"
            /\ calls'[c] = halves
  BY <1>1, <1>7, CurrentUpdated
<1>9. \/ /\ calls[c].at = "partition" /\ calls'[c].at = "left"
         /\ calls'[c].todo = todo /\ calls'[c].frame = f /\ todo = <<>>
      \/ /\ calls[c].at = "rec_partition" /\ calls'[c].at = "seq"
         /\ calls'[c].todo = <<LeftOf(f), RightOf(f)>> \o todo
  BY <1>2, <1>8 DEF CallRecords, Consistent
<1>10. calls'[c] \in CallRecords
  <2>1. CASE calls'[c] = [calls[c] EXCEPT !.at = "left"]
    BY <1>2, <2>1 DEF CallRecords, Labels
  <2>2. CASE calls'[c] = halves
    <3>1. PICK more : more = <<LeftOf(f), RightOf(f)>> \o todo
      OBVIOUS
    <3>2. todo \in Seq(Jobs)
      BY <1>2 DEF CallRecords
    <3>3. calls'[c] = [at |-> "seq", frame |-> NoFrame, todo |-> more]
      BY <2>2, <3>1
    <3> HIDE DEF c, f, todo, halves
    <3>4. more \in Seq(Jobs)
      BY <1>6, <3>1, <3>2, TwoMoreInFront
    <3>5. QED BY <3>3, <3>4, NoFrameType DEF CallRecords, Labels
  <2>3. QED BY <1>8, <2>1, <2>2
<1>11. CallTree'
  <2>1. Consistent(calls'[c])
    BY <1>5, <1>9 DEF Consistent, SplitsRange
  <2>2. array' \in [Index -> Value] /\ calls[c].at \notin {"right", "wait"}
    BY <1>1 DEF CallTree, TypeOK
  <2> HIDE DEF c
  <2>3. QED BY <1>1, <1>2, <1>8, <1>10, <2>1, <2>2, TreeStays
<1>12. RangesInv'
  <2>1. CASE calls[c].at = "partition"
    <3>1. /\ calls'[c].at = "left"
          /\ calls'[c].todo = calls[c].todo /\ calls'[c].frame = calls[c].frame
          /\ SplitsRange(calls[c].frame)
      BY <1>5, <1>9, <2>1
    <3> HIDE DEF c
    <3>2. QED BY <1>1, <1>2, <1>8, <1>11, <2>1, <3>1, HalvesBecomeTasks DEF SortInv
  <2>2. CASE calls[c].at = "rec_partition"
    <3>1. /\ calls'[c].at = "seq"
          /\ calls'[c].todo = <<LeftOf(calls[c].frame), RightOf(calls[c].frame)>> \o calls[c].todo
          /\ SplitsRange(calls[c].frame)
      BY <1>5, <1>9, <2>2
    <3> HIDE DEF c
    <3>2. QED BY <1>1, <1>2, <1>8, <1>11, <2>2, <3>1, HalvesBecomePending DEF SortInv
  <2>3. QED BY <1>1, <2>1, <2>2
<1>13. PartitionsUndisturbed'
  <2>1. ~InPartition(calls'[c])
    BY <1>9 DEF InPartition
  <2> HIDE DEF c
  <2>2. QED BY <1>1, <1>8, <2>1 DEF SortInv, PartitionsUndisturbed, OneCall, Partitioning
<1>14. QED BY <1>11, <1>12, <1>13 DEF SortInv

\* A call that has not created a task has no such task.
LEMMA NotYetCreated ==
  ASSUME CallTree, NEW c \in DOMAIN calls
  PROVE  /\ c \in Tasks
         /\ calls[c].at \notin {"right", "wait"} => LeftTask(c) \notin Unfinished
         /\ calls[c].at # "wait" => RightTask(c) \notin Unfinished
<1>1. c \in Tasks
  BY DEF CallTree, TypeOK, Unfinished, Tasks
<1>2. /\ Parent(LeftTask(c)) = c /\ LeftTask(c) # <<>>
      /\ Parent(RightTask(c)) = c /\ RightTask(c) # <<>>
  BY <1>1, ChildTasks
<1>3. QED BY <1>1, <1>2 DEF CallTree, ParentsWait

\* A thread begins a task, and the tree grows by its call.
LEMMA TreeGrows ==
  ASSUME CallTree, NEW t \in Threads, NEW p \in NotStarted, p \notin DOMAIN calls,
         array' = array, deferred' = deferred \ {p}, DOMAIN calls' = DOMAIN calls \cup {p},
         calls'[p] = Call(Arguments(p)),
         \A u \in DOMAIN calls : calls'[u] \in CallRecords /\ Consistent(calls'[u]),
         running' = [running EXCEPT ![t] = Append(@, p)], ParentsWait'
  PROVE  CallTree'
<1>1. p \in Tasks /\ Arguments(p) \in Jobs
  BY NotStartedParent, ArgumentsAreJobs
<1>2. Call(Arguments(p)) \in CallRecords /\ Consistent(Call(Arguments(p)))
  <2>1. PICK r \in Jobs : r = Arguments(p)
    BY <1>1
  <2>2. <<r>> \in Seq(Jobs) /\ Len(<<r>>) = 1
    OBVIOUS
  <2>3. QED BY <2>1, <2>2, NoFrameType DEF Call, CallRecords, Labels, Consistent
<1>3. Owned' /\ DOMAIN running' = Threads
  BY OwnedGrows
<1>4. TypeOK'
  <2>1. \A u \in DOMAIN calls' : calls'[u] \in CallRecords
    BY <1>2
  <2>2. \A u \in Unfinished' : u \in Seq({1, 2})
    BY <1>1 DEF CallTree, TypeOK, Unfinished, Tasks
  <2>3. deferred' \cap DOMAIN calls' = {} /\ array' \in [Index -> Value]
    BY DEF CallTree, TypeOK
  <2>4. QED BY <1>3, <2>1, <2>2, <2>3 DEF TypeOK, Owned, CallRecords
<1>5. CallsInv'
  BY <1>2 DEF CallsInv
<1>6. QED BY <1>3, <1>4, <1>5 DEF CallTree

\* A task scheduling point.
LEMMA StartKeeps ==
  ASSUME SortInv, NEW t \in Threads, Start(t)
  PROVE  SortInv'
<1>1. PICK p \in deferred : Begin(t, p) /\ deferred' = deferred \ {p} /\ array' = array
  BY DEF Start
<1>2. CallTree /\ p \in NotStarted /\ p \notin DOMAIN calls /\ p \in Unfinished
  BY DEF SortInv, CallTree, TypeOK, NotStarted, Unfinished
<1>3. /\ DOMAIN calls' = DOMAIN calls \cup {p} /\ calls'[p] = Call(Arguments(p))
      /\ \A u \in DOMAIN calls : calls'[u] = calls[u]
      /\ running' = [running EXCEPT ![t] = Append(@, p)]
  BY <1>1, <1>2 DEF Begin, With
<1>4. \A u \in DOMAIN calls : calls'[u] \in CallRecords /\ Consistent(calls'[u])
  BY <1>2, <1>3 DEF CallTree, TypeOK, CallRecords, CallsInv
<1>5. ParentsWait'
  BY <1>1, <1>2, <1>3 DEF CallTree, ParentsWait, Unfinished
<1>6. CallTree'
  BY <1>1, <1>2, <1>3, <1>4, <1>5, TreeGrows
<1>7. Created' = Created /\ HalfCreated' = HalfCreated /\ Partitioning' = Partitioning
  BY <1>2, <1>3 DEF Created, HalfCreated, Partitioning, InPartition, Call
<1>8. NotStarted' = NotStarted \ {p}
  <2>1. \A c \in Created : LeftTask(c) # p
    BY <1>2, NotYetCreated DEF Created
  <2>2. \A c \in HalfCreated : RightTask(c) # p
    BY <1>2, NotYetCreated DEF HalfCreated
  <2>3. QED BY <1>1, <1>7, <2>1, <2>2 DEF NotStarted
<1>9. Begins(p)
  BY <1>2, <1>3, <1>8 DEF Begins
<1>10. RangesInv'
  BY <1>1, <1>2, <1>6, <1>9, RangeBegins DEF SortInv
<1>11. PartitionsUndisturbed'
  BY <1>1, <1>3, <1>7 DEF SortInv, PartitionsUndisturbed, Partitioning
<1>12. QED BY <1>6, <1>10, <1>11 DEF SortInv

\* A task construct.
LEMMA CreateKeeps ==
  ASSUME SortInv, NEW t \in Threads, CreateLeft(t) \/ CreateRight(t)
  PROVE  SortInv'
<1> DEFINE c == Current(t)
<1>1. CallTree /\ ~Idle(t) /\ array' = array
  BY DEF SortInv, CreateLeft, CreateRight, At
<1>2. /\ c \in DOMAIN calls /\ calls[c] \in CallRecords /\ Consistent(calls[c])
  BY <1>1, CurrentTask
<1>3. PICK p, label :
        /\ \/ calls[c].at = "left" /\ p = LeftTask(c) /\ label = "right"
           \/ calls[c].at = "right" /\ p = RightTask(c) /\ label = "wait"
        /\ Defer(t, p, label) \/ Undefer(t, p, label)
  BY DEF CreateLeft, CreateRight, At
<1> DEFINE moved == [calls EXCEPT ![c].at = label]
<1>4. /\ c \in Tasks /\ p \in Tasks /\ p # <<>> /\ Parent(p) = c
      /\ LeftTask(c) # RightTask(c) /\ p \notin Unfinished
  BY <1>1, <1>2, <1>3, NotYetCreated, ChildTasks
<1>5. /\ DOMAIN moved = DOMAIN calls
      /\ \A u \in DOMAIN calls \ {c} : moved[u] = calls[u]
      /\ moved[c] \in CallRecords /\ moved[c].at = label
      /\ moved[c].todo = calls[c].todo /\ moved[c].frame = calls[c].frame
  BY <1>2, <1>3 DEF CallRecords, Labels
<1>6. p \notin deferred /\ p \notin DOMAIN calls /\ p \in NotStarted
  BY <1>2, <1>3, <1>4 DEF Unfinished, NotStarted, Created, HalfCreated
<1>7. \/ calls' = moved /\ deferred' = deferred \cup {p} /\ running' = running
      \/ /\ calls' = With(moved, p, Call(Arguments(p)))
         /\ running' = [running EXCEPT ![t] = Append(@, p)]
         /\ deferred' = deferred
  BY <1>3 DEF Defer, Undefer, Goto, Update
<1> HIDE DEF moved, c
<1>8. \/ DOMAIN calls' = DOMAIN calls
      \/ DOMAIN calls' = DOMAIN calls \cup {p} /\ calls'[p] = Call(Arguments(p))
  BY <1>5, <1>7 DEF With
<1>9. \A u \in DOMAIN calls : calls'[u] = moved[u]
  BY <1>5, <1>6, <1>7 DEF With
<1>10. \A u \in DOMAIN calls : calls'[u] \in CallRecords /\ Consistent(calls'[u])
  <2>1. calls'[c] \in CallRecords /\ Consistent(calls'[c])
    BY <1>2, <1>3, <1>5, <1>9 DEF Consistent
  <2>2. \A u \in DOMAIN calls \ {c} : calls'[u] = calls[u]
    BY <1>5, <1>9
  <2>3. QED BY <1>1, <2>1, <2>2 DEF CallTree, TypeOK, CallRecords, CallsInv
<1>11. Unfinished' = Unfinished \cup {p} /\ DOMAIN calls \subseteq DOMAIN calls'
  BY <1>5, <1>7, <1>8 DEF Unfinished, With
<1>12. ParentsWait'
  <2> SUFFICES ASSUME NEW q \in Unfinished', q # <<>>
               PROVE  /\ Parent(q) \in DOMAIN calls'
                      /\ calls'[Parent(q)].at \in {"right", "wait"}
                      /\ q = RightTask(Parent(q)) => calls'[Parent(q)].at = "wait"
    BY DEF ParentsWait
  <2>1. CASE q = p
    BY <1>2, <1>3, <1>4, <1>5, <1>9, <1>11, <2>1
  <2>2. CASE q \in Unfinished
    <3>1. /\ Parent(q) \in DOMAIN calls /\ calls[Parent(q)].at \in {"right", "wait"}
          /\ q = RightTask(Parent(q)) => calls[Parent(q)].at = "wait"
      BY <1>1, <2>2 DEF CallTree, ParentsWait
    <3>2. CASE Parent(q) = c
      BY <1>2, <1>3, <1>5, <1>9, <1>11, <3>1, <3>2
    <3>3. CASE Parent(q) # c
      BY <1>5, <1>9, <1>11, <3>1, <3>3
    <3>4. QED BY <3>2, <3>3
  <2>3. QED BY <1>11, <2>1, <2>2
<1>13. CASE calls' = moved /\ deferred' = deferred \cup {p} /\ running' = running
  <2>1. CallTree'
    <3>1. TypeOK' /\ DOMAIN running' = Threads
      <4>1. \A u \in Unfinished' : u \in Seq({1, 2})
        BY <1>1, <1>4, <1>11 DEF CallTree, TypeOK, Tasks
      <4>2. DOMAIN calls' = DOMAIN calls /\ deferred' \cap DOMAIN calls' = {}
        BY <1>1, <1>5, <1>6, <1>13 DEF CallTree, TypeOK
      <4>3. QED BY <1>1, <1>10, <1>13, <4>1, <4>2 DEF CallTree, TypeOK, CallRecords
    <3>2. CallsInv'
      BY <1>5, <1>10, <1>13 DEF CallsInv
    <3>3. QED BY <1>12, <3>1, <3>2 DEF CallTree
  <2>2. NotStarted' = NotStarted
    <3>1. /\ Created' = IF label = "right" THEN Created \ {c} ELSE Created
          /\ HalfCreated' = IF label = "right" THEN HalfCreated ELSE HalfCreated \ {c}
      BY <1>2, <1>3, <1>5, <1>13 DEF Created, HalfCreated
    <3>2. IF label = "right" THEN c \in Created /\ p = LeftTask(c)
                             ELSE c \in HalfCreated /\ p = RightTask(c)
      BY <1>2, <1>3 DEF Created, HalfCreated
    <3>3. QED BY <1>13, <3>1, <3>2 DEF NotStarted
  <2>3. Partitioning' = Partitioning /\ c \notin Partitioning
    BY <1>3, <1>5, <1>13 DEF Partitioning, InPartition
  <2>4. RangesKept
    <3>1. \A q \in NotStarted : Arguments(q)' = Arguments(q)
      BY <1>1, <1>5, <1>13, NotStartedParent, ArgumentsKept
    <3>2. QED BY <1>5, <1>13, <2>2, <2>3, <3>1 DEF RangesKept, Partitioning
  <2>5. CoverDisorder(Outstanding, array')
    BY <1>1 DEF SortInv, RangesInv, DisorderIsOutstanding
  <2>6. RangesInv'
    BY <1>1, <2>1, <2>4, <2>5, RangesStay DEF SortInv
  <2>7. PartitionsUndisturbed'
    BY <1>1, <1>5, <1>13, <2>3 DEF SortInv, PartitionsUndisturbed, Partitioning
  <2>8. QED BY <2>1, <2>6, <2>7 DEF SortInv
<1>14. CASE /\ calls' = With(moved, p, Call(Arguments(p)))
            /\ running' = [running EXCEPT ![t] = Append(@, p)]
            /\ deferred' = deferred
  <2>1. DOMAIN calls' = DOMAIN calls \cup {p} /\ calls'[p] = Call(Arguments(p))
    BY <1>5, <1>14 DEF With
  <2>2. CallTree'
    BY <1>1, <1>6, <1>10, <1>12, <1>14, <2>1, TreeGrows
  <2>3. NotStarted' = NotStarted \ {p}
    <3>1. /\ Created' = IF label = "right" THEN Created \ {c} ELSE Created
          /\ HalfCreated' = IF label = "right" THEN HalfCreated ELSE HalfCreated \ {c}
      BY <1>2, <1>3, <1>5, <1>6, <1>9, <2>1 DEF Created, HalfCreated, Call
    <3>2. IF label = "right" THEN c \in Created /\ p = LeftTask(c)
                             ELSE c \in HalfCreated /\ p = RightTask(c)
      BY <1>2, <1>3 DEF Created, HalfCreated
    <3>3. \A u \in DOMAIN calls \ {c} : LeftTask(u) # p /\ RightTask(u) # p
      BY <1>1, <1>4, NotYetCreated, ChildTasks
    <3>4. NotStarted' = deferred \cup {LeftTask(u) : u \in Created'} \cup {RightTask(u) : u \in HalfCreated'}
      BY <1>14 DEF NotStarted
    <3>5. Created \subseteq DOMAIN calls /\ HalfCreated \subseteq DOMAIN calls
      BY DEF Created, HalfCreated
    <3>6. CASE label = "right"
      BY <1>4, <1>6, <3>1, <3>2, <3>3, <3>4, <3>5, <3>6 DEF NotStarted
    <3>7. CASE label # "right"
      <4>1. c \notin Created
        BY <1>3, <3>7 DEF Created
      <4>2. QED BY <1>4, <1>6, <3>1, <3>2, <3>3, <3>4, <3>5, <3>7, <4>1 DEF NotStarted
    <3>8. QED BY <3>6, <3>7
  <2>4. \A u \in DOMAIN calls : /\ calls'[u].todo = calls[u].todo
                                /\ calls'[u].frame = calls[u].frame
                                /\ InPartition(calls'[u]) <=> InPartition(calls[u])
    BY <1>3, <1>5, <1>9 DEF InPartition
  <2>5. RangesInv'
    <3>1. Begins(p)
      BY <1>6, <2>1, <2>3, <2>4 DEF Begins
    <3>2. QED BY <1>1, <2>2, <3>1, RangeBegins DEF SortInv
  <2>6. PartitionsUndisturbed'
    <3>1. Partitioning' = Partitioning
      BY <2>1, <2>4 DEF Partitioning, InPartition, Call
    <3>2. QED BY <1>1, <2>4, <3>1 DEF SortInv, PartitionsUndisturbed, Partitioning
  <2>7. QED BY <2>2, <2>5, <2>6 DEF SortInv
<1>15. QED BY <1>7, <1>13, <1>14

\* A call returns, and its task is finished.
LEMMA FinishKeeps ==
  ASSUME SortInv, NEW t \in Threads, Finish(t)
  PROVE  SortInv'
<1> DEFINE c == Current(t)
<1>1. /\ CallTree /\ ~Idle(t) /\ array' = array /\ deferred' = deferred
      /\ calls[c].at = "return"
      /\ calls' = Restrict(calls, DOMAIN calls \ {c})
      /\ running' = [running EXCEPT ![t] = Front(@)]
  BY DEF SortInv, Finish, At
<1>2. c \in DOMAIN calls /\ calls[c].todo = <<>>
  BY <1>1, CurrentTask DEF Consistent
<1>3. /\ DOMAIN calls' = DOMAIN calls \ {c}
      /\ \A u \in DOMAIN calls' : calls'[u] = calls[u]
  BY <1>1 DEF Restrict
<1>4. Owned' /\ DOMAIN running' = Threads
  BY <1>1, <1>3, OwnedShrinks
<1> HIDE DEF c
<1>5. CallTree'
  <2>1. TypeOK'
    <3>1. /\ array' \in [Index -> Value] /\ deferred' \cap DOMAIN calls' = {}
          /\ \A u \in Unfinished' : u \in Seq({1, 2})
          /\ \A u \in DOMAIN calls' : calls'[u] \in CallRecords
      BY <1>1, <1>3 DEF CallTree, TypeOK, Unfinished, CallRecords
    <3>2. QED BY <1>4, <3>1 DEF TypeOK, Owned, CallRecords
  <2>2. CallsInv'
    BY <1>1, <1>3 DEF CallTree, CallsInv
  <2>3. ParentsWait'
    BY <1>1, <1>3 DEF CallTree, ParentsWait, Unfinished
  <2>4. QED BY <1>4, <2>1, <2>2, <2>3 DEF CallTree
<1>6. Created' = Created /\ HalfCreated' = HalfCreated /\ Partitioning' = Partitioning
  BY <1>1, <1>3 DEF Created, HalfCreated, Partitioning, InPartition
<1>7. RangesInv'
  <2>1. \A p \in NotStarted : Arguments(p)' = Arguments(p)
    BY <1>1, <1>3, NotStartedParent, ArgumentsKept
  <2>2. NotStarted' = NotStarted
    BY <1>1, <1>6 DEF NotStarted
  <2>3. RangesKept
    <3>1. Partitioning \subseteq DOMAIN calls'
      BY <1>6 DEF Partitioning
    <3>2. QED BY <1>2, <1>3, <1>6, <2>1, <2>2, <3>1 DEF RangesKept
  <2>4. CoverDisorder(Outstanding, array')
    BY <1>1 DEF SortInv, RangesInv, DisorderIsOutstanding
  <2>5. QED BY <1>1, <1>5, <2>3, <2>4, RangesStay DEF SortInv
<1>8. PartitionsUndisturbed'
  BY <1>1, <1>3, <1>6 DEF SortInv, PartitionsUndisturbed, Partitioning
<1>9. QED BY <1>5, <1>7, <1>8 DEF SortInv

(***************************************************************************)
(* The invariant.                                                          *)
(***************************************************************************)

\* The first task has the whole array.
LEMMA SortInvInit == Init => SortInv
<1> SUFFICES ASSUME Init
             PROVE  SortInv
  OBVIOUS
<1> DEFINE q == <<-1, <<>>>>
<1>1. /\ array \in [Index -> Value] /\ deferred = {<<>>} /\ calls = <<>>
      /\ running = [t \in Threads |-> <<>>] /\ DOMAIN calls = {}
  BY DEF Init
<1>2. Unfinished = {<<>>} /\ Partitioning = {} /\ NotStarted = {<<>>}
  BY <1>1 DEF Unfinished, Partitioning, NotStarted, Created, HalfCreated
<1>3. TypeOK
  <2>1. \A t \in Threads : running[t] \in Seq(DOMAIN calls) /\ IsInjective(running[t])
    <3>1. <<>> \in Seq(DOMAIN calls) /\ DOMAIN <<>> = {}
      BY EmptySeq
    <3>2. QED BY <1>1, <3>1 DEF IsInjective
  <2>2. <<>> \in Seq({1, 2})
    BY EmptySeq
  <2>3. QED BY <1>1, <1>2, <2>1, <2>2 DEF TypeOK
<1>4. CallTree
  BY <1>1, <1>2, <1>3 DEF CallTree, ParentsWait, CallsInv
<1>5. Places = {q} /\ RangeAt(q) = SortJob(0, N - 1)
  <2>1. PlacesAre
    BY <1>4, PlaceKinds
  <2>2. Dec(N) = N - 1 /\ Arguments(<<>>) = SortJob(0, Dec(N))
    BY TeamAssumption DEF Dec, Arguments
  <2>3. q \in Places /\ RangeAt(q) = SortJob(0, N - 1)
    BY <1>2, <2>1, <2>2 DEF PlacesAre
  <2>4. \A u \in Places : u = q
    BY <1>1, <1>2, <2>1 DEF PlacesAre
  <2>5. QED BY <2>3, <2>4
<1>6. ExclusiveRanges
  BY <1>5 DEF ExclusiveRanges, PairwiseApart, Outstanding
<1>7. DisorderIsOutstanding
  <2> HIDE DEF q
  <2>1. \A i \in Index : Within(i, SortJob(0, N - 1))
    BY TeamAssumption DEF Within, SortJob, Index
  <2>2. \A i \in Index : Within(i, Outstanding[q]) /\ q \in DOMAIN Outstanding
    BY <1>5, <2>1 DEF Outstanding
  <2>3. DOMAIN array = Index
    BY <1>1
  <2>4. QED BY <2>2, <2>3 DEF DisorderIsOutstanding, CoverDisorder
<1>8. PartitionsUndisturbed
  BY <1>2 DEF PartitionsUndisturbed
<1>9. QED BY <1>4, <1>6, <1>7, <1>8 DEF SortInv, RangesInv

\* A step of nobody.
LEMMA StutterKeeps ==
  ASSUME SortInv, UNCHANGED vars
  PROVE  SortInv'
<1>1. array' = array /\ deferred' = deferred /\ calls' = calls /\ running' = running
  BY DEF vars
<1>2. Unfinished' = Unfinished /\ Partitioning' = Partitioning /\ NotStarted' = NotStarted
  BY <1>1 DEF Unfinished, Partitioning, NotStarted, Created, HalfCreated
<1>3. Places' = Places
  BY <1>1, <1>2 DEF Places
<1>4. \A q : RangeAt(q)' = RangeAt(q)
  BY <1>1 DEF RangeAt, Arguments
<1>5. Outstanding' = Outstanding
  BY <1>3, <1>4 DEF Outstanding
<1>6. TypeOK'
  BY <1>1, <1>2 DEF SortInv, CallTree, TypeOK
<1>7. CallTree'
  BY <1>1, <1>2, <1>6 DEF SortInv, CallTree, ParentsWait, CallsInv
<1>8. RangesInv'
  BY <1>1, <1>5 DEF SortInv, RangesInv, ExclusiveRanges, DisorderIsOutstanding
<1>9. PartitionsUndisturbed'
  BY <1>1, <1>2 DEF SortInv, PartitionsUndisturbed
<1>10. QED BY <1>7, <1>8, <1>9 DEF SortInv

LEMMA SortInvStep == SortInv /\ [Next]_vars => SortInv'
<1> SUFFICES ASSUME SortInv, [Next]_vars
             PROVE  SortInv'
  OBVIOUS
<1>1. CASE Stutter \/ UNCHANGED vars
  BY <1>1, StutterKeeps DEF Stutter
<1>2. ASSUME NEW t \in Threads, Step(t)
      PROVE  SortInv'
  <2>1. CASE Start(t)
    BY <2>1, StartKeeps
  <2>2. CASE ServeTrivial(t) \/ SeqReturn(t)
    BY <2>2, TrivialKeeps
  <2>3. CASE ServeSmall(t) \/ SeqDone(t) \/ TaskWait(t)
    BY <2>3, QuietKeeps
  <2>4. CASE ServeLarge(t) \/ SeqPartition(t)
    BY <2>4, EnterKeeps
  <2>5. CASE Scan(t)
    BY <2>5, ScanKeeps
  <2>6. CASE Exchange(t)
    BY <2>6, ExchangeKeepsInv
  <2>7. CASE Return(t) \/ RecReturn(t)
    BY <2>7, ReturnKeeps
  <2>8. CASE CreateLeft(t) \/ CreateRight(t)
    BY <2>8, CreateKeeps
  <2>9. CASE Finish(t)
    BY <2>9, FinishKeeps
  <2>10. QED BY <1>2, <2>1, <2>2, <2>3, <2>4, <2>5, <2>6, <2>7, <2>8, <2>9 DEF Step
<1>3. QED BY <1>1, <1>2 DEF Next

LEMMA SortInvCorrect == Spec => []SortInv
BY SortInvInit, SortInvStep, PTL DEF Spec

(***************************************************************************)
(* The theorems.                                                           *)
(***************************************************************************)

\* Every variable keeps its type: no index of hoare_partition and no bound of a range
\* wraps around, and every task under way is on the stack of one thread.
THEOREM TypeCorrect == Spec => []TypeOK
<1>1. SortInv => TypeOK
  BY DEF SortInv, CallTree
<1>2. QED BY <1>1, SortInvCorrect, PTL

\* A task that is put off always finds the record of the call that created it, which
\* waits for its tasks.
THEOREM FramesAreThere == Spec => []FramesOutliveTasks
<1>1. SortInv => FramesOutliveTasks
  BY DEF SortInv, CallTree, ParentsWait, Unfinished, FramesOutliveTasks
<1>2. QED BY <1>1, SortInvCorrect, PTL

\* The ranges of the tasks and of the calls under way never overlap.
THEOREM RangesNeverOverlap == Spec => []ExclusiveRanges
<1>1. SortInv => ExclusiveRanges
  BY DEF SortInv, RangesInv
<1>2. QED BY <1>1, SortInvCorrect, PTL

\* Two elements in the wrong order always lie in one range still to be sorted.
THEOREM DisorderNeverForgotten == Spec => []DisorderIsOutstanding
<1>1. SortInv => DisorderIsOutstanding
  BY DEF SortInv, RangesInv
<1>2. QED BY <1>1, SortInvCorrect, PTL

\* A step changes the array by exchanging two elements, in a partition, or not at all.
LEMMA ArrayStep ==
  ASSUME SortInv, [Next]_vars
  PROVE  \/ array' = array
         \/ ~Returned /\ ~Returned' /\ \E x, y \in Index : array' = Swap(array, x, y)
<1>1. ASSUME NEW t \in Threads, Exchange(t)
      PROVE  ~Returned /\ ~Returned' /\ \E x, y \in Index : array' = Swap(array, x, y)
  <2> DEFINE c == Current(t)
             f == calls[c].frame
  <2>1. /\ ~Idle(t) /\ InPartition(calls[c]) /\ DOMAIN calls' = DOMAIN calls
        /\ array' = Swap(array, f.k, f.j)
    BY <1>1 DEF Exchange, Update
  <2>2. c \in DOMAIN calls /\ c \in Partitioning
    BY <2>1, CurrentTask DEF SortInv, Partitioning
  <2>3. f.k \in Index /\ f.j \in Index
    BY <2>2, FrameKnown DEF Frames
  <2>4. ~Returned /\ ~Returned'
    BY <2>1, <2>2 DEF Returned, Unfinished
  <2>5. QED BY <2>1, <2>3, <2>4
<1>2. ASSUME NEW t \in Threads, ServeLarge(t) \/ SeqPartition(t)
      PROVE  ~Returned /\ ~Returned' /\ \E x, y \in Index : array' = Swap(array, x, y)
  <2> DEFINE c == Current(t)
             r == Head(calls[c].todo)
  <2>1. /\ ~Idle(t) /\ ~Trivial(r) /\ DOMAIN calls' = DOMAIN calls
        /\ array' = Swap(array, r.end, Middle(r))
        /\ calls[c].at = "serve" \/ calls[c].todo # <<>>
    BY <1>2 DEF ServeLarge, SeqPartition, Enter, First, At, Update, HoareArray
  <2>2. c \in DOMAIN calls /\ calls[c] \in CallRecords /\ Consistent(calls[c])
    BY <2>1, CurrentTask DEF SortInv
  <2>3. calls[c].todo # <<>>
    BY <2>1, <2>2, NotEmpty DEF Consistent
  <2>4. r \in Jobs
    BY <2>2, <2>3, FirstGone DEF CallRecords
  <2>5. r \in Ranges /\ r.start \in Index /\ r.end \in Index
    BY <2>4, JobsAreRanges DEF Jobs
  <2>6. r.start \in Nat /\ r.end \in Nat /\ ~(r.start >= r.end)
    BY <2>1, <2>5 DEF Trivial, Ranges
  <2>7. ~Returned /\ ~Returned'
    BY <2>1, <2>2 DEF Returned, Unfinished
  <2> HIDE DEF r
  <2>8. r.start < r.end
    BY <2>6
  <2>9. Middle(r) \in Nat /\ Within(Middle(r), r)
    BY <2>5, <2>8, MiddleWithin
  <2>10. Middle(r) \in r.start .. r.end
    BY <2>6, <2>9 DEF Within
  <2>11. Middle(r) \in Index
    BY <2>5, <2>10, IndexNat
  <2>12. QED BY <2>1, <2>5, <2>7, <2>11
<1>3. ASSUME NEW t \in Threads, Step(t), array' # array
      PROVE  Exchange(t) \/ ServeLarge(t) \/ SeqPartition(t)
  BY <1>3 DEF Step, Start, ServeTrivial, ServeSmall, Scan, Return, RecReturn, CreateLeft,
              CreateRight, TaskWait, SeqReturn, SeqDone, Finish
<1>4. QED BY <1>1, <1>2, <1>3 DEF Next, Stutter, vars

\* When every task is finished nothing is left to sort.
LEMMA SortedWhenReturned ==
  ASSUME SortInv, Returned
  PROVE  Sorted(array)
<1>1. deferred = {} /\ DOMAIN calls = {}
  BY DEF Returned, Unfinished
<1>2. Places = {}
  BY <1>1 DEF Places, NotStarted, Created, HalfCreated, Partitioning
<1>3. CoverDisorder(Outstanding, array) /\ DOMAIN Outstanding = {}
  BY <1>2 DEF SortInv, RangesInv, DisorderIsOutstanding, Outstanding
<1>4. \A i, j \in DOMAIN array : i < j => ~(array[i] > array[j])
  BY <1>3 DEF CoverDisorder
<1>5. \A i \in DOMAIN array : array[i] \in Nat
  BY ArrayNat DEF SortInv, CallTree, TypeOK
<1>6. QED BY <1>4, <1>5 DEF Sorted

LEMMA ReturnedIsFinal ==
  ASSUME SortInv, Returned, [Next]_vars
  PROVE  UNCHANGED vars
<1>1. deferred = {} /\ DOMAIN calls = {}
  BY DEF Returned, Unfinished
<1>2. ASSUME NEW t \in Threads, ~Idle(t)
      PROVE  FALSE
  BY <1>1, <1>2, CurrentTask DEF SortInv
<1>3. ASSUME NEW t \in Threads, Step(t)
      PROVE  FALSE
  BY <1>1, <1>2, <1>3
  DEF Step, Start, ServeTrivial, ServeSmall, ServeLarge, Scan, Exchange, Return, RecReturn,
      CreateLeft, CreateRight, TaskWait, SeqReturn, SeqPartition, SeqDone, Finish, At
<1>4. QED BY <1>3 DEF Next, Stutter

LEMMA StepRefines ==
  ASSUME SortInv, SortInv', [Next]_vars
  PROVE  [Sort!Next]_<<array, Returned>>
<1>1. array \in [Index -> Value] /\ array' \in [Index -> Value] /\ IsFiniteSet(Index)
  BY IndexNat DEF SortInv, CallTree, TypeOK
<1>2. CASE Returned
  <2>1. UNCHANGED vars
    BY <1>2, ReturnedIsFinal
  <2>2. UNCHANGED <<array, Returned>>
    BY <2>1 DEF vars, Returned, Unfinished
  <2>3. QED BY <2>2
<1>3. CASE ~Returned /\ array' = array
  <2>1. CASE Returned'
    <3>1. Sorted(array)'
      BY <2>1, SortedWhenReturned, PTL
    <3>2. Sorted(array)
      BY <1>3, <3>1 DEF Sorted
    <3>3. Sort!Return
      BY <1>3, <2>1, <3>2 DEF Sort!Return, Sorted, Sort!Sorted
    <3>4. QED BY <3>3 DEF Sort!Next
  <2>2. CASE ~Returned'
    <3>1. Returned' = Returned
      BY <1>3, <2>2 DEF Returned
    <3>2. QED BY <1>3, <3>1
  <2>3. QED BY <2>1, <2>2
<1>4. CASE ~Returned /\ ~Returned' /\ \E x, y \in Index : array' = Swap(array, x, y)
  <2>1. SameElements(array, array')
    BY <1>1, <1>4, SwapSameElements
  <2>2. Sort!SameElements(array, array')
    <3>1. \A S : Sort!Cardinality(S) = Cardinality(S)
      BY DEF Cardinality, Sort!Cardinality
    <3>2. QED BY <2>1, <3>1 DEF SameElements, Sort!SameElements
  <2>3. Sort!Rearrange
    <3>1. array' \in Sort!Arrays
      BY <1>1 DEF Sort!Arrays, Index
    <3>2. Returned' = Returned
      BY <1>4 DEF Returned
    <3>3. QED BY <1>4, <2>2, <3>1, <3>2 DEF Sort!Rearrange
  <2>4. QED BY <2>3 DEF Sort!Next
<1>5. QED BY <1>2, <1>3, <1>4, ArrayStep

\* The call rearranges the array without losing an element, and when the region ends the
\* array is sorted.
THEOREM Refinement == Spec => ImplementsSortSpec
<1>1. Init => Sort!Init
  <2>1. Init => array \in [Index -> Value] /\ ~Returned
    BY DEF Init, Returned, Unfinished
  <2>2. QED BY <2>1 DEF Sort!Init, Sort!Arrays, Index
<1>2. SortInv /\ SortInv' /\ [Next]_vars => [Sort!Next]_<<array, Returned>>
  BY StepRefines
<1>3. QED
  BY <1>1, <1>2, SortInvCorrect, PTL DEF Spec, ImplementsSortSpec, Sort!Spec

=============================================================================
