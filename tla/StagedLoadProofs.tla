--------------------------- MODULE StagedLoadProofs ---------------------------
(***************************************************************************)
(* Proofs about StagedLoad, for any loads, clock readings and retries.     *)
(*                                                                         *)
(* What keeps the loads apart is the count in an object's name: it is the  *)
(* Staging's counter at the upload, so no name in use is ahead of it, and  *)
(* the next upload's name is new, whatever the clock reads.  That needs    *)
(* one Staging; that the bucket stays tidy needs nothing of the kind.      *)
(***************************************************************************)
EXTENDS StagedLoad, TLAPS

Named == Nat \X Nat
Jobs == [load : Loads, attempt : Nat, name : Named]
Verdicts == {"ok", "retryable", "permanent"}

\* What every variable holds.
Shape ==
    /\ stager \in [Loads -> Stagings]
    /\ clock \in Nat
    /\ counter \in [Stagings -> Nat]
    /\ objects \in SUBSET [name : Named, rows : Loads]
    /\ pc \in [Loads -> {"stage", "submit", "wait", "cleanup", "backoff", "ok", "failed"}]
    /\ name \in [Loads -> Named]
    /\ verdict \in [Loads -> Verdicts \cup {"none"}]
    /\ retries \in [Loads -> Nat]
    /\ running \in SUBSET Jobs
    /\ finished \in SUBSET [job : Jobs, rows : SUBSET Loads]
    /\ left \in SUBSET Named

\* The names the Stagings have given out by the time their counters read k; NoName
\* is not one.
Minted(n, k) == n[2] # 0 /\ \E s \in Stagings : n[2] <= k[s]

\* Every object, every job and every attempt that staged goes by a name given out.
Staged(l) == pc[l] \in {"submit", "wait", "cleanup"}
AllMinted ==
    /\ \A o \in objects : Minted(o.name, counter)
    /\ \A j \in running : Minted(j.name, counter)
    /\ \A l \in Loads : IF Staged(l) THEN Minted(name[l], counter) ELSE name[l] = NoName

GInv == Shape /\ AllMinted /\ Tidy

\* An object under the name of an attempt, or of a job, holds that load's rows.
Apart ==
    /\ \A o \in objects, l \in Loads : o.name = name[l] => o.rows = l
    /\ \A o \in objects, j \in running : o.name = j.name => o.rows = j.load

\* Success is known before the deferred cleanup and reported after it.
Landed(l) == \E d \in finished : d.job.load = l /\ d.rows = {l}
Concluded == \A l \in Loads : pc[l] = "cleanup" /\ verdict[l] = "ok" => Landed(l)

OneStaging == \A s, t \in Stagings : s = t

IInv == GInv /\ Apart /\ Concluded /\ OwnRows

-----------------------------------------------------------------------------
(* The general invariant, action by action *)

LEMMA InitGInv == Init => GInv
BY StagedAssumption DEF Init, GInv, Shape, AllMinted, Tidy, Staged, NoName, Named

\* An attempt's end moves the load to backoff or to its result.
LEMMA EndAttemptMoves ==
    ASSUME Shape, NEW l \in Loads, NEW v \in Verdicts \cup {"none"}, EndAttempt(l, v)
    PROVE  /\ \E p \in {"ok", "backoff", "failed"} :
                pc' = [pc EXCEPT ![l] = p] /\ (p = "ok" => v = "ok")
           /\ retries' \in [Loads -> Nat]
<1>1. CASE v = "ok"
  <2>1. pc' = [pc EXCEPT ![l] = "ok"] /\ UNCHANGED retries
    BY <1>1 DEF EndAttempt
  <2> QED
    BY <1>1, <2>1 DEF Shape
<1>2. CASE v # "ok" /\ Retry(retries[l], v = "retryable")
  <2>1. pc' = [pc EXCEPT ![l] = "backoff"] /\ retries' = [retries EXCEPT ![l] = @ + 1]
    BY <1>2 DEF EndAttempt
  <2> QED
    BY <1>2, <2>1 DEF Shape
<1>3. CASE v # "ok" /\ ~Retry(retries[l], v = "retryable")
  <2>1. pc' = [pc EXCEPT ![l] = "failed"] /\ UNCHANGED retries
    BY <1>3 DEF EndAttempt
  <2> QED
    BY <1>3, <2>1 DEF Shape
<1> QED
  BY <1>1, <1>2, <1>3

\* objectName gives a name of its own count, and a count given out stays so.
LEMMA Minting ==
    ASSUME Shape, NEW l \in Loads, counter' = [counter EXCEPT ![stager[l]] = NextCount(l)]
    PROVE  /\ counter' \in [Stagings -> Nat]
           /\ objectName(l) \in Named /\ Minted(objectName(l), counter')
           /\ \A n \in Named : Minted(n, counter) => Minted(n, counter')
           /\ OneStaging => \A n \in Named : Minted(n, counter) => n # objectName(l)
<1>1. stager[l] \in Stagings /\ counter[stager[l]] \in Nat /\ clock \in Nat
  BY DEF Shape
<1>2. NextCount(l) \in Nat /\ NextCount(l) > counter[stager[l]]
  BY <1>1 DEF NextCount
<1>3. counter' \in [Stagings -> Nat] /\ objectName(l) \in Named
  BY <1>1, <1>2 DEF Shape, objectName, Named
<1>4. \A s \in Stagings : counter[s] <= counter'[s]
  BY <1>1, <1>2 DEF Shape
<1>5. \A n \in Named : Minted(n, counter) => Minted(n, counter')
  BY <1>3, <1>4 DEF Minted, Named, Shape
<1>6. objectName(l)[2] = NextCount(l) /\ counter'[stager[l]] = NextCount(l)
  BY <1>1, <1>3 DEF objectName, Shape
<1>7. Minted(objectName(l), counter')
  BY <1>1, <1>2, <1>6 DEF Minted
<1>8. ASSUME OneStaging, NEW n \in Named, Minted(n, counter) PROVE n # objectName(l)
  BY <1>1, <1>2, <1>6, <1>8 DEF Minted, Named, OneStaging, Shape
<1> QED
  BY <1>3, <1>5, <1>7, <1>8

\* An object in the bucket never goes by NoName, so a load that holds no object
\* accounts for none.
LEMMA NotNoName ==
    ASSUME GInv, NEW o \in objects
    PROVE  o.name # NoName
BY DEF GInv, AllMinted, Minted, NoName

LEMMA StageGInv ==
    ASSUME GInv, NEW l \in Loads, Stage(l)
    PROVE  GInv'
<1> DEFINE n == objectName(l)
<1>0. Shape /\ pc[l] = "stage" /\ name[l] = NoName
  BY DEF GInv, Stage, AllMinted, Staged
<1>1. /\ counter' \in [Stagings -> Nat] /\ n \in Named /\ Minted(n, counter')
      /\ \A m \in Named : Minted(m, counter) => Minted(m, counter')
  BY <1>0, Minting DEF Stage
<1> HIDE DEF n
<1>2. /\ pc' = [pc EXCEPT ![l] = "submit"] /\ name' = [name EXCEPT ![l] = n]
      /\ objects' = Uploaded(n, l)
      /\ UNCHANGED <<stager, clock, verdict, retries, running, finished, left>>
  BY DEF Stage, n
<1>3. Shape'
  BY <1>0, <1>1, <1>2 DEF Shape, Uploaded
<1>4. AllMinted'
  <2>1. \A o \in objects' : Minted(o.name, counter')
    BY <1>0, <1>1, <1>2 DEF GInv, AllMinted, Uploaded, Shape
  <2>2. \A j \in running' : Minted(j.name, counter')
    BY <1>0, <1>1, <1>2 DEF GInv, AllMinted, Shape, Jobs
  <2>3. \A m \in Loads : IF Staged(m)' THEN Minted(name'[m], counter') ELSE name'[m] = NoName
    BY <1>0, <1>1, <1>2 DEF GInv, AllMinted, Shape, Staged
  <2> QED
    BY <2>1, <2>2, <2>3 DEF AllMinted
<1>5. Tidy'
  <2>1. SUFFICES ASSUME NEW o \in objects', o.name \notin left
                 PROVE  \E m \in Loads : name'[m] = o.name
    BY <1>2 DEF Tidy
  <2>2. name'[l] = n
    BY <1>0, <1>2 DEF Shape
  <2>3. CASE o.name = n
    BY <2>2, <2>3
  <2>4. CASE o.name # n
    <3>1. o \in objects
      BY <1>2, <2>4 DEF Uploaded
    <3>2. PICK m \in Loads : name[m] = o.name
      BY <2>1, <3>1 DEF GInv, Tidy
    <3>3. m # l
      BY <1>0, <3>1, <3>2, NotNoName
    <3> QED
      BY <1>0, <1>2, <3>2, <3>3 DEF Shape
  <2> QED
    BY <2>3, <2>4
<1> QED
  BY <1>3, <1>4, <1>5 DEF GInv

LEMMA StageFailsGInv ==
    ASSUME GInv, NEW l \in Loads, NEW v \in Failures, NEW b \in BOOLEAN, StageFails(l, v, b)
    PROVE  GInv'
<1> DEFINE n == objectName(l)
<1>0. Shape /\ pc[l] = "stage" /\ name[l] = NoName
  BY DEF GInv, StageFails, AllMinted, Staged
<1>1. /\ counter' \in [Stagings -> Nat] /\ n \in Named /\ Minted(n, counter')
      /\ \A m \in Named : Minted(m, counter) => Minted(m, counter')
  BY <1>0, Minting DEF StageFails
<1>2. PICK p \in {"ok", "backoff", "failed"} : pc' = [pc EXCEPT ![l] = p]
  BY <1>0, EndAttemptMoves DEF StageFails, Failures, Verdicts
<1>3. retries' \in [Loads -> Nat]
  BY <1>0, EndAttemptMoves DEF StageFails, Failures, Verdicts
<1> HIDE DEF n
<1>4. /\ UNCHANGED <<stager, clock, name, verdict, running, finished>>
      /\ \/ objects' = Uploaded(n, l) /\ left' = left \cup {n}
         \/ UNCHANGED <<objects, left>>
  BY DEF StageFails, n
<1>5. Shape'
  <2>1. objects' \in SUBSET [name : Named, rows : Loads] /\ left' \in SUBSET Named
    BY <1>0, <1>1, <1>4 DEF Shape, Uploaded
  <2> QED
    BY <1>0, <1>1, <1>2, <1>3, <1>4, <2>1 DEF Shape
<1>6. AllMinted'
  <2>1. \A o \in objects' : Minted(o.name, counter')
    BY <1>0, <1>1, <1>4 DEF GInv, AllMinted, Uploaded, Shape
  <2>2. \A j \in running' : Minted(j.name, counter')
    BY <1>0, <1>1, <1>4 DEF GInv, AllMinted, Shape, Jobs
  <2>3. \A m \in Loads : IF Staged(m)' THEN Minted(name'[m], counter') ELSE name'[m] = NoName
    BY <1>0, <1>1, <1>2, <1>4 DEF GInv, AllMinted, Shape, Staged
  <2> QED
    BY <2>1, <2>2, <2>3 DEF AllMinted
<1>7. Tidy'
  BY <1>4 DEF GInv, Tidy, Uploaded
<1> QED
  BY <1>5, <1>6, <1>7 DEF GInv

LEMMA ConcludeGInv ==
    ASSUME GInv, NEW l \in Loads, Staged(l), NEW v \in Verdicts, Conclude(l, v),
           \/ running' = running
           \/ running' = running \cup {Job(l)},
           UNCHANGED <<stager, clock, counter, objects, finished, left>>
    PROVE  GInv'
<1> USE DEF GInv, Conclude
<1>1. Job(l) \in Jobs /\ Minted(Job(l).name, counter)
  BY DEF Shape, Job, Jobs, AllMinted
<1>2. Shape'
  BY <1>1 DEF Shape
<1>3. AllMinted'
  BY <1>1 DEF Shape, AllMinted, Staged, Minted
<1>4. Tidy'
  BY DEF Tidy
<1> QED
  BY <1>2, <1>3, <1>4

LEMMA SubmitGInv ==
    ASSUME GInv, NEW l \in Loads, Submit(l)
    PROVE  GInv'
<1> USE DEF GInv, Submit
<1>1. Job(l) \in Jobs /\ Minted(Job(l).name, counter)
  BY DEF Shape, Job, Jobs, AllMinted, Staged
<1>2. Shape'
  BY <1>1 DEF Shape
<1>3. AllMinted'
  BY <1>1 DEF Shape, AllMinted, Staged, Minted
<1>4. Tidy'
  BY DEF Tidy
<1> QED
  BY <1>2, <1>3, <1>4

LEMMA CleanupGInv ==
    ASSUME GInv, NEW l \in Loads, NEW b \in BOOLEAN, Cleanup(l, b)
    PROVE  GInv'
<1>0. Shape /\ pc[l] = "cleanup"
  BY DEF GInv, Cleanup
<1>1. PICK p \in {"ok", "backoff", "failed"} : pc' = [pc EXCEPT ![l] = p]
  BY <1>0, EndAttemptMoves DEF Cleanup, Shape
<1>2. retries' \in [Loads -> Nat]
  BY <1>0, EndAttemptMoves DEF Cleanup, Shape
<1>3. /\ UNCHANGED <<stager, clock, counter, running, finished>>
      /\ name' = [name EXCEPT ![l] = NoName] /\ verdict' = [verdict EXCEPT ![l] = "none"]
      /\ \/ objects' = Removed(name[l]) /\ left' = left
         \/ objects' = objects /\ left' = left \cup {name[l]}
  BY DEF Cleanup
<1>4. Shape'
  <2>1. NoName \in Named
    BY DEF NoName, Named
  <2>2. objects' \in SUBSET [name : Named, rows : Loads] /\ left' \in SUBSET Named
    BY <1>0, <1>3 DEF Shape, Removed
  <2> QED
    BY <1>0, <1>1, <1>2, <1>3, <2>1, <2>2 DEF Shape
<1>5. AllMinted'
  BY <1>0, <1>1, <1>3 DEF GInv, AllMinted, Shape, Staged, Removed, Minted
<1>6. Tidy'
  <2>1. SUFFICES ASSUME NEW o \in objects', o.name \notin left'
                 PROVE  \E m \in Loads : name'[m] = o.name
    BY DEF Tidy
  <2>2. o \in objects /\ o.name \notin left /\ o.name # name[l]
    BY <1>3, <2>1 DEF Removed
  <2>3. PICK m \in Loads : name[m] = o.name
    BY <2>2 DEF GInv, Tidy
  <2> QED
    BY <1>0, <1>3, <2>2, <2>3 DEF Shape
<1> QED
  BY <1>4, <1>5, <1>6 DEF GInv

LEMMA JobFinishesGInv ==
    ASSUME GInv, NEW j \in running, JobFinishes(j)
    PROVE  GInv'
<1> USE DEF GInv, JobFinishes, local
<1>1. Held(j.name) \in SUBSET Loads
  BY DEF Shape, Held
<1>2. Shape'
  <2>1. PICK rows \in {{}, Held(j.name)} : finished' = finished \cup {[job |-> j, rows |-> rows]}
    BY DEF JobFinishes
  <2>2. [job |-> j, rows |-> rows] \in [job : Jobs, rows : SUBSET Loads]
    BY <1>1, <2>1 DEF Shape
  <2> QED
    BY <2>1, <2>2 DEF Shape
<1>3. AllMinted'
  BY DEF AllMinted, Staged, Minted
<1>4. Tidy'
  BY DEF Tidy
<1> QED
  BY <1>2, <1>3, <1>4

\* Every disjunct of Next, those that end at the deferred cleanup together.
ConcludeStep(l, v) ==
    /\ Staged(l) /\ Conclude(l, v)
    /\ running' = running \/ running' = running \cup {Job(l)}
    /\ UNCHANGED <<stager, clock, counter, objects, finished, left>>

LEMMA NextCases ==
    ASSUME Next
    PROVE  \/ Tick
           \/ \E j \in running : JobFinishes(j)
           \/ \E l \in Loads :
                \/ Stage(l) \/ Submit(l)
                \/ \E v \in Failures, b \in BOOLEAN : StageFails(l, v, b)
                \/ \E v \in Verdicts : ConcludeStep(l, v) /\ (v = "ok" => pc[l] = "wait" /\ JobOK(l))
                \/ \E b \in BOOLEAN : Cleanup(l, b) \/ Backoff(l, b)
<1>1. ASSUME NEW l \in Loads, NEW v \in Failures, NEW b \in BOOLEAN, SubmitFails(l, v, b)
      PROVE  ConcludeStep(l, v) /\ v \in Verdicts /\ v # "ok"
  BY <1>1 DEF SubmitFails, ConcludeStep, Staged, Verdicts, Failures
<1>2. ASSUME NEW l \in Loads, NEW v \in Failures, WaitFails(l, v)
      PROVE  ConcludeStep(l, v) /\ v \in Verdicts /\ v # "ok"
  BY <1>2 DEF WaitFails, ConcludeStep, Staged, Verdicts, Failures
<1>3. ASSUME NEW l \in Loads, WaitReturns(l)
      PROVE  \E v \in Verdicts : ConcludeStep(l, v) /\ (v = "ok" => pc[l] = "wait" /\ JobOK(l))
  BY <1>3 DEF WaitReturns, ConcludeStep, Staged, Verdicts
<1> QED
  BY <1>1, <1>2, <1>3 DEF Next

LEMMA NextGInv == GInv /\ [Next]_vars => GInv'
<1> SUFFICES ASSUME GInv, [Next]_vars PROVE GInv'
  OBVIOUS
<1>1. CASE UNCHANGED vars
  BY <1>1 DEF GInv, Shape, AllMinted, Tidy, Staged, Minted, vars, local
<1>2. CASE Tick
  BY <1>2, StagedAssumption DEF Tick, GInv, Shape, AllMinted, Tidy, Staged, Minted, local
<1>3. ASSUME NEW l \in Loads, NEW b \in BOOLEAN, Backoff(l, b) PROVE GInv'
  BY <1>3 DEF Backoff, GInv, Shape, AllMinted, Tidy, Staged, Minted
<1>4. ASSUME NEW l \in Loads, NEW v \in Verdicts, ConcludeStep(l, v) PROVE GInv'
  BY <1>4, ConcludeGInv DEF ConcludeStep
<1> QED
  BY <1>1, <1>2, <1>3, <1>4, NextCases, StageGInv, SubmitGInv, StageFailsGInv, CleanupGInv,
    JobFinishesGInv

\* The deferred cleanup and the left-over objects: nothing else stays in the
\* bucket, however many Stagings write to it.
THEOREM BucketTidy == Spec => []Tidy
<1>1. GInv => Tidy
  BY DEF GInv
<1> QED
  BY <1>1, InitGInv, NextGInv, PTL DEF Spec

-----------------------------------------------------------------------------
(* One Staging: the loads keep apart *)

\* A load that reports success, or is about to, has its rows in the table: nothing
\* a step of other loads does takes that back.
LEMMA LandedStays ==
    ASSUME NEW l, Landed(l), finished \subseteq finished'
    PROVE  Landed(l)'
BY DEF Landed

\* The steps of a load that leave the bucket and the jobs as they are, or take
\* objects out of the bucket, keep the rest apart.
LEMMA ApartStays ==
    ASSUME IInv, NEW l \in Loads, objects' \subseteq objects, running' \subseteq running,
           name' = name \/ name' = [name EXCEPT ![l] = NoName]
    PROVE  Apart'
<1> SUFFICES ASSUME NEW o \in objects', NEW m \in Loads, o.name = name'[m] PROVE o.rows = m
  BY DEF IInv, Apart
<1>1. o.name # NoName
  BY NotNoName DEF IInv
<1> QED
  BY <1>1 DEF IInv, GInv, Shape, Apart

LEMMA UploadApart ==
    ASSUME OneStaging, IInv, NEW l \in Loads,
           counter' = [counter EXCEPT ![stager[l]] = NextCount(l)],
           objects' = Uploaded(objectName(l), l) \/ objects' = objects,
           name' = name \/ name' = [name EXCEPT ![l] = objectName(l)],
           pc[l] = "stage", running' = running
    PROVE  Apart'
<1> DEFINE n == objectName(l)
<1>0. Shape /\ AllMinted /\ Apart
  BY DEF IInv, GInv
<1>1. \A m \in Named : Minted(m, counter) => m # n
  BY <1>0, Minting
<1> HIDE DEF n
<1>2. /\ \A o \in objects : o.name # n
      /\ \A j \in running : j.name # n
      /\ \A m \in Loads : Staged(m) => name[m] # n
  BY <1>0, <1>1 DEF Shape, AllMinted, Jobs
<1>3. /\ objects' = Uploaded(n, l) \/ objects' = objects
      /\ name' = name \/ name' = [name EXCEPT ![l] = n]
  BY DEF n
<1>4. n # NoName
  <2>1. Minted(n, counter')
    BY <1>0, Minting DEF n
  <2> QED
    BY <2>1 DEF Minted, NoName
<1>5. ASSUME NEW o \in objects', NEW m \in Loads, o.name = name'[m] PROVE o.rows = m
  <2>1. CASE o \in objects
    BY <1>0, <1>2, <1>3, <1>5, <2>1 DEF Apart, Shape
  <2>2. CASE o \notin objects
    <3>1. o = [name |-> n, rows |-> l]
      BY <1>3, <2>2 DEF Uploaded
    <3>2. name[m] # n
      BY <1>0, <1>2, <1>4 DEF AllMinted
    <3> QED
      BY <1>0, <1>3, <1>5, <3>1, <3>2 DEF Shape
  <2> QED
    BY <2>1, <2>2
<1>6. ASSUME NEW o \in objects', NEW j \in running, o.name = j.name PROVE o.rows = j.load
  BY <1>0, <1>2, <1>3, <1>6 DEF Apart, Uploaded
<1> QED
  BY <1>5, <1>6 DEF Apart

\* A job is submitted under the name its own load staged.
LEMMA SubmitApart ==
    ASSUME IInv, NEW l \in Loads, Staged(l),
           running' = running \/ running' = running \cup {Job(l)},
           UNCHANGED <<objects, name>>
    PROVE  Apart'
<1>1. Job(l).name = name[l] /\ Job(l).load = l
  BY DEF Job
<1> QED
  BY <1>1 DEF IInv, Apart

\* What a job appends is what its name holds.
LEMMA HeldOwn ==
    ASSUME IInv, NEW j \in running
    PROVE  Held(j.name) \subseteq {j.load}
BY DEF IInv, Apart, Held

LEMMA InitIInv == Init => IInv
BY InitGInv DEF Init, IInv, Apart, Concluded, OwnRows

\* Steps after which no load newly reports success.
LEMMA SuccessStays ==
    ASSUME IInv, finished' = finished,
           \A m \in Loads : pc'[m] = "ok" => pc[m] = "ok" \/ (pc[m] = "cleanup" /\ verdict[m] = "ok"),
           \A m \in Loads : pc'[m] = "cleanup" /\ verdict'[m] = "ok"
                            => (pc[m] = "cleanup" /\ verdict[m] = "ok") \/ Landed(m)
    PROVE  Concluded' /\ OwnRows'
<1>1. \A m \in Loads : pc[m] = "ok" => Landed(m)
  BY DEF IInv, OwnRows, Landed
<1>2. \A m \in Loads : pc[m] = "cleanup" /\ verdict[m] = "ok" => Landed(m)
  BY DEF IInv, Concluded
<1>3. \A m \in Loads : Landed(m)' <=> Landed(m)
  BY DEF Landed
<1>4. Concluded'
  BY <1>2, <1>3 DEF Concluded
<1>5. \A m \in Loads : pc'[m] = "ok" => Landed(m)'
  BY <1>1, <1>2, <1>3
<1> QED
  BY <1>4, <1>5 DEF IInv, OwnRows, Landed

LEMMA NextIInv == ASSUME OneStaging PROVE IInv /\ [Next]_vars => IInv'
<1> SUFFICES ASSUME IInv, [Next]_vars PROVE Apart' /\ Concluded' /\ OwnRows'
  BY NextGInv DEF IInv
<1>0. Shape
  BY DEF IInv, GInv
<1>1. CASE UNCHANGED vars
  BY <1>1 DEF IInv, Apart, Concluded, OwnRows, Landed, vars, local
<1>2. CASE Tick
  BY <1>2 DEF Tick, IInv, Apart, Concluded, OwnRows, Landed, local
<1>3. ASSUME NEW l \in Loads, Stage(l) PROVE Apart' /\ Concluded' /\ OwnRows'
  <2>1. Apart'
    BY <1>3, UploadApart DEF Stage
  <2> QED
    BY <1>0, <1>3, <2>1, SuccessStays DEF Stage, Shape
<1>4. ASSUME NEW l \in Loads, NEW v \in Failures, NEW b \in BOOLEAN, StageFails(l, v, b)
      PROVE  Apart' /\ Concluded' /\ OwnRows'
  <2>1. Apart'
    BY <1>4, UploadApart DEF StageFails
  <2>2. PICK p \in {"ok", "backoff", "failed"} : pc' = [pc EXCEPT ![l] = p] /\ p # "ok"
    BY <1>0, <1>4, EndAttemptMoves DEF StageFails, Failures, Verdicts
  <2> QED
    BY <1>0, <1>4, <2>1, <2>2, SuccessStays DEF StageFails, Shape
<1>5. ASSUME NEW l \in Loads, Submit(l) PROVE Apart' /\ Concluded' /\ OwnRows'
  <2>1. Apart'
    BY <1>5, SubmitApart DEF Submit, Staged
  <2> QED
    BY <1>0, <1>5, <2>1, SuccessStays DEF Submit, Shape
<1>6. ASSUME NEW l \in Loads, NEW v \in Verdicts, ConcludeStep(l, v),
             v = "ok" => pc[l] = "wait" /\ JobOK(l)
      PROVE  Apart' /\ Concluded' /\ OwnRows'
  <2>1. Apart'
    BY <1>6, SubmitApart DEF ConcludeStep, Conclude
  <2>2. v = "ok" => Landed(l)
    <3>1. ASSUME NEW d \in finished, d.job = Job(l), d.rows # {}
          PROVE  d.job.load = l /\ d.rows = {l}
      BY <1>0, <3>1 DEF Job, IInv, OwnRows, Shape
    <3> QED
      BY <1>6, <3>1 DEF JobOK, Landed
  <2>3. /\ pc' = [pc EXCEPT ![l] = "cleanup"] /\ verdict' = [verdict EXCEPT ![l] = v]
        /\ finished' = finished
    BY <1>6 DEF ConcludeStep, Conclude
  <2> QED
    BY <1>0, <2>1, <2>2, <2>3, SuccessStays DEF Shape
<1>7. ASSUME NEW l \in Loads, NEW b \in BOOLEAN, Cleanup(l, b)
      PROVE  Apart' /\ Concluded' /\ OwnRows'
  <2>1. Apart'
    BY <1>7, ApartStays DEF Cleanup, Removed
  <2>2. PICK p \in {"ok", "backoff", "failed"} :
          pc' = [pc EXCEPT ![l] = p] /\ (p = "ok" => verdict[l] = "ok")
    BY <1>0, <1>7, EndAttemptMoves DEF Cleanup, Shape
  <2>3. /\ pc[l] = "cleanup" /\ verdict' = [verdict EXCEPT ![l] = "none"] /\ finished' = finished
    BY <1>7 DEF Cleanup
  <2> QED
    BY <1>0, <2>1, <2>2, <2>3, SuccessStays DEF Shape
<1>8. ASSUME NEW l \in Loads, NEW b \in BOOLEAN, Backoff(l, b)
      PROVE  Apart' /\ Concluded' /\ OwnRows'
  <2>1. Apart'
    BY <1>8, ApartStays DEF Backoff
  <2> QED
    BY <1>0, <1>8, <2>1, SuccessStays DEF Backoff, Shape
<1>9. ASSUME NEW j \in running, JobFinishes(j) PROVE Apart' /\ Concluded' /\ OwnRows'
  <2>1. PICK rows \in {{}, Held(j.name)} : finished' = finished \cup {[job |-> j, rows |-> rows]}
    BY <1>9 DEF JobFinishes
  <2>2. Apart'
    BY <1>9 DEF JobFinishes, IInv, Apart, local
  <2>3. \A m \in Loads : Landed(m) => Landed(m)'
    BY <2>1, LandedStays
  <2>4. Concluded' /\ \A m \in Loads : pc'[m] = "ok" => Landed(m)'
    BY <1>9, <2>3 DEF JobFinishes, IInv, Concluded, OwnRows, Landed, local
  <2>5. rows \subseteq {j.load}
    BY <2>1, HeldOwn
  <2>6. \A d \in finished' : d.rows \subseteq {d.job.load}
    BY <2>1, <2>5 DEF IInv, OwnRows
  <2> QED
    BY <2>2, <2>4, <2>6 DEF OwnRows, Landed
<1> QED
  BY <1>1, <1>2, <1>3, <1>4, <1>5, <1>6, <1>7, <1>8, <1>9, NextCases

\* objectName and the deferred cleanup: with one Staging, however many loads and
\* attempts share it, a job appends its own load's rows or none, and a load that
\* reports success has appended its own.
THEOREM LoadsKeepApart == ASSUME OneStaging PROVE Spec => []OwnRows
<1>1. IInv => OwnRows
  BY DEF IInv
<1>2. IInv /\ [Next]_vars => IInv'
  BY NextIInv
<1> QED
  BY <1>1, <1>2, InitIInv, PTL DEF Spec

\* An object leaves the bucket only by the cleanup of the attempt that staged it.
RemovesOwn ==
    \A o \in objects \ objects' :
        \E l \in Loads : pc[l] = "cleanup" /\ name[l] = o.name /\ o.rows = l

\* objectName and cleanup: with one Staging, no upload replaces another attempt's
\* object and no cleanup deletes one.
THEOREM CleanupOwnObject == ASSUME OneStaging PROVE Spec => [][RemovesOwn]_vars
<1>1. ASSUME IInv, Next PROVE RemovesOwn
  <2>0. Shape /\ AllMinted
    BY <1>1 DEF IInv, GInv
  <2>1. ASSUME NEW l \in Loads, counter' = [counter EXCEPT ![stager[l]] = NextCount(l)],
               objects' = Uploaded(objectName(l), l)
        PROVE  objects \subseteq objects'
    <3>1. \A o \in objects : o.name # objectName(l)
      BY <1>1, <2>0, <2>1, Minting DEF Shape, AllMinted
    <3> QED
      BY <2>1, <3>1 DEF Uploaded
  <2>2. ASSUME NEW l \in Loads, NEW b \in BOOLEAN, Cleanup(l, b) PROVE RemovesOwn
    BY <1>1, <2>2 DEF Cleanup, Removed, RemovesOwn, IInv, Apart
  <2>3. ASSUME NEW l \in Loads, Stage(l) \/ \E v \in Failures, b \in BOOLEAN : StageFails(l, v, b)
        PROVE  RemovesOwn
    BY <2>1, <2>3 DEF Stage, StageFails, RemovesOwn
  <2> QED
    BY <1>1, <2>2, <2>3, NextCases
    DEF Tick, JobFinishes, Submit, ConcludeStep, Backoff, RemovesOwn
<1>2. IInv /\ [Next]_vars => [RemovesOwn]_vars
  BY <1>1
<1>3. IInv /\ [Next]_vars => IInv'
  BY NextIInv
<1> QED
  BY <1>2, <1>3, InitIInv, PTL DEF Spec
=============================================================================
