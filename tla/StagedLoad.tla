----------------------------- MODULE StagedLoad -----------------------------
(***************************************************************************)
(* Loading through Cloud Storage: stagedLoader.load of write.go under the  *)
(* retry policy, with the Stager of bqgcs/staging.go.                      *)
(*                                                                         *)
(* Several loads run at once, each for a batch of its own, sharing one or  *)
(* more bqgcs.Staging values that write to the same bucket and prefix.     *)
(* Every attempt stages the rows again, submits a job that reads the       *)
(* object, and removes the object when the attempt is over (defer).        *)
(***************************************************************************)
EXTENDS Naturals, FiniteSets

CONSTANTS
    Loads,              \* loads in progress; a load stands for its rows
    Stagings,           \* bqgcs.Staging values
    MaxClock,           \* bound: the last reading of the clock
    migrateMaxRetries

ASSUME StagedAssumption ==
    /\ Loads # {} /\ Stagings # {}
    /\ MaxClock \in Nat /\ migrateMaxRetries \in Nat

VARIABLES
    stager,     \* the Staging each load was configured with
    clock,      \* time.Now().UnixNano(), which may read the same twice
    counter,    \* Staging.counter
    objects,    \* the bucket: objects by name, with the rows they hold
    pc,         \* where each load is
    name,       \* the object its attempt staged
    verdict,    \* what runLoader returned, kept across the deferred cleanup
    retries,
    running,    \* load jobs not finished
    finished,   \* load jobs finished, with the rows they appended
    left        \* objects an upload or a removal that failed left behind

local == <<pc, name, verdict, retries>>
vars == <<stager, clock, counter, objects, local, running, finished, left>>

NoName == <<0, 0>>

Init ==
    /\ stager \in [Loads -> Stagings]
    /\ clock = 0
    /\ counter = [s \in Stagings |-> 0]
    /\ objects = {}
    /\ pc = [l \in Loads |-> "stage"]
    /\ name = [l \in Loads |-> NoName]
    /\ verdict = [l \in Loads |-> "none"]
    /\ retries = [l \in Loads |-> 0]
    /\ running = {} /\ finished = {} /\ left = {}

-----------------------------------------------------------------------------
Tick ==
    /\ clock < MaxClock
    /\ clock' = clock + 1
    /\ UNCHANGED <<stager, counter, objects, local, running, finished, left>>

Retry(n, retryable) == n < migrateMaxRetries /\ retryable

\* An attempt ends: what retrying makes of its verdict.
EndAttempt(l, v) ==
    CASE v = "ok" -> pc' = [pc EXCEPT ![l] = "ok"] /\ UNCHANGED retries
      [] v # "ok" /\ Retry(retries[l], v = "retryable") ->
            /\ pc' = [pc EXCEPT ![l] = "backoff"]
            /\ retries' = [retries EXCEPT ![l] = @ + 1]
      [] OTHER -> pc' = [pc EXCEPT ![l] = "failed"] /\ UNCHANGED retries

\* objectName: the time and the Staging's own count.
NextCountMutant(l) == counter[stager[l]]
NextCount(l) == counter[stager[l]] + 1
objectName(l) == <<clock, NextCount(l)>>

\* An upload replaces what an object of that name held.
Uploaded(n, l) == {o \in objects : o.name # n} \cup {[name |-> n, rows |-> l]}

Stage(l) ==
    /\ pc[l] = "stage"
    /\ counter' = [counter EXCEPT ![stager[l]] = NextCount(l)]
    /\ objects' = Uploaded(objectName(l), l)
    /\ name' = [name EXCEPT ![l] = objectName(l)]
    /\ pc' = [pc EXCEPT ![l] = "submit"]
    /\ UNCHANGED <<stager, clock, verdict, retries, running, finished, left>>

\* The upload fails; Stage returns no cleanup.  The object may be there all the
\* same when only the answer to closing it was lost.
StageFails(l, v, written) ==
    /\ pc[l] = "stage"
    /\ counter' = [counter EXCEPT ![stager[l]] = NextCount(l)]
    /\ IF written
       THEN objects' = Uploaded(objectName(l), l) /\ left' = left \cup {objectName(l)}
       ELSE UNCHANGED <<objects, left>>
    /\ EndAttempt(l, v)
    /\ UNCHANGED <<stager, clock, name, verdict, running, finished>>

Job(l) == [load |-> l, attempt |-> retries[l], name |-> name[l]]

\* runLoader's outcome, on the way to the deferred cleanup.
Conclude(l, v) ==
    /\ pc' = [pc EXCEPT ![l] = "cleanup"]
    /\ verdict' = [verdict EXCEPT ![l] = v]
    /\ UNCHANGED <<name, retries>>

Submit(l) ==
    /\ pc[l] = "submit"
    /\ running' = running \cup {Job(l)}
    /\ pc' = [pc EXCEPT ![l] = "wait"]
    /\ UNCHANGED <<stager, clock, counter, objects, name, verdict, retries, finished, left>>

SubmitFails(l, v, created) ==
    /\ pc[l] = "submit"
    /\ running' = IF created THEN running \cup {Job(l)} ELSE running
    /\ Conclude(l, v)
    /\ UNCHANGED <<stager, clock, counter, objects, finished, left>>

\* job.Wait returns a status.
JobOK(l) == \E d \in finished : d.job = Job(l) /\ d.rows # {}
WaitReturns(l) ==
    /\ pc[l] = "wait"
    /\ Job(l) \notin running
    /\ Conclude(l, IF JobOK(l) THEN "ok" ELSE "permanent")
    /\ UNCHANGED <<stager, clock, counter, objects, running, finished, left>>

\* job.Wait fails, with the job still going.
WaitFails(l, v) ==
    /\ pc[l] = "wait"
    /\ Conclude(l, v)
    /\ UNCHANGED <<stager, clock, counter, objects, running, finished, left>>

\* The deferred cleanup deletes the object.  With Keep set it does not, and failing
\* to is only logged; the object is left behind.
RemovedMutant(n) == objects
Removed(n) == {o \in objects : o.name # n}
Cleanup(l, removed) ==
    /\ pc[l] = "cleanup"
    /\ IF removed
       THEN objects' = Removed(name[l]) /\ UNCHANGED left
       ELSE left' = left \cup {name[l]} /\ UNCHANGED objects
    /\ EndAttempt(l, verdict[l])
    /\ name' = [name EXCEPT ![l] = NoName]
    /\ verdict' = [verdict EXCEPT ![l] = "none"]
    /\ UNCHANGED <<stager, clock, counter, running, finished>>

\* The next attempt stages the rows anew.
Backoff(l, cancelled) ==
    /\ pc[l] = "backoff"
    /\ pc' = [pc EXCEPT ![l] = IF cancelled THEN "failed" ELSE "stage"]
    /\ UNCHANGED <<stager, clock, counter, objects, name, verdict, retries, running, finished, left>>

\* BigQuery runs the job: it appends what the object holds now, or nothing if
\* the object is gone or the job fails.
Held(n) == {o.rows : o \in {p \in objects : p.name = n}}
JobFinishes(j) ==
    /\ j \in running
    /\ running' = running \ {j}
    /\ \E rows \in {{}, Held(j.name)} : finished' = finished \cup {[job |-> j, rows |-> rows]}
    /\ UNCHANGED <<stager, clock, counter, objects, local, left>>

Failures == {"retryable", "permanent"}
Next ==
    \/ Tick
    \/ \E l \in Loads :
        \/ Stage(l) \/ Submit(l) \/ WaitReturns(l)
        \/ \E v \in Failures :
            \/ \E b \in BOOLEAN : StageFails(l, v, b) \/ SubmitFails(l, v, b)
            \/ WaitFails(l, v)
        \/ \E b \in BOOLEAN : Cleanup(l, b) \/ Backoff(l, b)
    \/ \E j \in running : JobFinishes(j)

Spec == Init /\ [][Next]_vars

-----------------------------------------------------------------------------
(* Properties *)

\* With one Staging between them, concurrent loads and repeated attempts never
\* share an object: a job appends the rows of its own load or none, and a load
\* that reports success has appended its own.
OwnRows ==
    /\ \A d \in finished : d.rows \subseteq {d.job.load}
    /\ \A l \in Loads : pc[l] = "ok" => \E d \in finished : d.job.load = l /\ d.rows = {l}

\* Nothing is left in the bucket but the objects of attempts in progress and
\* those an upload or a removal that failed left behind.
Tidy ==
    \A o \in objects : o.name \in left \cup {name[l] : l \in Loads}
=============================================================================
