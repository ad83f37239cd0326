----------------------------- MODULE Scheduler -----------------------------
(***************************************************************************)
(* process/scheduler.rs: a round-robin queue.  Entries are never removed;  *)
(* `current` is the index of the entry picked last (here from 1; 0 stands  *)
(* for usize::MAX, before the first pick).  Process ids are unique, so an  *)
(* entry stands for its process and set_state's search finds it.           *)
(***************************************************************************)
EXTENDS Integers, Sequences

CONSTANT MaxProcesses   \* bound on the calls of add

ASSUME SchedulerAssumption == MaxProcesses \in Nat

States == {"Running", "Ready", "Blocked", "Zombie"}
Runnable == {"Running", "Ready"}

VARIABLES queue,     \* the state of each entry, in order of add
          current,   \* index of the entry picked last
          picked,    \* the answer of the latest next(): an entry, 0 for None
          since,     \* history: entries picked since entry i was picked itself
                     \* or became runnable
          overtaken  \* history: runnable entries that saw another picked twice

schedulerVars == <<queue, current, picked, since, overtaken>>

SchedulerInit ==
    /\ queue = <<>> /\ current = 0 /\ picked = 0
    /\ since = <<>> /\ overtaken = {}

Candidates == {k \in 1 .. Len(queue) : queue[k] \in Runnable}
After == {k \in Candidates : k > current}

add(state) ==
    /\ Len(queue) < MaxProcesses
    /\ queue' = Append(queue, state)
    /\ since' = Append(since, {})
    /\ UNCHANGED <<current, picked, overtaken>>

\* Entry k is picked: the cursor stops there.
Pick(k) ==
    /\ current' = k /\ picked' = k
    /\ since' = [i \in DOMAIN since |->
                    IF i = k \/ i \notin Candidates THEN {} ELSE since[i] \cup {k}]
    /\ overtaken' = overtaken \cup {i \in Candidates \ {k} : k \in since[i]}
    /\ UNCHANGED queue

\* Seeded form: the cursor starts from the head of the queue each time.
next_FromHead ==
    \/ \E k \in Candidates : (\A j \in Candidates : k <= j) /\ Pick(k)
    \/ /\ Candidates = {}
       /\ picked' = 0
       /\ UNCHANGED <<queue, current, since, overtaken>>

\* Seeded form: the loop stops at the end of the queue.
next_NoWrap ==
    \/ \E k \in After : (\A j \in After : k <= j) /\ Pick(k)
    \/ /\ After = {}
       /\ current' = 0 /\ picked' = 0
       /\ UNCHANGED <<queue, since, overtaken>>

\* Seeded form: an index that is not reduced modulo the length.
next_Beyond ==
    \/ \E k \in Candidates : (After = {} \/ k > current) /\ Pick(k)
    \/ /\ Candidates = {}
       /\ current' = current + Len(queue)
       /\ picked' = 0
       /\ UNCHANGED <<queue, since, overtaken>>

\* next(): at most one turn round the queue, from behind the cursor, to the
\* first entry that is ready or running.
next ==
    \/ \E k \in After : (\A j \in After : k <= j) /\ Pick(k)
    \/ /\ After = {}
       /\ \E k \in Candidates : (\A j \in Candidates : k <= j) /\ Pick(k)
    \/ /\ Candidates = {}
       /\ current' = IF current = 0 THEN Len(queue) ELSE current
       /\ picked' = 0
       /\ UNCHANGED <<queue, since, overtaken>>

set_state(k, state) ==
    /\ queue' = [queue EXCEPT ![k] = state]
    /\ since' = IF queue[k] \in Runnable /\ state \in Runnable THEN since
                ELSE [since EXCEPT ![k] = {}]
    /\ UNCHANGED <<current, picked, overtaken>>

SchedulerNext ==
    \/ \E state \in States : add(state)
    \/ next
    \/ \E k \in DOMAIN queue, state \in States : set_state(k, state)

SchedulerSpec == SchedulerInit /\ [][SchedulerNext]_schedulerVars
-----------------------------------------------------------------------------
\* The cursor and every answer of next() name an entry of the queue, or none.
QueueTypeOK ==
    /\ queue \in Seq(States) /\ Len(queue) <= MaxProcesses
    /\ current \in 0 .. Len(queue)
    /\ picked \in 0 .. Len(queue)
    /\ since \in Seq(SUBSET DOMAIN queue) /\ Len(since) = Len(queue)
    /\ overtaken \subseteq DOMAIN queue

\* While a process waits runnable no other is picked twice, whatever is added,
\* blocked and woken meanwhile (scheduler.rs:19-30).
NoOvertaking == overtaken = {}

\* next() goes from an answer to None only when no process is runnable: one
\* turn of its loop is enough (scheduler.rs:22-29).
WorkConserving == [][picked # 0 /\ picked' = 0 => Candidates = {}]_schedulerVars
=============================================================================
