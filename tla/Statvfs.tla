------------------------------- MODULE Statvfs -------------------------------
(***************************************************************************)
(* do_fstat of src/src/ops/operations.cpp, which the threads of FUSE call  *)
(* while others are in the handlers that change how many blocks are in     *)
(* use.  The answer is kept, and counted again only when it is older than  *)
(* Interval and content_changed_out_of_sync_to_fstat is set.  The flag is  *)
(* read without operations_mutex; the handlers set it, and some do before  *)
(* their last change, some only when they do not fail.                     *)
(***************************************************************************)
EXTENDS Integers

CONSTANTS
    Thread,
    MaxLive,    \* bound: blocks in use
    Interval,   \* 5 seconds
    NoOne

ASSUME StatvfsAssumption == MaxLive \in Nat /\ Interval \in Nat /\ NoOne \notin Thread

VARIABLES
    live,               \* the blocks filesystem::fstat would count
    cache,              \* statvfs_5s_interval_cache
    flag,               \* content_changed_out_of_sync_to_fstat
    elapsed,            \* the time since last_fstat_invoke_time, up to Interval + 1
    age,                \* the time since each thread read the clock, up to Interval + 1
    pc,
    fstat_mutex,        \* do_fstat_unique_mutex: who has it
    operations_mutex,
    missed              \* a handler has changed live and not set the flag

vars == <<live, cache, flag, elapsed, age, pc, fstat_mutex, operations_mutex, missed>>

Time == 0 .. Interval + 1
Older(time) == IF time <= Interval THEN time + 1 ELSE time

InHandler == {"working", "changed", "told"}
Handling == {"called"} \cup InHandler
InFstat == {"locked", "due", "overdue", "counting", "answering"}

\* The time point is the epoch, the cache is zero.
Init ==
    /\ live \in 0 .. MaxLive /\ cache = 0
    /\ flag = TRUE /\ missed = FALSE
    /\ elapsed = Interval + 1
    /\ age = [t \in Thread |-> 0]
    /\ pc = [t \in Thread |-> "idle"]
    /\ fstat_mutex = NoOne /\ operations_mutex = NoOne

Goto(t, from, to) == pc[t] = from /\ pc' = [pc EXCEPT ![t] = to]

Tick ==
    /\ elapsed' = Older(elapsed)
    /\ age' = [t \in Thread |-> Older(age[t])]
    /\ UNCHANGED <<live, cache, flag, pc, fstat_mutex, operations_mutex, missed>>
------------------------------------------------------------------------------
(***************************************************************************)
(* do_fstat                                                                *)
(***************************************************************************)
Ask(t) ==
    /\ Goto(t, "idle", "asked")
    /\ UNCHANGED <<live, cache, flag, elapsed, age, fstat_mutex, operations_mutex, missed>>

LockFstat(t) ==
    /\ Goto(t, "asked", "locked")
    /\ fstat_mutex = NoOne /\ fstat_mutex' = t
    /\ UNCHANGED <<live, cache, flag, elapsed, age, operations_mutex, missed>>

\* Mutant: the time is kept when nothing is counted, too.
ReadClockAndKeep(t) ==
    /\ Goto(t, "locked", IF elapsed > Interval THEN "due" ELSE "answering")
    /\ age' = [age EXCEPT ![t] = 0]
    /\ elapsed' = 0
    /\ UNCHANGED <<live, cache, flag, fstat_mutex, operations_mutex, missed>>

ReadClock(t) ==
    /\ Goto(t, "locked", IF elapsed > Interval THEN "due" ELSE "answering")
    /\ age' = [age EXCEPT ![t] = 0]
    /\ UNCHANGED <<live, cache, flag, elapsed, fstat_mutex, operations_mutex, missed>>

ReadFlag(t) ==
    /\ Goto(t, "due", IF flag THEN "overdue" ELSE "answering")
    /\ UNCHANGED <<live, cache, flag, elapsed, age, fstat_mutex, operations_mutex, missed>>

\* Mutant: the lock of the handlers is not taken.
CountAtOnce(t) ==
    /\ Goto(t, "overdue", "counting")
    /\ UNCHANGED <<live, cache, flag, elapsed, age, fstat_mutex, operations_mutex, missed>>

LockOperations(t) ==
    /\ Goto(t, "overdue", "counting")
    /\ operations_mutex = NoOne /\ operations_mutex' = t
    /\ UNCHANGED <<live, cache, flag, elapsed, age, fstat_mutex, missed>>

\* filesystem::fstat, and the end of the lock.
Count(t) ==
    /\ Goto(t, "counting", "answering")
    /\ cache' = live
    /\ elapsed' = age[t]
    /\ flag' = FALSE /\ missed' = FALSE
    /\ operations_mutex' = IF operations_mutex = t THEN NoOne ELSE operations_mutex
    /\ UNCHANGED <<live, age, fstat_mutex>>

Answer(t) ==
    /\ Goto(t, "answering", "idle")
    /\ fstat_mutex' = NoOne
    /\ UNCHANGED <<live, cache, flag, elapsed, age, operations_mutex, missed>>
------------------------------------------------------------------------------
(***************************************************************************)
(* The handlers.  One that fails half way has changed something and says   *)
(* nothing; so does a look-up that gives frozen inodes copies.             *)
(***************************************************************************)
Call(t) ==
    /\ Goto(t, "idle", "called")
    /\ UNCHANGED <<live, cache, flag, elapsed, age, fstat_mutex, operations_mutex, missed>>

Enter(t) ==
    /\ Goto(t, "called", "working")
    /\ operations_mutex = NoOne /\ operations_mutex' = t
    /\ UNCHANGED <<live, cache, flag, elapsed, age, fstat_mutex, missed>>

Change(t) ==
    /\ pc[t] \in InHandler
    /\ pc' = [pc EXCEPT ![t] = IF @ = "told" THEN "told" ELSE "changed"]
    /\ live' \in (0 .. MaxLive) \ {live}
    /\ UNCHANGED <<cache, flag, elapsed, age, fstat_mutex, operations_mutex, missed>>

Tell(t) ==
    /\ pc[t] \in InHandler
    /\ pc' = [pc EXCEPT ![t] = "told"]
    /\ flag' = TRUE
    /\ UNCHANGED <<live, cache, elapsed, age, fstat_mutex, operations_mutex, missed>>

\* Mutant: a handler that fails keeps the lock.
LeaveLocked(t) ==
    /\ pc[t] \in InHandler
    /\ pc' = [pc EXCEPT ![t] = "idle"]
    /\ missed' = (missed \/ pc[t] = "changed")
    /\ operations_mutex' = IF pc[t] = "told" THEN NoOne ELSE t
    /\ UNCHANGED <<live, cache, flag, elapsed, age, fstat_mutex>>

Leave(t) ==
    /\ pc[t] \in InHandler
    /\ pc' = [pc EXCEPT ![t] = "idle"]
    /\ missed' = (missed \/ pc[t] = "changed")
    /\ operations_mutex' = NoOne
    /\ UNCHANGED <<live, cache, flag, elapsed, age, fstat_mutex>>

Running(t) ==
    \/ LockFstat(t) \/ ReadClock(t) \/ ReadFlag(t) \/ LockOperations(t) \/ Count(t) \/ Answer(t)
    \/ Enter(t) \/ Leave(t)

Next ==
    \/ Tick
    \/ \E t \in Thread : Ask(t) \/ Call(t) \/ Running(t) \/ Change(t) \/ Tell(t)

\* A thread that can run does, and time passes.  Nothing is assumed of the order
\* in which waiting threads get a mutex, nor that a call is ever made.
Fairness == WF_vars(Tick) /\ \A t \in Thread : WF_vars(Running(t))

Spec == Init /\ [][Next]_vars /\ Fairness
------------------------------------------------------------------------------
\* A mutex has one owner, which is where the code holds it (the lock_guards).
TypeOK ==
    /\ live \in 0 .. MaxLive /\ cache \in 0 .. MaxLive
    /\ flag \in BOOLEAN /\ missed \in BOOLEAN
    /\ elapsed \in Time /\ age \in [Thread -> Time]
    /\ pc \in [Thread -> {"idle", "asked"} \cup InFstat \cup Handling]
    /\ \A t \in Thread :
        /\ fstat_mutex = t <=> pc[t] \in InFstat
        /\ operations_mutex = t <=> pc[t] \in InHandler \cup {"counting"}

\* While no call is in progress and the flag is down, the answer kept is the number
\* of blocks in use, whatever order the handlers change it and set the flag in
\* and wherever do_fstat was when they did, unless a handler said nothing
\* (do_fstat; do_write sets the flag before it writes).
AnswerIsCurrent ==
    operations_mutex = NoOne /\ ~flag /\ ~missed => cache = live

\* If the handlers come to rest and statvfs is called again and again, the answer
\* is correct some time later and from then on, unless a handler said nothing.
EventuallyCurrent ==
    /\ <>[](\A t \in Thread : pc[t] \notin Handling)
    /\ []<>(\E t \in Thread : pc[t] = "asked")
    => <>[](cache = live \/ missed)
===============================================================================
