---------------------------- MODULE Statvfs_proofs ----------------------------
(***************************************************************************)
(* For every number of threads, of blocks and of seconds: the two mutexes  *)
(* have the owners the code gives them, and the answer that is kept is     *)
(* current while no handler runs and the flag is down.                     *)
(*                                                                         *)
(* Current is not inductive by itself: a handler makes the answer old      *)
(* before it sets the flag, and sets it before its last change.  What      *)
(* holds in between is that a handler which has told keeps the flag up,    *)
(* since the flag is only taken down under the lock it has, and that one   *)
(* which has not is still in the handler.                                  *)
(***************************************************************************)
EXTENDS Statvfs, TLAPS

Told == \A t \in Thread : pc[t] = "told" => flag
Excused == ~flag /\ ~missed /\ cache # live => \E t \in Thread : pc[t] = "changed"
IInv == TypeOK /\ Told /\ Excused

Pcs == {"idle", "asked"} \cup InFstat \cup Handling

USE DEF InFstat, InHandler, Handling

LEMMA OlderIsTime == ASSUME NEW time \in Time PROVE Older(time) \in Time
BY StatvfsAssumption DEF Older, Time

LEMMA GotoFacts ==
    ASSUME pc \in [Thread -> Pcs], NEW t \in Thread, NEW from, NEW to \in Pcs, Goto(t, from, to)
    PROVE  /\ pc' \in [Thread -> Pcs] /\ pc[t] = from /\ pc'[t] = to
           /\ \A u \in Thread \ {t} : pc'[u] = pc[u]
BY DEF Goto

LEMMA InitHolds == Init => IInv
<1> SUFFICES ASSUME Init PROVE IInv
  OBVIOUS
<1>1. /\ elapsed \in Time /\ age \in [Thread -> Time] /\ cache \in 0 .. MaxLive
  BY StatvfsAssumption DEF Init, Time
<1>2. \A t \in Thread : pc[t] = "idle" /\ fstat_mutex # t /\ operations_mutex # t
  BY StatvfsAssumption DEF Init
<1>3. TypeOK
  BY <1>1, <1>2 DEF Init, TypeOK
<1> QED
  BY <1>2, <1>3 DEF Init, IInv, Told, Excused

\* One owner: two threads are never both in a handler or counting.
LEMMA OneOwner ==
    ASSUME TypeOK, NEW t \in Thread, NEW u \in Thread,
           pc[t] \in InHandler \cup {"counting"}, pc[u] \in InHandler \cup {"counting"}
    PROVE  t = u
BY DEF TypeOK

LEMMA TickHolds == ASSUME IInv, Tick PROVE IInv'
<1>1. age' \in [Thread -> Time] /\ elapsed' \in Time
  BY OlderIsTime DEF IInv, TypeOK, Tick
<1> QED
  BY <1>1 DEF IInv, TypeOK, Told, Excused, Tick

LEMMA FstatHolds ==
    ASSUME IInv, NEW t \in Thread,
           Ask(t) \/ LockFstat(t) \/ ReadClock(t) \/ ReadFlag(t) \/ LockOperations(t)
             \/ Count(t) \/ Answer(t)
    PROVE  IInv'
<1> USE StatvfsAssumption DEF IInv, Pcs
<1>1. CASE Ask(t)
  <2>1. /\ pc' \in [Thread -> Pcs] /\ pc[t] = "idle" /\ pc'[t] = "asked"
        /\ \A u \in Thread \ {t} : pc'[u] = pc[u]
    BY <1>1, GotoFacts DEF Ask, TypeOK
  <2> QED BY <1>1, <2>1 DEF Ask, TypeOK, Told, Excused
<1>2. CASE LockFstat(t)
  <2>1. /\ pc' \in [Thread -> Pcs] /\ pc[t] = "asked" /\ pc'[t] = "locked"
        /\ \A u \in Thread \ {t} : pc'[u] = pc[u]
    BY <1>2, GotoFacts DEF LockFstat, TypeOK
  <2> QED BY <1>2, <2>1 DEF LockFstat, TypeOK, Told, Excused
<1>3. CASE ReadClock(t)
  <2>1. /\ pc' \in [Thread -> Pcs] /\ pc[t] = "locked" /\ pc'[t] \in {"due", "answering"}
        /\ \A u \in Thread \ {t} : pc'[u] = pc[u]
    BY <1>3, GotoFacts DEF ReadClock, TypeOK
  <2>2. age' \in [Thread -> Time]
    BY <1>3 DEF ReadClock, TypeOK, Time
  <2> QED BY <1>3, <2>1, <2>2 DEF ReadClock, TypeOK, Told, Excused
<1>4. CASE ReadFlag(t)
  <2>1. /\ pc' \in [Thread -> Pcs] /\ pc[t] = "due" /\ pc'[t] \in {"overdue", "answering"}
        /\ \A u \in Thread \ {t} : pc'[u] = pc[u]
    BY <1>4, GotoFacts DEF ReadFlag, TypeOK
  <2> QED BY <1>4, <2>1 DEF ReadFlag, TypeOK, Told, Excused
<1>5. CASE LockOperations(t)
  <2>1. /\ pc' \in [Thread -> Pcs] /\ pc[t] = "overdue" /\ pc'[t] = "counting"
        /\ \A u \in Thread \ {t} : pc'[u] = pc[u]
    BY <1>5, GotoFacts DEF LockOperations, TypeOK
  <2> QED BY <1>5, <2>1 DEF LockOperations, TypeOK, Told, Excused
<1>6. CASE Count(t)
  <2>1. /\ pc' \in [Thread -> Pcs] /\ pc[t] = "counting" /\ pc'[t] = "answering"
        /\ \A u \in Thread \ {t} : pc'[u] = pc[u]
    BY <1>6, GotoFacts DEF Count, TypeOK
  <2>2. operations_mutex = t /\ operations_mutex' = NoOne
    BY <1>6, <2>1 DEF Count, TypeOK
  <2>3. TypeOK'
    BY <1>6, <2>1, <2>2 DEF Count, TypeOK
  \* Nobody else is in a handler.
  <2>4. \A u \in Thread : pc'[u] # "told"
    BY <2>1, OneOwner
  <2> QED BY <1>6, <2>3, <2>4 DEF Count, Told, Excused
<1>7. CASE Answer(t)
  <2>1. /\ pc' \in [Thread -> Pcs] /\ pc[t] = "answering" /\ pc'[t] = "idle"
        /\ \A u \in Thread \ {t} : pc'[u] = pc[u]
    BY <1>7, GotoFacts DEF Answer, TypeOK
  <2> QED BY <1>7, <2>1 DEF Answer, TypeOK, Told, Excused
<1> QED BY <1>1, <1>2, <1>3, <1>4, <1>5, <1>6, <1>7

LEMMA HandlerHolds ==
    ASSUME IInv, NEW t \in Thread, Call(t) \/ Enter(t) \/ Change(t) \/ Tell(t) \/ Leave(t)
    PROVE  IInv'
<1> USE StatvfsAssumption DEF IInv, Pcs
<1>1. CASE Call(t)
  <2>1. /\ pc' \in [Thread -> Pcs] /\ pc[t] = "idle" /\ pc'[t] = "called"
        /\ \A u \in Thread \ {t} : pc'[u] = pc[u]
    BY <1>1, GotoFacts DEF Call, TypeOK
  <2> QED BY <1>1, <2>1 DEF Call, TypeOK, Told, Excused
<1>2. CASE Enter(t)
  <2>1. /\ pc' \in [Thread -> Pcs] /\ pc[t] = "called" /\ pc'[t] = "working"
        /\ \A u \in Thread \ {t} : pc'[u] = pc[u]
    BY <1>2, GotoFacts DEF Enter, TypeOK
  <2> QED BY <1>2, <2>1 DEF Enter, TypeOK, Told, Excused
<1>3. CASE Change(t)
  <2>1. /\ pc' \in [Thread -> Pcs] /\ pc[t] \in InHandler
        /\ pc'[t] = IF pc[t] = "told" THEN "told" ELSE "changed"
        /\ \A u \in Thread \ {t} : pc'[u] = pc[u]
    BY <1>3 DEF Change, TypeOK
  <2>2. TypeOK'
    BY <1>3, <2>1 DEF Change, TypeOK
  <2>3. Told'
    BY <1>3, <2>1 DEF Change, Told
  <2>4. Excused'
    BY <1>3, <2>1 DEF Change, Told, Excused
  <2> QED BY <2>2, <2>3, <2>4
<1>4. CASE Tell(t)
  <2>1. /\ pc' \in [Thread -> Pcs] /\ pc[t] \in InHandler /\ pc'[t] = "told"
        /\ \A u \in Thread \ {t} : pc'[u] = pc[u]
    BY <1>4 DEF Tell, TypeOK
  <2> QED BY <1>4, <2>1 DEF Tell, TypeOK, Told, Excused
<1>5. CASE Leave(t)
  <2>1. /\ pc' \in [Thread -> Pcs] /\ pc[t] \in InHandler /\ pc'[t] = "idle"
        /\ \A u \in Thread \ {t} : pc'[u] = pc[u]
    BY <1>5 DEF Leave, TypeOK
  <2>2. TypeOK'
    BY <1>5, <2>1, OneOwner DEF Leave, TypeOK
  <2>3. Told'
    BY <1>5, <2>1 DEF Leave, Told
  <2>4. Excused'
    BY <1>5, <2>1 DEF Leave, Told, Excused
  <2> QED BY <2>2, <2>3, <2>4
<1> QED BY <1>1, <1>2, <1>3, <1>4, <1>5

LEMMA IInvHolds == Spec => []IInv
<1>1. IInv /\ [Next]_vars => IInv'
  <2> SUFFICES ASSUME IInv, [Next]_vars PROVE IInv'
    OBVIOUS
  <2>1. CASE UNCHANGED vars
    BY <2>1 DEF IInv, TypeOK, Told, Excused, vars
  <2>2. CASE Tick
    BY <2>2, TickHolds
  <2>3. CASE \E t \in Thread : Ask(t) \/ Call(t) \/ Running(t) \/ Change(t) \/ Tell(t)
    BY <2>3, FstatHolds, HandlerHolds DEF Running
  <2> QED BY <2>1, <2>2, <2>3 DEF Next
<1> QED BY InitHolds, <1>1, PTL DEF Spec

\* Each mutex has at most one owner, and it is the thread that is where the code
\* holds it (the lock_guards of do_fstat and of the handlers).
THEOREM StatvfsTypeOK == Spec => []TypeOK
<1>1. IInv => TypeOK
  BY DEF IInv
<1> QED BY <1>1, IInvHolds, PTL

\* However the handlers and do_fstat are interleaved, the answer that is kept is
\* the number of blocks in use while no handler runs, the flag is down, and no
\* handler has changed it in silence (content_changed_out_of_sync_to_fstat).
THEOREM StatvfsIsCurrent == Spec => []AnswerIsCurrent
<1>1. IInv => AnswerIsCurrent
  BY StatvfsAssumption DEF IInv, TypeOK, Excused, AnswerIsCurrent
<1> QED BY <1>1, IInvHolds, PTL
===============================================================================
