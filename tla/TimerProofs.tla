---------------------------- MODULE TimerProofs ----------------------------
(***************************************************************************)
(* Theorems about Timer, for any set of timers, any expiries and any       *)
(* length of the tick.                                                     *)
(***************************************************************************)
EXTENDS Timer, TLAPS

\* Where a timer is in its life: its list, its flags and its reference go with
\* what its owner and timers_tick have done so far.
LifeInv ==
    \A t \in Timers :
        /\ pc[t] \in {"none", "made"} => t \notin timers /\ runs[t] = 0 /\ ~cancelled[t]
        /\ pc[t] \in {"owned", "release", "cancel"} => refcnt[t] = 1
        /\ pc[t] \in {"none", "done"} => refcnt[t] = 0
        /\ runs[t] > 0 => cancelled[t]

\* A timer that may still run is at least as old as the ticks since it was set
\* that its expiry shows.
AgeInv ==
    \A t \in Timers :
        pc[t] # "none" /\ ~cancelled[t] =>
            age[t] >= tick - expires[t] + delay[t] /\ delay[t] <= expires[t]

Inv == TypeOK /\ FreedIsLetGo /\ LifeInv

\* What the modulus of the tick does.
LEMMA Wrap ==
    ASSUME NEW n \in Nat
    PROVE  n % TickSpace \in 0..TickSpace - 1 /\ n % TickSpace <= n
  BY TimerAssumption

\* The numbers of a timer are numbers.
LEMMA Numbers ==
    ASSUME TypeOK, NEW t \in Timers
    PROVE  /\ tick \in Nat /\ age[t] \in 0..TickSpace /\ expires[t] \in Nat /\ delay[t] \in Nat
           /\ TickSpace \in Nat
  <1>1. tick \in Nat /\ TickSpace \in Nat
    BY TimerAssumption DEF TypeOK
  <1>2. age[t] \in 0..TickSpace /\ expires[t] \in 0..TickSpace - 1
    BY DEF TypeOK
  <1>3. delay[t] \in Expiries \cup {0}
    BY DEF TypeOK
  <1>4. delay[t] \in Nat
    <2>1. CASE delay[t] \in Expiries
      BY <2>1, TimerAssumption, Zenon
    <2>2. CASE delay[t] = 0
      BY <2>2
    <2> QED BY <1>3, <2>1, <2>2
  <1> QED BY <1>1, <1>2, <1>4

\* Inv holds before any timer is set.
LEMMA InitInv == Init => Inv
  BY TimerAssumption DEF Init, Inv, TypeOK, FreedIsLetGo, LifeInv

\* The steps of an owner keep the invariant.
LEMMA OwnerInv ==
    ASSUME Inv, NEW t \in Timers, Owner(t)
    PROVE  Inv'
  <1> USE DEF Inv, listVars, clockVars, timerVars, history
  <1>1. ASSUME NEW n \in {0, 1}, TimerAlloc(t, n)
        PROVE  Inv'
    <2>1. PICK e \in Expiries :
            /\ expires' = [expires EXCEPT ![t] = (tick + e) % TickSpace]
            /\ delay' = [delay EXCEPT ![t] = e]
      BY <1>1 DEF TimerAlloc
    <2>2. (tick + e) % TickSpace \in 0..TickSpace - 1
      <3>1. e \in Nat
        BY TimerAssumption, Zenon
      <3>2. tick \in Nat
        BY TimerAssumption DEF TypeOK
      <3>3. tick + e \in Nat
        BY <3>1, <3>2
      <3> QED BY <3>3, Wrap
    <2>3. TypeOK'
      BY <1>1, <2>1, <2>2 DEF TypeOK, TimerAlloc
    <2>4. FreedIsLetGo'
      BY <1>1 DEF TypeOK, TimerAlloc, FreedIsLetGo
    <2>5. LifeInv'
      BY <1>1 DEF TypeOK, TimerAlloc, LifeInv
    <2> QED BY <2>3, <2>4, <2>5
  <1>2. CASE TimerLink(t)
    BY <1>2 DEF TimerLink, TypeOK, FreedIsLetGo, LifeInv
  <1>3. CASE LetGo(t)
    BY <1>3 DEF LetGo, TypeOK, FreedIsLetGo, LifeInv
  <1>4. CASE TimerRelease(t)
    BY <1>4 DEF TimerRelease, TypeOK, FreedIsLetGo, LifeInv
  <1>5. CASE TimerCancel(t)
    BY <1>5 DEF TimerCancel, TypeOK, FreedIsLetGo, LifeInv
  <1> QED BY <1>1, <1>2, <1>3, <1>4, <1>5 DEF Owner, TimerOneshot, TimerAdd

\* The steps of timers_start and timers_tick keep the invariant.
LEMMA ClockInv ==
    ASSUME Inv, Clock
    PROVE  Inv'
  <1> USE DEF Inv, listVars, clockVars, timerVars, history
  <1>1. CASE Tick
    <2>1. tick' \in 0..TickSpace - 1
      BY <1>1, Wrap DEF Tick, NextTick, TypeOK
    <2>2. age' \in [Timers -> 0..TickSpace]
      BY <1>1, TimerAssumption DEF Tick, TypeOK, Shorter
    <2> QED BY <1>1, <2>1, <2>2 DEF Tick, TypeOK, FreedIsLetGo, LifeInv
  <1>2. CASE ScanLock \/ ScanUnlock
    BY <1>2 DEF ScanLock, ScanUnlock, TypeOK, FreedIsLetGo, LifeInv
  <1>3. ASSUME NEW t \in Timers, Scan(t)
        PROVE  Inv'
    <2>1. TypeOK'
      BY <1>3, TimerAssumption DEF Scan, TypeOK
    <2>2. FreedIsLetGo'
      BY <1>3 DEF Scan, TypeOK, FreedIsLetGo, LifeInv, Freeable
    <2>3. LifeInv'
      BY <1>3 DEF Scan, TypeOK, LifeInv, Expired, Freeable
    <2> QED BY <2>1, <2>2, <2>3
  <1>4. ASSUME NEW t \in Timers, ScanBusy(t)
        PROVE  Inv'
    BY <1>4 DEF ScanBusy, TypeOK, FreedIsLetGo, LifeInv
  <1> QED BY <1>1, <1>2, <1>3, <1>4 DEF Clock

\* Every step keeps Inv.
LEMMA NextInv ==
    ASSUME Inv, [Next]_vars
    PROVE  Inv'
  <1>1. CASE UNCHANGED vars
    BY <1>1 DEF vars, clockVars, listVars, timerVars, history, Inv, TypeOK, FreedIsLetGo,
                LifeInv
  <1> QED BY <1>1, OwnerInv, ClockInv DEF Next

\* Inv holds in every reachable state.
THEOREM TimerInvariant == Spec => []Inv
  BY InitInv, NextInv, PTL DEF Spec

\* Every variable of the facility keeps its type.
THEOREM TimerTypes == Spec => []TypeOK
  <1>1. Inv => TypeOK BY DEF Inv
  <1> QED BY <1>1, TimerInvariant, PTL

\* timer_free is called only on a timer that its owner has let go and that is
\* off the list, whatever the interleaving with timer_release, timer_cancel
\* and the scan.
THEOREM NoUseAfterFree == Spec => []FreedIsLetGo
  <1>1. Inv => FreedIsLetGo BY DEF Inv
  <1> QED BY <1>1, TimerInvariant, PTL

-----------------------------------------------------------------------------
(* No handler runs early, unless an expiry wraps around.                   *)

\* The ages keep up with the ticks.
LEMMA NextAge ==
    ASSUME NoWrap, Inv, AgeInv, NotEarly, [Next]_vars
    PROVE  AgeInv' /\ NotEarly'
  <1> USE DEF Inv, listVars, clockVars, timerVars, history
  <1>1. ASSUME NEW t \in Timers, NEW n \in {0, 1}, TimerAlloc(t, n)
        PROVE  AgeInv' /\ NotEarly'
    <2>1. PICK e \in Expiries :
            /\ expires' = [expires EXCEPT ![t] = (tick + e) % TickSpace]
            /\ delay' = [delay EXCEPT ![t] = e]
      BY <1>1 DEF TimerAlloc
    <2>2. (tick + e) % TickSpace = tick + e
      BY <1>1, TimerAssumption DEF TimerAlloc, TypeOK, NoWrap
    <2>3. AgeInv'
      BY <1>1, <2>1, <2>2, TimerAssumption DEF TimerAlloc, AgeInv, TypeOK
    <2>4. NotEarly'
      BY <1>1, <2>1 DEF TimerAlloc, NotEarly, LifeInv, TypeOK
    <2> QED BY <2>3, <2>4
  <1>2. ASSUME NEW t \in Timers, TimerLink(t) \/ LetGo(t) \/ TimerRelease(t) \/ TimerCancel(t)
        PROVE  AgeInv' /\ NotEarly'
    BY <1>2 DEF TimerLink, LetGo, TimerRelease, TimerCancel, AgeInv, NotEarly, TypeOK
  <1>3. CASE Tick
    <2>1. tick' <= tick + 10 /\ tick' \in 0..TickSpace - 1
      BY <1>3, Wrap DEF Tick, NextTick, TypeOK
    <2>2. ASSUME NEW t \in Timers, pc[t] # "none", ~cancelled[t]
          PROVE  age'[t] >= tick' - expires[t] + delay[t]
      <3>1. age'[t] = Shorter(age[t] + 10, TickSpace)
        BY <1>3, <2>2 DEF Tick, TypeOK
      <3>2. age[t] >= tick - expires[t] + delay[t] /\ delay[t] <= expires[t]
        BY <2>2 DEF AgeInv
      <3> QED BY <2>1, <3>1, <3>2, Numbers DEF Shorter
    <2>3. AgeInv'
      BY <1>3, <2>2 DEF Tick, AgeInv
    <2>4. NotEarly'
      BY <1>3 DEF Tick, NotEarly, LifeInv, TypeOK
    <2> QED BY <2>3, <2>4
  <1>4. ASSUME NEW t \in Timers, Scan(t)
        PROVE  AgeInv' /\ NotEarly'
    <2>1. AgeInv'
      BY <1>4 DEF Scan, AgeInv, TypeOK
    <2>2. ASSUME NEW u \in Timers, runs'[u] > 0
          PROVE  age[u] > delay[u]
      <3>1. CASE runs[u] > 0
        BY <3>1 DEF NotEarly
      <3>2. CASE ~(runs[u] > 0)
        <4>1. u = t /\ Expired(t)
          BY <1>4, <2>2, <3>2 DEF Scan, TypeOK
        <4>2. pc[t] # "none"
          BY <1>4 DEF Scan, TypeOK, LifeInv
        <4>3. age[t] >= tick - expires[t] + delay[t] /\ expires[t] < tick
          BY <4>1, <4>2 DEF AgeInv, Expired
        <4>4. tick \in Int /\ age[t] \in Int /\ expires[t] \in Int /\ delay[t] \in Int
          BY Numbers
        <4> QED BY <4>1, <4>3, <4>4
      <3> QED BY <3>1, <3>2
    <2>3. NotEarly'
      BY <1>4, <2>2 DEF Scan, NotEarly
    <2> QED BY <2>1, <2>3
  <1>5. ASSUME NEW t \in Timers, ScanBusy(t)
        PROVE  AgeInv' /\ NotEarly'
    BY <1>5 DEF ScanBusy, AgeInv, NotEarly
  <1>6. CASE ScanLock \/ ScanUnlock \/ UNCHANGED vars
    BY <1>6 DEF ScanLock, ScanUnlock, vars, AgeInv, NotEarly
  <1> QED BY <1>1, <1>2, <1>3, <1>4, <1>5, <1>6 DEF Next, Owner, TimerOneshot, TimerAdd, Clock

\* A handler starts only after more than "expire" milliseconds of ticks, for
\* any expiries, as long as no expiry wraps around.
THEOREM NeverEarly ==
    ASSUME NoWrap
    PROVE  Spec => []NotEarly
  <1>1. Init => AgeInv /\ NotEarly
    BY DEF Init, AgeInv, NotEarly
  <1>2. Inv /\ AgeInv /\ NotEarly /\ [Next]_vars => AgeInv' /\ NotEarly'
    BY NextAge, NoWrap
  <1> QED BY <1>1, <1>2, TimerInvariant, PTL DEF Spec

-----------------------------------------------------------------------------
(* The facility implements OneShot.                                        *)

\* Before any timer is set, OneShot has none set either.
LEMMA InitStatus == Init => Abstract!Init
  BY DEF Init, Abstract!Init, Status

\* Every step of timer.c is, for OneShot, a step or no step at all.
LEMMA NextStatus ==
    ASSUME Inv, [Next]_vars
    PROVE  [Abstract!Next]_([t \in Timers |-> Status(t)])
  <1> USE DEF Inv, listVars, clockVars, timerVars, history
  <1> DEFINE S == [t \in Timers |-> Status(t)]
  <1>1. ASSUME NEW t \in Timers, TimerLink(t)
        PROVE  Abstract!Set(t)
    BY <1>1 DEF TimerLink, Abstract!Set, Status, LifeInv, TypeOK
  <1>2. ASSUME NEW t \in Timers, TimerCancel(t)
        PROVE  Abstract!Drop(t) \/ S' = S
    BY <1>2 DEF TimerCancel, Abstract!Drop, Status, LifeInv, TypeOK
  <1>3. ASSUME NEW t \in Timers,
               TimerOneshot(t) \/ TimerAdd(t) \/ LetGo(t) \/
               TimerRelease(t) \/ ScanBusy(t)
        PROVE  S' = S
    BY <1>3 DEF TimerOneshot, TimerAdd, TimerAlloc, LetGo, TimerRelease, ScanBusy, Status,
                TypeOK
  <1>4. ASSUME NEW t \in Timers, Scan(t)
        PROVE  Abstract!Run(t) \/ Abstract!Drop(t) \/ S' = S
    <2>1. /\ UNCHANGED pc /\ pc[t] \notin {"none", "made"}
          /\ \A u \in Timers : u # t => runs'[u] = runs[u] /\ cancelled'[u] = cancelled[u]
      BY <1>4 DEF Scan, LifeInv, TypeOK
    <2>2. \A u \in Timers : u # t => Status(u)' = Status(u)
      BY <2>1, Zenon DEF Status
    <2>3. runs \in [Timers -> Nat] /\ cancelled \in [Timers -> BOOLEAN] /\ (runs[t] > 0 => cancelled[t])
      BY DEF LifeInv, TypeOK
    <2>4. CASE Expired(t) /\ threads < ThreadLimit
      <3>1. ~cancelled[t] /\ ~(runs[t] > 0) /\ runs'[t] > 0
        BY <1>4, <2>3, <2>4 DEF Scan, Expired
      <3>2. Status(t) = "set" /\ Status(t)' = "ran"
        BY <2>1, <3>1 DEF Status
      <3>. QED
        BY <2>2, <3>2 DEF Abstract!Run
    <2>5. CASE Expired(t) /\ ~(threads < ThreadLimit)
      <3>1. ~cancelled[t] /\ ~(runs[t] > 0) /\ runs' = runs /\ cancelled'[t]
        BY <1>4, <2>3, <2>5 DEF Scan, Expired
      <3>2. Status(t) = "set" /\ Status(t)' = "dropped"
        BY <2>1, <3>1 DEF Status
      <3>. QED
        BY <2>2, <3>2 DEF Abstract!Drop
    <2>6. CASE ~Expired(t)
      <3>1. runs' = runs /\ cancelled'[t] = cancelled[t]
        BY <1>4, <2>3, <2>6 DEF Scan
      <3>2. Status(t)' = Status(t)
        BY <2>1, <3>1, Zenon DEF Status
      <3>. QED
        BY <2>2, <3>2
    <2> QED BY <2>4, <2>5, <2>6
  <1>5. CASE Tick \/ ScanLock \/ ScanUnlock \/ UNCHANGED vars
    BY <1>5 DEF Tick, ScanLock, ScanUnlock, vars, Status
  <1> QED BY <1>1, <1>2, <1>3, <1>4, <1>5 DEF Next, Owner, Clock, Abstract!Next

\* timer.c implements OneShot: a handler is started at most once for each
\* timer and never after timer_cancel has returned.
THEOREM TimerImplementsOneShot == Spec => ImplementsOneShot
  BY InitStatus, NextStatus, TimerInvariant, PTL DEF Spec, ImplementsOneShot, Abstract!Spec
=============================================================================
