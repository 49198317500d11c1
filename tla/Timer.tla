------------------------------- MODULE Timer -------------------------------
(***************************************************************************)
(* The timer facility (src/timer.c): the thread of timers_start, which     *)
(* advances tick every 10 ms and then scans the list of timers, and the    *)
(* threads that set, release and cancel timers.                            *)
(*                                                                         *)
(* Each timer is set, and later let go, by one thread, its owner, named by *)
(* the timer itself.  An action is the code between two points where a     *)
(* thread may block or another may see its work.  The list is kept as a    *)
(* set, so a scan visits the timers in any order.                          *)
(***************************************************************************)
EXTENDS Integers, FiniteSets

CONSTANTS
    Timers,             \* the struct timers the callers allocate, once each
    Expiries,           \* the expire arguments, in milliseconds
    Free,               \* the owner of a mutex nobody holds
    TickSpace,          \* 2^32 in the code: expires is a uint32_t
    ThreadLimit,        \* threads the system lets the process create
    LastCall            \* bound: timers are set while tick is at most this

ASSUME TimerAssumption ==
    /\ Expiries \subseteq Nat /\ TickSpace \in Nat \ {0} /\ ThreadLimit \in Nat
    /\ LastCall \in Nat /\ Free \notin Timers

\* No timer is set so late that its expiry wraps around.
NoWrap == \A e \in Expiries : LastCall + e < TickSpace

VARIABLES
    tick,               \* as the unsigned number timers_tick compares
    timers,             \* the list
    clock, todo,        \* where timers_start is, and the rest of its scan
    pc,                 \* where the owner of a timer is
    refcnt, expires, cancelled,
    tlock,              \* who holds the mutex of a timer
    freed,              \* the timers given back by timer_free
    threads,            \* handler threads created; none is joined or detached
    \* history
    runs,               \* how often a timer's handler was started
    delay,              \* the expire argument of a timer
    age                 \* ticks since a timer was set, until it ran or was
                        \* cancelled, counted up to TickSpace

clockVars == <<tick, clock, todo>>
listVars == <<timers, freed, threads>>
timerVars == <<pc, refcnt, expires, cancelled, tlock>>
history == <<runs, delay, age>>
vars == <<clockVars, listVars, timerVars, history>>

Shorter(a, b) == IF a < b THEN a ELSE b

-----------------------------------------------------------------------------
(* The owners.                                                             *)

\* A timer is allocated and filled in, tick is read, before the list is locked.
TimerAlloc(t, n) ==
    /\ pc[t] = "none" /\ tick <= LastCall
    /\ \E e \in Expiries :
         /\ expires' = [expires EXCEPT ![t] = (tick + e) % TickSpace]
         /\ delay' = [delay EXCEPT ![t] = e]
    /\ refcnt' = [refcnt EXCEPT ![t] = n]
    /\ pc' = [pc EXCEPT ![t] = "made"]
    /\ UNCHANGED <<clockVars, listVars, cancelled, tlock, runs, age>>

\* timer_oneshot leaves no reference with the caller, timer_add one.
TimerOneshot(t) == TimerAlloc(t, 0)
TimerAdd(t) == TimerAlloc(t, 1)

\* list_add_tail under lock, which timers_tick holds for its whole scan.
TimerLink(t) ==
    /\ pc[t] = "made" /\ clock # "scan"
    /\ timers' = timers \cup {t}
    /\ pc' = [pc EXCEPT ![t] = IF refcnt[t] = 0 THEN "done" ELSE "owned"]
    /\ UNCHANGED <<clockVars, freed, threads, refcnt, expires, cancelled, tlock, history>>

\* timer_release and timer_cancel take the mutex of the timer,
LetGo(t) ==
    /\ pc[t] = "owned" /\ tlock[t] = Free
    /\ tlock' = [tlock EXCEPT ![t] = t]
    /\ \E l \in {"release", "cancel"} : pc' = [pc EXCEPT ![t] = l]
    /\ UNCHANGED <<clockVars, listVars, refcnt, expires, cancelled, history>>

\* give back the reference, and unlock it.
TimerReleaseKeeps(t) ==
    /\ pc[t] = "release"
    /\ tlock' = [tlock EXCEPT ![t] = Free]
    /\ pc' = [pc EXCEPT ![t] = "done"]
    /\ UNCHANGED <<clockVars, listVars, refcnt, expires, cancelled, history>>
TimerRelease(t) ==
    /\ pc[t] = "release"
    /\ refcnt' = [refcnt EXCEPT ![t] = @ - 1]
    /\ tlock' = [tlock EXCEPT ![t] = Free]
    /\ pc' = [pc EXCEPT ![t] = "done"]
    /\ UNCHANGED <<clockVars, listVars, expires, cancelled, history>>

TimerCancel(t) ==
    /\ pc[t] = "cancel"
    /\ refcnt' = [refcnt EXCEPT ![t] = @ - 1]
    /\ cancelled' = [cancelled EXCEPT ![t] = TRUE]
    /\ tlock' = [tlock EXCEPT ![t] = Free]
    /\ pc' = [pc EXCEPT ![t] = "done"]
    /\ UNCHANGED <<clockVars, listVars, expires, history>>

-----------------------------------------------------------------------------
(* timers_start and timers_tick.                                           *)

\* tick += 10, on 32 bits.
NextTickWide == tick + 10
NextTick == (tick + 10) % TickSpace

Tick ==
    /\ clock = "sleep"
    /\ tick' = NextTick
    /\ age' = [t \in Timers |-> IF pc[t] = "none" \/ cancelled[t] THEN age[t]
                                ELSE Shorter(age[t] + 10, TickSpace)]
    /\ clock' = "tick"
    /\ UNCHANGED <<listVars, todo, timerVars, runs, delay>>

ScanLock ==
    /\ clock = "tick"
    /\ clock' = "scan" /\ todo' = timers
    /\ UNCHANGED <<tick, listVars, timerVars, history>>

\* Is the timer to run now?
ExpiredEarly(t) == ~cancelled[t] /\ expires[t] <= tick
ExpiredAgain(t) == expires[t] < tick
ExpiredExactly(t) == ~cancelled[t] /\ expires[t] = tick
Expired(t) == ~cancelled[t] /\ expires[t] < tick

\* May the timer be freed, once it has run or was cancelled (done)?
FreeableOwned(t, done) == done
Freeable(t, done) == done /\ refcnt[t] = 0

\* The body of the loop of timers_tick.  The timer is marked cancelled, and
\* its handler gets a thread if there is one left: pthread_create's answer is
\* not looked at.
Scan(t) ==
    LET done == cancelled[t] \/ Expired(t)
        started == Expired(t) /\ threads < ThreadLimit
    IN  /\ clock = "scan" /\ t \in todo /\ tlock[t] = Free
        /\ cancelled' = [cancelled EXCEPT ![t] = done]
        /\ runs' = IF started THEN [runs EXCEPT ![t] = @ + 1] ELSE runs
        /\ threads' = IF started THEN threads + 1 ELSE threads
        /\ timers' = IF Freeable(t, done) THEN timers \ {t} ELSE timers
        /\ freed' = IF Freeable(t, done) THEN freed \cup {t} ELSE freed
        /\ todo' = todo \ {t}
        /\ UNCHANGED <<tick, clock, pc, refcnt, expires, tlock, delay, age>>

\* pthread_mutex_trylock answers EBUSY: the timer is left for the next scan.
ScanBusy(t) ==
    /\ clock = "scan" /\ t \in todo /\ tlock[t] # Free
    /\ todo' = todo \ {t}
    /\ UNCHANGED <<tick, clock, listVars, timerVars, history>>

ScanUnlock ==
    /\ clock = "scan" /\ todo = {}
    /\ clock' = "sleep"
    /\ UNCHANGED <<tick, todo, listVars, timerVars, history>>

-----------------------------------------------------------------------------
Init ==
    /\ tick = 0 /\ timers = {} /\ clock = "sleep" /\ todo = {}
    /\ pc = [t \in Timers |-> "none"]
    /\ refcnt = [t \in Timers |-> 0] /\ expires = [t \in Timers |-> 0]
    /\ cancelled = [t \in Timers |-> FALSE]
    /\ tlock = [t \in Timers |-> Free]
    /\ freed = {} /\ threads = 0
    /\ runs = [t \in Timers |-> 0] /\ delay = [t \in Timers |-> 0]
    /\ age = [t \in Timers |-> 0]

Owner(t) ==
    \/ TimerOneshot(t) \/ TimerAdd(t) \/ TimerLink(t)
    \/ LetGo(t) \/ TimerRelease(t) \/ TimerCancel(t)

Clock ==
    Tick \/ ScanLock \/ ScanUnlock \/ (\E t \in Timers : Scan(t) \/ ScanBusy(t))

Next == Clock \/ \E t \in Timers : Owner(t)

Spec == Init /\ [][Next]_vars

-----------------------------------------------------------------------------
(* Properties.                                                             *)

\* Every variable has its type.
TypeOK ==
    /\ tick \in 0..TickSpace - 1 /\ timers \subseteq Timers
    /\ clock \in {"sleep", "tick", "scan"} /\ todo \subseteq timers
    /\ pc \in [Timers -> {"none", "made", "owned", "release", "cancel", "done"}]
    /\ refcnt \in [Timers -> {0, 1}] /\ expires \in [Timers -> 0..TickSpace - 1]
    /\ cancelled \in [Timers -> BOOLEAN] /\ tlock \in [Timers -> Timers \cup {Free}]
    /\ freed \subseteq Timers /\ threads \in 0..ThreadLimit
    /\ runs \in [Timers -> Nat] /\ delay \in [Timers -> Expiries \cup {0}]
    /\ age \in [Timers -> 0..TickSpace]

\* A timer is freed only after its owner has let it go: neither timer_release
\* nor timer_cancel ever touches freed memory, and the list holds none.
FreedIsLetGo == \A t \in freed : pc[t] = "done" /\ refcnt[t] = 0 /\ t \notin timers

\* "You can pass when to invoke this function after how many "expire"
\* milliseconds" (timer.h): more ticks than the delay have gone by when the
\* handler starts, since the first of them may have been nearly over.
NotEarly == \A t \in Timers : runs[t] > 0 => age[t] > delay[t]

\* The facility implements OneShot: a timer is set when it is linked, runs
\* when its handler is started, and is dropped when it is marked cancelled
\* without that.
Status(t) ==
    CASE pc[t] \in {"none", "made"} -> "unset"
      [] runs[t] > 0                -> "ran"
      [] OTHER                      -> IF cancelled[t] THEN "dropped" ELSE "set"
Abstract == INSTANCE OneShot WITH status <- [t \in Timers |-> Status(t)]
ImplementsOneShot == Abstract!Spec

\* The clock thread never stops, and a call once begun is finished: between two
\* scans lock is free for 10 ms, so whoever waits for it gets it.  An owner need
\* not set a timer, nor let it go.
FairSpec ==
    /\ Spec /\ WF_vars(Clock)
    /\ \A t \in Timers :
         SF_vars(TimerLink(t)) /\ WF_vars(TimerRelease(t)) /\ WF_vars(TimerCancel(t))

\* "When the timer expires, in the timer_tick function your callback handler
\* function will be called on a new thread" (timer.h): the handler of a one-shot
\* timer does run.
HandlerRuns == \A t \in Timers : pc[t] = "made" /\ refcnt[t] = 0 ~> runs[t] = 1

\* A timer its owner has let go, or never kept, is freed in the end.
TimersAreFreed == \A t \in Timers : pc[t] = "done" ~> t \in freed
=============================================================================
