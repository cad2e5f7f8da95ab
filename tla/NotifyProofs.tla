---------------------------- MODULE NotifyProofs ----------------------------
(***************************************************************************)
(* The broadcaster's timer for every interval, number of callers, clients  *)
(* and paths.  Whether a late callback is harmless depends on two facts    *)
(* that no single step shows: an armed timer runs out exactly when the     *)
(* window ends, and a callback of the current generation that has started  *)
(* but not run stands for the timer that is still set.  TimerInv says so.  *)
(***************************************************************************)
EXTENDS Notify, TLAPS

TimerInv ==
    /\ cool \in 0 .. Interval
    /\ timer \in [set : BOOLEAN, armed : BOOLEAN, left : 0 .. Interval]
    /\ timerGen \in Nat
    /\ calls \subseteq 0 .. timerGen
    /\ timer.armed => timer.set /\ timer.left + cool = Interval
    /\ timerGen \in calls => timer.set /\ ~timer.armed /\ cool = Interval
    /\ timer.set => timer.armed \/ timerGen \in calls
    /\ PendingHasTimer

-----------------------------------------------------------------------------

LEMMA TimerInit == Init => TimerInv
BY NotifyAssumption DEF Init, TimerInv, PendingHasTimer, NoTimer, NoEvent

\* The steps that leave the broadcaster's clock, timer and pending event alone.
LEMMA TimerUntouched ==
    TimerInv /\ UNCHANGED <<cool, pending, timer, timerGen, calls>> => TimerInv'
BY DEF TimerInv, PendingHasTimer

LEMMA TickKeeps == TimerInv /\ Tick => TimerInv'
<1> SUFFICES ASSUME TimerInv, Tick PROVE TimerInv'
    OBVIOUS
<1> USE NotifyAssumption DEF TimerInv, Tick
<1>1. CASE cool < Interval
    BY <1>1 DEF PendingHasTimer
<1>2. CASE ~(cool < Interval)
    <2>1. cool = Interval
        BY <1>2
    <2>2. timer.armed => timer.left = 0
        BY <2>1
    <2>3. timer' = timer
        BY <2>2
    <2> QED
        BY <1>2, <2>3 DEF PendingHasTimer
<1> QED
    BY <1>1, <1>2

LEMMA EmitKeeps == ASSUME NEW k \in Callers PROVE TimerInv /\ Emit(k) => TimerInv'
<1> SUFFICES ASSUME TimerInv, Emit(k) PROVE TimerInv'
    OBVIOUS
<1> USE NotifyAssumption DEF TimerInv
<1>1. CASE EmitNow(Scope(k))
    BY <1>1 DEF EmitNow, PendingHasTimer, NoTimer, NoEvent
<1>2. CASE EmitLater(Scope(k))
    <2>1. timerGen \notin calls
        BY <1>2 DEF EmitLater
    <2>2. timer.set => timer.armed
        BY <2>1
    <2> QED
        BY <1>2, <2>1, <2>2 DEF EmitLater, PendingHasTimer
<1> QED
    BY <1>1, <1>2 DEF Emit

LEMMA TimerFiresKeeps == TimerInv /\ TimerFires => TimerInv'
<1> SUFFICES ASSUME TimerInv, TimerFires PROVE TimerInv'
    OBVIOUS
<1> USE NotifyAssumption DEF TimerInv, TimerFires
<1>1. timer.set /\ timer.left = 0 /\ cool = Interval
    OBVIOUS
<1>2. /\ timer' \in [set : BOOLEAN, armed : BOOLEAN, left : 0 .. Interval]
      /\ timer'.set /\ ~timer'.armed
    BY <1>1
<1>3. timerGen' = timerGen /\ calls' = calls \cup {timerGen} /\ cool' = cool
    OBVIOUS
<1>4. calls' \subseteq 0 .. timerGen' /\ timerGen' \in calls'
    BY <1>3
<1> QED
    BY <1>1, <1>2, <1>3, <1>4 DEF PendingHasTimer

LEMMA FlushKeeps ==
    ASSUME NEW gen \in calls PROVE TimerInv /\ flushTrailing(gen) => TimerInv'
<1> SUFFICES ASSUME TimerInv, flushTrailing(gen) PROVE TimerInv'
    OBVIOUS
<1> USE NotifyAssumption DEF TimerInv, flushTrailing, Trailing
<1>1. CASE gen # timerGen
    BY <1>1 DEF PendingHasTimer
<1>2. CASE gen = timerGen
    <2>1. timer' = NoTimer /\ timerGen' = timerGen /\ calls' = calls \ {timerGen}
        BY <1>2
    <2>2. /\ timer' \in [set : BOOLEAN, armed : BOOLEAN, left : 0 .. Interval]
          /\ ~timer'.set /\ ~timer'.armed
        BY <2>1 DEF NoTimer
    <2>3. pending' = NoEvent /\ cool' \in 0 .. Interval
        BY <1>2
    <2> QED
        BY <2>1, <2>2, <2>3 DEF PendingHasTimer
<1> QED
    BY <1>1, <1>2

LEMMA TimerStep == TimerInv /\ [Next]_vars => TimerInv'
<1> SUFFICES ASSUME TimerInv, [Next]_vars PROVE TimerInv'
    OBVIOUS
<1>1. CASE Tick
    BY <1>1, TickKeeps
<1>2. ASSUME NEW p \in Paths, WriteFile(p) PROVE TimerInv'
    BY <1>2, TimerUntouched DEF WriteFile, broadcaster
<1>3. CASE WatcherStep
    BY <1>3, TimerUntouched DEF WatcherStep, handleEvent, flush, broadcaster
<1>4. CASE PeriodicSync
    BY <1>4, TimerUntouched DEF PeriodicSync, broadcaster
<1>5. ASSUME NEW p \in Paths, SyncSingleSession(p) PROVE TimerInv'
    BY <1>5, TimerUntouched DEF SyncSingleSession, broadcaster
<1>6. ASSUME NEW k \in Callers, Emit(k) PROVE TimerInv'
    BY <1>6, EmitKeeps
<1>7. ASSUME NEW k \in Callers,
             LockSyncMu(k) \/ UnlockSyncMu(k) \/ \E p \in Paths : SyncFile(k, p)
      PROVE TimerInv'
    BY <1>7, TimerUntouched DEF LockSyncMu, UnlockSyncMu, SyncFile, broadcaster
<1>8. CASE BroadcasterStep
    BY <1>8, TimerFiresKeeps, FlushKeeps DEF BroadcasterStep
<1>9. ASSUME NEW c \in Clients, ClientStep(c) PROVE TimerInv'
    BY <1>9, TimerUntouched
       DEF ClientStep, Receive, Load, Subscribe, Unsubscribe, broadcaster
<1>10. CASE UNCHANGED vars
    BY <1>10, TimerUntouched DEF vars, broadcaster
<1> QED
    BY <1>1, <1>2, <1>3, <1>4, <1>5, <1>6, <1>7, <1>8, <1>9, <1>10
       DEF Next, EngineStep

LEMMA TimerAlways == Spec => []TimerInv
BY TimerInit, TimerStep, PTL DEF Spec

-----------------------------------------------------------------------------

\* PendingHasTimer of every reachable state: an event that Emit coalesced in
\* broadcaster.go has a timer of the current generation, armed or already in
\* its callback, whatever emits and late callbacks took the mutex in between.
THEOREM PendingDelivered == Spec => []PendingHasTimer
<1>1. TimerInv => PendingHasTimer
    BY DEF TimerInv
<1> QED
    BY <1>1, TimerAlways, PTL

\* Only a broadcast sets cool back, and it does so when the window has ended.
LEMMA CoolStep == TimerInv /\ [Next]_vars => (cool' < cool => cool = Interval)
<1> SUFFICES ASSUME TimerInv, [Next]_vars, cool' < cool PROVE cool = Interval
    OBVIOUS
<1>1. cool \in 0 .. Interval /\ Interval \in Nat
    BY NotifyAssumption DEF TimerInv
<1>2. cool' # cool
    BY <1>1
<1>3. CASE Tick
    BY <1>1, <1>3 DEF Tick
<1>4. ASSUME NEW k \in Callers, Emit(k) PROVE cool = Interval
    BY <1>1, <1>2, <1>4 DEF Emit, EmitNow, EmitLater
<1>5. ASSUME NEW gen \in calls, flushTrailing(gen) PROVE cool = Interval
    BY <1>2, <1>5 DEF flushTrailing, TimerInv
<1>6. CASE \/ \E p \in Paths : WriteFile(p) \/ SyncSingleSession(p)
           \/ WatcherStep \/ PeriodicSync
    BY <1>2, <1>6 DEF WriteFile, SyncSingleSession, WatcherStep, handleEvent,
       flush, PeriodicSync, broadcaster
<1>7. ASSUME NEW k \in Callers,
             LockSyncMu(k) \/ UnlockSyncMu(k) \/ \E p \in Paths : SyncFile(k, p)
      PROVE FALSE
    BY <1>2, <1>7 DEF LockSyncMu, UnlockSyncMu, SyncFile, broadcaster
<1>8. CASE TimerFires
    BY <1>2, <1>8 DEF TimerFires
<1>9. ASSUME NEW c \in Clients, ClientStep(c) PROVE FALSE
    BY <1>2, <1>9
       DEF ClientStep, Receive, Load, Subscribe, Unsubscribe, broadcaster
<1>10. CASE UNCHANGED vars
    BY <1>2, <1>10 DEF vars, broadcaster
<1> QED
    BY <1>3, <1>4, <1>5, <1>6, <1>7, <1>8, <1>9, <1>10
       DEF Next, EngineStep, BroadcasterStep

\* RateLimited for every interval: two broadcasts of the Broadcaster, leading
\* or trailing, are at least minInterval apart, because flushTrailing acts
\* only on the generation whose timer ran to the end of the window.
THEOREM RateHolds == Spec => RateLimited
<1>1. TimerInv /\ [Next]_vars => [cool' < cool => cool = Interval]_vars
    BY CoolStep
<1> QED
    BY <1>1, TimerAlways, PTL DEF Spec, RateLimited

-----------------------------------------------------------------------------
(* Types.  Two facts come with them: every file event was caused by a write,  *)
(* and a channel is open, with events of the two scopes, or closed.           *)

JobType == [pc : {"idle", "lock", "sync", "emit"}, todo : SUBSET Paths,
            synced : BOOLEAN]

FilesOK ==
    /\ disk \in [Paths -> 0 .. MaxWrites]
    /\ stored \in [Paths -> 0 .. MaxWrites]
    /\ events \in [Paths -> 0 .. MaxWrites]
    /\ \A p \in Paths : stored[p] <= disk[p] /\ events[p] <= disk[p]
    /\ age \in [Paths -> 0 .. Quiet]

JobsOK ==
    /\ job \in [Callers -> JobType]
    /\ \A k \in Callers : job[k].pc \in {"idle", "emit"} => job[k].todo = {}
    /\ singles \in 0 .. MaxSingles

ChanOK ==
    /\ pending \in Scopes \cup {NoEvent}
    /\ chan \in [Clients -> Seq(Scopes) \cup {Unsubscribed}]
    /\ \A c \in Subs : Len(chan[c]) <= Cap

ViewsOK == due \in [Clients -> BOOLEAN] /\ stale \in [Clients -> BOOLEAN]

TypeInv == TimerInv /\ FilesOK /\ JobsOK /\ ChanOK /\ ViewsOK

LEMMA TypeInvImplies == TypeInv => TypeOK
<1> SUFFICES ASSUME TypeInv PROVE TypeOK
    OBVIOUS
<1>1. \A c \in Subs : chan[c] \in Seq(Scopes) /\ Len(chan[c]) <= Cap
    BY DEF TypeInv, ChanOK, Subs
<1>2. \A p \in Paths : stored[p] <= disk[p]
    BY DEF TypeInv, FilesOK
<1> QED
    BY <1>1, <1>2 DEF TypeInv, TimerInv, FilesOK, JobsOK, JobType, ChanOK,
                      ViewsOK, TypeOK

LEMMA TypeInit == Init => TypeInv
<1> SUFFICES ASSUME Init PROVE TypeInv
    OBVIOUS
<1>1. TimerInv
    BY TimerInit
<1>2. FilesOK
    BY NotifyAssumption DEF Init, FilesOK, Quiet
<1>3. JobsOK
    BY NotifyAssumption DEF Init, JobsOK, JobType, Idle
<1>4. ChanOK
    BY DEF Init, ChanOK, Subs
<1>5. ViewsOK
    BY DEF Init, ViewsOK
<1> QED
    BY <1>1, <1>2, <1>3, <1>4, <1>5 DEF TypeInv

LEMMA FilesStep == FilesOK /\ [Next]_vars => FilesOK'
<1> SUFFICES ASSUME FilesOK, [Next]_vars PROVE FilesOK'
    OBVIOUS
<1> USE NotifyAssumption DEF FilesOK, Quiet
<1>1. CASE Tick
    BY <1>1 DEF Tick
<1>2. ASSUME NEW p \in Paths, WriteFile(p) PROVE FilesOK'
    <2>1. /\ disk[p] + 1 \in 0 .. MaxWrites /\ events[p] + 1 \in 0 .. MaxWrites
          /\ events[p] + 1 <= disk[p] + 1
        BY <1>2 DEF WriteFile
    <2>2. /\ disk' \in [Paths -> 0 .. MaxWrites]
          /\ events' \in [Paths -> 0 .. MaxWrites]
        BY <1>2, <2>1 DEF WriteFile
    <2>3. ASSUME NEW q \in Paths PROVE (stored[q] <= disk[q] /\ events[q] <= disk[q])'
        BY <1>2, <2>1 DEF WriteFile
    <2> QED
        BY <1>2, <2>2, <2>3 DEF WriteFile
<1>3. ASSUME NEW p \in Paths, handleEvent(p) PROVE FilesOK'
    BY <1>3 DEF handleEvent
<1>4. CASE flush
    BY <1>4 DEF flush
<1>5. ASSUME NEW k \in Callers, NEW p \in Paths, SyncFile(k, p) PROVE FilesOK'
    BY <1>5 DEF SyncFile, watcher
<1>6. CASE \/ PeriodicSync \/ \E p \in Paths : SyncSingleSession(p)
           \/ \E k \in Callers : LockSyncMu(k) \/ UnlockSyncMu(k) \/ Emit(k)
           \/ BroadcasterStep \/ \E c \in Clients : ClientStep(c)
           \/ UNCHANGED vars
    BY <1>6 DEF PeriodicSync, SyncSingleSession, LockSyncMu, UnlockSyncMu, Emit,
       BroadcasterStep, TimerFires, flushTrailing, Trailing, ClientStep,
       Receive, Load, Subscribe, Unsubscribe, vars, watcher
<1> QED
    BY <1>1, <1>2, <1>3, <1>4, <1>5, <1>6 DEF Next, EngineStep, WatcherStep

\* The idle job, and the one of a caller that has just become busy.
LEMMA IdleJob ==
    /\ Idle \in JobType /\ Idle.todo = {}
    /\ [Idle EXCEPT !.pc = "emit"] \in JobType
    /\ [Idle EXCEPT !.pc = "emit"].todo = {}
    /\ \A files \in SUBSET Paths :
          /\ [Idle EXCEPT !.pc = "lock", !.todo = files] \in JobType
          /\ [Idle EXCEPT !.pc = "lock", !.todo = files].pc = "lock"
<1>1. Idle \in JobType /\ Idle.todo = {}
    BY DEF Idle, JobType
<1> QED
    BY <1>1 DEF JobType

LEMMA JobsStep == JobsOK /\ [Next]_vars => JobsOK'
<1> SUFFICES ASSUME JobsOK, [Next]_vars PROVE JobsOK'
    OBVIOUS
<1> USE NotifyAssumption DEF JobsOK, JobType
<1>1. CASE flush
    <2>1. PICK files \in SUBSET Paths : job' =
              [job EXCEPT !["watch"] = [Idle EXCEPT !.pc = "lock", !.todo = files]]
        <3> DEFINE ready == { p \in Paths : age[p] = Debounce }
        <3>1. job' = [job EXCEPT !["watch"] = [Idle EXCEPT !.pc = "lock", !.todo = ready]]
            BY <1>1, Zenon DEF flush
        <3> QED
            BY <3>1, Zenon
    <2>2. UNCHANGED singles
        BY <1>1 DEF flush
    <2> QED
        BY <2>1, <2>2, IdleJob
<1>2. CASE PeriodicSync
    <2>1. job' = [job EXCEPT !["periodic"] = [Idle EXCEPT !.pc = "lock", !.todo = Paths]]
        BY <1>2, Zenon DEF PeriodicSync
    <2>2. UNCHANGED singles
        BY <1>2 DEF PeriodicSync
    <2> QED
        BY <2>1, <2>2, IdleJob
<1>3. ASSUME NEW p \in Paths, SyncSingleSession(p) PROVE JobsOK'
    <2>1. job' = [job EXCEPT !["single"] = [Idle EXCEPT !.pc = "lock", !.todo = {p}]]
        BY <1>3, Zenon DEF SyncSingleSession
    <2>2. singles' \in 0 .. MaxSingles
        BY <1>3 DEF SyncSingleSession
    <2> QED
        BY <2>1, <2>2, IdleJob
<1>4. ASSUME NEW k \in Callers, LockSyncMu(k) PROVE JobsOK'
    BY <1>4 DEF LockSyncMu
<1>5. ASSUME NEW k \in Callers, UnlockSyncMu(k) PROVE JobsOK'
    <2>1. PICK j : /\ job' = [job EXCEPT ![k] = j]
                   /\ j = Idle \/ j = [Idle EXCEPT !.pc = "emit"]
        BY <1>5, Zenon DEF UnlockSyncMu
    <2>2. j \in JobType /\ j.todo = {}
        BY <2>1, IdleJob
    <2> QED
        BY <1>5, <2>1, <2>2 DEF UnlockSyncMu
<1>6. ASSUME NEW k \in Callers, Emit(k) PROVE JobsOK'
    BY <1>6, IdleJob DEF Emit
<1>7. ASSUME NEW k \in Callers, NEW p \in Paths, SyncFile(k, p) PROVE JobsOK'
    <2>1. /\ job[k].todo \ {p} \in SUBSET Paths
          /\ (job[k].synced \/ stored[p] # disk[p]) \in BOOLEAN
        OBVIOUS
    <2>2. job' = [j \in Callers |-> IF j = k THEN [job[k] EXCEPT
                      !.todo = job[k].todo \ {p},
                      !.synced = job[k].synced \/ stored[p] # disk[p]] ELSE job[j]]
        BY <1>7, Zenon DEF SyncFile
    <2>3. [job[k] EXCEPT !.todo = job[k].todo \ {p},
                         !.synced = job[k].synced \/ stored[p] # disk[p]] \in JobType
        BY <2>1
    <2> QED
        BY <1>7, <2>2, <2>3 DEF SyncFile
<1>8. CASE \/ Tick \/ \E p \in Paths : WriteFile(p) \/ handleEvent(p)
           \/ BroadcasterStep \/ \E c \in Clients : ClientStep(c)
           \/ UNCHANGED vars
    BY <1>8 DEF Tick, WriteFile, handleEvent, BroadcasterStep, TimerFires,
       flushTrailing, Trailing, ClientStep, Receive, Load, Subscribe,
       Unsubscribe, vars
<1> QED
    BY <1>1, <1>2, <1>3, <1>4, <1>5, <1>6, <1>7, <1>8
       DEF Next, EngineStep, WatcherStep

\* What broadcastLocked does to the channels: none is opened or closed, and
\* none is empty afterwards, for it got the event or was full.
LEMMA Broadcast ==
    ASSUME ChanOK, NEW scope \in Scopes, broadcastLocked(scope)
    PROVE  /\ chan' \in [Clients -> Seq(Scopes) \cup {Unsubscribed}]
           /\ Subs' = Subs
           /\ \A c \in Subs : Len(chan'[c]) <= Cap /\ chan'[c] # <<>>
<1> USE NotifyAssumption
<1>1. ASSUME NEW c \in Subs
      PROVE  /\ chan[c] \in Seq(Scopes) /\ Len(chan[c]) <= Cap
             /\ Append(chan[c], scope) \in Seq(Scopes)
             /\ Len(Append(chan[c], scope)) = Len(chan[c]) + 1
             /\ chan'[c] = IF Len(chan[c]) < Cap THEN Append(chan[c], scope)
                                                 ELSE chan[c]
    BY DEF ChanOK, Subs, broadcastLocked
<1>2. \A c \in Clients \ Subs : chan'[c] = chan[c]
    BY DEF broadcastLocked
<1>3. ASSUME NEW c \in Subs
      PROVE  chan'[c] \in Seq(Scopes) /\ Len(chan'[c]) <= Cap /\ Len(chan'[c]) > 0
    <2> DEFINE q == chan[c]
               n == Append(q, scope)
    <2>1. /\ q \in Seq(Scopes) /\ Len(q) \in Nat /\ Len(q) <= Cap
          /\ n \in Seq(Scopes) /\ Len(n) = Len(q) + 1
          /\ chan'[c] = IF Len(q) < Cap THEN n ELSE q
        BY <1>1
    <2> HIDE DEF n, q
    <2> QED
        BY <2>1
<1>4. \A q \in Seq(Scopes) : q # Unsubscribed
    BY DEF Scopes, Unsubscribed
<1>5. chan' \in [Clients -> Seq(Scopes) \cup {Unsubscribed}]
    BY <1>2, <1>3 DEF ChanOK, Subs, broadcastLocked
<1>6. Subs' = Subs
    BY <1>2, <1>3, <1>4 DEF Subs
<1> QED
    BY <1>3, <1>5, <1>6

LEMMA ChanStep == ChanOK /\ JobsOK /\ [Next]_vars => ChanOK'
<1> SUFFICES ASSUME ChanOK, JobsOK, [Next]_vars PROVE ChanOK'
    OBVIOUS
<1> USE NotifyAssumption
<1>1. \A k : Scope(k) \in Scopes
    BY DEF Scope, Scopes
<1>2. ASSUME NEW k \in Callers, Emit(k) PROVE ChanOK'
    <2>1. CASE EmitNow(Scope(k))
        BY <1>1, <2>1, Broadcast DEF EmitNow, ChanOK
    <2>2. CASE EmitLater(Scope(k))
        BY <1>1, <2>2 DEF EmitLater, ChanOK, Subs
    <2> QED
        BY <1>2, <2>1, <2>2 DEF Emit
<1>3. ASSUME NEW gen \in calls, flushTrailing(gen) PROVE ChanOK'
    <2>1. CASE UNCHANGED <<pending, chan>>
        BY <2>1 DEF ChanOK, Subs
    <2>2. CASE pending # NoEvent /\ pending' = NoEvent /\ broadcastLocked(pending)
        BY <2>2, Broadcast DEF ChanOK
    <2> QED
        BY <1>3, <2>1, <2>2 DEF flushTrailing
<1>4. ASSUME NEW c \in Clients, Subscribe(c) PROVE ChanOK'
    BY <1>4 DEF Subscribe, ChanOK, Subs
<1>5. ASSUME NEW c \in Clients, Unsubscribe(c) PROVE ChanOK'
    BY <1>5 DEF Unsubscribe, ChanOK, Subs
<1>6. ASSUME NEW c \in Clients, Receive(c) PROVE ChanOK'
    <2>1. chan[c] \in Seq(Scopes) /\ Len(chan[c]) <= Cap /\ chan[c] # <<>>
        BY <1>6 DEF Receive, ChanOK, Subs
    <2>2. Tail(chan[c]) \in Seq(Scopes) /\ Len(Tail(chan[c])) <= Cap
        BY <2>1
    <2> QED
        BY <1>6, <2>2 DEF Receive, ChanOK, Subs
<1>7. CASE UNCHANGED <<pending, chan>>
    BY <1>7 DEF ChanOK, Subs
<1>8. CASE \/ Tick \/ \E p \in Paths : WriteFile(p) \/ SyncSingleSession(p)
           \/ WatcherStep \/ PeriodicSync \/ TimerFires
           \/ \E k \in Callers : \/ LockSyncMu(k) \/ UnlockSyncMu(k)
                                 \/ \E p \in Paths : SyncFile(k, p)
           \/ \E c \in Clients : Load(c)
           \/ UNCHANGED vars
    BY <1>7, <1>8 DEF Tick, WriteFile, SyncSingleSession, WatcherStep, flush,
       handleEvent, PeriodicSync, TimerFires, LockSyncMu, UnlockSyncMu,
       SyncFile, Load, vars, broadcaster
<1> QED
    BY <1>2, <1>3, <1>4, <1>5, <1>6, <1>8
       DEF Next, EngineStep, BroadcasterStep, ClientStep

LEMMA ViewsStep == ViewsOK /\ [Next]_vars => ViewsOK'
<1> SUFFICES ASSUME ViewsOK, [Next]_vars PROVE ViewsOK'
    OBVIOUS
<1>1. ASSUME NEW k \in Callers, NEW p \in Paths, SyncFile(k, p) PROVE ViewsOK'
    <2>1. \A c \in Clients : (\/ stale[c]
                              \/ /\ c \in Subs /\ stored[p] # disk[p]
                                 /\ Refreshes(c, Scope(k))) \in BOOLEAN
        BY DEF ViewsOK
    <2> QED
        BY <1>1, <2>1 DEF SyncFile, ViewsOK
<1>2. ASSUME NEW c \in Clients, ClientStep(c) PROVE ViewsOK'
    <2>1. (due[c] \/ Refreshes(c, Head(chan[c]))) \in BOOLEAN
        OBVIOUS
    <2> QED
        BY <1>2, <2>1 DEF ClientStep, Receive, Load, Subscribe, Unsubscribe,
           client, ViewsOK
<1>3. CASE \/ Tick \/ \E p \in Paths : WriteFile(p) \/ SyncSingleSession(p)
           \/ WatcherStep \/ PeriodicSync \/ BroadcasterStep
           \/ \E k \in Callers : LockSyncMu(k) \/ UnlockSyncMu(k) \/ Emit(k)
           \/ UNCHANGED vars
    BY <1>3 DEF Tick, WriteFile, SyncSingleSession, WatcherStep, flush,
       handleEvent, PeriodicSync, BroadcasterStep, TimerFires, flushTrailing,
       Trailing, LockSyncMu, UnlockSyncMu, Emit, vars, client, ViewsOK
<1> QED
    BY <1>1, <1>2, <1>3 DEF Next, EngineStep

LEMMA TypeAlways == Spec => []TypeInv
<1>1. TypeInv /\ [Next]_vars => TypeInv'
    BY TimerStep, FilesStep, JobsStep, ChanStep, ViewsStep DEF TypeInv
<1> QED
    BY <1>1, TypeInit, PTL DEF Spec

\* TypeOK of every reachable state: the values are those of the code's types,
\* no channel of the Broadcaster holds more than its capacity, and a caller
\* that is not syncing has no files left to sync.
THEOREM TypeCorrect == Spec => []TypeOK
BY TypeAlways, TypeInvImplies, PTL

-----------------------------------------------------------------------------
(* No missed update.  The news of a change that a view lacks travels with the *)
(* sync that stored it, then with its emit, as the pending event, in the      *)
(* channel and with the refresh timer; every step hands it on.                *)

OnItsWay == pending # NoEvent \/ \E k \in Callers : job[k].pc = "emit" \/ job[k].synced

Informed(c) == stale[c] => OnItsWay \/ chan[c] # <<>> \/ due[c]

NewsInv == \A c \in Subs \ Filtering : Informed(c)

\* The steps that take the news no further.
LEMMA NewsStays ==
    ASSUME NewsInv, UNCHANGED <<pending, chan, due, stale>>,
           \A k \in Callers : job[k].pc = "emit" \/ job[k].synced =>
                                 (job[k].pc = "emit" \/ job[k].synced)'
    PROVE  NewsInv'
BY DEF NewsInv, Informed, OnItsWay, Subs

\* A broadcast reaches every subscriber, or finds its channel full.
LEMMA NewsBroadcast ==
    ASSUME ChanOK, NEW scope \in Scopes, broadcastLocked(scope)
    PROVE  NewsInv'
BY Broadcast DEF NewsInv, Informed

LEMMA NewsStep == TypeInv /\ NewsInv /\ [Next]_vars => NewsInv'
<1> SUFFICES ASSUME TypeInv, NewsInv, [Next]_vars PROVE NewsInv'
    OBVIOUS
<1>1. /\ ChanOK /\ pending \in Scopes \cup {NoEvent}
      /\ job \in [Callers -> JobType]
      /\ due \in [Clients -> BOOLEAN] /\ stale \in [Clients -> BOOLEAN]
      /\ chan \in [Clients -> Seq(Scopes) \cup {Unsubscribed}]
    BY DEF TypeInv, ChanOK, JobsOK, ViewsOK
<1>2. \A k : Scope(k) \in Scopes /\ Scope(k) # NoEvent
    BY DEF Scope, Scopes, NoEvent
<1>3. ASSUME NEW k \in Callers, Emit(k) PROVE NewsInv'
    <2>1. CASE EmitNow(Scope(k))
        BY <1>1, <1>2, <2>1, NewsBroadcast DEF EmitNow
    <2>2. CASE EmitLater(Scope(k))
        BY <1>2, <2>2 DEF EmitLater, NewsInv, Informed, OnItsWay
    <2> QED
        BY <1>3, <2>1, <2>2 DEF Emit
<1>4. ASSUME NEW gen \in calls, flushTrailing(gen) PROVE NewsInv'
    <2>1. UNCHANGED <<job, due, stale>>
        BY <1>4 DEF flushTrailing, Trailing, client
    <2>2. CASE UNCHANGED <<pending, chan>>
        BY <2>1, <2>2, NewsStays
    <2>3. CASE pending # NoEvent /\ broadcastLocked(pending)
        BY <1>1, <2>3, NewsBroadcast
    <2> QED
        BY <1>4, <2>2, <2>3 DEF flushTrailing
<1>5. ASSUME NEW k \in Callers, NEW p \in Paths, SyncFile(k, p) PROVE NewsInv'
    <2>1. /\ UNCHANGED <<pending, chan, due>>
          /\ \A j \in Callers : j # k => job'[j] = job[j]
          /\ job'[k].pc = job[k].pc
          /\ job'[k].synced = (job[k].synced \/ stored[p] # disk[p])
          /\ \A c \in Clients : stale'[c] => stale[c] \/ stored[p] # disk[p]
        BY <1>1, <1>5 DEF SyncFile, broadcaster, JobType
    <2>2. CASE stored[p] # disk[p]
        BY <2>1, <2>2 DEF NewsInv, Informed, OnItsWay
    <2>3. CASE stored[p] = disk[p]
        BY <2>1, <2>3 DEF NewsInv, Informed, OnItsWay, Subs
    <2> QED
        BY <2>2, <2>3
<1>6. ASSUME NEW k \in Callers, UnlockSyncMu(k) PROVE NewsInv'
    <2>1. CASE job' = [job EXCEPT ![k] = [Idle EXCEPT !.pc = "emit"]]
        <3>1. job'[k].pc = "emit" /\ \A j \in Callers : j # k => job'[j] = job[j]
            BY <1>1, <2>1 DEF Idle
        <3> QED
            BY <1>6, <3>1, NewsStays DEF UnlockSyncMu, broadcaster, client
    <2>2. CASE ~job[k].synced /\ job' = [job EXCEPT ![k] = Idle]
        <3>1. /\ job[k].pc # "emit" /\ ~job[k].synced
              /\ \A j \in Callers : j # k => job'[j] = job[j]
            BY <1>1, <1>6, <2>2 DEF UnlockSyncMu
        <3> QED
            BY <1>6, <3>1, NewsStays DEF UnlockSyncMu, broadcaster, client
    <2> QED
        BY <1>6, <2>1, <2>2 DEF UnlockSyncMu
<1>7. ASSUME NEW k \in Callers, LockSyncMu(k) PROVE NewsInv'
    BY <1>1, <1>7, NewsStays DEF LockSyncMu, broadcaster, client, JobType
<1>8. CASE flush \/ PeriodicSync \/ \E p \in Paths : SyncSingleSession(p)
    <2>1. PICK k, j : job[k] = Idle /\ job' = [job EXCEPT ![k] = j]
        BY <1>8, Zenon DEF flush, PeriodicSync, SyncSingleSession
    <2>2. \A i \in Callers : i # k => job'[i] = job[i]
        BY <1>1, <2>1
    <2>3. job[k].pc # "emit" /\ ~job[k].synced
        BY <2>1 DEF Idle
    <2>4. UNCHANGED <<pending, chan, due, stale>>
        BY <1>8 DEF flush, PeriodicSync, SyncSingleSession, broadcaster, client
    <2> QED
        BY <2>2, <2>3, <2>4, NewsStays
<1>9. CASE \/ Tick \/ \E p \in Paths : WriteFile(p) \/ handleEvent(p)
           \/ TimerFires \/ UNCHANGED vars
    BY <1>9, NewsStays DEF Tick, WriteFile, handleEvent, TimerFires, vars,
       broadcaster, client
<1>10. ASSUME NEW c \in Clients, Receive(c) PROVE NewsInv'
    <2>1. c \notin Filtering => Refreshes(c, Head(chan[c]))
        BY DEF Refreshes
    <2>2. (c \notin Filtering => due'[c]) /\ \A d \in Clients : d # c => due'[d] = due[d] /\ chan'[d] = chan[d]
        BY <1>1, <1>10, <2>1 DEF Receive
    <2> QED
        BY <1>10, <2>2 DEF Receive, NewsInv, Informed, OnItsWay, Subs
<1>11. ASSUME NEW c \in Clients, Load(c) \/ Subscribe(c) \/ Unsubscribe(c)
       PROVE NewsInv'
    BY <1>1, <1>11 DEF Load, Subscribe, Unsubscribe, broadcaster, client,
       NewsInv, Informed, OnItsWay, Subs
<1> QED
    BY <1>3, <1>4, <1>5, <1>6, <1>7, <1>8, <1>9, <1>10, <1>11
       DEF Next, EngineStep, WatcherStep, BroadcasterStep, ClientStep

\* A view that refreshes for every scope, as the usage and analytics pages do,
\* misses nothing: neither the coalescing of emits, nor a timer that is stopped
\* too late, nor the drop on a full channel hides a stored change from it, for
\* any number of paths, clients and callers, any interval and any capacity.
THEOREM ViewFollows ==
    ASSUME NEW c \in Clients \ Filtering
    PROVE  Spec => [](Settled /\ c \in Subs /\ stale[c] => due[c] \/ chan[c] # <<>>)
<1>1. Init => NewsInv
    BY DEF Init, NewsInv, Informed
<1>2. NewsInv => (Settled /\ c \in Subs /\ stale[c] => due[c] \/ chan[c] # <<>>)
    BY DEF NewsInv, Informed, OnItsWay, Settled
<1> QED
    BY <1>1, <1>2, NewsStep, TypeAlways, PTL DEF Spec

\* NoMissedUpdate of every reachable state where no view passes over a scope;
\* with one that does it is violated, as the run on the session list shows.
THEOREM NothingMissed == ASSUME Filtering = {} PROVE Spec => []NoMissedUpdate
<1>1. Init => NewsInv
    BY DEF Init, NewsInv, Informed
<1>2. TypeInv /\ NewsInv => NoMissedUpdate
    <2> SUFFICES ASSUME TypeInv, NewsInv, Settled, NEW c \in Subs, stale[c]
                 PROVE  due[c] \/ \E i \in DOMAIN chan[c] : Refreshes(c, chan[c][i])
        BY DEF NoMissedUpdate
    <2>1. chan[c] # <<>> \/ due[c]
        BY DEF NewsInv, Informed, OnItsWay, Settled
    <2>2. chan[c] \in Seq(Scopes)
        BY DEF TypeInv, ChanOK, Subs
    <2>3. chan[c] # <<>> => 1 \in DOMAIN chan[c]
        BY <2>2
    <2> QED
        BY <2>1, <2>3 DEF Refreshes
<1> QED
    BY <1>1, <1>2, NewsStep, TypeAlways, PTL DEF Spec
=============================================================================
