------------------------------- MODULE Notify -------------------------------
(***************************************************************************)
(* From a change of a transcript to the views in a browser: the            *)
(* file watcher's debounce (internal/sync/watcher.go), the syncs it and    *)
(* the tickers start (engine.go), the rate-limited fan-out of their events *)
(* (internal/server/broadcaster.go) and the refresh of the views           *)
(* (frontend/src/lib/stores/sessions.svelte.ts).                           *)
(*                                                                         *)
(* Time passes in Ticks.  cool is the time since the last broadcast and    *)
(* age[p] the time since the last event for a path, both up to the bound   *)
(* that matters.                                                           *)
(***************************************************************************)
EXTENDS Naturals, Sequences, FiniteSets

CONSTANTS
    Paths,      \* watched transcripts
    Clients,    \* views in browsers, each with a subscription
    Filtering,  \* the ones that pass over events of scope "messages"
    Callers,    \* who may sync: a subset of {"watch", "periodic", "single"}
    Interval,   \* minInterval of the broadcaster
    Debounce,   \* debounce of the watcher
    Cap,        \* broadcasterBufferCap
    MaxWrites,  \* bound: writes to transcripts
    MaxSingles  \* bound: syncs of a single session

ASSUME NotifyAssumption ==
    /\ Filtering \subseteq Clients
    /\ Callers \subseteq {"watch", "periodic", "single"}
    /\ Interval \in Nat \ {0} /\ Debounce \in Nat \ {0} /\ Cap \in Nat \ {0}
    /\ MaxWrites \in Nat /\ MaxSingles \in Nat

VARIABLES
    disk,     \* writes made to each transcript
    stored,   \* the version of it that the database holds
    events,   \* fsnotify events under way, per path
    age,      \* Watcher.pending: Quiet, or the time since the last event
    job,      \* what each caller of the engine is doing
    singles,  \* syncs of a single session so far
    cool, pending, timer, timerGen, calls,  \* the Broadcaster
    chan,     \* its subscribers' channels; Unsubscribed
    due,      \* a client's refresh timer is set
    stale     \* a view lacks something of its scopes, stored since it
              \* subscribed

broadcaster == <<cool, pending, timer, timerGen, calls, chan>>
watcher == <<events, age>>
client == <<due, stale>>
vars == <<disk, stored, watcher, job, singles, broadcaster, client>>

-----------------------------------------------------------------------------

Quiet == Debounce + 1
Idle == [pc |-> "idle", todo |-> {}, synced |-> FALSE]
NoEvent == "none"
NoTimer == [set |-> FALSE, armed |-> FALSE, left |-> 0]
Unsubscribed == <<"closed">>
Scopes == {"sessions", "messages"}

\* SyncSingleSession emits "messages", the other syncs "sessions".
Scope(k) == IF k = "single" THEN "messages" ELSE "sessions"

\* The session list filters, the usage and analytics pages refetch anyway.
Refreshes(c, scope) == c \notin Filtering \/ scope # "messages"

Subs == { c \in Clients : chan[c] # Unsubscribed }

Init ==
    /\ disk = [p \in Paths |-> 0] /\ stored = disk
    /\ events = [p \in Paths |-> 0]
    /\ age = [p \in Paths |-> Quiet]
    /\ job = [k \in Callers |-> Idle]
    /\ singles = 0
    /\ cool = Interval /\ pending = NoEvent
    /\ timer = NoTimer /\ timerGen = 0 /\ calls = {}
    /\ chan = [c \in Clients |-> Unsubscribed]
    /\ due = [c \in Clients |-> FALSE]
    /\ stale = [c \in Clients |-> FALSE]

-----------------------------------------------------------------------------
(* Coding agents, and time. *)

WriteFile(p) ==
    /\ disk[p] < MaxWrites
    /\ disk' = [disk EXCEPT ![p] = @ + 1]
    /\ events' = [events EXCEPT ![p] = @ + 1]
    /\ UNCHANGED <<stored, age, job, singles, broadcaster, client>>

Tick ==
    /\ cool < Interval \/ \E p \in Paths : age[p] < Debounce
    /\ cool' = IF cool < Interval THEN cool + 1 ELSE cool
    /\ age' = [p \in Paths |-> IF age[p] < Debounce THEN age[p] + 1
                               ELSE age[p]]
    /\ timer' = IF timer.armed /\ timer.left > 0
                THEN [timer EXCEPT !.left = @ - 1] ELSE timer
    /\ UNCHANGED <<disk, stored, events, job, singles, pending, timerGen,
                   calls, chan, client>>

-----------------------------------------------------------------------------
(* The watcher's loop: one goroutine, busy while its callback syncs. *)

handleEvent(p) ==
    /\ job["watch"] = Idle
    /\ events[p] > 0
    /\ events' = [events EXCEPT ![p] = @ - 1]
    /\ age' = [age EXCEPT ![p] = 0]
    /\ UNCHANGED <<disk, stored, job, singles, broadcaster, client>>

\* Paths without an event for Debounce leave pending and are synced.
flush ==
    LET ready == { p \in Paths : age[p] = Debounce } IN
    /\ job["watch"] = Idle
    /\ ready # {}
    /\ age' = [p \in Paths |-> IF p \in ready THEN Quiet ELSE age[p]]
    /\ job' = [job EXCEPT !["watch"] = [@ EXCEPT !.pc = "lock", !.todo = ready]]
    /\ UNCHANGED <<disk, stored, events, singles, broadcaster, client>>

-----------------------------------------------------------------------------
(* The engine. *)

\* startPeriodicSync and startUnwatchedPoll: every discovered file.
PeriodicSync ==
    /\ job["periodic"] = Idle
    /\ job' = [job EXCEPT !["periodic"] =
                  [@ EXCEPT !.pc = "lock", !.todo = Paths]]
    /\ UNCHANGED <<disk, stored, watcher, singles, broadcaster, client>>

\* The fallback of a session watcher.
SyncSingleSession(p) ==
    /\ singles < MaxSingles /\ job["single"] = Idle
    /\ singles' = singles + 1
    /\ job' = [job EXCEPT !["single"] = [@ EXCEPT !.pc = "lock", !.todo = {p}]]
    /\ UNCHANGED <<disk, stored, watcher, broadcaster, client>>

LockSyncMu_Try(k) ==
    /\ job[k].pc = "lock"
    /\ job' = [job EXCEPT ![k] =
                  IF \A j \in Callers : job[j].pc # "sync"
                  THEN [@ EXCEPT !.pc = "sync"] ELSE Idle]
    /\ UNCHANGED <<disk, stored, watcher, singles, broadcaster, client>>

LockSyncMu(k) ==
    /\ job[k].pc = "lock"
    /\ \A j \in Callers : job[j].pc # "sync"
    /\ job' = [job EXCEPT ![k].pc = "sync"]
    /\ UNCHANGED <<disk, stored, watcher, singles, broadcaster, client>>

\* One file is read and, unless unchanged, stored.
SyncFile(k, p) ==
    /\ job[k].pc = "sync" /\ p \in job[k].todo
    /\ stored' = [stored EXCEPT ![p] = disk[p]]
    /\ job' = [job EXCEPT ![k].todo = @ \ {p},
                          ![k].synced = @ \/ stored[p] # disk[p]]
    /\ stale' = [c \in Clients |->
                    \/ stale[c]
                    \/ /\ c \in Subs /\ stored[p] # disk[p]
                       /\ Refreshes(c, Scope(k))]
    /\ UNCHANGED <<disk, watcher, singles, broadcaster, due>>

\* The deferred Unlock.  SyncSingleSession emits even when it has stored
\* nothing, unless it returns an error.
UnlockSyncMu(k) ==
    /\ job[k].pc = "sync" /\ job[k].todo = {}
    /\ \/ /\ job[k].synced \/ k = "single"
          /\ job' = [job EXCEPT ![k] = [Idle EXCEPT !.pc = "emit"]]
       \/ /\ ~job[k].synced
          /\ job' = [job EXCEPT ![k] = Idle]
    /\ UNCHANGED <<disk, stored, watcher, singles, broadcaster, client>>

-----------------------------------------------------------------------------
(* The broadcaster: every step holds b.mu. *)

broadcastLocked_Unbounded(scope) ==
    chan' = [c \in Clients |->
        IF c \in Subs THEN Append(chan[c], scope) ELSE chan[c]]

broadcastLocked(scope) ==
    chan' = [c \in Clients |->
        IF c \in Subs /\ Len(chan[c]) < Cap THEN Append(chan[c], scope)
        ELSE chan[c]]

\* Leading edge: what is pending is dropped and its timer stopped, which is
\* too late for a callback that has started (calls).
EmitNow(scope) ==
    /\ cool >= Interval
    /\ pending' = NoEvent
    /\ timer' = NoTimer
    /\ timerGen' = timerGen + 1
    /\ cool' = 0
    /\ broadcastLocked(scope)
    /\ UNCHANGED calls

EmitLater_Drops(scope) ==
    /\ cool < Interval
    /\ UNCHANGED <<cool, pending, timer, timerGen, calls, chan>>

\* Within the window the scope replaces the pending one, and the first such
\* emit sets the timer for the end of the window.
EmitLater(scope) ==
    /\ cool < Interval
    /\ pending' = scope
    /\ timer' = IF timer.set THEN timer
                ELSE [set |-> TRUE, armed |-> TRUE, left |-> Interval - cool]
    /\ UNCHANGED <<cool, timerGen, calls, chan>>

\* The deferred emit of a sync, after syncMu is released.
Emit(k) ==
    /\ job[k].pc = "emit"
    /\ EmitNow(Scope(k)) \/ EmitLater(Scope(k))
    /\ job' = [job EXCEPT ![k] = Idle]
    /\ UNCHANGED <<disk, stored, watcher, singles, client>>

\* The runtime starts the callback, which has yet to take b.mu.
TimerFires ==
    /\ timer.armed /\ timer.left = 0
    /\ timer' = [timer EXCEPT !.armed = FALSE]
    /\ calls' = calls \cup {timerGen}
    /\ UNCHANGED <<disk, stored, watcher, job, singles, cool, pending,
                   timerGen, chan, client>>

Trailing(gen) ==
    /\ gen \in calls
    /\ calls' = calls \ {gen}
    /\ UNCHANGED <<disk, stored, watcher, job, singles, timerGen, client>>

flushTrailing_AnyGen(gen) ==
    /\ Trailing(gen)
    /\ timer' = NoTimer
    /\ IF pending = NoEvent THEN UNCHANGED <<pending, cool, chan>>
       ELSE pending' = NoEvent /\ cool' = 0 /\ broadcastLocked(pending)

flushTrailing_KeepsTimer(gen) ==
    /\ Trailing(gen)
    /\ UNCHANGED timer
    /\ IF gen # timerGen \/ pending = NoEvent
       THEN UNCHANGED <<pending, cool, chan>>
       ELSE pending' = NoEvent /\ cool' = 0 /\ broadcastLocked(pending)

\* A callback of an older generation does nothing.
flushTrailing(gen) ==
    /\ Trailing(gen)
    /\ IF gen # timerGen THEN UNCHANGED <<timer, pending, cool, chan>>
       ELSE /\ timer' = NoTimer
            /\ IF pending = NoEvent THEN UNCHANGED <<pending, cool, chan>>
               ELSE /\ pending' = NoEvent
                    /\ cool' = 0
                    /\ broadcastLocked(pending)

Subscribe(c) ==
    /\ c \notin Subs
    /\ chan' = [chan EXCEPT ![c] = <<>>]
    /\ stale' = [stale EXCEPT ![c] = FALSE]
    /\ UNCHANGED <<disk, stored, watcher, job, singles, cool, pending, timer,
                   timerGen, calls, due>>

Unsubscribe(c) ==
    /\ c \in Subs
    /\ chan' = [chan EXCEPT ![c] = Unsubscribed]
    /\ UNCHANGED <<disk, stored, watcher, job, singles, cool, pending, timer,
                   timerGen, calls, client>>

-----------------------------------------------------------------------------
(* The client. *)

\* humaEvents sends an event of the channel; the view schedules a refresh.
Receive(c) ==
    /\ c \in Subs /\ chan[c] # <<>>
    /\ chan' = [chan EXCEPT ![c] = Tail(@)]
    /\ due' = [due EXCEPT ![c] = @ \/ Refreshes(c, Head(chan[c]))]
    /\ UNCHANGED <<disk, stored, watcher, job, singles, cool, pending, timer,
                   timerGen, calls, stale>>

\* The refresh timer, or a load for another reason.
Load(c) ==
    /\ due[c] \/ stale[c]
    /\ due' = [due EXCEPT ![c] = FALSE]
    /\ stale' = [stale EXCEPT ![c] = FALSE]
    /\ UNCHANGED <<disk, stored, watcher, job, singles, broadcaster>>

-----------------------------------------------------------------------------

EngineStep ==
    \E k \in Callers :
        \/ LockSyncMu(k) \/ UnlockSyncMu(k) \/ Emit(k)
        \/ \E p \in Paths : SyncFile(k, p)

WatcherStep == flush \/ \E p \in Paths : handleEvent(p)

BroadcasterStep == TimerFires \/ \E gen \in calls : flushTrailing(gen)

ClientStep(c) == Receive(c) \/ Load(c) \/ Subscribe(c) \/ Unsubscribe(c)

Next ==
    \/ Tick
    \/ \E p \in Paths : WriteFile(p)
    \/ WatcherStep
    \/ "periodic" \in Callers /\ PeriodicSync
    \/ "single" \in Callers /\ \E p \in Paths : SyncSingleSession(p)
    \/ EngineStep
    \/ BroadcasterStep
    \/ \E c \in Clients : ClientStep(c)

Spec == Init /\ [][Next]_vars

\* Time passes, goroutines, timers and the client's event loop run.  Nothing
\* is assumed of the agents, the tickers or of who subscribes.
Fairness ==
    /\ WF_vars(Tick)
    /\ WF_vars(flush) /\ \A p \in Paths : WF_vars(handleEvent(p))
    /\ \A k \in Callers :
          /\ SF_vars(LockSyncMu(k))
          /\ WF_vars(UnlockSyncMu(k)) /\ WF_vars(Emit(k))
          /\ \A p \in Paths : WF_vars(SyncFile(k, p))
    /\ WF_vars(TimerFires)
    /\ WF_vars(\E gen \in calls : flushTrailing(gen))
    /\ \A c \in Clients : WF_vars(Receive(c)) /\ WF_vars(due[c] /\ Load(c))

FairSpec == Spec /\ Fairness

-----------------------------------------------------------------------------
(* Properties. *)

\* The state has the types of the code's: no channel holds more than its
\* capacity, and only a caller that syncs has files left to sync.
TypeOK ==
    /\ disk \in [Paths -> 0 .. MaxWrites]
    /\ stored \in [Paths -> 0 .. MaxWrites]
    /\ \A p \in Paths : stored[p] <= disk[p]
    /\ events \in [Paths -> 0 .. MaxWrites]
    /\ age \in [Paths -> 0 .. Quiet]
    /\ job \in [Callers -> [pc : {"idle", "lock", "sync", "emit"},
                            todo : SUBSET Paths, synced : BOOLEAN]]
    /\ \A k \in Callers : job[k].pc \in {"idle", "emit"} => job[k].todo = {}
    /\ singles \in 0 .. MaxSingles
    /\ cool \in 0 .. Interval
    /\ pending \in Scopes \cup {NoEvent}
    /\ timer \in [set : BOOLEAN, armed : BOOLEAN, left : 0 .. Interval]
    /\ timerGen \in Nat /\ calls \subseteq 0 .. timerGen
    /\ \A c \in Subs : chan[c] \in Seq(Scopes) /\ Len(chan[c]) <= Cap
    /\ due \in [Clients -> BOOLEAN] /\ stale \in [Clients -> BOOLEAN]

\* Two broadcasts are at least minInterval apart, whatever the order in which
\* emits and late timer callbacks get the mutex.
RateLimited == [][cool' < cool => cool = Interval]_vars

\* A coalesced event is never left without a timer of the current generation
\* that will deliver it.
PendingHasTimer ==
    pending # NoEvent => timer.set /\ (timer.armed \/ timerGen \in calls)

Settled ==
    /\ pending = NoEvent
    /\ \A k \in Callers : job[k].pc # "emit" /\ ~job[k].synced

\* Once all emits are delivered, a client whose view lacks something has an
\* event to read or a refresh to come: neither coalescing nor the drop on a
\* full channel hides a change from a subscriber.
NoMissedUpdate ==
    Settled => \A c \in Subs :
        stale[c] => due[c] \/ \E i \in DOMAIN chan[c] : Refreshes(c, chan[c][i])

\* Every write to a watched transcript is stored in the end, without the help
\* of the tickers, and the views of the clients that stay follow.
EventuallyShown ==
    /\ <>[](stored = disk)
    /\ \A c \in Clients : <>[](c \notin Subs \/ ~stale[c]) \/ []<>(c \notin Subs)
=============================================================================
