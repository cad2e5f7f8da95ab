------------------------------- MODULE Daemon -------------------------------
(***************************************************************************)
(* The life of the writable daemon: `agentsview serve` in the foreground   *)
(* or as a child in the background, the commands `daemon start`, `stop`    *)
(* and `restart`, and the MCP server, which finds a daemon or starts one   *)
(* for every call (cmd/agentsview).                                        *)
(*                                                                         *)
(* The processes meet in one directory: four file locks, which the kernel  *)
(* releases when their holder dies, the runtime record of every server,    *)
(* named after its pid and naming the creation time of the process, and    *)
(* the configuration with the token of the API.  A record is "own" while   *)
(* the process with its pid is the one that wrote it and "stale" when that *)
(* process is gone, whoever has the pid now; comparing creation times      *)
(* tells the two apart.  A strange process that gets a pid keeps it.       *)
(***************************************************************************)
EXTENDS Naturals, FiniteSets

CONSTANTS
    Pids,         \* process ids
    Clients,      \* MCP servers, terminals
    None,         \* nobody
    Auths,        \* the values of require_auth considered
    MaxTokens,    \* bound: tokens minted
    MaxCommands,  \* bound: commands of the user
    MaxFaults,    \* bound: signals from elsewhere, strange processes, looks
                  \* that collide
    Env           \* what else may happen, a subset of EnvKinds

EnvKinds ==
    { "oldconfig",    \* configurations are loaded before a token is stored
      "recordfails",  \* writing the runtime record fails
      "recycled" }    \* a pid changes hands just when it is to be signalled

ASSUME DaemonAssumption ==
    /\ None \notin Pids \cup Clients /\ Pids \cap Clients = {}
    /\ Auths \subseteq BOOLEAN
    /\ MaxTokens \in Nat /\ MaxCommands \in Nat /\ MaxFaults \in Nat
    /\ Env \subseteq EnvKinds

VARIABLES
    auth,       \* require_auth
    stored,     \* the token in the configuration file, 0 when none
    proc,       \* the process behind every pid
    rec,        \* the runtime record of every pid
    start,      \* holder of the start lock
    owner,      \* holder of the write-owner lock (db.write.lock)
    launch,     \* holder of the launch lock (serve.background.lock)
    life,       \* holder of the lifecycle lock (daemon.lifecycle.lock)
    cli,        \* the clients
    tokens,     \* tokens minted
    commands,   \* commands given
    faults      \* such signals, processes and looks so far

locks == <<start, owner, launch, life>>
counts == <<commands, faults>>
vars == <<auth, stored, proc, rec, locks, cli, tokens, counts>>

ServerPcs == {"mark", "check", "unprobe", "own", "load", "unmark", "serve",
              "unrecord", "close"}
ClientPcs == {"idle", "find", "own", "unown", "launch", "look", "unprobe",
              "spawn", "ready", "wait", "waitunprobe", "list", "confirm",
              "signal", "await", "present", "kill", "awaitkilled"}
Ops == {"call", "start", "stop", "restart"}
Tokens == 0 .. MaxTokens

Nobody == [kind |-> "none", pc |-> "mark", tok |-> 0, term |-> FALSE]
Stranger == [Nobody EXCEPT !.kind = "stranger"]
Alive(p) == proc[p].kind # "none"

\* The state is what the code's types allow; file locks are held by processes
\* that exist.
TypeOK ==
    /\ auth \in BOOLEAN
    /\ stored \in Tokens /\ tokens \in Tokens
    /\ proc \in [Pids -> [kind : {"none", "server", "stranger"},
                          pc : ServerPcs, tok : Tokens, term : BOOLEAN]]
    /\ rec \in [Pids -> {"none", "own", "stale"}]
    /\ start \in Pids \cup Clients \cup {None}
    /\ owner \in Pids \cup Clients \cup {None}
    /\ launch \in Clients \cup {None} /\ life \in Clients \cup {None}
    /\ cli \in [Clients -> [op : Ops, pc : ClientPcs, tok : Tokens,
                            use : Tokens, ok : BOOLEAN,
                            target : Pids \cup {None}, same : BOOLEAN,
                            child : Pids \cup {None}]]
    /\ commands \in 0 .. MaxCommands /\ faults \in 0 .. MaxFaults

\* Nothing runs, and no token is stored.
Init ==
    /\ auth \in Auths
    /\ stored = 0 /\ tokens = 0
    /\ proc = [p \in Pids |-> Nobody]
    /\ rec = [p \in Pids |-> "none"]
    /\ start = None /\ owner = None /\ launch = None /\ life = None
    /\ cli = [c \in Clients |->
                 [op |-> "call", pc |-> "idle", tok |-> 0, use |-> 0,
                  ok |-> FALSE, target |-> None, same |-> FALSE,
                  child |-> None]]
    /\ commands = 0 /\ faults = 0

-----------------------------------------------------------------------------
(* Processes, locks and records. *)

\* What becomes of everything else when the process p is gone.
Free(lock, p) == IF lock = p THEN None ELSE lock
Forget(p, cs) ==
    [c \in Clients |->
        [cs[c] EXCEPT !.same = cs[c].same /\ cs[c].target # p,
                      !.child = IF cs[c].child = p THEN None
                                                   ELSE cs[c].child]]
Disown(p) == [rec EXCEPT ![p] = IF @ = "own" THEN "stale" ELSE @]

Dies(p, cs) ==
    /\ proc' = [proc EXCEPT ![p] = Nobody]
    /\ rec' = Disown(p)
    /\ start' = Free(start, p) /\ owner' = Free(owner, p)
    /\ cli' = Forget(p, cs)

\* listDaemonRuntimeTargets removes the records of dead processes, and those
\* of living ones that were created at another time.
Cleaned_DeadOnly ==
    [p \in Pids |-> IF Alive(p) THEN rec[p] ELSE "none"]
Cleaned == [p \in Pids |-> IF rec[p] = "own" THEN "own" ELSE "none"]
Live == { p \in Pids : Cleaned[p] # "none" }

\* The server behind a live record answers the ping with this token.
Answers(p, tok) ==
    /\ proc[p].kind = "server" /\ proc[p].pc \in {"unmark", "serve"}
    /\ auth => proc[p].tok = tok
Found(tok) == { p \in Live : Answers(p, tok) }

\* A configuration that is loaded while no token is stored makes its owner mint
\* one, although another may be stored, and served, by then.  Unless the
\* environment is allowed to be that unlucky, one process at a time does so.
MayLoad ==
    \/ "oldconfig" \in Env
    \/ ~auth \/ stored # 0
    \/ \A c \in Clients : cli[c].pc = "idle"

\* EnsureAuthToken: what counts is the configuration in memory.
Provision(tok, new) ==
    IF auth /\ tok = 0
    THEN /\ tokens < MaxTokens
         /\ tokens' = tokens + 1 /\ stored' = tokens + 1 /\ new = tokens + 1
    ELSE new = tok /\ UNCHANGED <<tokens, stored>>

Fault == faults < MaxFaults /\ faults' = faults + 1

\* isDaemonStarting looks at the start lock by taking it, for a moment in which
\* others may run into it.
LooksAtStart(x) ==
    /\ start = None
    /\ \/ UNCHANGED <<start, faults>>
       \/ start' = x /\ Fault

-----------------------------------------------------------------------------
(* A server: runServe. *)

Boot(tok) == [kind |-> "server", pc |-> "mark", tok |-> tok, term |-> FALSE]

\* No pid is given to a new process while a stop is about to signal it, and to
\* a server while a stop waits for its predecessor, unless the environment is
\* allowed to be that unlucky.
Reusable(p, pcs) ==
    "recycled" \in Env
        \/ \A c \in Clients : cli[c].target = p => cli[c].pc \notin pcs
ForServer == {"signal", "kill", "await", "present", "awaitkilled"}
Vacant(p) == ~Alive(p) /\ Reusable(p, ForServer)

\* `agentsview serve` in the foreground; the token is there before the lock.
Serve(p) ==
    /\ Vacant(p)
    /\ commands < MaxCommands
    /\ commands' = commands + 1
    /\ MayLoad
    /\ \E tok \in Tokens : /\ Provision(stored, tok)
                           /\ proc' = [proc EXCEPT ![p] = Boot(tok)]
    /\ UNCHANGED <<auth, rec, locks, cli, faults>>

Goes(p, from, to) ==
    /\ proc[p].kind = "server" /\ proc[p].pc = from
    /\ proc' = [proc EXCEPT ![p].pc = to]

\* MarkDaemonStarting: without the lock when somebody holds it.
MarkTakes(p) ==
    /\ Goes(p, "mark", "check")
    /\ start = None
    /\ start' = p
    /\ UNCHANGED <<auth, stored, rec, owner, launch, life, cli, tokens,
                   counts>>
MarkGivesUp(p) ==
    /\ Goes(p, "mark", "check")
    /\ start # None
    /\ UNCHANGED <<auth, stored, rec, locks, cli, tokens, counts>>

\* validateWriteOwnership: fatal when a daemon is found, or when another
\* process holds the start lock.
CheckPasses(p) ==
    /\ Found(proc[p].tok) = {}
    /\ \/ /\ start = p
          /\ Goes(p, "check", "own")
          /\ UNCHANGED <<start, faults>>
       \/ /\ LooksAtStart(p)
          /\ Goes(p, "check", IF start' = p THEN "unprobe" ELSE "own")
    /\ rec' = Cleaned
    /\ UNCHANGED <<auth, stored, owner, launch, life, cli, tokens, commands>>
CheckFails(p) ==
    /\ proc[p].kind = "server" /\ proc[p].pc = "check"
    /\ Found(proc[p].tok) # {} \/ start \notin {None, p}
    /\ Dies(p, cli)
    /\ UNCHANGED <<auth, stored, launch, life, tokens, counts>>

Unprobe(p) ==
    /\ Goes(p, "unprobe", "own")
    /\ start' = None
    /\ UNCHANGED <<auth, stored, rec, owner, launch, life, cli, tokens,
                   counts>>

\* acquireWriteOwnerLock; the archive is opened, synchronised and served.
Own(p) ==
    /\ Goes(p, "own", "load")
    /\ owner = None
    /\ owner' = p
    /\ UNCHANGED <<auth, stored, rec, start, launch, life, cli, tokens,
                   counts>>
OwnFails(p) ==
    /\ proc[p].kind = "server" /\ proc[p].pc = "own"
    /\ owner # None
    /\ Dies(p, cli)
    /\ UNCHANGED <<auth, stored, launch, life, tokens, counts>>

\* SIGTERM ends the first synchronisation.  Else WriteDaemonRuntime; when it
\* fails the start lock is kept.
LoadAborted(p) ==
    /\ proc[p].term
    /\ Goes(p, "load", "close")
    /\ UNCHANGED <<auth, stored, rec, locks, cli, tokens, counts>>

Publish(p) ==
    /\ ~proc[p].term
    /\ rec' \in { [rec EXCEPT ![p] = "own"] }
                    \cup IF "recordfails" \in Env THEN {rec} ELSE {}
    /\ Goes(p, "load", IF rec'[p] = "own" THEN "unmark" ELSE "serve")
    /\ UNCHANGED <<auth, stored, locks, cli, tokens, counts>>

Unmark(p) ==
    /\ Goes(p, "unmark", "serve")
    /\ start' = Free(start, p)
    /\ UNCHANGED <<auth, stored, rec, owner, launch, life, cli, tokens,
                   counts>>

\* SIGTERM: the listener is closed, then the deferred calls run in reverse.
Shutdown_OwnerFirst(p) ==
    /\ proc[p].term
    /\ Goes(p, "serve", "unrecord")
    /\ owner' = None
    /\ UNCHANGED <<auth, stored, rec, start, launch, life, cli, tokens,
                   counts>>
Shutdown(p) ==
    /\ proc[p].term
    /\ Goes(p, "serve", "unrecord")
    /\ UNCHANGED <<auth, stored, rec, locks, cli, tokens, counts>>

Unrecord(p) ==
    /\ Goes(p, "unrecord", "close")
    /\ rec' = [rec EXCEPT ![p] = "none"]
    /\ UNCHANGED <<auth, stored, locks, cli, tokens, counts>>

\* The archive is closed; the end of the process frees the locks.
Close(p) ==
    /\ proc[p].kind = "server" /\ proc[p].pc = "close"
    /\ Dies(p, cli)
    /\ UNCHANGED <<auth, stored, launch, life, tokens, counts>>

Server(p) ==
    \/ MarkTakes(p) \/ MarkGivesUp(p) \/ CheckPasses(p) \/ CheckFails(p)
    \/ Unprobe(p) \/ Own(p) \/ OwnFails(p) \/ LoadAborted(p)
    \/ Publish(p) \/ Unmark(p) \/ Shutdown(p) \/ Unrecord(p) \/ Close(p)

-----------------------------------------------------------------------------
(* Clients: finding a daemon and starting one. *)

\* c goes on; its fields are those of new.
Becomes(c, new) == cli' = [cli EXCEPT ![c] = new]
At(c, pc) == cli[c].pc = pc
To(c, pc) == [cli[c] EXCEPT !.pc = pc]

\* The call or the command is over.  What a call has found is what it returns;
\* an MCP server keeps the configuration of a start that has not failed.
Over(c, tok, found) ==
    [cli[c] EXCEPT !.pc = "idle", !.op = "call", !.target = None,
                   !.same = FALSE, !.child = None, !.use = 0,
                   !.tok = IF "oldconfig" \in Env THEN tok ELSE 0,
                   !.ok = cli[c].op = "call" /\ found]
Ended(c, found) == Over(c, cli[c].use, found)
Failed(c) == Over(c, cli[c].tok, FALSE)
Unlocks(c) == launch' = Free(launch, c) /\ life' = Free(life, c)
Keeps == UNCHANGED <<launch, life>>

\* A call of an MCP tool looks for a daemon first and then starts one.
Call(c) ==
    LET tok == IF "oldconfig" \in Env THEN cli[c].tok ELSE stored
    IN  /\ At(c, "idle")
        /\ rec' = Cleaned
        /\ \/ /\ Found(tok) # {}
              /\ Becomes(c, [cli[c] EXCEPT !.ok = TRUE])
           \/ /\ Found(tok) = {} /\ MayLoad
              /\ Becomes(c, [To(c, "launch") EXCEPT !.use = tok, !.ok = FALSE])
        /\ UNCHANGED <<auth, stored, proc, locks, tokens, counts>>

\* A command loads the configuration.  Of those that start a daemon one runs
\* at a time, under acquireDaemonLifecycleLock.
Command(c, op) ==
    /\ At(c, "idle")
    /\ MayLoad
    /\ commands < MaxCommands /\ commands' = commands + 1
    /\ IF op = "stop" THEN UNCHANGED life ELSE life = None /\ life' = c
    /\ Becomes(c, [cli[c] EXCEPT !.op = op, !.use = stored, !.ok = FALSE,
                                 !.pc = IF op = "start" THEN "find"
                                                        ELSE "list"])
    /\ UNCHANGED <<auth, stored, proc, rec, start, owner, launch, tokens,
                   faults>>

\* `daemon start` takes the write-owner lock for as long as it looks at the
\* configuration.
StartFind(c) ==
    /\ At(c, "find")
    /\ rec' = Cleaned
    /\ IF Found(cli[c].use) # {}
       THEN Becomes(c, Ended(c, TRUE)) /\ Unlocks(c)
       ELSE Becomes(c, To(c, "own")) /\ Keeps
    /\ UNCHANGED <<auth, stored, proc, start, owner, tokens, counts>>

TakeOwner(c) ==
    /\ At(c, "own")
    /\ IF owner = None
       THEN owner' = c /\ Becomes(c, To(c, "unown")) /\ Keeps
       ELSE Becomes(c, Failed(c)) /\ Unlocks(c) /\ UNCHANGED owner
    /\ UNCHANGED <<auth, stored, proc, rec, start, tokens, counts>>

FreeOwner(c) ==
    /\ At(c, "unown")
    /\ owner' = None
    /\ Becomes(c, To(c, "look"))
    /\ UNCHANGED <<auth, stored, proc, rec, start, launch, life, tokens,
                   counts>>

\* startBackgroundServe: the launch lock, and under it the token.
Launch(c) ==
    /\ At(c, "launch")
    /\ \/ /\ launch # None
          /\ Becomes(c, To(c, "wait"))
          /\ UNCHANGED <<launch, stored, tokens>>
       \/ /\ launch = None
          /\ launch' = c
          /\ \E tok \in Tokens :
                /\ Provision(cli[c].use, tok)
                /\ Becomes(c, [To(c, "look") EXCEPT !.use = tok])
    /\ UNCHANGED <<auth, proc, rec, start, owner, life, counts>>

\* A command looks before it comes to the launch lock, and everybody with it.  A
\* daemon is found, or one is active: its record lives, or the start lock is
\* held.
Looked(c) == IF launch = c THEN "spawn" ELSE "launch"
Look(c) ==
    /\ At(c, "look")
    /\ rec' = Cleaned
    /\ \/ /\ Found(cli[c].use) # {}
          /\ Becomes(c, Ended(c, TRUE)) /\ Unlocks(c)
          /\ UNCHANGED <<start, faults>>
       \/ /\ Found(cli[c].use) = {}
          /\ Live # {} \/ start # None
          /\ Becomes(c, To(c, "wait")) /\ Keeps
          /\ UNCHANGED <<start, faults>>
       \/ /\ Live = {} /\ LooksAtStart(c)
          /\ Becomes(c, To(c, IF start' = c THEN "unprobe" ELSE Looked(c)))
          /\ Keeps
    /\ UNCHANGED <<auth, stored, proc, owner, tokens, commands>>

LookEnds(c) ==
    /\ At(c, "unprobe")
    /\ start' = None
    /\ Becomes(c, To(c, Looked(c)))
    /\ UNCHANGED <<auth, stored, proc, rec, owner, launch, life, tokens,
                   counts>>

\* The child loads the configuration that is stored.
Spawn(c, p) ==
    /\ At(c, "spawn")
    /\ Vacant(p)
    /\ proc' = [proc EXCEPT ![p] = Boot(stored)]
    /\ Becomes(c, [To(c, "ready") EXCEPT !.child = p])
    /\ UNCHANGED <<auth, stored, rec, locks, tokens, counts>>

\* startServeBackgroundProcess fails where there is no room for a process.
SpawnFails(c) ==
    /\ At(c, "spawn")
    /\ \A p \in Pids : ~Vacant(p)
    /\ Becomes(c, Failed(c)) /\ Unlocks(c)
    /\ UNCHANGED <<auth, stored, proc, rec, start, owner, tokens, counts>>

\* waitForBackgroundServeReady: found, exited or five seconds over.
Ready(c) ==
    /\ At(c, "ready")
    /\ rec' = Cleaned
    /\ \/ /\ Found(cli[c].use) # {}
          /\ Becomes(c, Ended(c, TRUE)) /\ Unlocks(c)
       \/ /\ Found(cli[c].use) = {} /\ cli[c].child = None
          /\ Becomes(c, Failed(c)) /\ Unlocks(c)
       \/ /\ Found(cli[c].use) = {} /\ cli[c].child # None
          /\ Becomes(c, Ended(c, FALSE)) /\ Unlocks(c)
    /\ UNCHANGED <<auth, stored, proc, start, owner, tokens, counts>>

\* WaitForDaemonStartup polls until a daemon is found, the start lock is free
\* or the time is over; then there is a last look.
Wait(c) ==
    /\ At(c, "wait")
    /\ rec' = Cleaned
    /\ \/ /\ Becomes(c, Ended(c, Found(cli[c].use) # {})) /\ Unlocks(c)
          /\ UNCHANGED <<start, faults>>
       \/ /\ Found(cli[c].use) = {} /\ start = None
          /\ Fault /\ start' = c
          /\ Becomes(c, To(c, "waitunprobe")) /\ Keeps
    /\ UNCHANGED <<auth, stored, proc, owner, tokens, commands>>

WaitEnds(c) ==
    /\ At(c, "waitunprobe")
    /\ rec' = Cleaned
    /\ start' = None
    /\ Becomes(c, Ended(c, Found(cli[c].use) # {})) /\ Unlocks(c)
    /\ UNCHANGED <<auth, stored, proc, owner, tokens, counts>>

-----------------------------------------------------------------------------
(* Clients: stopping the daemon. *)

\* The daemon to stop; several would be refused.
List(c) ==
    /\ At(c, "list")
    /\ rec' = Cleaned
    /\ \/ /\ Live = {}
          /\ IF cli[c].op = "restart" THEN Becomes(c, To(c, "look")) /\ Keeps
             ELSE Becomes(c, Ended(c, TRUE)) /\ Unlocks(c)
       \/ \E p \in Live :
             /\ Live = {p}
             /\ Becomes(c, [cli[c] EXCEPT
                    !.target = p, !.same = TRUE,
                    !.pc = IF p \in Found(cli[c].use) THEN "signal"
                                                      ELSE "confirm"])
             /\ Keeps
    /\ UNCHANGED <<auth, stored, proc, start, owner, tokens, counts>>

\* One that does not answer is identified by its creation time.
Confirm(c) ==
    /\ At(c, "confirm")
    /\ IF cli[c].same
       THEN Becomes(c, To(c, "signal")) /\ Keeps
       ELSE Becomes(c, Failed(c)) /\ Unlocks(c)
    /\ UNCHANGED <<auth, stored, proc, rec, start, owner, tokens, counts>>

\* SIGTERM, which a server handles once it has opened the archive.
Handles(p) ==
    proc[p].kind = "server" /\ proc[p].pc \notin {"mark", "check", "unprobe",
                                                  "own"}
Signal(c) ==
    LET p == cli[c].target
    IN  /\ At(c, "signal")
        /\ \/ /\ ~Alive(p)
              /\ Becomes(c, Failed(c)) /\ Unlocks(c)
              /\ UNCHANGED <<proc, rec, start, owner>>
           \/ /\ Alive(p) /\ Handles(p)
              /\ proc' = [proc EXCEPT ![p].term = TRUE]
              /\ Becomes(c, To(c, "await")) /\ Keeps
              /\ UNCHANGED <<rec, start, owner>>
           \/ /\ Alive(p) /\ ~Handles(p)
              /\ Dies(p, [cli EXCEPT ![c] = To(c, "await")])
              /\ Keeps
        /\ UNCHANGED <<auth, stored, tokens, counts>>

\* The process is gone: the record is removed, and a restart goes on.
Stopped(c) ==
    /\ rec' = [rec EXCEPT ![cli[c].target] = "none"]
    /\ IF cli[c].op = "restart"
       THEN /\ Becomes(c, [To(c, "look") EXCEPT !.target = None,
                                                !.same = FALSE])
            /\ Keeps
       ELSE Becomes(c, Ended(c, TRUE)) /\ Unlocks(c)

Await(c) ==
    /\ At(c, "await")
    /\ \/ ~Alive(cli[c].target) /\ Stopped(c)
       \/ /\ Alive(cli[c].target)
          /\ Becomes(c, To(c, "present"))
          /\ Keeps /\ UNCHANGED rec
    /\ UNCHANGED <<auth, stored, proc, start, owner, tokens, counts>>

\* Ten seconds are over.  The pid may be another process's by now.
Present_Always(c) ==
    /\ At(c, "present")
    /\ Becomes(c, To(c, "kill"))
    /\ UNCHANGED <<auth, stored, proc, rec, locks, tokens, counts>>
Present(c) ==
    /\ At(c, "present")
    /\ IF cli[c].same
       THEN Becomes(c, To(c, "kill")) /\ Keeps /\ UNCHANGED rec
       ELSE Stopped(c)
    /\ UNCHANGED <<auth, stored, proc, start, owner, tokens, counts>>

ForceKill(c) ==
    LET p == cli[c].target
    IN  /\ At(c, "kill")
        /\ \/ /\ Alive(p)
              /\ Dies(p, [cli EXCEPT ![c] = To(c, "awaitkilled")])
              /\ Keeps
           \/ /\ ~Alive(p)
              /\ Becomes(c, Failed(c)) /\ Unlocks(c)
              /\ UNCHANGED <<proc, rec, start, owner>>
        /\ UNCHANGED <<auth, stored, tokens, counts>>

AwaitKilled(c) ==
    /\ At(c, "awaitkilled")
    /\ Stopped(c)
    /\ UNCHANGED <<auth, stored, proc, start, owner, tokens, counts>>

Client(c) ==
    \/ StartFind(c) \/ TakeOwner(c) \/ FreeOwner(c) \/ Launch(c)
    \/ Look(c) \/ LookEnds(c)
    \/ SpawnFails(c) \/ \E p \in Pids : Spawn(c, p)
    \/ Ready(c) \/ Wait(c) \/ WaitEnds(c)
    \/ List(c) \/ Confirm(c) \/ Signal(c) \/ Await(c) \/ Present(c)
    \/ ForceKill(c) \/ AwaitKilled(c)

-----------------------------------------------------------------------------
(* The world. *)

\* The operating system kills a server.
Crash(p) ==
    /\ proc[p].kind = "server"
    /\ Fault
    /\ Dies(p, cli)
    /\ UNCHANGED <<auth, stored, launch, life, tokens, commands>>

\* Ctrl-C at a server in the foreground, or the SIGTERM of a service manager.
Quit(p) ==
    /\ Handles(p) /\ ~proc[p].term
    /\ Fault
    /\ proc' = [proc EXCEPT ![p].term = TRUE]
    /\ UNCHANGED <<auth, stored, rec, locks, cli, tokens, commands>>

\* Another program gets the pid; a pid is left for a server.
Reused(p) ==
    /\ \E q \in Pids \ {p} : proc[q].kind # "stranger"
    /\ ~Alive(p) /\ Reusable(p, {"signal", "kill"})
    /\ Fault
    /\ proc' = [proc EXCEPT ![p] = Stranger]
    /\ UNCHANGED <<auth, stored, rec, locks, cli, tokens, commands>>

\* A client is interrupted.
Interrupt(c) ==
    /\ ~At(c, "idle")
    /\ Fault
    /\ start' = Free(start, c) /\ owner' = Free(owner, c)
    /\ Becomes(c, Failed(c)) /\ Unlocks(c)
    /\ UNCHANGED <<auth, stored, proc, rec, tokens, commands>>

Next ==
    \/ \E p \in Pids :
          Server(p) \/ Serve(p) \/ Crash(p) \/ Quit(p) \/ Reused(p)
    \/ \E c \in Clients :
          \/ Client(c) \/ Call(c) \/ Interrupt(c)
          \/ \E op \in {"start", "stop", "restart"} : Command(c, op)

Spec == Init /\ [][Next]_vars

\* Every process goes on, and every client keeps calling.
Fairness ==
    /\ \A p \in Pids : WF_vars(Server(p))
    /\ \A c \in Clients : WF_vars(Client(c)) /\ WF_vars(Call(c))

FairSpec == Spec /\ Fairness

-----------------------------------------------------------------------------
(* Properties. *)

\* A server that clients can find owns the archive, and so there is only one:
\* the record is published after the lock is taken, and removed before.
OneDaemon == \A p \in Pids : rec[p] = "own" => owner = p

\* Stopping the daemon never hits another program, nor a server other than the
\* recorded one, although the daemon may die, and its pid be given away, in
\* the ten seconds between the two signals.
NoBystander ==
    [][\A p \in Pids :
          /\ proc[p].kind = "stranger" => proc'[p] = proc[p]
          /\ \A c \in Clients :
                (Signal(c) \/ ForceKill(c)) /\ proc'[p] # proc[p] =>
                   cli[c].target = p /\ cli[c].same]_vars

\* A client that keeps calling is served in the end, and stays served, whatever
\* was killed, stopped or interrupted, in whichever state it left the locks
\* and records.
EventuallyServed == \A c \in Clients : <>[]cli[c].ok
=============================================================================
