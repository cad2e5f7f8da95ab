---------------------------- MODULE DaemonProofs ----------------------------
(***************************************************************************)
(* Theorems about the daemon's life, for any number of processes, clients, *)
(* commands and failures.                                                  *)
(***************************************************************************)
EXTENDS Daemon, TLAPS

-----------------------------------------------------------------------------
(* Types. *)

Record == [op : Ops, pc : ClientPcs, tok : Tokens, use : Tokens,
           ok : BOOLEAN, target : Pids \cup {None}, same : BOOLEAN,
           child : Pids \cup {None}]

\* Whatever a client becomes, its state keeps its type.
LEMMA BecomesTyped ==
    ASSUME TypeOK, NEW c \in Clients, NEW new \in Record, Becomes(c, new)
    PROVE  cli' \in [Clients -> Record]
  BY DEF TypeOK, Becomes, Record

LEMMA ForgetTyped ==
    ASSUME NEW p, NEW cs \in [Clients -> Record]
    PROVE  Forget(p, cs) \in [Clients -> Record]
  BY DEF Forget, Record

LEMMA ZeroToken == 0 \in Tokens
  BY DaemonAssumption DEF Tokens

LEMMA OverTyped ==
    ASSUME TypeOK, NEW c \in Clients, NEW found \in BOOLEAN
    PROVE  Ended(c, found) \in Record /\ Failed(c) \in Record
  <1>1. cli[c] \in Record
    BY DEF TypeOK, Record
  <1>2. ASSUME NEW tok \in Tokens, NEW b \in BOOLEAN
        PROVE  Over(c, tok, b) \in Record
    <2>1. (IF cli[c].op = "call" THEN b ELSE cli[c].ok) \in BOOLEAN
      BY <1>1, Zenon DEF Record
    <2>2. (IF "oldconfig" \in Env THEN tok ELSE 0) \in Tokens
      BY ZeroToken
    <2>3. "idle" \in ClientPcs /\ "call" \in Ops
      BY DEF ClientPcs, Ops
    <2> QED
      BY <1>1, <2>1, <2>2, <2>3, ZeroToken DEF Over, Record
  <1>3. cli[c].use \in Tokens /\ cli[c].tok \in Tokens
    BY <1>1 DEF Record
  <1> QED
    BY <1>2, <1>3 DEF Ended, Failed

LEMMA ToTyped ==
    ASSUME TypeOK, NEW c \in Clients, NEW pc \in ClientPcs
    PROVE  To(c, pc) \in Record
  BY DEF TypeOK, To, Record

LEMMA DiesTyped ==
    ASSUME TypeOK, NEW p, NEW cs \in [Clients -> Record], Dies(p, cs)
    PROVE  /\ proc' \in [Pids -> [kind : {"none", "server", "stranger"},
                                  pc : ServerPcs, tok : Tokens,
                                  term : BOOLEAN]]
           /\ rec' \in [Pids -> {"none", "own", "stale"}]
           /\ start' \in Pids \cup Clients \cup {None}
           /\ owner' \in Pids \cup Clients \cup {None}
           /\ cli' \in [Clients -> Record]
  BY ForgetTyped, ZeroToken
     DEF TypeOK, Dies, Disown, Free, Nobody, ServerPcs

LEMMA FreeTyped ==
    ASSUME TypeOK, NEW x
    PROVE  /\ Free(start, x) \in Pids \cup Clients \cup {None}
           /\ Free(owner, x) \in Pids \cup Clients \cup {None}
           /\ Free(launch, x) \in Clients \cup {None}
           /\ Free(life, x) \in Clients \cup {None}
  BY DEF TypeOK, Free

LEMMA CleanedTyped ==
    ASSUME TypeOK PROVE Cleaned \in [Pids -> {"none", "own", "stale"}]
  BY DEF TypeOK, Cleaned

LEMMA FaultTyped ==
    ASSUME TypeOK, Fault PROVE faults' \in 0 .. MaxFaults
  BY DaemonAssumption DEF TypeOK, Fault

LEMMA ProvisionTyped ==
    ASSUME TypeOK, NEW tok \in Tokens, NEW new \in Tokens,
           Provision(tok, new)
    PROVE  stored' \in Tokens /\ tokens' \in Tokens
  BY DaemonAssumption DEF TypeOK, Provision, Tokens

LEMMA ServerTyped ==
    ASSUME TypeOK, NEW p \in Pids, Server(p)
    PROVE  TypeOK'
  <1> USE DEF locks, counts
  <1>1. CASE MarkTakes(p)
    BY <1>1 DEF TypeOK, MarkTakes, Goes, ServerPcs
  <1>2. CASE MarkGivesUp(p)
    BY <1>2 DEF TypeOK, MarkGivesUp, Goes, ServerPcs
  <1>3. CASE CheckPasses(p)
    BY <1>3, CleanedTyped, FaultTyped
       DEF TypeOK, CheckPasses, LooksAtStart, Goes, ServerPcs
  <1>4. cli \in [Clients -> Record]
    BY DEF TypeOK, Record
  <1>5. CASE CheckFails(p)
    BY <1>4, <1>5, DiesTyped DEF TypeOK, CheckFails, Record
  <1>6. CASE Unprobe(p)
    BY <1>6 DEF TypeOK, Unprobe, Goes, ServerPcs
  <1>7. CASE Own(p)
    BY <1>7 DEF TypeOK, Own, Goes, ServerPcs
  <1>8. CASE OwnFails(p)
    BY <1>4, <1>8, DiesTyped DEF TypeOK, OwnFails, Record
  <1>9. CASE LoadAborted(p)
    BY <1>9 DEF TypeOK, LoadAborted, Goes, ServerPcs
  <1>10. CASE Publish(p)
    BY <1>10 DEF TypeOK, Publish, Goes, ServerPcs
  <1>11. CASE Unmark(p)
    BY <1>11, FreeTyped DEF TypeOK, Unmark, Goes, ServerPcs
  <1>12. CASE Shutdown(p)
    BY <1>12 DEF TypeOK, Shutdown, Goes, ServerPcs
  <1>13. CASE Unrecord(p)
    BY <1>13 DEF TypeOK, Unrecord, Goes, ServerPcs
  <1>14. CASE Close(p)
    BY <1>4, <1>14, DiesTyped DEF TypeOK, Close, Record
  <1> QED
    BY <1>1, <1>2, <1>3, <1>5, <1>6, <1>7, <1>8, <1>9, <1>10, <1>11, <1>12,
       <1>13, <1>14 DEF Server

\* The fields a client sets on its way.
LEMMA FieldsTyped ==
    ASSUME NEW r \in Record
    PROVE  /\ \A tok \in Tokens : /\ [r EXCEPT !.use = tok] \in Record
                                  /\ [r EXCEPT !.use = tok, !.ok = FALSE] \in Record
           /\ \A p \in Pids : [r EXCEPT !.child = p] \in Record
           /\ [r EXCEPT !.target = None, !.same = FALSE] \in Record
           /\ [r EXCEPT !.ok = TRUE] \in Record
           /\ \A p \in Pids, pc \in ClientPcs :
                 [r EXCEPT !.target = p, !.same = TRUE, !.pc = pc] \in Record
  BY DEF Record

LEMMA CliTyped ==
    ASSUME TypeOK
    PROVE  /\ cli \in [Clients -> Record]
           /\ \A c \in Clients : cli[c] \in Record
  BY DEF TypeOK, Record

\* After a stop the client is where Stopped leaves it.
LEMMA StoppedTyped ==
    ASSUME TypeOK, NEW c \in Clients, Stopped(c)
    PROVE  /\ cli' \in [Clients -> Record]
           /\ rec' \in [Pids -> {"none", "own", "stale"}]
           /\ launch' \in Clients \cup {None} /\ life' \in Clients \cup {None}
  <1>1. To(c, "look") \in Record
    BY ToTyped DEF ClientPcs
  <1>2. [To(c, "look") EXCEPT !.target = None, !.same = FALSE] \in Record
    BY <1>1, FieldsTyped
  <1>3. cli' \in [Clients -> Record]
    BY <1>2, OverTyped, BecomesTyped DEF Stopped
  <1> QED
    BY <1>3, FreeTyped DEF Stopped, TypeOK, Unlocks, Keeps

LEMMA ClientTyped ==
    ASSUME TypeOK, NEW c \in Clients, Client(c) \/ Call(c)
    PROVE  TypeOK'
  <1> USE DEF locks, counts
  <1>1. CASE Call(c)
    <2>1. cli' \in [Clients -> Record]
      <3>1. PICK tok \in Tokens :
                 \/ Becomes(c, [cli[c] EXCEPT !.ok = TRUE])
                 \/ Becomes(c, [To(c, "launch") EXCEPT !.use = tok, !.ok = FALSE])
        BY <1>1, CliTyped DEF Call, TypeOK, Record
      <3>2. To(c, "launch") \in Record
        BY ToTyped DEF ClientPcs
      <3> QED
        BY <3>1, <3>2, CliTyped, FieldsTyped, BecomesTyped
    <2> QED
      BY <1>1, <2>1, FreeTyped, CleanedTyped, FaultTyped DEF TypeOK, Call, Unlocks, Keeps, Record
  <1>2. CASE StartFind(c)
    <2>1. cli' \in [Clients -> Record]
      BY <1>2, BecomesTyped, ToTyped, OverTyped DEF StartFind, ClientPcs
    <2> QED
      BY <1>2, <2>1, FreeTyped, CleanedTyped, FaultTyped DEF TypeOK, StartFind, Unlocks, Keeps, Record
  <1>3. CASE TakeOwner(c)
    <2>1. cli' \in [Clients -> Record]
      BY <1>3, BecomesTyped, ToTyped, OverTyped DEF TakeOwner, ClientPcs
    <2> QED
      BY <1>3, <2>1, FreeTyped, CleanedTyped, FaultTyped DEF TypeOK, TakeOwner, Unlocks, Keeps, Record
  <1>4. CASE FreeOwner(c)
    <2>1. cli' \in [Clients -> Record]
      BY <1>4, BecomesTyped, ToTyped, OverTyped DEF FreeOwner, ClientPcs
    <2> QED
      BY <1>4, <2>1, FreeTyped, CleanedTyped, FaultTyped DEF TypeOK, FreeOwner, Unlocks, Keeps, Record
  <1>5. CASE Launch(c)
    <2>1. cli' \in [Clients -> Record]
      <3>1. PICK tok \in Tokens :
                 \/ Becomes(c, To(c, "wait"))
                 \/ Becomes(c, [To(c, "look") EXCEPT !.use = tok])
        BY <1>5, ZeroToken DEF Launch
      <3>2. To(c, "wait") \in Record /\ To(c, "look") \in Record
        BY ToTyped DEF ClientPcs
      <3> QED
        BY <3>1, <3>2, FieldsTyped, BecomesTyped
    <2>2. stored' \in Tokens /\ tokens' \in Tokens
      <3>1. cli[c].use \in Tokens
        BY CliTyped DEF Record
      <3>2. CASE UNCHANGED <<launch, stored, tokens>>
        BY <3>2 DEF TypeOK
      <3>3. CASE \E tok \in Tokens : Provision(cli[c].use, tok)
        BY <3>1, <3>3, ProvisionTyped
      <3> QED
        BY <1>5, <3>2, <3>3 DEF Launch
    <2>3. launch' \in Clients \cup {None}
      BY <1>5 DEF Launch, TypeOK
    <2> QED
      BY <1>5, <2>1, <2>2, <2>3 DEF TypeOK, Launch, Record
  <1>6. CASE Look(c)
    <2>1. cli' \in [Clients -> Record]
      BY <1>6, BecomesTyped, ToTyped, OverTyped DEF Look, Looked, ClientPcs
    <2> QED
      BY <1>6, <2>1, FreeTyped, CleanedTyped, FaultTyped DEF TypeOK, Look, LooksAtStart, Unlocks, Keeps, Record
  <1>7. CASE LookEnds(c)
    <2>1. cli' \in [Clients -> Record]
      BY <1>7, BecomesTyped, ToTyped, OverTyped DEF LookEnds, Looked, ClientPcs
    <2> QED
      BY <1>7, <2>1, FreeTyped, CleanedTyped, FaultTyped DEF TypeOK, LookEnds, Unlocks, Keeps, Record
  <1>8. CASE \E p \in Pids : Spawn(c, p)
    <2>1. cli' \in [Clients -> Record]
      <3>1. PICK p \in Pids :
                 Becomes(c, [To(c, "ready") EXCEPT !.child = p])
        BY <1>8 DEF Spawn
      <3>2. To(c, "ready") \in Record
        BY ToTyped DEF ClientPcs
      <3> QED
        BY <3>1, <3>2, FieldsTyped, BecomesTyped
    <2>2. PICK p \in Pids : Spawn(c, p)
      BY <1>8
    <2>3. Boot(stored) \in [kind : {"none", "server", "stranger"},
                            pc : ServerPcs, tok : Tokens, term : BOOLEAN]
      BY DEF TypeOK, Boot, ServerPcs
    <2>4. proc' \in [Pids -> [kind : {"none", "server", "stranger"},
                              pc : ServerPcs, tok : Tokens, term : BOOLEAN]]
      BY <2>2, <2>3 DEF TypeOK, Spawn
    <2> QED
      BY <2>1, <2>2, <2>4 DEF TypeOK, Spawn, Record
  <1>9. CASE SpawnFails(c)
    <2>1. cli' \in [Clients -> Record]
      BY <1>9, BecomesTyped, ToTyped, OverTyped DEF SpawnFails, ClientPcs
    <2> QED
      BY <1>9, <2>1, FreeTyped, CleanedTyped, FaultTyped DEF TypeOK, SpawnFails, Unlocks, Keeps, Record
  <1>10. CASE Ready(c)
    <2>1. cli' \in [Clients -> Record]
      BY <1>10, BecomesTyped, ToTyped, OverTyped DEF Ready, ClientPcs
    <2> QED
      BY <1>10, <2>1, FreeTyped, CleanedTyped, FaultTyped DEF TypeOK, Ready, Unlocks, Keeps, Record
  <1>11. CASE Wait(c)
    <2>1. cli' \in [Clients -> Record]
      BY <1>11, BecomesTyped, ToTyped, OverTyped DEF Wait, ClientPcs
    <2> QED
      BY <1>11, <2>1, FreeTyped, CleanedTyped, FaultTyped DEF TypeOK, Wait, Unlocks, Keeps, Record
  <1>12. CASE WaitEnds(c)
    <2>1. cli' \in [Clients -> Record]
      BY <1>12, BecomesTyped, ToTyped, OverTyped DEF WaitEnds, ClientPcs
    <2> QED
      BY <1>12, <2>1, FreeTyped, CleanedTyped, FaultTyped DEF TypeOK, WaitEnds, Unlocks, Keeps, Record
  <1>13. CASE List(c)
    <2>1. cli' \in [Clients -> Record]
      <3>1. CASE Becomes(c, To(c, "look")) \/ Becomes(c, Ended(c, TRUE))
        BY <3>1, ToTyped, OverTyped, BecomesTyped DEF ClientPcs
      <3>2. CASE \E p \in Pids, pc \in ClientPcs : Becomes(c, [cli[c] EXCEPT
                    !.target = p, !.same = TRUE, !.pc = pc])
        BY <3>2, CliTyped, FieldsTyped, BecomesTyped
      <3> QED
        BY <1>13, <3>1, <3>2 DEF List, Live, ClientPcs
    <2> QED
      BY <1>13, <2>1, FreeTyped, CleanedTyped, FaultTyped DEF TypeOK, List, Unlocks, Keeps, Record
  <1>14. CASE Confirm(c)
    <2>1. cli' \in [Clients -> Record]
      BY <1>14, BecomesTyped, ToTyped, OverTyped DEF Confirm, ClientPcs
    <2> QED
      BY <1>14, <2>1, FreeTyped, CleanedTyped, FaultTyped DEF TypeOK, Confirm, Unlocks, Keeps, Record
  <1>15. CASE Signal(c)
    <2>1. [cli EXCEPT ![c] = To(c, "await")] \in [Clients -> Record]
      BY CliTyped, ToTyped DEF ClientPcs
    <2>2. /\ auth' = auth /\ stored' = stored /\ tokens' = tokens
          /\ commands' = commands /\ faults' = faults
          /\ launch' \in Clients \cup {None} /\ life' \in Clients \cup {None}
      BY <1>15, FreeTyped DEF TypeOK, Signal, Unlocks, Keeps
    <2>3. CASE Becomes(c, Failed(c)) /\ UNCHANGED <<proc, rec, start, owner>>
      <3>1. cli' \in [Clients -> Record]
        BY <2>3, OverTyped, BecomesTyped
      <3> QED
        BY <2>2, <2>3, <3>1 DEF TypeOK, Record
    <2>4. CASE /\ proc' = [proc EXCEPT ![cli[c].target].term = TRUE]
               /\ Becomes(c, To(c, "await"))
               /\ UNCHANGED <<rec, start, owner>>
      <3>1. cli' \in [Clients -> Record]
        BY <2>4, ToTyped, BecomesTyped DEF ClientPcs
      <3> DEFINE Procs == [kind : {"none", "server", "stranger"},
                           pc : ServerPcs, tok : Tokens, term : BOOLEAN]
      <3>2. proc' \in [Pids -> Procs]
        <4>1. \A x \in Procs : [x EXCEPT !.term = TRUE] \in Procs
          OBVIOUS
        <4>2. proc \in [Pids -> Procs]
          BY DEF TypeOK
        <4> HIDE DEF Procs
        <4> QED
          BY <2>4, <4>1, <4>2
      <3> QED
        BY <2>2, <2>4, <3>1, <3>2 DEF TypeOK, Record
    <2>5. CASE Dies(cli[c].target, [cli EXCEPT ![c] = To(c, "await")])
      BY <2>1, <2>2, <2>5, DiesTyped DEF TypeOK, Record
    <2> QED
      BY <1>15, <2>3, <2>4, <2>5 DEF Signal
  <1>16. CASE Await(c)
    <2>1. CASE Stopped(c)
      BY <1>16, <2>1, StoppedTyped DEF TypeOK, Await, Record
    <2>2. CASE Becomes(c, To(c, "present")) /\ Keeps /\ UNCHANGED rec
      <3>1. cli' \in [Clients -> Record]
        BY <2>2, ToTyped, BecomesTyped DEF ClientPcs
      <3> QED
        BY <1>16, <2>2, <3>1 DEF TypeOK, Await, Keeps, Record
    <2> QED
      BY <1>16, <2>1, <2>2 DEF Await
  <1>17. CASE Present(c)
    <2>1. CASE Stopped(c)
      BY <1>17, <2>1, StoppedTyped DEF TypeOK, Present, Record
    <2>2. CASE Becomes(c, To(c, "kill")) /\ Keeps /\ UNCHANGED rec
      <3>1. cli' \in [Clients -> Record]
        BY <2>2, ToTyped, BecomesTyped DEF ClientPcs
      <3> QED
        BY <1>17, <2>2, <3>1 DEF TypeOK, Present, Keeps, Record
    <2> QED
      BY <1>17, <2>1, <2>2 DEF Present
  <1>18. CASE ForceKill(c)
    <2>1. [cli EXCEPT ![c] = To(c, "awaitkilled")] \in [Clients -> Record]
      BY CliTyped, ToTyped DEF ClientPcs
    <2>2. /\ auth' = auth /\ stored' = stored /\ tokens' = tokens
          /\ commands' = commands /\ faults' = faults
          /\ launch' \in Clients \cup {None} /\ life' \in Clients \cup {None}
      BY <1>18, FreeTyped DEF TypeOK, ForceKill, Unlocks, Keeps
    <2>3. CASE Becomes(c, Failed(c)) /\ UNCHANGED <<proc, rec, start, owner>>
      <3>1. cli' \in [Clients -> Record]
        BY <2>3, OverTyped, BecomesTyped
      <3> QED
        BY <2>2, <2>3, <3>1 DEF TypeOK, Record
    <2>5. CASE Dies(cli[c].target, [cli EXCEPT ![c] = To(c, "awaitkilled")])
      BY <2>1, <2>2, <2>5, DiesTyped DEF TypeOK, Record
    <2> QED
      BY <1>18, <2>3, <2>5 DEF ForceKill
  <1>19. CASE AwaitKilled(c)
    <2>1. CASE Stopped(c)
      BY <1>19, <2>1, StoppedTyped DEF TypeOK, AwaitKilled, Record
    <2> QED
      BY <1>19, <2>1 DEF AwaitKilled
  <1> QED
    BY <1>1, <1>2, <1>3, <1>4, <1>5, <1>6, <1>7, <1>8, <1>9, <1>10, <1>11, <1>12, <1>13, <1>14, <1>15, <1>16, <1>17, <1>18, <1>19 DEF Client

LEMMA CommandTyped ==
    ASSUME TypeOK, NEW c \in Clients, NEW op \in Ops, Command(c, op)
    PROVE  TypeOK'
  <1> USE DEF locks, counts
  <1>1. \A r \in Record, use \in Tokens, pc \in ClientPcs :
           [r EXCEPT !.op = op, !.use = use, !.ok = FALSE, !.pc = pc] \in Record
    BY DEF Record
  <1>2. (IF op = "start" THEN "find" ELSE "list") \in ClientPcs
    BY DEF ClientPcs
  <1>3. cli' \in [Clients -> Record]
    BY <1>1, <1>2, CliTyped, BecomesTyped DEF Command, TypeOK
  <1> QED
    BY <1>3, DaemonAssumption DEF TypeOK, Command, Record

LEMMA WorldTyped ==
    ASSUME TypeOK
    PROVE  /\ \A p \in Pids : Serve(p) \/ Crash(p) \/ Quit(p) \/ Reused(p) => TypeOK'
           /\ \A c \in Clients : Interrupt(c) => TypeOK'
  <1> USE DEF locks, counts
  <1>1. ASSUME NEW p \in Pids, Serve(p) PROVE TypeOK'
    <2>1. PICK tok \in Tokens : /\ Provision(stored, tok)
                               /\ proc' = [proc EXCEPT ![p] = Boot(tok)]
      BY <1>1 DEF Serve
    <2>2. stored' \in Tokens /\ tokens' \in Tokens
      <3>1. stored \in Tokens
        BY DEF TypeOK
      <3> QED
        BY <2>1, <3>1, ProvisionTyped
    <2>3. proc' \in [Pids -> [kind : {"none", "server", "stranger"},
                              pc : ServerPcs, tok : Tokens, term : BOOLEAN]]
      BY <2>1 DEF TypeOK, Boot, ServerPcs
    <2>4. commands' \in 0 .. MaxCommands
      BY <1>1, DaemonAssumption DEF TypeOK, Serve
    <2> QED
      BY <1>1, <2>2, <2>3, <2>4 DEF TypeOK, Serve
  <1>2. ASSUME NEW p \in Pids, Crash(p) PROVE TypeOK'
    BY <1>2, CliTyped, DiesTyped, FaultTyped DEF TypeOK, Crash, Record
  <1>6. ASSUME NEW p \in Pids, Quit(p) PROVE TypeOK'
    BY <1>6, FaultTyped DEF TypeOK, Quit
  <1>3. ASSUME NEW p \in Pids, Reused(p) PROVE TypeOK'
    <2>1. Stranger \in [kind : {"none", "server", "stranger"},
                        pc : ServerPcs, tok : Tokens, term : BOOLEAN]
      BY ZeroToken DEF Stranger, Nobody, ServerPcs
    <2> QED
      BY <1>3, <2>1, FaultTyped DEF TypeOK, Reused
  <1>4. ASSUME NEW c \in Clients, Interrupt(c) PROVE TypeOK'
    <2>1. cli' \in [Clients -> Record]
      BY <1>4, OverTyped, BecomesTyped DEF Interrupt
    <2> QED
      BY <1>4, <2>1, FreeTyped, FaultTyped
         DEF TypeOK, Interrupt, Unlocks, Record
  <1> QED
    BY <1>1, <1>2, <1>3, <1>6, <1>4

\* TypeOK holds at every moment.
THEOREM TypeCorrect == Spec => []TypeOK
  <1>1. Init => TypeOK
    <2> SUFFICES ASSUME Init PROVE TypeOK
      OBVIOUS
    <2>1. cli \in [Clients -> Record]
      BY ZeroToken DEF Init, Record, Ops, ClientPcs
    <2>2. proc \in [Pids -> [kind : {"none", "server", "stranger"},
                             pc : ServerPcs, tok : Tokens, term : BOOLEAN]]
      BY ZeroToken DEF Init, Nobody, ServerPcs
    <2> QED
      BY <2>1, <2>2, ZeroToken, DaemonAssumption DEF Init, TypeOK, Record
  <1>2. TypeOK /\ [Next]_vars => TypeOK'
    <2> SUFFICES ASSUME TypeOK, [Next]_vars PROVE TypeOK'
      OBVIOUS
    <2>1. CASE UNCHANGED vars
      BY <2>1 DEF vars, locks, counts, TypeOK
    <2>2. CASE Next
      <3>1. CASE \E p \in Pids :
                    Server(p) \/ Serve(p) \/ Crash(p) \/ Quit(p) \/ Reused(p)
        BY <3>1, ServerTyped, WorldTyped
      <3>2. CASE \E c \in Clients : Client(c) \/ Call(c) \/ Interrupt(c)
        BY <3>2, ClientTyped, WorldTyped
      <3>3. CASE \E c \in Clients, op \in {"start", "stop", "restart"} :
                    Command(c, op)
        BY <3>3, CommandTyped DEF Ops
      <3> QED
        BY <2>2, <3>1, <3>2, <3>3 DEF Next
    <2> QED
      BY <2>1, <2>2
  <1> QED
    BY <1>1, <1>2, PTL DEF Spec

-----------------------------------------------------------------------------
(* One daemon. *)

\* Why there is one daemon: a server has a record only between publishing it
\* and removing it, it owns the archive from before that until after it, and
\* a command that holds the lock for a moment keeps servers out.
OwnerInv ==
    /\ \A p \in Pids : rec[p] = "own" =>
          /\ proc[p].kind = "server"
          /\ proc[p].pc \in {"unmark", "serve", "unrecord"}
    /\ \A p \in Pids :
          /\ proc[p].kind = "server"
          /\ proc[p].pc \in {"load", "unmark", "serve", "unrecord", "close"}
          => owner = p
    /\ \A c \in Clients : cli[c].pc = "unown" => owner = c

\* Where the ways on lead.
LEMMA Pcs ==
    ASSUME TypeOK, NEW c \in Clients
    PROVE  /\ \A pc \in ClientPcs : To(c, pc).pc = pc
           /\ \A found \in BOOLEAN : Ended(c, found).pc = "idle"
           /\ Failed(c).pc = "idle"
  <1>1. cli[c] \in Record
    BY CliTyped
  <1>2. \A r \in Record, pc \in ClientPcs : [r EXCEPT !.pc = pc].pc = pc
    BY DEF Record
  <1>3. \A tok, b : Over(c, tok, b).pc = "idle"
    BY <1>1 DEF Over, Record
  <1> QED
    BY <1>1, <1>2, <1>3 DEF To, Ended, Failed

LEMMA FieldPcs ==
    ASSUME NEW r \in Record
    PROVE  /\ \A tok \in Tokens : /\ [r EXCEPT !.use = tok].pc = r.pc
                                  /\ [r EXCEPT !.use = tok, !.ok = FALSE].pc = r.pc
           /\ \A p \in Pids : [r EXCEPT !.child = p].pc = r.pc
           /\ [r EXCEPT !.target = None, !.same = FALSE].pc = r.pc
           /\ [r EXCEPT !.ok = TRUE].pc = r.pc
           /\ \A p \in Pids, pc \in ClientPcs :
                 [r EXCEPT !.target = p, !.same = TRUE, !.pc = pc].pc = pc
           /\ \A op \in Ops, tok \in Tokens, pc \in ClientPcs :
                 [r EXCEPT !.op = op, !.use = tok, !.ok = FALSE, !.pc = pc].pc = pc
  BY DEF Record

\* The clients at "unown" are no more than before.
NoneTakes == \A d \in Clients : cli'[d].pc = "unown" => cli[d].pc = "unown"

LEMMA Moves ==
    ASSUME TypeOK, NEW c \in Clients, NEW new, Becomes(c, new),
           new.pc # "unown"
    PROVE  NoneTakes
  BY CliTyped DEF Becomes, NoneTakes, Record

LEMMA StoppedMoves ==
    ASSUME TypeOK, NEW c \in Clients, Stopped(c)
    PROVE  NoneTakes
  <1>1. To(c, "look") \in Record /\ To(c, "look").pc = "look"
    BY ToTyped, Pcs DEF ClientPcs
  <1>2. [To(c, "look") EXCEPT !.target = None, !.same = FALSE].pc = "look"
    BY <1>1, FieldPcs
  <1> QED
    BY <1>2, Pcs, Moves DEF Stopped

\* A step that takes nothing and kills nobody.
LEMMA Steady ==
    ASSUME OwnerInv, NoneTakes, owner' = owner,
           \A p \in Pids : rec'[p] = "own" => rec[p] = "own",
           \A p \in Pids : /\ proc'[p].kind = proc[p].kind
                           /\ proc'[p].pc = proc[p].pc
    PROVE  OwnerInv'
  BY DEF OwnerInv, NoneTakes

LEMMA CleanedOwn ==
    ASSUME TypeOK
    PROVE  \A p \in Pids : Cleaned[p] = "own" => rec[p] = "own"
  BY DEF Cleaned

\* The death of a process leaves the locks of the others alone.
LEMMA DiesOwner ==
    ASSUME TypeOK, OwnerInv, NEW p \in Pids \cup {None},
           NEW cs \in [Clients -> Record], Dies(p, cs),
           \A d \in Clients : cs[d].pc = "unown" => cli[d].pc = "unown"
    PROVE  OwnerInv'
  <1>1. \A d \in Clients : cli'[d].pc = cs[d].pc
    BY DEF Dies, Forget, Record
  <1>2. \A q \in Pids : q # p => /\ proc'[q] = proc[q] /\ rec'[q] = rec[q]
    BY DEF Dies, Disown, TypeOK
  <1>3. p \in Pids => proc'[p].kind = "none" /\ rec'[p] # "own"
    BY DEF Dies, Disown, TypeOK, Nobody
  <1>4. \A x : x # p /\ owner = x => owner' = x
    BY DEF Dies, Free
  <1>5. \A d \in Clients : d # p
    BY DaemonAssumption
  <1> QED
    BY <1>1, <1>2, <1>3, <1>4, <1>5 DEF OwnerInv

LEMMA ServerOwner ==
    ASSUME TypeOK, OwnerInv, NEW p \in Pids, Server(p)
    PROVE  OwnerInv'
  <1> USE DEF locks, counts
  <1>1. CASE /\ owner' = owner /\ cli' = cli
             /\ \A q \in Pids : rec'[q] = "own" => rec[q] = "own"
             /\ \E pc \in {"check", "unprobe", "own"} :
                   \/ Goes(p, "mark", pc) \/ Goes(p, "check", pc)
                   \/ Goes(p, "unprobe", pc)
    BY <1>1 DEF OwnerInv, Goes, TypeOK
  <1>2. CASE MarkTakes(p) \/ MarkGivesUp(p) \/ Unprobe(p)
    BY <1>1, <1>2 DEF MarkTakes, MarkGivesUp, Unprobe
  <1>3. CASE CheckPasses(p)
    BY <1>1, <1>3, CleanedOwn DEF CheckPasses
  <1>4. CASE Own(p)
    BY <1>4, DaemonAssumption DEF Own, OwnerInv, Goes, TypeOK
  <1>5. CASE LoadAborted(p)
    BY <1>5 DEF LoadAborted, OwnerInv, Goes, TypeOK
  <1>6. CASE Publish(p)
    BY <1>6 DEF Publish, OwnerInv, Goes, TypeOK
  <1>7. CASE Unmark(p) \/ Shutdown(p) \/ Unrecord(p)
    BY <1>7 DEF Unmark, Shutdown, Unrecord, OwnerInv, Goes, TypeOK
  <1>8. CASE CheckFails(p) \/ OwnFails(p) \/ Close(p)
    BY <1>8, CliTyped, DiesOwner DEF CheckFails, OwnFails, Close
  <1> QED
    BY <1>2, <1>3, <1>4, <1>5, <1>6, <1>7, <1>8 DEF Server

LEMMA ClientOwner ==
    ASSUME TypeOK, OwnerInv, NEW c \in Clients, Client(c) \/ Call(c)
    PROVE  OwnerInv'
  <1> USE DEF locks, counts
  <1>1. CASE Call(c)
    <2>1. PICK tok \in Tokens :
               \/ Becomes(c, [cli[c] EXCEPT !.ok = TRUE])
               \/ Becomes(c, [To(c, "launch") EXCEPT !.use = tok, !.ok = FALSE])
      BY <1>1, CliTyped DEF Call, TypeOK, Record
    <2>2. /\ [cli[c] EXCEPT !.ok = TRUE].pc # "unown"
          /\ [To(c, "launch") EXCEPT !.use = tok, !.ok = FALSE].pc # "unown"
      BY <1>1, CliTyped, ToTyped, Pcs, FieldPcs DEF Call, At, ClientPcs
    <2>3. NoneTakes
      BY <2>1, <2>2, Moves
    <2> QED
      BY <1>1, <2>3, Steady, CleanedOwn DEF Call
  <1>2. CASE StartFind(c)
    <2>1. NoneTakes
      BY <1>2, Pcs, Moves DEF StartFind, ClientPcs
    <2> QED
      BY <1>2, <2>1, Steady, CleanedOwn DEF StartFind
  <1>3. CASE TakeOwner(c)
    <2>1. CASE Becomes(c, To(c, "unown")) /\ owner = None /\ owner' = c
      <3>1. \A d \in Clients : d # c => cli'[d] = cli[d]
        BY <2>1, CliTyped DEF Becomes
      <3> QED
        BY <1>3, <2>1, <3>1, DaemonAssumption DEF TakeOwner, OwnerInv
    <2>2. CASE Becomes(c, Failed(c)) /\ owner' = owner
      <3>1. NoneTakes
        BY <2>2, Pcs, Moves
      <3> QED
        BY <1>3, <2>2, <3>1, Steady DEF TakeOwner
    <2> QED
      BY <1>3, <2>1, <2>2 DEF TakeOwner
  <1>4. CASE FreeOwner(c)
    <2>1. /\ cli'[c].pc = "look"
          /\ \A d \in Clients : d # c => cli'[d] = cli[d]
      BY <1>4, CliTyped, Pcs DEF FreeOwner, Becomes, ClientPcs
    <2>2. owner = c
      BY <1>4 DEF FreeOwner, At, OwnerInv
    <2> QED
      BY <1>4, <2>1, <2>2, DaemonAssumption DEF FreeOwner, OwnerInv
  <1>5. CASE Launch(c)
    <2>1. PICK tok \in Tokens :
               \/ Becomes(c, To(c, "wait"))
               \/ Becomes(c, [To(c, "look") EXCEPT !.use = tok])
      BY <1>5, ZeroToken DEF Launch
    <2>2. /\ To(c, "wait").pc # "unown"
          /\ [To(c, "look") EXCEPT !.use = tok].pc # "unown"
      BY ToTyped, Pcs, FieldPcs DEF ClientPcs
    <2>3. NoneTakes
      BY <2>1, <2>2, Moves
    <2> QED
      BY <1>5, <2>3, Steady DEF Launch
  <1>6. CASE Look(c)
    <2>1. NoneTakes
      BY <1>6, Pcs, Moves DEF Look, Looked, ClientPcs
    <2> QED
      BY <1>6, <2>1, Steady, CleanedOwn DEF Look
  <1>7. CASE LookEnds(c)
    <2>1. NoneTakes
      BY <1>7, Pcs, Moves DEF LookEnds, Looked, ClientPcs
    <2> QED
      BY <1>7, <2>1, Steady, CleanedOwn DEF LookEnds
  <1>8. CASE \E p \in Pids : Spawn(c, p)
    <2>1. PICK p \in Pids : Spawn(c, p)
      BY <1>8
    <2>2. [To(c, "ready") EXCEPT !.child = p].pc # "unown"
      BY ToTyped, Pcs, FieldPcs DEF ClientPcs
    <2>3. NoneTakes
      BY <2>1, <2>2, Moves DEF Spawn
    <2> QED
      BY <2>1, <2>3
         DEF Spawn, Vacant, Alive, Boot, OwnerInv, NoneTakes, TypeOK
  <1>9. CASE SpawnFails(c)
    <2>1. NoneTakes
      BY <1>9, Pcs, Moves DEF SpawnFails, ClientPcs
    <2> QED
      BY <1>9, <2>1, Steady, CleanedOwn DEF SpawnFails
  <1>10. CASE Ready(c)
    <2>1. NoneTakes
      BY <1>10, Pcs, Moves DEF Ready, ClientPcs
    <2> QED
      BY <1>10, <2>1, Steady, CleanedOwn DEF Ready
  <1>11. CASE Wait(c)
    <2>1. NoneTakes
      BY <1>11, Pcs, Moves DEF Wait, ClientPcs
    <2> QED
      BY <1>11, <2>1, Steady, CleanedOwn DEF Wait
  <1>12. CASE WaitEnds(c)
    <2>1. NoneTakes
      BY <1>12, Pcs, Moves DEF WaitEnds, ClientPcs
    <2> QED
      BY <1>12, <2>1, Steady, CleanedOwn DEF WaitEnds
  <1>13. CASE List(c)
    <2>1. \A p \in Pids, pc \in ClientPcs : pc # "unown" =>
             [cli[c] EXCEPT !.target = p, !.same = TRUE, !.pc = pc].pc # "unown"
      BY CliTyped, FieldPcs
    <2>2. ASSUME NEW p \in Live, List(c),
                 Becomes(c, [cli[c] EXCEPT
                    !.target = p, !.same = TRUE,
                    !.pc = IF p \in Found(cli[c].use) THEN "signal"
                                                      ELSE "confirm"])
          PROVE  NoneTakes
      <3> DEFINE pc == IF p \in Found(cli[c].use) THEN "signal" ELSE "confirm"
      <3>1. pc \in ClientPcs /\ pc # "unown" /\ p \in Pids
        BY DEF ClientPcs, Live
      <3>2. Becomes(c, [cli[c] EXCEPT !.target = p, !.same = TRUE, !.pc = pc])
        BY <2>2
      <3> HIDE DEF pc
      <3> QED
        BY <2>1, <3>1, <3>2, Moves
    <2>3. ASSUME Becomes(c, To(c, "look")) \/ Becomes(c, Ended(c, TRUE))
          PROVE  NoneTakes
      <3>1. To(c, "look").pc # "unown" /\ Ended(c, TRUE).pc # "unown"
        BY Pcs DEF ClientPcs
      <3> QED
        BY <2>3, <3>1, Moves
    <2>4. NoneTakes
      BY <1>13, <2>2, <2>3 DEF List
    <2> QED
      BY <1>13, <2>4, Steady, CleanedOwn DEF List
  <1>14. CASE Confirm(c)
    <2>1. NoneTakes
      BY <1>14, Pcs, Moves DEF Confirm, ClientPcs
    <2> QED
      BY <1>14, <2>1, Steady, CleanedOwn DEF Confirm
  <1>15. CASE Signal(c)
    <2>1. CASE Becomes(c, Failed(c)) /\ UNCHANGED <<proc, rec, start, owner>>
      <3>1. NoneTakes
        BY <2>1, Pcs, Moves
      <3> QED
        BY <2>1, <3>1, Steady
    <2>2. CASE /\ proc' = [proc EXCEPT ![cli[c].target].term = TRUE]
               /\ Becomes(c, To(c, "await"))
               /\ UNCHANGED <<rec, start, owner>>
      <3>1. NoneTakes
        BY <2>2, Pcs, Moves DEF ClientPcs
      <3>2. \A p \in Pids : /\ proc'[p].kind = proc[p].kind
                            /\ proc'[p].pc = proc[p].pc
        BY <2>2 DEF TypeOK
      <3> QED
        BY <2>2, <3>1, <3>2, Steady
    <2>3. CASE Dies(cli[c].target, [cli EXCEPT ![c] = To(c, "await")])
      <3>1. cli[c].target \in Pids \cup {None}
        BY CliTyped DEF Record
      <3>2. [cli EXCEPT ![c] = To(c, "await")] \in [Clients -> Record]
        BY CliTyped, ToTyped DEF ClientPcs
      <3>3. \A d \in Clients :
               [cli EXCEPT ![c] = To(c, "await")][d].pc = "unown"
                 => cli[d].pc = "unown"
        BY CliTyped, Pcs DEF ClientPcs
      <3> QED
        BY <2>3, <3>1, <3>2, <3>3, DiesOwner
    <2> QED
      BY <1>15, <2>1, <2>2, <2>3 DEF Signal
  <1>16. CASE Await(c)
    <2>1. CASE Stopped(c)
      BY <1>16, <2>1, StoppedMoves, Steady DEF Await, Stopped, TypeOK
    <2>2. CASE Becomes(c, To(c, "present")) /\ UNCHANGED rec
      <3>1. NoneTakes
        BY <2>2, Pcs, Moves DEF ClientPcs
      <3> QED
        BY <1>16, <2>2, <3>1, Steady DEF Await
    <2> QED
      BY <1>16, <2>1, <2>2 DEF Await
  <1>17. CASE Present(c)
    <2>1. CASE Stopped(c)
      BY <1>17, <2>1, StoppedMoves, Steady DEF Present, Stopped, TypeOK
    <2>2. CASE Becomes(c, To(c, "kill")) /\ UNCHANGED rec
      <3>1. NoneTakes
        BY <2>2, Pcs, Moves DEF ClientPcs
      <3> QED
        BY <1>17, <2>2, <3>1, Steady DEF Present
    <2> QED
      BY <1>17, <2>1, <2>2 DEF Present
  <1>18. CASE ForceKill(c)
    <2>1. CASE Becomes(c, Failed(c)) /\ UNCHANGED <<proc, rec, start, owner>>
      <3>1. NoneTakes
        BY <2>1, Pcs, Moves
      <3> QED
        BY <2>1, <3>1, Steady
    <2>3. CASE Dies(cli[c].target, [cli EXCEPT ![c] = To(c, "awaitkilled")])
      <3>1. cli[c].target \in Pids \cup {None}
        BY CliTyped DEF Record
      <3>2. [cli EXCEPT ![c] = To(c, "awaitkilled")] \in [Clients -> Record]
        BY CliTyped, ToTyped DEF ClientPcs
      <3>3. \A d \in Clients :
               [cli EXCEPT ![c] = To(c, "awaitkilled")][d].pc = "unown"
                 => cli[d].pc = "unown"
        BY CliTyped, Pcs DEF ClientPcs
      <3> QED
        BY <2>3, <3>1, <3>2, <3>3, DiesOwner
    <2> QED
      BY <1>18, <2>1, <2>3 DEF ForceKill
  <1>19. CASE AwaitKilled(c)
    <2>1. CASE Stopped(c)
      BY <1>19, <2>1, StoppedMoves, Steady DEF AwaitKilled, Stopped, TypeOK
    <2> QED
      BY <1>19, <2>1 DEF AwaitKilled
  <1> QED
    BY <1>1, <1>2, <1>3, <1>4, <1>5, <1>6, <1>7, <1>8, <1>9, <1>10, <1>11, <1>12, <1>13, <1>14, <1>15, <1>16, <1>17, <1>18, <1>19 DEF Client

LEMMA CommandOwner ==
    ASSUME TypeOK, OwnerInv, NEW c \in Clients, NEW op \in Ops,
           Command(c, op)
    PROVE  OwnerInv'
  <1> DEFINE pc == IF op = "start" THEN "find" ELSE "list"
  <1>1. pc \in ClientPcs /\ pc # "unown"
    BY DEF ClientPcs
  <1>2. stored \in Tokens
    BY DEF TypeOK
  <1>3. Becomes(c, [cli[c] EXCEPT !.op = op, !.use = stored, !.ok = FALSE, !.pc = pc])
    BY DEF Command
  <1> HIDE DEF pc
  <1>4. [cli[c] EXCEPT !.op = op, !.use = stored, !.ok = FALSE, !.pc = pc].pc = pc
    BY <1>1, <1>2, CliTyped, FieldPcs
  <1>5. NoneTakes
    BY <1>1, <1>3, <1>4, Moves
  <1> QED
    BY <1>5, Steady DEF Command

LEMMA WorldOwner ==
    ASSUME TypeOK, OwnerInv
    PROVE  /\ \A p \in Pids : Serve(p) \/ Crash(p) \/ Quit(p) \/ Reused(p) => OwnerInv'
           /\ \A c \in Clients : Interrupt(c) => OwnerInv'
  <1> USE DEF locks, counts
  <1>1. ASSUME NEW p \in Pids, Serve(p) PROVE OwnerInv'
    BY <1>1 DEF Serve, Vacant, Alive, Boot, OwnerInv, TypeOK
  <1>2. ASSUME NEW p \in Pids, Crash(p) PROVE OwnerInv'
    BY <1>2, CliTyped, DiesOwner DEF Crash
  <1>6. ASSUME NEW p \in Pids, Quit(p) PROVE OwnerInv'
    BY <1>6 DEF Quit, OwnerInv, TypeOK
  <1>3. ASSUME NEW p \in Pids, Reused(p) PROVE OwnerInv'
    BY <1>3 DEF Reused, Alive, Stranger, OwnerInv, TypeOK
  <1>4. ASSUME NEW c \in Clients, Interrupt(c) PROVE OwnerInv'
    <2>1. /\ cli'[c].pc = "idle"
          /\ \A d \in Clients : d # c => cli'[d] = cli[d]
      BY <1>4, CliTyped, Pcs DEF Interrupt, Becomes
    <2>2. \A x : x # c /\ owner = x => owner' = x
      BY <1>4 DEF Interrupt, Free
    <2> QED
      BY <1>4, <2>1, <2>2, DaemonAssumption DEF Interrupt, OwnerInv
  <1> QED
    BY <1>1, <1>2, <1>3, <1>6, <1>4

\* Which steps there are.
LEMMA Steps ==
    ASSUME [Next]_vars
    PROVE  \/ UNCHANGED vars
           \/ \E p \in Pids :
                 Server(p) \/ Serve(p) \/ Crash(p) \/ Quit(p) \/ Reused(p)
           \/ \E c \in Clients : Client(c) \/ Call(c) \/ Interrupt(c)
           \/ \E c \in Clients, op \in Ops : Command(c, op)
  BY DEF Next, Ops

LEMMA OwnerInvHolds == Spec => []OwnerInv
  <1>1. Init => OwnerInv
    <2> SUFFICES ASSUME Init PROVE OwnerInv
      OBVIOUS
    <2> QED
      BY DEF Init, OwnerInv, Nobody
  <1>2. TypeOK /\ OwnerInv /\ [Next]_vars => OwnerInv'
    <2> SUFFICES ASSUME TypeOK, OwnerInv, [Next]_vars PROVE OwnerInv'
      OBVIOUS
    <2>1. CASE UNCHANGED vars
      BY <2>1 DEF vars, locks, counts, OwnerInv
    <2> QED
      BY <2>1, Steps, ServerOwner, ClientOwner, CommandOwner, WorldOwner
  <1> QED
    BY <1>1, <1>2, TypeCorrect, PTL DEF Spec

\* A server that clients can find owns the archive, at every moment: however
\* servers, commands and MCP servers meet at the locks, and whoever is killed
\* or interrupted, runServe publishes no second daemon.
THEOREM OneDaemonAlways == Spec => []OneDaemon
  <1>1. OwnerInv => OneDaemon
    BY DEF OwnerInv, OneDaemon
  <1> QED
    BY <1>1, OwnerInvHolds, PTL

-----------------------------------------------------------------------------
(* Stopping hits the daemon only. *)

\* What a stop has in mind: the process it has seen is the server of the record
\* for as long as its creation time is the same, and by the time of a signal
\* it is that server or gone.
Aims(r) ==
    /\ r.same => r.target \in Pids /\ proc[r.target].kind = "server"
    /\ r.pc \in {"signal", "kill"} =>
          r.target \in Pids /\ (r.same \/ proc[r.target].kind = "none")

AimInv == \A c \in Clients : Aims(cli[c])

\* A client goes on, and no process comes or goes.
LEMMA AimsKept ==
    ASSUME TypeOK, AimInv, NEW c \in Clients, NEW new, Becomes(c, new),
           Aims(new),
           \A p \in Pids : proc'[p].kind = proc[p].kind
    PROVE  AimInv'
  <1>1. \A d \in Clients : Aims(cli'[d])
    BY CliTyped DEF Becomes, AimInv
  <1> QED
    BY <1>1 DEF AimInv, Aims

\* The death of a process: whoever aims at it forgets its creation time.
LEMMA AimsDies ==
    ASSUME TypeOK, NEW p \in Pids \cup {None},
           NEW cs \in [Clients -> Record], Dies(p, cs),
           \A d \in Clients : Aims(cs[d])
    PROVE  AimInv'
  <1>1. \A d \in Clients : /\ cli'[d].pc = cs[d].pc
                           /\ cli'[d].target = cs[d].target
                           /\ cli'[d].same <=> cs[d].same /\ cs[d].target # p
    BY DEF Dies, Forget, Record
  <1>2. \A q \in Pids : proc'[q] = IF q = p THEN Nobody ELSE proc[q]
    BY DEF Dies, TypeOK
  <1>3. Nobody.kind = "none"
    BY DEF Nobody
  <1> SUFFICES ASSUME NEW d \in Clients PROVE Aims(cli[d])'
    BY DEF AimInv
  <1>4. cs[d].target \in Pids /\ cs[d].target # p =>
           proc'[cs[d].target] = proc[cs[d].target]
    BY <1>2
  <1>5. cs[d].target \in Pids /\ cs[d].target = p =>
           proc'[cs[d].target].kind = "none"
    BY <1>2, <1>3
  <1> QED
    BY <1>1, <1>4, <1>5 DEF Aims

\* A pid that is given away is not aimed at.
LEMMA AimsNew ==
    ASSUME TypeOK, AimInv, NEW p \in Pids, NEW pcs, "recycled" \notin Env,
           {"signal", "kill"} \subseteq pcs, ~Alive(p), Reusable(p, pcs),
           \A q \in Pids : q # p => proc'[q] = proc[q],
           \A d \in Clients : /\ cli'[d].pc \in {"signal", "kill"} =>
                                    cli'[d].pc = cli[d].pc
                              /\ cli'[d].target = cli[d].target
                              /\ cli'[d].same = cli[d].same
    PROVE  AimInv'
  BY DEF AimInv, Aims, Reusable, Alive

LEMMA AimsOn ==
    ASSUME TypeOK, AimInv, NEW c \in Clients
    PROVE  /\ \A pc \in ClientPcs \ {"signal", "kill"} : Aims(To(c, pc))
           /\ cli[c].same => \A pc \in ClientPcs : Aims(To(c, pc))
           /\ \A found \in BOOLEAN : Aims(Ended(c, found))
           /\ Aims(Failed(c))
  <1>1. \A pc \in ClientPcs : /\ To(c, pc).pc = pc
                             /\ To(c, pc).same = cli[c].same
                             /\ To(c, pc).target = cli[c].target
    BY CliTyped DEF To, Record
  <1>2. \A tok, b : Over(c, tok, b).pc = "idle" /\ ~Over(c, tok, b).same
    BY CliTyped DEF Over, Record
  <1> QED
    BY <1>1, <1>2 DEF Aims, AimInv, Ended, Failed

LEMMA AimsFields ==
    ASSUME NEW r \in Record, Aims(r)
    PROVE  /\ \A tok \in Tokens : /\ Aims([r EXCEPT !.use = tok])
                                  /\ Aims([r EXCEPT !.use = tok, !.ok = FALSE])
           /\ Aims([r EXCEPT !.ok = TRUE])
           /\ r.pc \notin {"signal", "kill"} =>
                 Aims([r EXCEPT !.target = None, !.same = FALSE])
           /\ \A op \in Ops, tok \in Tokens, pc \in ClientPcs :
                 pc \notin {"signal", "kill"} =>
                    Aims([r EXCEPT !.op = op, !.use = tok, !.ok = FALSE, !.pc = pc])
  BY DEF Aims, Record

LEMMA StoppedAims ==
    ASSUME TypeOK, AimInv, NEW c \in Clients, Stopped(c), UNCHANGED proc
    PROVE  AimInv'
  <1>1. To(c, "look") \in Record /\ To(c, "look").pc = "look"
    BY ToTyped, Pcs DEF ClientPcs
  <1>2. Aims(To(c, "look"))
    BY AimsOn DEF ClientPcs
  <1>3. Aims([To(c, "look") EXCEPT !.target = None, !.same = FALSE])
    BY <1>1, <1>2, AimsFields
  <1> QED
    BY <1>3, AimsOn, AimsKept DEF Stopped

LEMMA ServerAims ==
    ASSUME TypeOK, AimInv, NEW p \in Pids, Server(p)
    PROVE  AimInv'
  <1> USE DEF locks, counts
  <1>1. ASSUME cli' = cli, NEW from, NEW to, Goes(p, from, to)
        PROVE  AimInv'
    <2>1. \A q \in Pids : proc'[q].kind = proc[q].kind
      BY <1>1 DEF Goes, TypeOK
    <2> QED
      BY <1>1, <2>1 DEF AimInv, Aims
  <1>2. CASE \/ MarkTakes(p) \/ MarkGivesUp(p) \/ CheckPasses(p) \/ Unprobe(p)
             \/ Own(p) \/ LoadAborted(p) \/ Publish(p) \/ Unmark(p)
             \/ Shutdown(p) \/ Unrecord(p)
    BY <1>1, <1>2 DEF MarkTakes, MarkGivesUp, CheckPasses, Unprobe, Own,
                      LoadAborted, Publish, Unmark, Shutdown, Unrecord
  <1>3. CASE CheckFails(p) \/ OwnFails(p) \/ Close(p)
    BY <1>3, CliTyped, AimsDies DEF CheckFails, OwnFails, Close, AimInv
  <1> QED
    BY <1>2, <1>3 DEF Server

LEMMA ClientAims ==
    ASSUME TypeOK, OwnerInv, AimInv, "recycled" \notin Env,
           NEW c \in Clients, Client(c) \/ Call(c)
    PROVE  AimInv'
  <1> USE DEF locks, counts
  <1>1. CASE Call(c)
    <2>1. PICK tok \in Tokens :
               \/ Becomes(c, [cli[c] EXCEPT !.ok = TRUE])
               \/ Becomes(c, [To(c, "launch") EXCEPT !.use = tok, !.ok = FALSE])
      BY <1>1, CliTyped DEF Call, TypeOK, Record
    <2>2. To(c, "launch") \in Record /\ Aims(To(c, "launch"))
      BY ToTyped, AimsOn DEF ClientPcs
    <2>3. /\ Aims([cli[c] EXCEPT !.ok = TRUE])
          /\ Aims([To(c, "launch") EXCEPT !.use = tok, !.ok = FALSE])
      BY <2>2, CliTyped, AimsFields DEF AimInv
    <2> QED
      BY <1>1, <2>1, <2>3, AimsKept DEF Call
  <1>2. CASE StartFind(c)
    BY <1>2, AimsOn, AimsKept DEF StartFind, ClientPcs
  <1>3. CASE TakeOwner(c)
    BY <1>3, AimsOn, AimsKept DEF TakeOwner, ClientPcs
  <1>4. CASE FreeOwner(c)
    BY <1>4, AimsOn, AimsKept DEF FreeOwner, ClientPcs
  <1>5. CASE Launch(c)
    <2>1. PICK tok \in Tokens :
               \/ Becomes(c, To(c, "wait"))
               \/ Becomes(c, [To(c, "look") EXCEPT !.use = tok])
      BY <1>5, ZeroToken DEF Launch
    <2>2. /\ Aims(To(c, "wait"))
          /\ To(c, "look") \in Record /\ Aims(To(c, "look"))
      BY ToTyped, AimsOn DEF ClientPcs
    <2>3. Aims([To(c, "look") EXCEPT !.use = tok])
      BY <2>2, AimsFields
    <2> QED
      BY <1>5, <2>1, <2>2, <2>3, AimsKept DEF Launch
  <1>6. CASE Look(c)
    BY <1>6, AimsOn, AimsKept DEF Look, Looked, ClientPcs
  <1>7. CASE LookEnds(c)
    BY <1>7, AimsOn, AimsKept DEF LookEnds, Looked, ClientPcs
  <1>8. CASE \E p \in Pids : Spawn(c, p)
    <2>1. PICK p \in Pids : Spawn(c, p)
      BY <1>8
    <2> DEFINE new == [To(c, "ready") EXCEPT !.child = p]
    <2>2. new.pc = "ready" /\ new.target = cli[c].target /\ new.same = cli[c].same
      BY CliTyped DEF To, Record
    <2>3. \A d \in Clients : cli'[d] = IF d = c THEN new ELSE cli[d]
      BY <2>1, CliTyped DEF Spawn, Becomes
    <2> HIDE DEF new
    <2>4. \A d \in Clients : /\ cli'[d].pc \in {"signal", "kill"} =>
                                 cli'[d].pc = cli[d].pc
                           /\ cli'[d].target = cli[d].target
                           /\ cli'[d].same = cli[d].same
      BY <2>2, <2>3
    <2>5. \A q \in Pids : q # p => proc'[q] = proc[q]
      BY <2>1 DEF Spawn, TypeOK
    <2>6. ~Alive(p) /\ Reusable(p, ForServer)
      BY <2>1 DEF Spawn, Vacant
    <2> QED
      BY <2>4, <2>5, <2>6, AimsNew DEF ForServer
  <1>9. CASE SpawnFails(c)
    BY <1>9, AimsOn, AimsKept DEF SpawnFails, ClientPcs
  <1>10. CASE Ready(c)
    BY <1>10, AimsOn, AimsKept DEF Ready, ClientPcs
  <1>11. CASE Wait(c)
    BY <1>11, AimsOn, AimsKept DEF Wait, ClientPcs
  <1>12. CASE WaitEnds(c)
    BY <1>12, AimsOn, AimsKept DEF WaitEnds, ClientPcs
  <1>13. CASE List(c)
    <2>1. ASSUME NEW p \in Live, List(c),
                 Becomes(c, [cli[c] EXCEPT
                    !.target = p, !.same = TRUE,
                    !.pc = IF p \in Found(cli[c].use) THEN "signal"
                                                      ELSE "confirm"])
          PROVE  AimInv'
      <3> DEFINE pc == IF p \in Found(cli[c].use) THEN "signal" ELSE "confirm"
      <3>1. pc \in ClientPcs
        BY DEF ClientPcs
      <3>2. Becomes(c, [cli[c] EXCEPT !.target = p, !.same = TRUE, !.pc = pc])
        BY <2>1
      <3> HIDE DEF pc
      <3>3. p \in Pids /\ proc[p].kind = "server"
        BY DEF Live, Cleaned, OwnerInv
      <3>4. Aims([cli[c] EXCEPT !.target = p, !.same = TRUE, !.pc = pc])
        BY <3>1, <3>3, CliTyped DEF Aims, Record
      <3> QED
        BY <1>13, <3>2, <3>4, AimsKept DEF List
    <2>2. ASSUME Becomes(c, To(c, "look")) \/ Becomes(c, Ended(c, TRUE))
          PROVE  AimInv'
      BY <1>13, <2>2, AimsOn, AimsKept DEF List, ClientPcs
    <2> QED
      BY <1>13, <2>1, <2>2 DEF List
  <1>14. CASE Confirm(c)
    BY <1>14, AimsOn, AimsKept DEF Confirm, ClientPcs
  <1>15. CASE Signal(c)
    <2>1. CASE Becomes(c, Failed(c)) /\ UNCHANGED <<proc, rec, start, owner>>
      BY <2>1, AimsOn, AimsKept
    <2>2. CASE /\ proc' = [proc EXCEPT ![cli[c].target].term = TRUE]
               /\ Becomes(c, To(c, "await"))
               /\ UNCHANGED <<rec, start, owner>>
      <3>1. Aims(To(c, "await"))
        BY AimsOn DEF ClientPcs
      <3>2. \A p \in Pids : proc'[p].kind = proc[p].kind
        BY <2>2 DEF TypeOK
      <3> QED
        BY <2>2, <3>1, <3>2, AimsKept
    <2>3. CASE Dies(cli[c].target, [cli EXCEPT ![c] = To(c, "await")])
      <3>1. cli[c].target \in Pids \cup {None}
        BY CliTyped DEF Record
      <3>2. [cli EXCEPT ![c] = To(c, "await")] \in [Clients -> Record]
        BY CliTyped, ToTyped DEF ClientPcs
      <3>3. \A d \in Clients : Aims([cli EXCEPT ![c] = To(c, "await")][d])
        BY CliTyped, AimsOn DEF ClientPcs, AimInv
      <3> QED
        BY <2>3, <3>1, <3>2, <3>3, AimsDies
    <2> QED
      BY <1>15, <2>1, <2>2, <2>3 DEF Signal
  <1>16. CASE Await(c)
    <2>1. CASE Stopped(c)
      BY <1>16, <2>1, StoppedAims DEF Await
    <2>2. CASE Becomes(c, To(c, "present"))
      BY <1>16, <2>2, AimsOn, AimsKept DEF Await, ClientPcs
    <2> QED
      BY <1>16, <2>1, <2>2 DEF Await
  <1>17. CASE Present(c)
    <2>1. CASE Stopped(c)
      BY <1>17, <2>1, StoppedAims DEF Present
    <2>2. CASE Becomes(c, To(c, "kill")) /\ cli[c].same
      BY <1>17, <2>2, AimsOn, AimsKept DEF Present, ClientPcs
    <2> QED
      BY <1>17, <2>1, <2>2 DEF Present
  <1>18. CASE ForceKill(c)
    <2>1. CASE Becomes(c, Failed(c)) /\ UNCHANGED <<proc, rec, start, owner>>
      BY <2>1, AimsOn, AimsKept
    <2>3. CASE Dies(cli[c].target, [cli EXCEPT ![c] = To(c, "awaitkilled")])
      <3>1. cli[c].target \in Pids \cup {None}
        BY CliTyped DEF Record
      <3>2. [cli EXCEPT ![c] = To(c, "awaitkilled")] \in [Clients -> Record]
        BY CliTyped, ToTyped DEF ClientPcs
      <3>3. \A d \in Clients : Aims([cli EXCEPT ![c] = To(c, "awaitkilled")][d])
        BY CliTyped, AimsOn DEF ClientPcs, AimInv
      <3> QED
        BY <2>3, <3>1, <3>2, <3>3, AimsDies
    <2> QED
      BY <1>18, <2>1, <2>3 DEF ForceKill
  <1>19. CASE AwaitKilled(c)
    <2>1. CASE Stopped(c)
      BY <1>19, <2>1, StoppedAims DEF AwaitKilled
    <2> QED
      BY <1>19, <2>1 DEF AwaitKilled
  <1> QED
    BY <1>1, <1>2, <1>3, <1>4, <1>5, <1>6, <1>7, <1>8, <1>9, <1>10, <1>11, <1>12, <1>13, <1>14, <1>15, <1>16, <1>17, <1>18, <1>19 DEF Client

LEMMA OtherAims ==
    ASSUME TypeOK, AimInv, "recycled" \notin Env
    PROVE  /\ \A p \in Pids : Serve(p) \/ Crash(p) \/ Quit(p) \/ Reused(p) => AimInv'
           /\ \A c \in Clients : Interrupt(c) => AimInv'
           /\ \A c \in Clients, op \in Ops : Command(c, op) => AimInv'
  <1> USE DEF locks, counts
  <1>1. ASSUME NEW p \in Pids, Serve(p) PROVE AimInv'
    <2>1. \A q \in Pids : q # p => proc'[q] = proc[q]
      BY <1>1 DEF Serve, TypeOK
    <2>2. ~Alive(p) /\ Reusable(p, ForServer) /\ cli' = cli
      BY <1>1 DEF Serve, Vacant
    <2> QED
      BY <2>1, <2>2, AimsNew DEF ForServer
  <1>2. ASSUME NEW p \in Pids, Crash(p) PROVE AimInv'
    BY <1>2, CliTyped, AimsDies DEF Crash, AimInv
  <1>6. ASSUME NEW p \in Pids, Quit(p) PROVE AimInv'
    <2>1. \A q \in Pids : proc'[q].kind = proc[q].kind
      BY <1>6 DEF Quit, TypeOK
    <2> QED
      BY <1>6, <2>1 DEF Quit, AimInv, Aims
  <1>3. ASSUME NEW p \in Pids, Reused(p) PROVE AimInv'
    <2>1. \A q \in Pids : q # p => proc'[q] = proc[q]
      BY <1>3 DEF Reused, TypeOK
    <2> QED
      BY <1>3, <2>1, AimsNew DEF Reused
  <1>4. ASSUME NEW c \in Clients, Interrupt(c) PROVE AimInv'
    BY <1>4, AimsOn, AimsKept DEF Interrupt
  <1>5. ASSUME NEW c \in Clients, NEW op \in Ops, Command(c, op)
        PROVE  AimInv'
    <2> DEFINE pc == IF op = "start" THEN "find" ELSE "list"
    <2>1. pc \in ClientPcs /\ pc \notin {"signal", "kill"}
      BY DEF ClientPcs
    <2>2. stored \in Tokens
      BY DEF TypeOK
    <2>3. Becomes(c, [cli[c] EXCEPT !.op = op, !.use = stored, !.ok = FALSE, !.pc = pc])
      BY <1>5 DEF Command
    <2> HIDE DEF pc
    <2>4. Aims([cli[c] EXCEPT !.op = op, !.use = stored, !.ok = FALSE, !.pc = pc])
      BY <2>1, <2>2, CliTyped, AimsFields DEF AimInv
    <2> QED
      BY <1>5, <2>3, <2>4, AimsKept DEF Command
  <1> QED
    BY <1>1, <1>2, <1>3, <1>6, <1>4, <1>5

LEMMA AimInvHolds == ASSUME "recycled" \notin Env PROVE Spec => []AimInv
  <1>1. Init => AimInv
    <2> SUFFICES ASSUME Init PROVE AimInv
      OBVIOUS
    <2> QED
      BY DEF Init, AimInv, Aims
  <1>2. TypeOK /\ OwnerInv /\ AimInv /\ [Next]_vars => AimInv'
    <2> SUFFICES ASSUME TypeOK, OwnerInv, AimInv, [Next]_vars PROVE AimInv'
      OBVIOUS
    <2>1. CASE UNCHANGED vars
      BY <2>1 DEF vars, locks, counts, AimInv, Aims
    <2> QED
      BY <2>1, Steps, ServerAims, ClientAims, OtherAims
  <1> QED
    BY <1>1, <1>2, TypeCorrect, OwnerInvHolds, PTL DEF Spec

\* What NoBystander says of strange processes.
Spared(p) == proc[p].kind = "stranger" => proc'[p] = proc[p]

\* A signal goes to the target, while it is the process of the record.
LEMMA Aimed ==
    ASSUME TypeOK, AimInv, NEW c \in Clients, Signal(c) \/ ForceKill(c),
           NEW p \in Pids, proc'[p] # proc[p]
    PROVE  cli[c].target = p /\ cli[c].same
  <1>1. proc' # proc
    OBVIOUS
  <1>2. Alive(cli[c].target) /\ (At(c, "signal") \/ At(c, "kill"))
    BY <1>1 DEF Signal, ForceKill
  <1>3. cli[c].same
    BY <1>2 DEF At, Alive, AimInv, Aims
  <1>4. \A q \in Pids : q # cli[c].target => proc'[q] = proc[q]
    BY <1>1 DEF Signal, ForceKill, Dies, TypeOK
  <1> QED
    BY <1>3, <1>4

\* A death that is no stranger's.
LEMMA DiesSpared ==
    ASSUME TypeOK, NEW q \in Pids \cup {None}, NEW cs, Dies(q, cs),
           q \in Pids => proc[q].kind # "stranger"
    PROVE  \A p \in Pids : Spared(p)
  BY DEF TypeOK, Dies, Nobody, Spared

LEMMA ServerSpares ==
    ASSUME TypeOK, NEW q \in Pids, Server(q)
    PROVE  \A p \in Pids : Spared(p)
  <1>1. ASSUME NEW from, NEW to, Goes(q, from, to)
        PROVE  \A p \in Pids : Spared(p)
    BY <1>1 DEF Goes, TypeOK, Spared
  <1>2. CASE \/ MarkTakes(q) \/ MarkGivesUp(q) \/ CheckPasses(q) \/ Unprobe(q)
             \/ Own(q) \/ LoadAborted(q) \/ Publish(q) \/ Unmark(q)
             \/ Shutdown(q) \/ Unrecord(q)
    BY <1>1, <1>2 DEF MarkTakes, MarkGivesUp, CheckPasses, Unprobe, Own,
                      LoadAborted, Publish, Unmark, Shutdown, Unrecord
  <1>3. CASE CheckFails(q) \/ OwnFails(q) \/ Close(q)
    BY <1>3, DiesSpared DEF CheckFails, OwnFails, Close
  <1> QED
    BY <1>2, <1>3 DEF Server

LEMMA ClientSpares ==
    ASSUME TypeOK, AimInv, NEW c \in Clients, Client(c) \/ Call(c)
    PROVE  \A p \in Pids : Spared(p)
  <1>1. CASE proc' = proc
    BY <1>1 DEF Spared
  <1>2. CASE \E q \in Pids : Spawn(c, q)
    BY <1>2 DEF Spawn, Vacant, Alive, Boot, Spared, TypeOK
  <1>3. ASSUME At(c, "signal") \/ At(c, "kill"), Alive(cli[c].target)
        PROVE  /\ cli[c].target \in Pids /\ cli[c].same
               /\ proc[cli[c].target].kind = "server"
    BY <1>3 DEF At, Alive, AimInv, Aims
  <1>4. CASE Signal(c)
    <2>1. CASE ~Alive(cli[c].target)
      BY <1>1, <1>4, <2>1 DEF Signal
    <2>2. CASE /\ Alive(cli[c].target)
               /\ proc' = [proc EXCEPT ![cli[c].target].term = TRUE]
      BY <1>3, <1>4, <2>2 DEF Signal, Spared, TypeOK
    <2>3. CASE /\ Alive(cli[c].target)
               /\ Dies(cli[c].target, [cli EXCEPT ![c] = To(c, "await")])
      BY <1>3, <1>4, <2>3, DiesSpared DEF Signal
    <2> QED
      BY <1>4, <2>1, <2>2, <2>3 DEF Signal
  <1>5. CASE ForceKill(c)
    <2>1. CASE ~Alive(cli[c].target)
      BY <1>1, <1>5, <2>1 DEF ForceKill
    <2>2. CASE /\ Alive(cli[c].target)
               /\ Dies(cli[c].target, [cli EXCEPT ![c] = To(c, "awaitkilled")])
      BY <1>3, <1>5, <2>2, DiesSpared DEF ForceKill
    <2> QED
      BY <1>5, <2>1, <2>2 DEF ForceKill
  <1>6. CASE \/ StartFind(c) \/ TakeOwner(c) \/ FreeOwner(c) \/ Launch(c)
             \/ Look(c) \/ LookEnds(c) \/ SpawnFails(c) \/ Ready(c)
             \/ Wait(c) \/ WaitEnds(c) \/ List(c) \/ Confirm(c) \/ Await(c)
             \/ Present(c) \/ AwaitKilled(c) \/ Call(c)
    BY <1>1, <1>6 DEF StartFind, TakeOwner, FreeOwner, Launch, Look, LookEnds,
                      SpawnFails, Ready, Wait, WaitEnds, List, Confirm, Await,
                      Present, AwaitKilled, Call
  <1> QED
    BY <1>2, <1>4, <1>5, <1>6 DEF Client

LEMMA OtherSpares ==
    ASSUME TypeOK
    PROVE  /\ \A q \in Pids : Serve(q) \/ Crash(q) \/ Quit(q) \/ Reused(q)
                => \A p \in Pids : Spared(p)
           /\ \A c \in Clients : Interrupt(c) => \A p \in Pids : Spared(p)
           /\ \A c \in Clients, op \in Ops : Command(c, op)
                => \A p \in Pids : Spared(p)
  <1>1. ASSUME NEW q \in Pids, Serve(q) PROVE \A p \in Pids : Spared(p)
    BY <1>1 DEF Serve, Vacant, Alive, Boot, Spared, TypeOK
  <1>2. ASSUME NEW q \in Pids, Crash(q) PROVE \A p \in Pids : Spared(p)
    BY <1>2, DiesSpared DEF Crash
  <1>4. ASSUME NEW q \in Pids, Quit(q) PROVE \A p \in Pids : Spared(p)
    BY <1>4 DEF Quit, Handles, Spared, TypeOK
  <1>3. ASSUME NEW q \in Pids, Reused(q) PROVE \A p \in Pids : Spared(p)
    BY <1>3 DEF Reused, Alive, Stranger, Nobody, Spared, TypeOK
  <1> QED
    BY <1>1, <1>2, <1>3, <1>4 DEF Interrupt, Command, Spared

\* `daemon stop` and `daemon restart` (stopDaemonProcess) signal nobody but the
\* server of the record, whoever dies and whichever program gets its pid
\* before the force kill, as long as no pid changes hands within the moment
\* between the comparison of the creation times and the signal.
THEOREM NoBystanderEver ==
    ASSUME "recycled" \notin Env
    PROVE  Spec => NoBystander
  <1>1. TypeOK /\ AimInv /\ [Next]_vars => \A p \in Pids : Spared(p)
    <2> SUFFICES ASSUME TypeOK, AimInv, [Next]_vars
                 PROVE  \A p \in Pids : Spared(p)
      OBVIOUS
    <2>1. CASE UNCHANGED vars
      BY <2>1 DEF vars, Spared
    <2> QED
      BY <2>1, Steps, ServerSpares, ClientSpares, OtherSpares
  <1>2. TypeOK /\ AimInv =>
           \A p \in Pids, c \in Clients :
              (Signal(c) \/ ForceKill(c)) /\ proc'[p] # proc[p] =>
                 cli[c].target = p /\ cli[c].same
    BY Aimed
  <1>3. TypeOK /\ AimInv /\ [Next]_vars
        => [\A p \in Pids :
              /\ proc[p].kind = "stranger" => proc'[p] = proc[p]
              /\ \A c \in Clients :
                    (Signal(c) \/ ForceKill(c)) /\ proc'[p] # proc[p] =>
                       cli[c].target = p /\ cli[c].same]_vars
    BY <1>1, <1>2 DEF Spared
  <1> QED
    BY <1>3, TypeCorrect, AimInvHolds, PTL DEF Spec, NoBystander

=============================================================================
