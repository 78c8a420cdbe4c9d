---------------------------- MODULE Supervision ----------------------------
(***************************************************************************)
(* Who keeps the bench running: the supervisor of poller.py, which spawns  *)
(* the worker, listens for its heartbeat, kills and replaces it; the lock  *)
(* that keeps two pollers apart; the signals of an operator; watchdog.py,  *)
(* which kills every poller when heartbeat.log is old; and the outer shell *)
(* loop that starts the supervisor again.                                  *)
(*                                                                         *)
(* A tick stands for HEARTBEAT_INTERVAL_S (30 s): longer than a check, a   *)
(* cooldown or SUPERVISOR_RUN_BUDGET_S, shorter than the limit on silence. *)
(***************************************************************************)
EXTENDS Integers, FiniteSets, Sequences

CONSTANTS
    Pollers,     \* slots for "python3 poller.py": a supervisor and its worker
    Stale,       \* ticks in SUPERVISOR_HEARTBEAT_STALE_S, and in STALE_AFTER_S
    MaxFast,     \* SUPERVISOR_MAX_FAST_FAILS
    Troubles     \* bound: crashes, hangs, failed spawns, kills, and signals
                 \* of an operator, all together

ASSUME SupervisionAssumption ==
    /\ Stale \in Nat \ {0} /\ MaxFast \in Nat \ {0}
    /\ Troubles \in Nat

VARIABLES
    sup,     \* the supervisors
    wrk,     \* their worker children, which may outlive them
    file,    \* ticks since heartbeat.log was written
    script,  \* watchdog.py: not running, asleep, or due to look
    budget   \* faults and signals so far

vars == <<sup, wrk, file, script, budget>>

SupPCs   == {"off", "spawn", "watch", "dump", "judge", "cooldown"}
ExitCodes == {"none", "clean", "int", "term", "crash", "killed"}

\* A supervisor without a past but its log, a worker that has just come or gone.
Supervisor(pc, log) == [pc |-> pc, hb |-> 0, checked |-> FALSE, stale |-> FALSE,
                        fast |-> 0, ints |-> 0, pend |-> {}, log |-> log]
Worker(st, young, rc) == [st |-> st, hung |-> FALSE, pipe |-> FALSE, quiet |-> 0,
                          young |-> young, pend |-> FALSE, rc |-> rc]
NoSup    == Supervisor("off", <<>>)
NoWorker == Worker("none", FALSE, "none")

Alive(p)      == wrk[p].st # "none"
Supervised(p) == sup[p].pc # "off"

\* flock: the descriptor is the supervisor's, and the worker inherits it.
Locked == \E p \in Pollers : Supervised(p) \/ Alive(p)

Spend(k)  == /\ budget.faults + budget.presses < Troubles
             /\ budget' = [budget EXCEPT ![k] = @ + 1]
Set(p, r) == sup' = [sup EXCEPT ![p] = r]
Put(p, r) == wrk' = [wrk EXCEPT ![p] = r]

-----------------------------------------------------------------------------
(* The supervisor *)

\* Mutant: only the supervisors hold the lock.
BugLaunch(p) ==
    /\ ~Supervised(p) /\ ~Alive(p) /\ \A q \in Pollers : ~Supervised(q)
    /\ Set(p, Supervisor("spawn", <<>>))
    /\ Put(p, NoWorker)
    /\ UNCHANGED <<file, script, budget>>

\* The operator, or the outer shell loop; _acquire_poller_lock turns it away
\* while any process of an earlier poller holds the descriptor.
Launch(p) ==
    /\ ~Supervised(p) /\ ~Locked
    /\ Set(p, Supervisor("spawn", <<>>))
    /\ Put(p, NoWorker)
    /\ UNCHANGED <<file, script, budget>>

\* Mutant: the time of the last heartbeat survives from the worker before.
BugSpawn(p) ==
    /\ sup[p].pc = "spawn"
    /\ Set(p, [sup[p] EXCEPT !.pc = "watch", !.checked = FALSE, !.stale = FALSE])
    /\ Put(p, Worker("boot", TRUE, "none"))
    /\ UNCHANGED <<file, script, budget>>

Spawn(p) ==
    /\ sup[p].pc = "spawn"
    /\ Set(p, [sup[p] EXCEPT !.pc = "watch", !.hb = 0, !.checked = FALSE,
                             !.stale = FALSE])
    /\ Put(p, Worker("boot", TRUE, "none"))
    /\ UNCHANGED <<file, script, budget>>

SpawnFails(p) ==
    /\ sup[p].pc = "spawn" /\ Spend("faults")
    /\ Set(p, NoSup)
    /\ UNCHANGED <<wrk, file, script>>

\* One turn of the inner loop on a live child: select, read what the pipe
\* holds, compare the age of the last byte with the limit.
Check(p) ==
    /\ sup[p].pc = "watch" /\ Alive(p)
    /\ LET age == IF wrk[p].pipe THEN 0 ELSE sup[p].hb IN
         Set(p, [sup[p] EXCEPT !.hb = age, !.checked = TRUE,
                   !.stale = age > Stale,
                   !.pc = IF age > Stale THEN "dump" ELSE "watch"])
    /\ Put(p, [wrk[p] EXCEPT !.pipe = FALSE])
    /\ UNCHANGED <<file, script, budget>>

ChildExited(p) ==
    /\ sup[p].pc = "watch" /\ ~Alive(p)
    /\ Set(p, [sup[p] EXCEPT !.pc = "judge"])
    /\ UNCHANGED <<wrk, file, script, budget>>

\* SIGUSR1, one second, SIGKILL, wait: the exit code is the child's own when
\* it ended within that second.
KillStale(p) ==
    /\ sup[p].pc = "dump"
    /\ Set(p, [sup[p] EXCEPT !.pc = "judge"])
    /\ Put(p, IF Alive(p) THEN Worker("none", wrk[p].young, "killed") ELSE wrk[p])
    /\ UNCHANGED <<file, script, budget>>

Final == {"clean", "int", "term"}
Outcome(p) == IF sup[p].stale THEN "silent" ELSE IF wrk[p].young THEN "fast" ELSE "late"
LastFew(s) == IF Len(s) > MaxFast THEN Tail(s) ELSE s

\* Mutant: a worker that lived long enough does not clear the count.
BugFastFails(p) == IF Outcome(p) = "silent" THEN 0 ELSE sup[p].fast + 1

FastFails(p) == IF Outcome(p) = "fast" THEN sup[p].fast + 1 ELSE 0

\* Mutant: one fast failure too many is forgiven.
BugJudge(p) ==
    /\ sup[p].pc = "judge"
    /\ IF wrk[p].rc \in Final \/ FastFails(p) > MaxFast
         THEN Set(p, Supervisor("off", LastFew(Append(sup[p].log, Outcome(p)))))
         ELSE Set(p, [sup[p] EXCEPT !.pc = "cooldown", !.fast = FastFails(p),
                        !.log = LastFew(Append(@, Outcome(p)))])
    /\ UNCHANGED <<wrk, file, script, budget>>

\* What the exit code and the life of the child mean for the next one.
Judge(p) ==
    /\ sup[p].pc = "judge"
    /\ IF wrk[p].rc \in Final \/ FastFails(p) >= MaxFast
         THEN Set(p, Supervisor("off", LastFew(Append(sup[p].log, Outcome(p)))))
         ELSE Set(p, [sup[p] EXCEPT !.pc = "cooldown", !.fast = FastFails(p),
                        !.log = LastFew(Append(@, Outcome(p)))])
    /\ UNCHANGED <<wrk, file, script, budget>>

Respawn(p) ==
    /\ sup[p].pc = "cooldown"
    /\ Set(p, [sup[p] EXCEPT !.pc = "spawn"])
    /\ UNCHANGED <<wrk, file, script, budget>>

-----------------------------------------------------------------------------
(* The worker *)

\* _write_heartbeat: heartbeat.log, and a byte for the supervisor if there is
\* one to read it.
Beat(p) ==
    /\ wrk[p].st \in {"boot", "loop"} /\ ~wrk[p].hung
    /\ Put(p, [wrk[p] EXCEPT !.pipe = Supervised(p), !.quiet = 0])
    /\ file' = 0
    /\ UNCHANGED <<sup, script, budget>>

\* Plugins, refresh, sweep and the first drain are done, SIGINT has a handler,
\* and the loop begins with a heartbeat.
BootDone(p) ==
    /\ wrk[p].st = "boot" /\ ~wrk[p].hung
    /\ Put(p, [wrk[p] EXCEPT !.st = "loop", !.pipe = Supervised(p), !.quiet = 0])
    /\ file' = 0
    /\ UNCHANGED <<sup, script, budget>>

\* A call into a driver does not come back; no Python handler runs any more.
Hang(p) ==
    /\ Alive(p) /\ ~wrk[p].hung /\ Spend("faults")
    /\ Put(p, [wrk[p] EXCEPT !.hung = TRUE])
    /\ UNCHANGED <<sup, file, script>>

\* What the parent will know of a worker that ends.
Ends(p, rc) == Put(p, Worker("none", wrk[p].young, rc))

Crash(p) ==
    /\ Alive(p) /\ Spend("faults")
    /\ Ends(p, "crash")
    /\ UNCHANGED <<sup, file, script>>

\* Python's own handler during the start, then _sigint_handler: the first one
\* begins the clean-up, a second one exits at once.
HandleInt(p) ==
    /\ Alive(p) /\ wrk[p].pend /\ ~wrk[p].hung
    /\ IF wrk[p].st = "loop"
         THEN Put(p, [wrk[p] EXCEPT !.st = "cleanup", !.pend = FALSE])
         ELSE Ends(p, "int")
    /\ UNCHANGED <<sup, file, script, budget>>

\* Sessions canceled, children killed, spool drained, devices closed: rc 0.
CleanupDone(p) ==
    /\ wrk[p].st = "cleanup" /\ ~wrk[p].hung
    /\ Ends(p, "clean")
    /\ UNCHANGED <<sup, file, script, budget>>

-----------------------------------------------------------------------------
(* Signals *)

\* Ctrl-C in the terminal reaches the whole foreground group ...
CtrlC(p) ==
    /\ Supervised(p) \/ Alive(p)
    /\ Spend("presses")
    /\ sup' = [sup EXCEPT ![p].pend = IF Supervised(p) THEN @ \cup {"int"} ELSE @]
    /\ wrk' = [wrk EXCEPT ![p].pend = Alive(p)]
    /\ UNCHANGED <<file, script>>

\* ... kill and timeout reach the supervisor alone.
Signal(p, s) ==
    /\ Supervised(p) /\ Spend("presses")
    /\ sup' = [sup EXCEPT ![p].pend = @ \cup {s}]
    /\ UNCHANGED <<wrk, file, script>>

\* _forward.  Between two children there is nobody to pass the signal to.
ForwardInt(p) ==
    /\ Supervised(p) /\ "int" \in sup[p].pend
    /\ sup' = [sup EXCEPT ![p].pend = @ \ {"int"}, ![p].ints = IF @ < 2 THEN @ + 1 ELSE @]
    /\ IF sup[p].pc \in {"watch", "dump"} /\ Alive(p)
         THEN IF sup[p].ints >= 1 THEN Ends(p, "killed")
                                  ELSE Put(p, [wrk[p] EXCEPT !.pend = TRUE])
         ELSE UNCHANGED wrk
    /\ UNCHANGED <<file, script, budget>>

ForwardTerm(p) ==
    /\ Supervised(p) /\ "term" \in sup[p].pend
    /\ sup' = [sup EXCEPT ![p].pend = @ \ {"term"}]
    /\ IF sup[p].pc \in {"watch", "dump"} /\ Alive(p) THEN Ends(p, "term") ELSE UNCHANGED wrk
    /\ UNCHANGED <<file, script, budget>>

\* SIGHUP reloads the plugins of a worker that has come to its loop; before
\* that nobody has asked the kernel to spare it.
ForwardHup(p) ==
    /\ Supervised(p) /\ "hup" \in sup[p].pend
    /\ sup' = [sup EXCEPT ![p].pend = @ \ {"hup"}]
    /\ IF sup[p].pc \in {"watch", "dump"} /\ wrk[p].st = "boot"
         THEN Ends(p, "crash") ELSE UNCHANGED wrk
    /\ UNCHANGED <<file, script, budget>>

\* SIGKILL of the supervisor alone leaves the worker behind.
KillSupervisor(p) ==
    /\ Supervised(p) /\ Spend("faults")
    /\ Set(p, NoSup)
    /\ Put(p, IF Alive(p) THEN [wrk[p] EXCEPT !.pipe = FALSE] ELSE NoWorker)
    /\ UNCHANGED <<file, script>>

\* Mutant: the pattern matches the supervisors only.
BugPkill ==
    /\ script = "due" /\ file > Stale /\ Locked
    /\ sup' = [p \in Pollers |-> NoSup]
    /\ script' = "asleep"
    /\ UNCHANGED <<wrk, file, budget>>

\* watchdog.py: pkill -9 of everything that runs poller.py, then sleep for
\* CHECK_INTERVAL_S (several ticks; one is enough).
Pkill ==
    /\ script = "due" /\ file > Stale /\ Locked
    /\ sup' = [p \in Pollers |-> NoSup]
    /\ wrk' = [p \in Pollers |-> NoWorker]
    /\ script' = "asleep"
    /\ UNCHANGED <<file, budget>>

\* A tick passes: every supervisor that watches has looked since the last one,
\* and whatever else it does takes less.
Tick ==
    /\ \A p \in Pollers : \/ sup[p].pc = "off"
                          \/ sup[p].pc = "watch" /\ sup[p].checked /\ Alive(p)
    /\ sup' = [p \in Pollers |-> [sup[p] EXCEPT
                 !.checked = FALSE,
                 !.hb = IF sup[p].pc = "watch" /\ @ <= Stale THEN @ + 1 ELSE @]]
    /\ wrk' = [p \in Pollers |-> [wrk[p] EXCEPT
                 !.quiet = IF Alive(p) /\ @ <= Stale THEN @ + 1 ELSE @,
                 !.young = FALSE]]
    /\ file' = IF file <= Stale THEN file + 1 ELSE file
    /\ script' = IF script = "asleep" THEN "due" ELSE script
    /\ UNCHANGED budget

-----------------------------------------------------------------------------
Init ==
    /\ sup = [p \in Pollers |-> NoSup]
    /\ wrk = [p \in Pollers |-> NoWorker]
    /\ file \in {0, Stale + 1}               \* written lately, or missing
    /\ script \in {"off", "due"}
    /\ budget = [faults |-> 0, presses |-> 0]

SupStep(p) ==
    \/ Spawn(p) \/ Check(p) \/ ChildExited(p) \/ KillStale(p) \/ Judge(p) \/ Respawn(p)

WorkerStep(p) == BootDone(p) \/ HandleInt(p) \/ CleanupDone(p)

Next ==
    \/ \E p \in Pollers :
         \/ Launch(p) \/ SupStep(p) \/ WorkerStep(p) \/ Beat(p)
         \/ SpawnFails(p) \/ Hang(p) \/ Crash(p) \/ KillSupervisor(p)
         \/ CtrlC(p) \/ ForwardInt(p) \/ ForwardTerm(p) \/ ForwardHup(p)
         \/ \E s \in {"int", "term", "hup"} : Signal(p, s)
    \/ Pkill \/ Tick

Spec == Init /\ [][Next]_vars

\* Processes run, time passes, the outer loop starts the supervisor again and,
\* where watchdog.py runs, it looks.  Strong for the start: one that is killed on
\* the way is tried again, and only a hang keeps it from getting through.
Fairness ==
    /\ WF_vars(\E p \in Pollers : Launch(p)) /\ WF_vars(Tick) /\ WF_vars(Pkill)
    /\ \A p \in Pollers : WF_vars(SupStep(p)) /\ WF_vars(WorkerStep(p))
    /\ \A p \in Pollers : SF_vars(Spawn(p)) /\ SF_vars(BootDone(p))

FairSpec == Spec /\ Fairness

-----------------------------------------------------------------------------
(* Properties *)

\* Every variable keeps its shape.
TypeOK ==
    /\ sup \in [Pollers -> [pc : SupPCs, hb : 0 .. Stale + 1, checked : BOOLEAN,
                            stale : BOOLEAN, fast : 0 .. MaxFast - 1, ints : 0 .. 2,
                            pend : SUBSET {"int", "term", "hup"},
                            log : UNION {[1 .. k -> {"silent", "fast", "late"}] : k \in 0 .. MaxFast}]]
    /\ wrk \in [Pollers -> [st : {"none", "boot", "loop", "cleanup"}, hung : BOOLEAN,
                            pipe : BOOLEAN, quiet : 0 .. Stale + 1, young : BOOLEAN,
                            pend : BOOLEAN, rc : ExitCodes]]
    /\ file \in 0 .. Stale + 1
    /\ script \in {"off", "asleep", "due"}
    /\ budget \in [faults : 0 .. Troubles, presses : 0 .. Troubles]

\* No two workers share the state directory, not even while the worker of a
\* supervisor that was killed is still tearing down (_supervise, _acquire_poller_lock).
OneWorker == \A p, q \in Pollers : Alive(p) /\ Alive(q) => p = q

\* A worker is killed for silence only if it was silent for SUPERVISOR_HEARTBEAT_STALE_S:
\* a heartbeat is never charged to the worker before it, nor read too late.
OnlySilentKilled ==
    [][\A p \in Pollers :
         sup[p].pc = "watch" /\ sup'[p].pc = "dump" => wrk[p].quiet >= Stale]_vars

\* The supervisor gives up only after MaxFast workers in a row died young.
GivesUpOnFastFails ==
    [][\A p \in Pollers :
         sup'[p].pc = "off" /\ sup'[p].log # <<>> /\ wrk[p].rc \notin Final
           => sup[p].pc = "off" \/ sup'[p].log = [i \in 1 .. MaxFast |-> "fast"]]_vars

\* Whatever crashes, hangs or is killed, the bench serves again and again as
\* long as watchdog.py runs and somebody starts the poller.
ServesAgain == script # "off" => []<>(\E p \in Pollers : wrk[p].st = "loop" /\ ~wrk[p].hung)
=============================================================================
