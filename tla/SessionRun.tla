----------------------------- MODULE SessionRun -----------------------------
(***************************************************************************)
(* One session executes its plan: session.py from the moment run_all holds *)
(* the eager locks to the artefact, with the threads around it:            *)
(*                                                                         *)
(*   the plan thread      _run_block, _run_one and the ops                 *)
(*   the watchdog         cancels a session past its budget, then exits    *)
(*   the poller           signal_cancel for a DELETE /jobs/<digest>        *)
(*   a UART drain thread  appends to the stream that uart_expect searches  *)
(*   a child process      of dfu, msc, ssh ("child"), fpga ("flash"), dsp  *)
(*   another session      holds the lock of a device this plan reaches late*)
(*                                                                         *)
(* Locks and handles are the subject of DeviceHold.  Time is counted in    *)
(* ticks, and passes only while every thread waits: the polling loops here *)
(* turn every 10 to 200 ms, the watchdog's periods are 5 to 90 s.          *)
(***************************************************************************)
EXTENDS Naturals, Integers, SequencesExt

CONSTANTS
    Plans,        \* the plans: sequences of Kinds
    Budget,       \* X-Test-Runtime
    SoftGrace,    \* WATCHDOG_SOFT_GRACE_S
    HardGrace,    \* WATCHDOG_HARD_GRACE_S
    Recheck,      \* the watchdog looks again after so long, 5 s
    OpTime,       \* timeout_ms, ms, or the wall-clock cap of a child
    Needle,       \* what uart_expect waits for
    Chunks,       \* what one read of the UART returns
    StreamMax,    \* STREAM_MAX_BYTES
    Transfer,     \* pieces of a bulk transfer
    MaxHeard      \* bound: bytes the device sends

Kinds == {"call", "delay", "bulk", "listen", "expect", "until", "late",
          "child", "flash", "boot"}

\* What a device can say, and the needle.
Bytes == UNION {Range(s) : s \in Chunks \cup {Needle}}

\* The model has one child process: a plan has at most one op with one.
OneChild(p) ==
    \A i, j \in DOMAIN p : {p[i], p[j]} \subseteq {"child", "flash", "boot"} => i = j

ASSUME RunAssumption ==
    /\ \A p \in Plans : p \in Seq(Kinds) /\ OneChild(p)
    /\ {Budget, SoftGrace, Recheck, OpTime} \subseteq Nat \ {0}
    /\ HardGrace \in Nat /\ HardGrace > SoftGrace
    /\ {StreamMax, MaxHeard, Transfer} \subseteq Nat
    /\ \A s \in Chunks \cup {Needle} : s \in Seq(Bytes) /\ Len(s) > 0

VARIABLES
    now,       \* time.monotonic() since the budget started
    plan,
    run,       \* the plan thread and the Session's fields
    dog,       \* the watchdog thread
    user,      \* the poller's signal_cancel
    child,     \* the child process and its row in _active_subprocs
    peer,      \* the other session still holds the late device
    stream,    \* the Stream: records, bytes dropped, evictions, closed
    uart,      \* drain thread, bytes it has read
    cursor,    \* the cursor of uart_expect
    verdict    \* manifest.status; "none" until packed

vars == <<now, plan, run, dog, user, child, peer, stream, uart, cursor, verdict>>

RunPCs  == {"op", "call", "delay", "bulk", "piece", "expect", "late", "popen",
            "arm", "child", "closing", "sealing", "ended"}

NoChild  == [st |-> "none", kind |-> "child", tracked |-> FALSE, armed |-> FALSE]
NoCursor == [index |-> 0, tail |-> <<>>, gen |-> -1]

Op == plan[run.i]
At(pc) == run.pc = pc
Exited == dog.pc = "exit"                         \* os._exit(2)

\* cancel_lock, held for the whole of signal_cancel
CancelLockFree == user # "kill" /\ dog.pc # "kill"

-----------------------------------------------------------------------------
(* Stream *)

Payload(recs) == FlattenSeq(recs)
Occurs(s, t)  == \E k \in 0 .. Len(t) - Len(s) : SubSeq(t, k + 1, k + Len(s)) = s

\* The shortest run of oldest records to drop; the last record stays.
Excess(recs) ==
    CHOOSE k \in 0 .. Len(recs) - 1 :
        LET Fits(j) == Len(Payload(SubSeq(recs, j + 1, Len(recs)))) <= StreamMax
                       \/ j = Len(recs) - 1
        IN  Fits(k) /\ \A j \in 0 .. k - 1 : ~Fits(j)

\* Mutant: an append that does not look at the seal.
BugStreamAppend(s, data) == [s EXCEPT !.recs = Append(@, data)]

StreamAppend(s, data) ==
    IF s.closed THEN s
    ELSE LET recs == Append(s.recs, data)
             k    == Excess(recs)
         IN  [s EXCEPT !.recs = SubSeq(recs, k + 1, Len(recs)), !.gen = @ + k]

\* The last Len(Needle) - 1 bytes, for a match across records.
Overlap(w) == SubSeq(w, IF Len(w) < Len(Needle) THEN 1 ELSE Len(w) - Len(Needle) + 2, Len(w))

\* One record with what is kept of those before it.
Window(w) == [found |-> Occurs(Needle, w), tail |-> Overlap(w)]

\* Mutant: a cursor that trusts its index after an eviction.
BugScanFrom(s, c) == IF c.index > Len(s.recs) THEN [index |-> 0, tail |-> <<>>]
                     ELSE [index |-> c.index, tail |-> c.tail]

\* Records already searched, unless an eviction has moved them.
ScanFrom(s, c) == IF c.gen # s.gen \/ c.index > Len(s.recs)
                  THEN [index |-> 0, tail |-> <<>>]
                  ELSE [index |-> c.index, tail |-> c.tail]

\* contains_bytes: what it returns, and the cursor it leaves.
Scan(s, c) ==
    LET from == ScanFrom(s, c)
        after[k \in from.index .. Len(s.recs)] ==     \* k records
            IF k = from.index THEN [found |-> FALSE, tail |-> from.tail]
            ELSE IF after[k - 1].found THEN after[k - 1]
            ELSE Window(after[k - 1].tail \o s.recs[k])
        end == after[Len(s.recs)]
    IN  [found |-> end.found,
         cursor |-> [index |-> Len(s.recs), tail |-> end.tail, gen |-> s.gen]]

-----------------------------------------------------------------------------
(* signal_cancel, on the poller's thread and on the watchdog's *)

Flag == run' = [run EXCEPT !.canceled = TRUE]

\* kill_session_subprocs: the children registered now, SIGKILLed.
KillTracked ==
    child' = IF child.tracked /\ child.st = "up" THEN [child EXCEPT !.st = "dying"]
             ELSE child

\* A cancel of the session, while it is in _active_sessions.
UserCancels ==
    /\ user = "off" /\ verdict = "none" /\ CancelLockFree
    /\ user' = "kill" /\ Flag
    /\ UNCHANGED <<now, plan, dog, child, peer, stream, uart, cursor, verdict>>

UserKills ==
    /\ user = "kill"
    /\ user' = "done" /\ KillTracked
    /\ UNCHANGED <<now, plan, run, dog, peer, stream, uart, cursor, verdict>>

-----------------------------------------------------------------------------
(* The watchdog *)

Least(a, b) == IF a < b THEN a ELSE b

Left == Budget + SoftGrace + run.credit - now

\* Mutant: it always sleeps for the whole period.
BugDogSleeps ==
    /\ dog.pc = "wait" /\ now >= dog.wake /\ Left > 0
    /\ dog' = [dog EXCEPT !.wake = now + Recheck]
    /\ UNCHANGED <<now, plan, run, user, child, peer, stream, uart, cursor, verdict>>

DogSleeps ==
    /\ dog.pc = "wait" /\ now >= dog.wake /\ Left > 0
    /\ dog' = [dog EXCEPT !.wake = now + Least(Left, Recheck)]
    /\ UNCHANGED <<now, plan, run, user, child, peer, stream, uart, cursor, verdict>>

DogCancels ==
    /\ dog.pc = "wait" /\ now >= dog.wake /\ Left <= 0 /\ CancelLockFree
    /\ dog' = [dog EXCEPT !.pc = "kill"] /\ Flag
    /\ UNCHANGED <<now, plan, user, child, peer, stream, uart, cursor, verdict>>

DogKills ==
    /\ dog.pc = "kill"
    /\ dog' = [pc |-> "grace", wake |-> now + HardGrace - SoftGrace]
    /\ KillTracked
    /\ UNCHANGED <<now, plan, run, user, peer, stream, uart, cursor, verdict>>

\* Mutant: the watchdog thread has died of an exception.
BugDogExits == FALSE /\ UNCHANGED vars

\* os._exit(2): the whole poller goes, every other session with it.
DogExits ==
    /\ dog.pc = "grace" /\ now >= dog.wake
    /\ dog' = [dog EXCEPT !.pc = "exit"]
    /\ UNCHANGED <<now, plan, run, user, child, peer, stream, uart, cursor, verdict>>

\* _done_event wakes it from either wait.
DogDone ==
    /\ dog.pc \in {"wait", "grace"} /\ At("ended")
    /\ dog' = [dog EXCEPT !.pc = "done"]
    /\ UNCHANGED <<now, plan, run, user, child, peer, stream, uart, cursor, verdict>>

-----------------------------------------------------------------------------
(* _run_block and _run_one *)

Deadline == Budget + run.credit
Quiet == UNCHANGED <<now, plan, dog, user, peer, uart, verdict>>
Calm  == Quiet /\ UNCHANGED <<child, stream, cursor>>

\* The op is over: its row in ops_log, its entry in errors.
Ended(st) == [run EXCEPT !.pc = "op", !.i = @ + 1, !.since = 0, !.moved = 0,
                         !.log = Append(@, st), !.failed = @ \/ st = "error"]

OpEnds(st)         == run' = Ended(st)
OpChecks(st, hit)  == run' = [Ended(st) EXCEPT !.checks = @ \cup {hit}]

\* StopSession, HardFail: the op's row, then no more ops.
PlanStops(st, why) == run' = [Ended(st) EXCEPT !.pc = "closing", !.why = why]

\* Mutant: HardFail goes past the handler that records errors.
BugFails == run' = [run EXCEPT !.pc = "closing", !.why = "fatal", !.since = 0]

Fails == PlanStops("error", "fatal")

LeaveBlock(why) == [run EXCEPT !.pc = "closing", !.why = why]
InBlock == At("op") /\ run.i <= Len(plan)

PlanDone ==
    /\ At("op") /\ run.i > Len(plan)
    /\ run' = LeaveBlock("end")
    /\ Calm

\* Logged, but not an error of the session.
OverDeadline ==
    /\ InBlock /\ now >= Deadline
    /\ run' = LeaveBlock("deadline")
    /\ Calm

SeesCancel ==
    /\ InBlock /\ now <= Deadline /\ run.canceled
    /\ run' = [LeaveBlock("cancel") EXCEPT !.failed = TRUE]
    /\ Calm

Begins(kinds) == InBlock /\ now <= Deadline /\ ~run.canceled /\ Op \in kinds
Enter(pc)     == run' = [run EXCEPT !.pc = pc, !.since = now]
Timeout       == run.since + OpTime

\* mark, expect, description, inventory, a wrong verb, or a call of a plugin
\* into a library, which nothing interrupts and which may never return
CallBegins == Begins({"call"}) /\ Enter("call") /\ Calm

CallReturns ==
    /\ At("call")
    /\ \/ OpEnds("ok")
       \/ OpChecks("ok", "hit")
       \/ OpEnds("error")
       \/ Fails
    /\ Calm

\* cancel_event.wait: the cancel or the time.
DelayOver   == At("delay") /\ (run.canceled \/ now >= Timeout)
DelayBegins == Begins({"delay"}) /\ Enter("delay") /\ Calm
DelayEnds   == DelayOver /\ OpEnds("ok") /\ Calm

-----------------------------------------------------------------------------
(* Bulk transfers: usbtmc, msc, ws, tcp, dsp:qspi, fpga.  Between two pieces *)
(* the op asks for a cancel; a piece is a call nothing interrupts.           *)

BulkBegins == Begins({"bulk"}) /\ Enter("bulk") /\ Calm

PieceBegins ==
    /\ At("bulk") /\ run.moved < Transfer /\ ~run.canceled
    /\ run' = [run EXCEPT !.pc = "piece"]
    /\ Calm

\* Short reads and refused writes are tried again, as the same piece, or end
\* the op.
PieceReturns ==
    /\ At("piece")
    /\ \/ run' = [run EXCEPT !.pc = "bulk", !.moved = @ + 1]
       \/ OpEnds("error")
    /\ Calm

BulkCanceled ==
    /\ At("bulk") /\ run.moved < Transfer /\ run.canceled
    /\ OpEnds("error")
    /\ Calm

\* Some transfers have a deadline: part of the data is an error, a miss, or
\* what there is to read.
BulkTimesOut ==
    /\ At("bulk") /\ run.moved < Transfer /\ ~run.canceled /\ now >= Timeout
    /\ OpEnds("ok") \/ OpEnds("error") \/ OpChecks("error", "timeout")
    /\ Calm

\* All of it: no claim, a good checksum, a bad one, or a good one too late.
BulkDone ==
    /\ At("bulk") /\ run.moved = Transfer
    /\ \/ OpEnds("ok") \/ OpChecks("ok", "hit")
       \/ OpChecks("error", "miss") \/ OpChecks("error", "hit")
    /\ Calm

-----------------------------------------------------------------------------
(* A device whose lock another session holds: _resolve_device *)

LateBegins == Begins({"late"}) /\ Enter("late") /\ Calm

\* Mutant: the difference the wrong way round.
BugLateLocked ==
    /\ At("late") /\ ~peer
    /\ run' = [run EXCEPT !.pc = "call", !.since = 0, !.credit = @ + (run.since - now)]
    /\ Calm

\* What the wait took is credited once it is over; then the op itself runs.
LateLocked ==
    /\ At("late") /\ ~peer
    /\ run' = [run EXCEPT !.pc = "call", !.since = 0, !.credit = @ + (now - run.since)]
    /\ Calm

LateCanceled ==
    /\ At("late") /\ peer /\ run.canceled
    /\ OpEnds("error")
    /\ Calm

PeerEnds ==
    /\ peer /\ peer' = FALSE
    /\ UNCHANGED <<now, plan, run, dog, user, child, stream, uart, cursor, verdict>>

-----------------------------------------------------------------------------
(* UART ops *)

Listen ==                           \* uart_open, a no-op the second time
    /\ Begins({"listen"})
    /\ OpEnds("ok")
    /\ uart' = [uart EXCEPT !.drain = "on"]
    /\ UNCHANGED <<now, plan, dog, user, child, peer, stream, cursor, verdict>>

\* The drain thread reads until it is told to stop, then once more.
DrainReads(data) ==
    /\ uart.drain \in {"on", "stop"}
    /\ uart.heard + Len(data) <= MaxHeard
    /\ stream' = StreamAppend(stream, data)
    /\ uart' = [drain |-> IF uart.drain = "stop" THEN "off" ELSE "on",
                heard |-> uart.heard + Len(data)]
    /\ UNCHANGED <<now, plan, run, dog, user, child, peer, cursor, verdict>>

ExpectBegins ==
    /\ Begins({"expect", "until"}) /\ Enter("expect")
    /\ cursor' = NoCursor
    /\ Quiet /\ UNCHANGED <<child, stream>>

Polling == At("expect") /\ ~run.canceled /\ now <= Timeout

ExpectPolls ==
    /\ Polling /\ ~Scan(stream, cursor).found
    /\ cursor' = Scan(stream, cursor).cursor
    /\ Quiet /\ UNCHANGED <<run, child, stream>>

\* A hit; with end_session it is the end of the plan.
ExpectHits ==
    /\ Polling /\ Scan(stream, cursor).found
    /\ IF Op = "until"
       THEN run' = [Ended("ok") EXCEPT !.checks = @ \cup {"hit"},
                                       !.pc = "closing", !.why = "early"]
       ELSE OpChecks("ok", "hit")
    /\ cursor' = NoCursor
    /\ Quiet /\ UNCHANGED <<child, stream>>

ExpectTimesOut ==
    /\ At("expect") /\ now >= Timeout
    /\ OpChecks("error", "timeout")
    /\ cursor' = NoCursor
    /\ Quiet /\ UNCHANGED <<child, stream>>

ExpectCanceled ==                   \* returns as if all was well
    /\ At("expect") /\ run.canceled /\ now <= Timeout
    /\ OpEnds("ok")
    /\ cursor' = NoCursor
    /\ Quiet /\ UNCHANGED <<child, stream>>

-----------------------------------------------------------------------------
(* Child processes.  "dying" is a SIGKILL the kernel has not served yet: the *)
(* child is in a device driver.  SIGTERM, two seconds, SIGKILL is one step.  *)

\* The child is over for the op: killed, gone or a corpse to wait for.
Drop(tracked) ==
    \E st \in IF child.st \in {"up", "dying"} THEN {"dying", "killed"} ELSE {child.st} :
        child' = [child EXCEPT !.st = st, !.tracked = tracked /\ st = "dying"]

\* The helper of fpga:program is in no table: its loop alone looks after it.
Popen ==
    /\ Begins({"child", "flash", "boot"})
    /\ Enter(IF Op = "flash" THEN "child" ELSE "popen")
    /\ child' = [st |-> "up", kind |-> Op, tracked |-> FALSE, armed |-> Op # "boot"]
    /\ Quiet /\ UNCHANGED <<stream, cursor>>

Track ==                            \* register_subprocess
    /\ At("popen")
    /\ child' = [child EXCEPT !.tracked = TRUE]
    /\ run' = [run EXCEPT !.pc = IF Op = "boot" THEN "arm" ELSE "child"]
    /\ Quiet /\ UNCHANGED <<stream, cursor>>

\* dsp:boot: the helper may touch the chip from now on.  Under cancel_lock.
Arm ==
    /\ At("arm") /\ CancelLockFree
    /\ IF run.canceled
       THEN OpEnds("error") /\ Drop(TRUE)
       ELSE /\ child' = [child EXCEPT !.armed = TRUE]
            /\ run' = [run EXCEPT !.pc = "child"]
    /\ Quiet /\ UNCHANGED <<stream, cursor>>

ChildExits ==
    /\ child.st = "up" /\ child.armed
    /\ child' = [child EXCEPT !.st = "exited"]
    /\ UNCHANGED <<now, plan, run, dog, user, peer, stream, uart, cursor, verdict>>

InChildOp == run.pc \in {"popen", "arm", "child"}

\* A helper that outlives its op has a reaper thread, which unregisters it.
ChildDies ==
    /\ child.st = "dying"
    /\ child' = [child EXCEPT !.st = "killed", !.tracked = @ /\ InChildOp]
    /\ UNCHANGED <<now, plan, run, dog, user, peer, stream, uart, cursor, verdict>>

ChildDone ==                        \* a return code other than 0 is an error
    /\ At("child") /\ child.st \in {"exited", "killed"}
    /\ OpEnds("error") \/ (child.st = "exited" /\ OpEnds("ok"))
    /\ child' = [child EXCEPT !.tracked = FALSE]
    /\ Quiet /\ UNCHANGED <<stream, cursor>>

\* Mutant: the loop leaves the child to signal_cancel.
BugSeenByLoop == FALSE

\* The loop of the op tests session.canceled as well.
SeenByLoop == At("child") /\ run.canceled /\ child.st \in {"up", "dying"}

ChildCanceled ==
    /\ SeenByLoop
    /\ OpEnds("error") /\ Drop(Op = "boot")
    /\ Quiet /\ UNCHANGED <<stream, cursor>>

\* Mutant: a timeout gives up on the child and lets it run.
BugChildTimesOut ==
    /\ At("child") /\ now >= Timeout /\ child.st \in {"up", "dying"}
    /\ OpEnds("error") /\ child' = [child EXCEPT !.tracked = FALSE]
    /\ Quiet /\ UNCHANGED <<stream, cursor>>

ChildTimesOut ==
    /\ At("child") /\ now >= Timeout /\ child.st \in {"up", "dying"}
    /\ OpEnds("error") /\ Drop(Op = "boot")
    /\ Quiet /\ UNCHANGED <<stream, cursor>>

-----------------------------------------------------------------------------
(* The end of run_all, and pack_artefact *)

\* The handles: closing one stops its drain thread and waits 2 s for it.  A
\* close may hang in a driver, and a drain thread may survive it.
HandlesClosed ==
    /\ At("closing")
    /\ run' = [run EXCEPT !.pc = "sealing"]
    /\ uart' = [uart EXCEPT !.drain = IF @ = "on" THEN "stop" ELSE @]
    /\ UNCHANGED <<now, plan, dog, user, child, peer, stream, cursor, verdict>>

Seal ==
    /\ At("sealing")
    /\ run' = [run EXCEPT !.pc = "ended"]
    /\ stream' = [stream EXCEPT !.closed = TRUE]
    /\ Quiet /\ UNCHANGED <<child, cursor>>

Status ==
    CASE run.canceled                                      -> "canceled"
      [] ~run.canceled /\ run.failed                       -> "errors"
      [] ~run.canceled /\ ~run.failed /\ run.checks = {}   -> "inert"
      [] OTHER                                             -> "ok"

Pack ==
    /\ At("ended") /\ verdict = "none"
    /\ verdict' = Status
    /\ UNCHANGED <<now, plan, run, dog, user, child, peer, stream, uart, cursor>>

-----------------------------------------------------------------------------
(* Time *)

\* A thread that does not wait has something to do first.
PlanThreadBusy ==
    \/ run.pc \in {"op", "bulk", "popen", "arm", "sealing"}
    \/ At("ended") /\ (verdict = "none" \/ dog.pc \in {"wait", "grace"})
    \/ DelayOver \/ SeenByLoop
    \/ At("late")   /\ (~peer \/ run.canceled)
    \/ At("expect") /\ (run.canceled \/ now >= Timeout \/ Scan(stream, cursor).found
                        \/ cursor # Scan(stream, cursor).cursor)
    \/ At("child")  /\ (child.st \in {"exited", "killed"} \/ now >= Timeout)

DogBusy == dog.pc = "kill" \/ (dog.pc \in {"wait", "grace"} /\ now >= dog.wake)

Tick ==
    /\ ~DogBusy /\ user # "kill" /\ ~PlanThreadBusy /\ verdict = "none"
    /\ now' = now + 1
    /\ UNCHANGED <<plan, run, dog, user, child, peer, stream, uart, cursor, verdict>>

-----------------------------------------------------------------------------

\* Eager locks held, or waited for long ago; somebody may hold the late device.
Init ==
    /\ now = 0 /\ plan \in Plans /\ peer \in BOOLEAN
    /\ run = [pc |-> "op", i |-> 1, since |-> 0, moved |-> 0, canceled |-> FALSE, credit |-> 0,
              log |-> <<>>, failed |-> FALSE, checks |-> {}, why |-> "none"]
    /\ dog = [pc |-> "wait", wake |-> Least(Budget + SoftGrace, Recheck)]
    /\ user = "off" /\ child = NoChild
    /\ stream = [recs |-> <<>>, gen |-> 0, closed |-> FALSE]
    /\ uart = [drain |-> "off", heard |-> 0] /\ cursor = NoCursor
    /\ verdict = "none"

\* What the plan thread does on its own; a library call returns when it likes.
PlanStep ==
    \/ PlanDone \/ OverDeadline \/ SeesCancel \/ CallBegins
    \/ DelayBegins \/ DelayEnds
    \/ BulkBegins \/ PieceBegins \/ BulkCanceled \/ BulkTimesOut \/ BulkDone
    \/ LateBegins \/ LateLocked \/ LateCanceled
    \/ Listen \/ ExpectBegins \/ ExpectPolls \/ ExpectHits \/ ExpectTimesOut \/ ExpectCanceled
    \/ Popen \/ Track \/ Arm \/ ChildDone \/ ChildCanceled \/ ChildTimesOut
    \/ Seal \/ Pack

DogStep  == DogSleeps \/ DogCancels \/ DogKills \/ DogExits \/ DogDone

Elsewhere ==
    \/ CallReturns \/ PieceReturns \/ HandlesClosed \/ UserCancels \/ PeerEnds
    \/ ChildExits \/ ChildDies
    \/ \E data \in Chunks : DrainReads(data)

Next == ~Exited /\ (PlanStep \/ DogStep \/ UserKills \/ Elsewhere \/ Tick)

Spec == Init /\ [][Next]_vars

\* The threads run and time passes.  Nothing makes a library call return, a
\* device talk, a child exit or another session finish.
FairSpec ==
    /\ Spec
    /\ WF_vars(~Exited /\ PlanStep) /\ WF_vars(~Exited /\ DogStep)
    /\ WF_vars(~Exited /\ UserKills) /\ WF_vars(~Exited /\ Tick)

-----------------------------------------------------------------------------
(* Properties *)

\* The variables have their types.
TypeOK ==
    /\ now \in Nat /\ plan \in Plans /\ peer \in BOOLEAN
    /\ run.pc \in RunPCs /\ run.i \in 1 .. Len(plan) + 1 /\ run.since \in 0 .. now
    /\ run.moved \in 0 .. Transfer
    /\ run.credit \in 0 .. now /\ run.log \in Seq({"ok", "error"})
    /\ run.checks \subseteq {"hit", "miss", "timeout"}
    /\ {run.canceled, run.failed, stream.closed} \subseteq BOOLEAN
    /\ run.why \in {"none", "end", "deadline", "cancel", "early", "fatal"}
    /\ dog.pc \in {"wait", "kill", "grace", "done", "exit"} /\ dog.wake \in Nat
    /\ user \in {"off", "kill", "done"}
    /\ child.st \in {"none", "up", "dying", "exited", "killed"}
    /\ child.tracked => child.st # "none"
    /\ Payload(stream.recs) \in Seq(UNION {Range(c) : c \in Chunks})
    /\ uart.drain \in {"off", "on", "stop"} /\ uart.heard \in 0 .. MaxHeard
    /\ cursor.index \in Nat /\ cursor.gen \in -1 .. stream.gen
    /\ verdict \in {"none", "ok", "inert", "errors", "canceled"}

\* The incremental search of Stream.contains_bytes answers at every moment what
\* a search of the whole stream would, across record boundaries and evictions.
SearchIsExact ==
    At("expect") => (Scan(stream, cursor).found <=> Occurs(Needle, Payload(stream.recs)))

\* A stream does not change once run_all has sealed it, whatever drain thread
\* is left behind: timeline.log, tail and streams/*.bin show the same bytes.
SealedAtEnd == [][At("ended") => stream' = stream]_vars

\* No session outlives its budget, the hard grace and its credited waits.
HardStop == ~Exited /\ ~At("ended") => now <= Budget + HardGrace + run.credit

\* A cancel that falls between Popen and register_subprocess misses the child;
\* all the same no time passes with the child of a canceled session running.
CanceledChildDies == [][now' > now => ~(run.canceled /\ child.st = "up")]_vars

\* A session leaves no child behind: it is over or has its SIGKILL, and a
\* helper that has not died yet is still where the shutdown path finds it.
NoChildLeft ==
    At("ended") => /\ child.st # "up"
                   /\ child.kind = "boot" /\ child.st = "dying" => child.tracked

\* An artefact that says ok or inert is from a plan of which no op failed and
\* that was left at its end, by end_session, or by its deadline; ok has a hit.
NoFalseOk ==
    verdict \in {"ok", "inert"} =>
        /\ "error" \notin Range(run.log) /\ ~run.failed
        /\ run.why \in {"end", "early", "deadline"}
        /\ run.why = "end" => Len(run.log) = Len(plan)
        /\ verdict = "ok" <=> run.checks = {"hit"}

\* Every session gets its artefact packed or ends with the whole poller, also
\* when an op or a close never returns.
RunSettles == <>(verdict # "none" \/ Exited)

\* session.py:602-606, the watchdog: "a watchdog that ignored them would
\* cancel + os._exit a session that was merely queued behind another job's
\* devices".  It ignores the wait that is still going on.
Waited == run.credit + IF At("late") THEN now - run.since ELSE 0
QueuedNotCanceled ==
    [][dog.pc = "wait" /\ dog'.pc = "kill" => now - Waited >= Budget + SoftGrace]_vars
=============================================================================
