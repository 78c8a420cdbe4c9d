-------------------------- MODULE SessionRunProofs --------------------------
(***************************************************************************)
(* What SessionRun promises for every plan, every budget and grace, and    *)
(* every behaviour of devices, children, users and other sessions.         *)
(***************************************************************************)
EXTENDS SessionRun, SequenceTheorems, WellFoundedInduction, TLAPS

Rows     == {"ok", "error"}
After    == {"closing", "sealing", "ended"}
ChildPCs == {"popen", "arm", "child"}
CallPCs  == {"call", "delay", "bulk", "piece", "expect", "late"}

RunRecord == [pc : RunPCs, i : Nat, since : Nat, moved : Nat, canceled : BOOLEAN,
              credit : Nat, log : Seq(Rows), failed : BOOLEAN,
              checks : SUBSET {"hit", "miss", "timeout"},
              why : {"none", "end", "deadline", "cancel", "early", "fatal"}]

ChildRecord == [st : {"none", "up", "dying", "exited", "killed"},
                kind : {"child", "flash", "boot"}, tracked : BOOLEAN, armed : BOOLEAN]

Types ==
    /\ now \in Nat /\ plan \in Plans /\ run \in RunRecord
    /\ dog \in [pc : {"wait", "kill", "grace", "done", "exit"}, wake : Nat]
    /\ child \in ChildRecord
    /\ DOMAIN stream = {"recs", "gen", "closed"}

\* Every op that is over has its row, and a session that has met an error or
\* a failed check, or was left for a cancel or a failure, has failed.
Told(r) ==
    /\ r.i \in 1 .. Len(plan) + 1
    /\ r.pc \in ChildPCs \cup CallPCs => r.i <= Len(plan)
    /\ r.pc \notin After => Len(r.log) = r.i - 1 /\ r.why = "none"
    /\ r.pc \in After => r.why # "none"
    /\ r.why = "end" => Len(r.log) = Len(plan)
    /\ "error" \in Range(r.log) \/ r.why \in {"cancel", "fatal"} => r.failed
    /\ r.failed \/ r.checks \subseteq {"hit"}

\* How late it can be, by what the watchdog waits for.
Clock ==
    /\ run.since <= now
    /\ dog.pc = "wait"  => now <= dog.wake /\ dog.wake <= Budget + SoftGrace + run.credit
    /\ dog.pc = "kill"  => now <= Budget + SoftGrace + run.credit
    /\ dog.pc = "grace" => now <= dog.wake /\ dog.wake <= Budget + HardGrace + run.credit
    /\ dog.pc = "done"  => At("ended")

\* A child runs only under its op, and a boot helper that is slow to die stays
\* in the table of children.
Children ==
    /\ child.st = "up" => InChildOp
    /\ InChildOp => child.kind = Op
    /\ child.kind = "boot" /\ child.st = "dying" => child.tracked

\* The end: the stream is sealed, and only then there is a verdict.
Over ==
    /\ At("ended") => stream.closed
    /\ verdict # "none" => At("ended")
    /\ verdict \in {"ok", "inert"} =>
           ~run.failed /\ (verdict = "ok" <=> run.checks # {})

SessionInv == Types /\ Told(run) /\ Clock /\ Children /\ Over

-----------------------------------------------------------------------------
\* The constants.
LEMMA Numbers ==
  /\ Budget \in Nat /\ SoftGrace \in Nat /\ HardGrace \in Nat /\ Recheck \in Nat
  /\ Recheck > 0 /\ HardGrace > SoftGrace
  /\ \A p \in Plans : Len(p) \in Nat /\ \A i \in 1 .. Len(p) : p[i] \in Kinds
  BY RunAssumption

\* One more row.
LEMMA LogGrows ==
  ASSUME NEW log \in Seq(Rows), NEW st \in Rows
  PROVE  /\ Append(log, st) \in Seq(Rows) /\ Len(Append(log, st)) = Len(log) + 1
         /\ Range(Append(log, st)) = Range(log) \cup {st}
<1>1. /\ Append(log, st) \in Seq(Rows) /\ Len(Append(log, st)) = Len(log) + 1
      /\ Append(log, st)[Len(log) + 1] = st
      /\ \A i \in 1 .. Len(log) : Append(log, st)[i] = log[i]
      /\ DOMAIN Append(log, st) = 1 .. Len(log) + 1 /\ DOMAIN log = 1 .. Len(log)
      /\ Len(log) \in Nat
  OBVIOUS
<1> DEFINE longer == Append(log, st)
<1> HIDE DEF longer
<1>2. Range(longer) = Range(log) \cup {st}
  BY <1>1 DEF Range, longer
<1> QED BY <1>1, <1>2 DEF longer

\* The op is over: its row is in the log.
LEMMA RowAdded ==
  ASSUME SessionInv, run.pc \notin After, run.i <= Len(plan), NEW st \in Rows
  PROVE  /\ Ended(st) \in RunRecord /\ Told(Ended(st))
         /\ Ended(st).pc = "op" /\ Ended(st).since = 0 /\ Ended(st).credit = run.credit
         /\ st = "error" => Ended(st).failed
<1> DEFINE r == Ended(st)
<1>1. /\ run.log \in Seq(Rows) /\ run \in RunRecord /\ Told(run) /\ run.i \in Nat
      /\ Len(plan) \in Nat
  BY Numbers DEF SessionInv, Types, RunRecord
<1>2. /\ r \in RunRecord /\ r.pc = "op" /\ r.since = 0 /\ r.credit = run.credit
      /\ r.i = run.i + 1 /\ r.log = Append(run.log, st) /\ r.checks = run.checks
      /\ r.why = run.why /\ (r.failed <=> run.failed \/ st = "error")
  <2> DEFINE log    == Append(run.log, st)
             failed == run.failed \/ st = "error"
             begun  == [run EXCEPT !.pc = "op", !.i = run.i + 1, !.since = 0]
  <2>1. log \in Seq(Rows) /\ failed \in BOOLEAN
    BY <1>1
  <2>a. begun \in RunRecord
    <3>1. run \in RunRecord /\ run.i + 1 \in Nat /\ "op" \in RunPCs
      BY <1>1 DEF RunPCs
    <3> QED BY <3>1 DEF RunRecord
  <2>2. /\ begun \in RunRecord /\ begun.pc = "op" /\ begun.since = 0 /\ begun.i = run.i + 1
        /\ begun.credit = run.credit /\ begun.checks = run.checks /\ begun.why = run.why
    BY <1>1, <2>a DEF RunRecord
  <2>3. r = [begun EXCEPT !.moved = 0, !.log = log, !.failed = failed]
    BY <1>1 DEF RunRecord, Ended
  <2> HIDE DEF log, failed, begun, r
  <2>4. r \in RunRecord /\ r.log = log /\ r.failed = failed
    BY <2>1, <2>2, <2>3 DEF RunRecord
  <2>5. /\ r.pc = "op" /\ r.since = 0 /\ r.credit = run.credit /\ r.i = run.i + 1
        /\ r.checks = run.checks /\ r.why = run.why
    BY <2>1, <2>2, <2>3 DEF RunRecord
  <2> QED BY <2>4, <2>5 DEF log, failed
<1> HIDE DEF r
<1>3. Told(r)
  <2>1. /\ Len(r.log) = Len(run.log) + 1 /\ Range(r.log) = Range(run.log) \cup {st}
        /\ Len(run.log) \in Nat
    BY <1>1, <1>2, LogGrows
  <2>2. /\ r.why = "none" /\ r.i \in 1 .. Len(plan) + 1 /\ Len(r.log) = r.i - 1
    BY <1>1, <1>2, <2>1 DEF Told
  <2>3. /\ "error" \in Range(r.log) => r.failed
        /\ r.failed \/ r.checks \subseteq {"hit"}
    BY <1>1, <1>2, <2>1 DEF Told
  <2> QED BY <1>2, <2>2, <2>3 DEF Told, After, ChildPCs, CallPCs
<1> QED BY <1>2, <1>3 DEF r

\* What a step of the plan thread leaves behind, wherever it was before.
Sound(r) == r \in RunRecord /\ Told(r) /\ r.credit >= run.credit /\ r.since <= now

\* The ways an op ends, other than with the end of the plan.
LEMMA OpIsOver ==
  ASSUME SessionInv, run.pc \notin After, run.i <= Len(plan),
         \/ \E st \in Rows : OpEnds(st)
         \/ \E st \in Rows : OpChecks(st, "hit")
         \/ \E hit \in {"miss", "timeout"} : OpChecks("error", hit)
  PROVE  Sound(run') /\ run'.pc = "op"
<1>1. now \in Nat /\ run.credit \in Nat
  BY DEF SessionInv, Types, RunRecord
<1>2. CASE \E st \in Rows : OpEnds(st)
  BY <1>1, <1>2, RowAdded DEF OpEnds, Sound
<1>3. ASSUME NEW st \in Rows, NEW hit \in {"hit", "miss", "timeout"},
             hit = "hit" \/ st = "error", OpChecks(st, hit)
      PROVE  Sound(run') /\ run'.pc = "op"
  <2> DEFINE e == Ended(st)
  <2>1. /\ e \in RunRecord /\ Told(e) /\ e.pc = "op" /\ e.since = 0
        /\ e.credit = run.credit /\ (st = "error" => e.failed)
    BY RowAdded
  <2>2. run' = [e EXCEPT !.checks = @ \cup {hit}]
    BY <1>3 DEF OpChecks
  <2> HIDE DEF e
  <2>3. /\ run' \in RunRecord /\ run'.pc = "op" /\ run'.since = 0
        /\ run'.credit = run.credit /\ run'.checks = e.checks \cup {hit}
        /\ run'.i = e.i /\ run'.log = e.log /\ run'.why = e.why /\ run'.failed = e.failed
    BY <2>1, <2>2 DEF RunRecord
  <2>4. Told(run')
    BY <1>3, <2>1, <2>3 DEF Told, After, ChildPCs, CallPCs
  <2> QED BY <1>1, <2>3, <2>4 DEF Sound
<1> QED BY <1>2, <1>3 DEF Rows

-----------------------------------------------------------------------------
(* What a step has to show *)

\* A step of the plan thread that leaves the clock and the watchdog alone and
\* does right by the child.
LEMMA ThreadKeeps ==
  ASSUME SessionInv, Sound(run'), UNCHANGED <<now, plan, dog, stream, verdict>>,
         run.pc # "ended", run'.pc # "ended", child' \in ChildRecord, Children'
  PROVE  SessionInv'
<1> USE DEF SessionInv, Sound
<1>1. Types' /\ Told(run)'
  BY DEF Types, Told
<1>2. Clock'
  <2>1. /\ now \in Nat /\ run.credit \in Nat /\ run'.credit \in Nat /\ dog.wake \in Nat
        /\ Budget \in Nat /\ SoftGrace \in Nat /\ HardGrace \in Nat
    BY Numbers DEF Types, RunRecord
  <2> QED BY <2>1 DEF Clock, At
<1>3. Over'
  BY DEF Over, At
<1> QED BY <1>1, <1>2, <1>3

\* Outside the ops with a child there is nothing to do for one.
LEMMA PlanThreadKeeps ==
  ASSUME SessionInv, Sound(run'), UNCHANGED <<now, plan, dog, child, stream, verdict>>,
         run.pc \notin ChildPCs \cup {"ended"}, run'.pc \notin ChildPCs \cup {"ended"}
  PROVE  SessionInv'
<1>1. child' \in ChildRecord /\ Children'
  BY DEF SessionInv, Types, Children, InChildOp, ChildPCs
<1> QED BY <1>1, ThreadKeeps

\* The thread goes on within its op,
Shift(pc, since, moved, credit) ==
    run' = [run EXCEPT !.pc = pc, !.since = since, !.moved = moved, !.credit = credit]

\* and an op ends the plan: StopSession and HardFail.
Stop(st, why, more) ==
    run' = [Ended(st) EXCEPT !.checks = @ \cup more, !.pc = "closing", !.why = why]

\* Going on is sound.
LEMMA GoesOnWithin ==
  ASSUME SessionInv, NEW pc \in ChildPCs \cup CallPCs, NEW since \in 0 .. now, NEW moved \in Nat,
         NEW credit \in Nat, credit >= run.credit, run.pc \notin After, run.i <= Len(plan),
         Shift(pc, since, moved, credit)
  PROVE  Sound(run') /\ run'.pc = pc /\ run'.i = run.i
<1>1. run \in RunRecord /\ Told(run) /\ now \in Nat
  BY DEF SessionInv, Types
<1>2. pc \in RunPCs /\ since \in Nat
  BY <1>1 DEF RunPCs, ChildPCs, CallPCs
<1>3. run' \in RunRecord
  BY <1>1, <1>2 DEF RunRecord, Shift
<1>4. /\ run'.pc = pc /\ run'.since = since /\ run'.credit = credit
      /\ run'.i = run.i /\ run'.log = run.log /\ run'.why = run.why
      /\ run'.checks = run.checks
  BY <1>1 DEF RunRecord, Shift
<1>5. run'.failed <=> run.failed
  BY <1>1 DEF RunRecord, Shift
<1> QED BY <1>3, <1>4, <1>5, <1>1, <1>2 DEF Sound, Told, After, ChildPCs, CallPCs

\* ... or leaves its plan.
LEMMA PlanIsLeft ==
  ASSUME SessionInv, run.pc \notin After, NEW why \in {"end", "deadline", "cancel"},
         why = "end" => run.i > Len(plan), NEW failed \in BOOLEAN,
         run.failed \/ why = "cancel" => failed,
         run' = [LeaveBlock(why) EXCEPT !.failed = failed]
  PROVE  Sound(run') /\ run'.pc = "closing"
<1>1. run \in RunRecord /\ Told(run) /\ Clock /\ now \in Nat
  BY DEF SessionInv, Types
<1> DEFINE e == LeaveBlock(why)
<1>2. /\ e \in RunRecord /\ e.pc = "closing" /\ e.why = why /\ e.since = run.since
      /\ e.credit = run.credit /\ e.i = run.i /\ e.log = run.log
      /\ e.failed = run.failed /\ e.checks = run.checks
  BY <1>1 DEF RunRecord, RunPCs, LeaveBlock
<1> HIDE DEF e
<1>3. run' = [e EXCEPT !.failed = failed]
  BY DEF e
<1>4. /\ run' \in RunRecord /\ run'.pc = "closing" /\ run'.why = why /\ run'.since = run.since
      /\ run'.credit = run.credit /\ run'.i = run.i /\ run'.log = run.log
      /\ run'.failed = failed /\ run'.checks = run.checks
  BY <1>2, <1>3 DEF RunRecord
<1>5. run.i \in Nat /\ run.i \in 1 .. Len(plan) + 1 /\ Len(plan) \in Nat /\ run.credit \in Nat
  BY <1>1, Numbers DEF RunRecord, Told, SessionInv, Types
<1>6. Told(run')
  BY <1>1, <1>4, <1>5 DEF Told, After, ChildPCs, CallPCs
<1> QED BY <1>1, <1>4, <1>5, <1>6 DEF Sound, Clock

\* So is the end of the plan by an op.
LEMMA PlanIsStopped ==
  ASSUME SessionInv, run.pc \notin After, run.i <= Len(plan),
         NEW st \in Rows, NEW why \in {"early", "fatal"}, why = "fatal" => st = "error",
         NEW more \in SUBSET {"hit"}, Stop(st, why, more)
  PROVE  Sound(run') /\ run'.pc = "closing"
<1>1. now \in Nat /\ run.credit \in Nat
  BY DEF SessionInv, Types, RunRecord
<1> DEFINE e == Ended(st)
<1>2. /\ e \in RunRecord /\ Told(e) /\ e.pc = "op" /\ e.since = 0
      /\ e.credit = run.credit /\ (st = "error" => e.failed)
  BY RowAdded
<1> HIDE DEF e
<1>3. run' = [e EXCEPT !.checks = @ \cup more, !.pc = "closing", !.why = why]
  BY DEF e, Stop
<1>a. e \in RunRecord
  BY <1>2
<1>b. run' \in RunRecord
  BY <1>a, <1>3 DEF RunRecord, RunPCs
<1>c. /\ run'.pc = "closing" /\ run'.since = e.since /\ run'.credit = e.credit
      /\ run'.checks = e.checks \cup more /\ run'.i = e.i /\ run'.log = e.log
      /\ run'.why = why
  BY <1>a, <1>3 DEF RunRecord
<1>d. run'.failed <=> e.failed
  BY <1>a, <1>3 DEF RunRecord
<1>4. /\ run' \in RunRecord /\ run'.pc = "closing" /\ run'.since = 0
      /\ run'.credit = run.credit /\ run'.checks = e.checks \cup more
      /\ run'.i = e.i /\ run'.log = e.log /\ run'.why = why /\ (run'.failed <=> e.failed)
  BY <1>2, <1>b, <1>c, <1>d
<1>5. Told(run')
  BY <1>2, <1>4 DEF Told, After, ChildPCs, CallPCs
<1> QED BY <1>1, <1>4, <1>5 DEF Sound

-----------------------------------------------------------------------------
(* The plan thread *)

\* An op is under way, and which.
InOp == run.pc \in CallPCs \cup ChildPCs

\* What is known within an op, and before one.
LEMMA OpUnderWay ==
  ASSUME SessionInv, InOp \/ InBlock
  PROVE  /\ run.pc \notin After /\ run.i <= Len(plan) /\ Op \in Kinds
         /\ run \in RunRecord /\ now \in Nat /\ run.since \in 0 .. now
         /\ run.credit \in Nat /\ run.moved \in Nat
<1>1. /\ run \in RunRecord /\ now \in Nat /\ plan \in Plans /\ Told(run) /\ Clock
  BY DEF SessionInv, Types
<1>2. run.pc \notin After /\ run.i <= Len(plan) /\ run.i \in 1 .. Len(plan) + 1
  BY <1>1 DEF InOp, InBlock, At, Told, After, CallPCs, ChildPCs
<1>3. /\ run.since \in Nat /\ run.since <= now /\ run.i \in Nat /\ run.credit \in Nat
      /\ run.moved \in Nat
  BY <1>1 DEF RunRecord, Clock
<1> QED BY <1>1, <1>2, <1>3, Numbers DEF Op

\* Between two ops: the end of the plan, the deadline, a cancel, or the next op.
LEMMA BlockKeeps ==
  ASSUME SessionInv,
         \/ PlanDone \/ OverDeadline \/ SeesCancel \/ CallBegins \/ DelayBegins
         \/ BulkBegins \/ LateBegins \/ ExpectBegins
  PROVE  SessionInv'
<1>0. run \in RunRecord /\ now \in Nat /\ run.moved \in Nat /\ run.credit \in Nat
  BY DEF SessionInv, Types, RunRecord
<1>1. ASSUME NEW pc \in CallPCs, InBlock, Enter(pc),
             UNCHANGED <<now, plan, dog, child, stream, verdict>>
      PROVE  SessionInv'
  <2>1. Shift(pc, now, run.moved, run.credit)
    BY <1>0, <1>1 DEF Enter, RunRecord, Shift
  <2>0. /\ pc \in ChildPCs \cup CallPCs /\ now \in 0 .. now /\ run.credit >= run.credit
        /\ run.pc \notin After /\ run.i <= Len(plan)
    BY <1>0, <1>1, OpUnderWay
  <2>2. Sound(run') /\ run'.pc = pc
    BY <1>0, <2>0, <2>1, GoesOnWithin
  <2> QED BY <1>1, <2>2, PlanThreadKeeps DEF InBlock, At, CallPCs, ChildPCs
<1>2. ASSUME NEW why \in {"end", "deadline", "cancel"}, NEW failed \in BOOLEAN, At("op"), Calm,
             run.failed \/ why = "cancel" => failed, why = "end" => run.i > Len(plan),
             run' = [LeaveBlock(why) EXCEPT !.failed = failed]
      PROVE  SessionInv'
  <2>1. Sound(run') /\ run'.pc = "closing"
    BY <1>2, PlanIsLeft DEF At, After
  <2> QED BY <1>2, <2>1, PlanThreadKeeps DEF At, ChildPCs, Calm, Quiet
<1>3. \A why \in {"end", "deadline", "cancel"} :
          LeaveBlock(why) = [LeaveBlock(why) EXCEPT !.failed = run.failed]
  BY <1>0 DEF LeaveBlock, RunRecord
<1>4. CASE PlanDone
  <2>1. run' = [LeaveBlock("end") EXCEPT !.failed = run.failed]
    BY <1>3, <1>4 DEF PlanDone
  <2>2. run.failed \in BOOLEAN
    BY <1>0 DEF RunRecord
  <2> QED BY <1>2, <1>4, <2>1, <2>2 DEF PlanDone
<1>5. CASE OverDeadline
  <2>1. run' = [LeaveBlock("deadline") EXCEPT !.failed = run.failed]
    BY <1>3, <1>5 DEF OverDeadline
  <2>2. run.failed \in BOOLEAN
    BY <1>0 DEF RunRecord
  <2> QED BY <1>2, <1>5, <2>1, <2>2 DEF OverDeadline, InBlock
<1>6. CASE SeesCancel
  BY <1>2, <1>6 DEF SeesCancel, InBlock
<1>7. CASE CallBegins \/ DelayBegins \/ BulkBegins \/ LateBegins \/ ExpectBegins
  BY <1>1, <1>7 DEF CallBegins, DelayBegins, BulkBegins, LateBegins, ExpectBegins, Begins,
     Calm, Quiet, CallPCs
<1> QED BY <1>4, <1>5, <1>6, <1>7

\* Ops that are no child process.
LEMMA OpsKeep ==
  ASSUME SessionInv,
         \/ CallReturns \/ DelayEnds \/ PieceBegins \/ PieceReturns \/ BulkCanceled
         \/ BulkTimesOut \/ BulkDone \/ LateLocked \/ LateCanceled \/ Listen
         \/ ExpectPolls \/ ExpectHits \/ ExpectTimesOut \/ ExpectCanceled
  PROVE  SessionInv'
<1>0. /\ run \in RunRecord /\ now \in Nat /\ run.moved \in Nat /\ run.credit \in Nat
      /\ run.since \in Nat /\ run.since <= now
  BY DEF SessionInv, Types, RunRecord, Clock
<1>r. ASSUME NEW e \in RunRecord PROVE [e EXCEPT !.checks = @ \cup {}] = e
  BY <1>r DEF RunRecord
\* An op ends, and the next may begin.
<1>1. ASSUME run.pc \in CallPCs \/ InBlock, UNCHANGED <<now, plan, dog, child, stream, verdict>>,
             \/ \E st \in Rows : OpEnds(st)
             \/ \E st \in Rows : OpChecks(st, "hit")
             \/ \E hit \in {"miss", "timeout"} : OpChecks("error", hit)
      PROVE  SessionInv'
  <2>1. run.pc \notin After /\ run.i <= Len(plan)
    BY <1>1, OpUnderWay DEF InOp
  <2>2. Sound(run') /\ run'.pc = "op"
    BY <1>1, <2>1, OpIsOver
  <2> QED BY <1>1, <2>2, PlanThreadKeeps DEF InBlock, At, CallPCs, ChildPCs
\* It goes on.
<1>2. ASSUME run.pc \in CallPCs, UNCHANGED <<now, plan, dog, child, stream, verdict>>,
             NEW pc \in CallPCs, NEW since \in 0 .. now, NEW moved \in Nat,
             NEW credit \in Nat, credit >= run.credit,
             Shift(pc, since, moved, credit)
      PROVE  SessionInv'
  <2>1. run.pc \notin After /\ run.i <= Len(plan)
    BY <1>2, OpUnderWay DEF InOp
  <2>2. Sound(run') /\ run'.pc = pc
    BY <1>2, <2>1, GoesOnWithin
  <2> QED BY <1>2, <2>2, PlanThreadKeeps DEF CallPCs, ChildPCs
\* It ends the plan.
<1>3. ASSUME run.pc \in CallPCs, UNCHANGED <<now, plan, dog, child, stream, verdict>>,
             NEW st \in Rows, NEW why \in {"early", "fatal"}, why = "fatal" => st = "error",
             NEW more \in SUBSET {"hit"},
             Stop(st, why, more)
      PROVE  SessionInv'
  <2>1. run.pc \notin After /\ run.i <= Len(plan)
    BY <1>3, OpUnderWay DEF InOp
  <2>2. Sound(run') /\ run'.pc = "closing"
    BY <1>3, <2>1, PlanIsStopped
  <2> QED BY <1>3, <2>2, PlanThreadKeeps DEF CallPCs, ChildPCs
<1>4. CASE CallReturns
  <2>0. run.pc \in CallPCs /\ UNCHANGED <<now, plan, dog, child, stream, verdict>>
    BY <1>4 DEF CallReturns, At, CallPCs, Calm, Quiet
  <2>1. CASE Fails
    <3>1. Ended("error") \in RunRecord
      BY <2>0, OpUnderWay, RowAdded DEF InOp, Rows
    <3>2. Stop("error", "fatal", {})
      <4> DEFINE e == Ended("error")
      <4>1. run' = [e EXCEPT !.pc = "closing", !.why = "fatal"]
        BY <2>1 DEF Fails, PlanStops
      <4> HIDE DEF e
      <4>2. e \in RunRecord
        BY <3>1 DEF e
      <4>3. run' = [e EXCEPT !.checks = @ \cup {}, !.pc = "closing", !.why = "fatal"]
        BY <4>1, <4>2 DEF RunRecord
      <4> QED BY <4>3 DEF e, Stop
    <3>3. "error" \in Rows /\ {} \in SUBSET {"hit"}
      BY DEF Rows
    <3> QED BY <1>3, <2>0, <3>2, <3>3
  <2>2. CASE OpEnds("ok") \/ OpChecks("ok", "hit") \/ OpEnds("error")
    BY <1>1, <2>0, <2>2 DEF Rows
  <2> QED BY <1>4, <2>1, <2>2 DEF CallReturns
<1>5. CASE DelayEnds \/ BulkCanceled \/ BulkTimesOut \/ BulkDone \/ LateCanceled
  <2>1. run.pc \in CallPCs /\ UNCHANGED <<now, plan, dog, child, stream, verdict>>
    BY <1>5 DEF DelayEnds, DelayOver, BulkCanceled, BulkTimesOut, BulkDone, LateCanceled, At,
       CallPCs, Calm, Quiet
  <2>2. \/ \E st \in Rows : OpEnds(st)
        \/ \E st \in Rows : OpChecks(st, "hit")
        \/ \E hit \in {"miss", "timeout"} : OpChecks("error", hit)
    BY <1>5 DEF DelayEnds, BulkCanceled, BulkTimesOut, BulkDone, LateCanceled, Rows
  <2> QED BY <1>1, <2>1, <2>2
<1>6. CASE PieceBegins
  <2>1. Shift("piece", run.since, run.moved, run.credit)
    BY <1>0, <1>6 DEF PieceBegins, RunRecord, Shift
  <2>2. run.pc \in CallPCs /\ UNCHANGED <<now, plan, dog, child, stream, verdict>>
    BY <1>6 DEF PieceBegins, At, CallPCs, Calm, Quiet
  <2>3. "piece" \in CallPCs /\ run.since \in 0 .. now /\ run.credit >= run.credit
    BY <1>0 DEF CallPCs
  <2> QED BY <1>0, <1>2, <2>1, <2>2, <2>3
<1>7. CASE PieceReturns
  <2>0. run.pc \in CallPCs /\ UNCHANGED <<now, plan, dog, child, stream, verdict>>
    BY <1>7 DEF PieceReturns, At, CallPCs, Calm, Quiet
  <2>1. CASE OpEnds("error")
    BY <1>1, <2>0, <2>1 DEF Rows
  <2>2. CASE run' = [run EXCEPT !.pc = "bulk", !.moved = @ + 1]
    <3>1. Shift("bulk", run.since, run.moved + 1, run.credit)
      BY <1>0, <2>2 DEF RunRecord, Shift
    <3>2. /\ "bulk" \in CallPCs /\ run.since \in 0 .. now /\ run.credit >= run.credit
          /\ run.moved + 1 \in Nat
      BY <1>0 DEF CallPCs
    <3> QED BY <1>0, <1>2, <2>0, <3>1, <3>2
  <2> QED BY <1>7, <2>1, <2>2 DEF PieceReturns
<1>8. CASE LateLocked
  <2>1. Shift("call", 0, run.moved, run.credit + (now - run.since))
    BY <1>0, <1>8 DEF LateLocked, RunRecord, Shift
  <2>2. /\ run.credit + (now - run.since) \in Nat
        /\ run.credit + (now - run.since) >= run.credit
        /\ "call" \in CallPCs /\ 0 \in 0 .. now
    BY <1>0 DEF CallPCs
  <2>3. run.pc \in CallPCs /\ UNCHANGED <<now, plan, dog, child, stream, verdict>>
    BY <1>8 DEF LateLocked, At, CallPCs, Calm, Quiet
  <2> QED BY <1>0, <1>2, <2>1, <2>2, <2>3
<1>9. CASE Listen
  BY <1>1, <1>9 DEF Listen, Begins, Rows
<1>10. CASE ExpectPolls
  <2>1. run' = run
    BY <1>10 DEF ExpectPolls
  <2>2. Sound(run')
    BY <1>0, <2>1 DEF Sound, SessionInv
  <2> QED BY <1>10, <2>1, <2>2, PlanThreadKeeps DEF ExpectPolls, Polling, At, ChildPCs, Quiet
<1>11. CASE ExpectHits
  <2>0. run.pc \in CallPCs /\ UNCHANGED <<now, plan, dog, child, stream, verdict>>
    BY <1>11 DEF ExpectHits, Polling, At, CallPCs, Quiet
  <2>1. CASE Op = "until"
    BY <1>3, <1>11, <2>0, <2>1 DEF ExpectHits, Rows, Stop
  <2>2. CASE Op # "until"
    BY <1>1, <1>11, <2>0, <2>2 DEF ExpectHits, Rows
  <2> QED BY <2>1, <2>2
<1>12. CASE ExpectTimesOut \/ ExpectCanceled
  BY <1>1, <1>12 DEF ExpectTimesOut, ExpectCanceled, At, CallPCs, Quiet, Rows
<1> QED BY <1>4, <1>5, <1>6, <1>7, <1>8, <1>9, <1>10, <1>11, <1>12

-----------------------------------------------------------------------------
(* The child process *)

\* No child is left up by the end of its op, and a boot helper that is slow to
\* die stays in the table.
LEMMA Dropped ==
  ASSUME NEW tracked \in BOOLEAN, child \in ChildRecord, Drop(tracked),
         child.kind = "boot" => tracked
  PROVE  /\ child' \in ChildRecord /\ child'.st # "up"
         /\ child'.kind = "boot" /\ child'.st = "dying" => child'.tracked
<1>1. PICK st \in {"none", "dying", "exited", "killed"} :
         child' = [child EXCEPT !.st = st, !.tracked = tracked /\ st = "dying"]
  BY DEF Drop, ChildRecord
<1> QED BY <1>1 DEF ChildRecord

\* The steps of an op with a child.
LEMMA ChildOpsKeep ==
  ASSUME SessionInv,
         Popen \/ Track \/ Arm \/ ChildDone \/ ChildCanceled \/ ChildTimesOut
  PROVE  SessionInv'
<1>0. /\ run \in RunRecord /\ now \in Nat /\ run.moved \in Nat /\ run.credit \in Nat
      /\ run.since \in Nat /\ run.since <= now /\ child \in ChildRecord /\ Children
  BY DEF SessionInv, Types, RunRecord, Clock
\* The op is over.
<1>1. ASSUME run.pc \in ChildPCs, Quiet, UNCHANGED stream, NEW st \in Rows, OpEnds(st),
             child' \in ChildRecord, child'.st # "up",
             child'.kind = "boot" /\ child'.st = "dying" => child'.tracked
      PROVE  SessionInv'
  <2>1. run.pc \notin After /\ run.i <= Len(plan)
    BY <1>1, OpUnderWay DEF InOp
  <2>2. Sound(run') /\ run'.pc = "op"
    BY <1>1, <2>1, OpIsOver
  <2>3. Children'
    BY <1>1, <2>2 DEF Children, InChildOp
  <2> QED BY <1>1, <2>2, <2>3, ThreadKeeps DEF Quiet, ChildPCs
\* It is under way.
<1>2. ASSUME run.pc \notin After, run.i <= Len(plan), Quiet, UNCHANGED stream,
             NEW pc \in ChildPCs, NEW since \in 0 .. now,
             Shift(pc, since, run.moved, run.credit),
             child' \in ChildRecord, child'.kind = Op,
             child'.kind = "boot" /\ child'.st = "dying" => child'.tracked
      PROVE  SessionInv'
  <2>1. Sound(run') /\ run'.pc = pc /\ run'.i = run.i
    <3>1. pc \in ChildPCs \cup CallPCs /\ run.credit >= run.credit
      BY <1>0
    <3> QED BY <1>0, <1>2, <3>1, GoesOnWithin
  <2>2. Op' = Op
    BY <1>2, <2>1 DEF Op, Quiet
  <2>3. Children'
    BY <1>2, <2>1, <2>2 DEF Children, InChildOp, ChildPCs
  <2> QED BY <1>2, <2>1, <2>3, ThreadKeeps DEF Quiet, ChildPCs, After
<1>4. CASE Popen
  <2>1. /\ run.pc \notin After /\ run.i <= Len(plan) /\ Op \in {"child", "flash", "boot"}
    BY <1>4, OpUnderWay DEF Popen, Begins
  <2>2. PICK pc \in ChildPCs : run' = [run EXCEPT !.pc = pc, !.since = now]
    BY <1>4 DEF Popen, Enter, ChildPCs
  <2>3. child' \in ChildRecord /\ child'.kind = Op /\ child'.st = "up"
    BY <1>4, <2>1 DEF Popen, ChildRecord
  <2>4. Shift(pc, now, run.moved, run.credit) /\ now \in 0 .. now
    <3>1. run \in RunRecord
      BY <1>0
    <3>2. Shift(pc, now, run.moved, run.credit)
      BY <2>2, <3>1 DEF RunRecord, Shift
    <3> QED BY <1>0, <3>2
  <2> QED BY <1>2, <1>4, <2>1, <2>3, <2>4 DEF Popen
<1>5. ASSUME run.pc \in ChildPCs, Quiet, UNCHANGED stream, NEW pc \in ChildPCs,
             run' = [run EXCEPT !.pc = pc], child' \in ChildRecord,
             child'.kind = child.kind, child'.st = child.st, child.tracked => child'.tracked
      PROVE  SessionInv'
  <2>1. run.pc \notin After /\ run.i <= Len(plan) /\ child.kind = Op
    BY <1>0, <1>5, OpUnderWay DEF InOp, Children, InChildOp, ChildPCs
  <2>2. Shift(pc, run.since, run.moved, run.credit) /\ run.since \in 0 .. now
    <3>1. run \in RunRecord /\ run' = [run EXCEPT !.pc = pc]
      BY <1>0, <1>5
    <3>2. Shift(pc, run.since, run.moved, run.credit)
      BY <3>1 DEF RunRecord, Shift
    <3> QED BY <1>0, <3>2
  <2>3. child'.kind = "boot" /\ child'.st = "dying" => child'.tracked
    BY <1>0, <1>5 DEF Children
  <2> QED BY <1>2, <1>5, <2>1, <2>2, <2>3
<1>6. CASE Track
  BY <1>0, <1>5, <1>6 DEF Track, At, ChildPCs, ChildRecord
<1>7. CASE Arm
  <2>1. CASE run.canceled
    <3>1. OpEnds("error") /\ Drop(TRUE) /\ At("arm") /\ Quiet /\ UNCHANGED stream
      BY <1>7, <2>1 DEF Arm
    <3> QED BY <1>0, <1>1, <3>1, Dropped DEF At, ChildPCs, Rows
  <2>2. CASE ~run.canceled
    BY <1>0, <1>5, <1>7, <2>2 DEF Arm, At, ChildPCs, ChildRecord
  <2> QED BY <2>1, <2>2
<1>8. CASE ChildDone
  <2>1. PICK st \in Rows : OpEnds(st)
    BY <1>8 DEF ChildDone, Rows
  <2>2. child' \in ChildRecord /\ child'.st \in {"exited", "killed"}
    BY <1>0, <1>8 DEF ChildDone, ChildRecord
  <2> QED BY <1>1, <1>8, <2>1, <2>2 DEF ChildDone, At, ChildPCs
<1>9. CASE ChildCanceled \/ ChildTimesOut
  <2>1. /\ run.pc \in ChildPCs /\ OpEnds("error") /\ Drop(Op = "boot") /\ Quiet
        /\ UNCHANGED stream /\ InChildOp
    BY <1>9 DEF ChildCanceled, ChildTimesOut, SeenByLoop, At, ChildPCs, InChildOp
  <2>2. /\ child' \in ChildRecord /\ child'.st # "up"
        /\ child'.kind = "boot" /\ child'.st = "dying" => child'.tracked
    BY <1>0, <2>1, Dropped DEF Children
  <2> QED BY <1>1, <2>1, <2>2 DEF Rows
<1> QED BY <1>4, <1>6, <1>7, <1>8, <1>9

-----------------------------------------------------------------------------
(* The other threads *)

\* A step that leaves plan thread and clock alone and does right by the child.
LEMMA OthersKeep ==
  ASSUME SessionInv, UNCHANGED <<now, plan, run, verdict>>,
         child' \in ChildRecord, child'.kind = child.kind,
         child'.st = "up" => child.st = "up",
         child'.kind = "boot" /\ child'.st = "dying" => child'.tracked,
         DOMAIN stream' = DOMAIN stream, stream'.closed = stream.closed,
         dog' = dog
  PROVE  SessionInv'
<1> USE DEF SessionInv
<1>1. Types' /\ Told(run)'
  BY DEF Types, Told
<1>2. Clock'
  BY DEF Clock, At
<1>3. Children'
  BY DEF Children, InChildOp, At, Op
<1>4. Over'
  BY DEF Over, At
<1> QED BY <1>1, <1>2, <1>3, <1>4

\* Children go, a user's cancel kills them, another session ends, bytes come.
LEMMA OutsideKeeps ==
  ASSUME SessionInv,
         \/ ChildExits \/ ChildDies \/ UserKills \/ PeerEnds
         \/ \E data \in Chunks : DrainReads(data)
  PROVE  SessionInv'
<1>0. child \in ChildRecord /\ Children /\ DOMAIN stream = {"recs", "gen", "closed"}
  BY DEF SessionInv, Types
<1>1. CASE ChildExits \/ ChildDies
  BY <1>0, <1>1, OthersKeep DEF ChildExits, ChildDies, ChildRecord
<1>2. CASE UserKills
  BY <1>0, <1>2, OthersKeep DEF UserKills, KillTracked, ChildRecord, Children
<1>3. CASE PeerEnds
  BY <1>0, <1>3, OthersKeep DEF PeerEnds, Children
<1>4. ASSUME NEW data \in Chunks, DrainReads(data) PROVE SessionInv'
  <2>1. \E recs, gen : stream' = stream \/ stream' = [stream EXCEPT !.recs = recs, !.gen = gen]
    BY <1>4 DEF DrainReads, StreamAppend
  <2>2. DOMAIN stream' = DOMAIN stream /\ stream'.closed = stream.closed
    BY <1>0, <2>1
  <2> QED BY <1>0, <1>4, <2>2, OthersKeep DEF DrainReads, Children
<1> QED BY <1>1, <1>2, <1>3, <1>4

\* cancel_event is set.
LEMMA Flagged ==
  ASSUME SessionInv, Flag, UNCHANGED <<now, plan>>
  PROVE  /\ run' \in RunRecord /\ Told(run)' /\ run'.pc = run.pc /\ run'.i = run.i
         /\ run'.since = run.since /\ run'.credit = run.credit
         /\ run'.failed = run.failed /\ run'.checks = run.checks
<1>1. run \in RunRecord /\ Told(run)
  BY DEF SessionInv, Types
<1>2. /\ run' \in RunRecord /\ run'.pc = run.pc /\ run'.i = run.i /\ run'.log = run.log
      /\ run'.since = run.since /\ run'.credit = run.credit /\ run'.why = run.why
      /\ run'.failed = run.failed /\ run'.checks = run.checks
  BY <1>1 DEF Flag, RunRecord
<1> QED BY <1>1, <1>2 DEF Told

\* A cancel by the user.
LEMMA UserKeeps ==
  ASSUME SessionInv, UserCancels
  PROVE  SessionInv'
<1> USE DEF SessionInv
<1>1. /\ Flag /\ UNCHANGED <<now, plan, dog, child, stream, verdict>>
  BY DEF UserCancels
<1>2. /\ run' \in RunRecord /\ Told(run)' /\ run'.pc = run.pc /\ run'.i = run.i
      /\ run'.since = run.since /\ run'.credit = run.credit
      /\ run'.failed = run.failed /\ run'.checks = run.checks
  BY <1>1, Flagged
<1>3. Types'
  BY <1>1, <1>2 DEF Types
<1>4. Clock' /\ Over'
  BY <1>1, <1>2 DEF Clock, Over, At
<1>5. Children'
  BY <1>1, <1>2 DEF Children, InChildOp, Op
<1> QED BY <1>2, <1>3, <1>4, <1>5

\* The watchdog.
LEMMA DogKeeps ==
  ASSUME SessionInv, DogStep
  PROVE  SessionInv'
<1> USE DEF SessionInv
<1>0. /\ now \in Nat /\ run \in RunRecord /\ run.credit \in Nat /\ child \in ChildRecord
      /\ dog \in [pc : {"wait", "kill", "grace", "done", "exit"}, wake : Nat]
      /\ Budget \in Nat /\ SoftGrace \in Nat /\ HardGrace \in Nat /\ Recheck \in Nat
      /\ HardGrace > SoftGrace
  BY Numbers DEF Types, RunRecord
\* It only counts.
<1>1. ASSUME UNCHANGED <<now, plan, run, child, stream, verdict>>, Clock',
             dog' \in [pc : {"wait", "kill", "grace", "done", "exit"}, wake : Nat]
      PROVE  SessionInv'
  <2>1. Types' /\ Told(run)'
    BY <1>1 DEF Types, Told
  <2>2. Children' /\ Over'
    BY <1>1 DEF Children, InChildOp, Op, Over, At
  <2> QED BY <1>1, <2>1, <2>2
<1>2. CASE DogSleeps
  <2>1. /\ Left \in Nat \ {0} /\ Least(Left, Recheck) \in Nat
        /\ now + Least(Left, Recheck) <= Budget + SoftGrace + run.credit
    BY <1>0, <1>2 DEF DogSleeps, Left, Least
  <2>2. dog' = [dog EXCEPT !.wake = now + Least(Left, Recheck)] /\ dog.pc = "wait"
    BY <1>2 DEF DogSleeps
  <2>3. /\ dog' \in [pc : {"wait", "kill", "grace", "done", "exit"}, wake : Nat]
        /\ dog'.pc = "wait" /\ dog'.wake = now + Least(Left, Recheck)
    BY <1>0, <2>1, <2>2
  <2>4. Clock'
    BY <1>0, <1>2, <2>1, <2>3 DEF DogSleeps, Clock
  <2> QED BY <1>1, <1>2, <2>3, <2>4 DEF DogSleeps
<1>3. CASE DogCancels
  <2>1. /\ Flag /\ UNCHANGED <<now, plan, child, stream, verdict>> /\ dog.pc = "wait"
        /\ dog' = [dog EXCEPT !.pc = "kill"]
    BY <1>3 DEF DogCancels
  <2>2. /\ run' \in RunRecord /\ Told(run)' /\ run'.pc = run.pc /\ run'.i = run.i
        /\ run'.since = run.since /\ run'.credit = run.credit
        /\ run'.failed = run.failed /\ run'.checks = run.checks
    BY <2>1, Flagged
  <2>3. /\ dog' \in [pc : {"wait", "kill", "grace", "done", "exit"}, wake : Nat]
        /\ dog'.pc = "kill"
    BY <1>0, <2>1
  <2>4. Types'
    BY <2>1, <2>2, <2>3 DEF Types
  <2>5. Clock'
    BY <1>0, <2>1, <2>2, <2>3 DEF Clock, At
  <2>6. Children' /\ Over'
    BY <2>1, <2>2 DEF Children, InChildOp, Op, Over, At
  <2> QED BY <2>2, <2>4, <2>5, <2>6
<1>4. CASE DogKills
  <2>1. /\ dog' = [pc |-> "grace", wake |-> now + HardGrace - SoftGrace] /\ dog.pc = "kill"
        /\ KillTracked /\ UNCHANGED <<now, plan, run, stream, verdict>>
    BY <1>4 DEF DogKills
  <2>2. /\ dog' \in [pc : {"wait", "kill", "grace", "done", "exit"}, wake : Nat]
        /\ dog'.pc = "grace" /\ dog'.wake = now + HardGrace - SoftGrace
    <3>1. now + HardGrace - SoftGrace \in Nat
      BY <1>0
    <3> QED BY <2>1, <3>1
  <2>3. /\ child' \in ChildRecord /\ child'.kind = child.kind
        /\ child'.st = "up" => child.st = "up"
        /\ child'.kind = "boot" /\ child'.st = "dying" => child'.tracked
    BY <1>0, <2>1 DEF KillTracked, ChildRecord, Children
  <2>4. Types' /\ Told(run)'
    BY <2>1, <2>2, <2>3 DEF Types, Told
  <2>5. Clock'
    BY <1>0, <2>1, <2>2 DEF Clock, At
  <2>6. Children' /\ Over'
    BY <2>1, <2>3 DEF Children, InChildOp, Op, Over, At
  <2> QED BY <2>4, <2>5, <2>6
<1>5. CASE DogExits
  <2>1. /\ dog' \in [pc : {"wait", "kill", "grace", "done", "exit"}, wake : Nat]
        /\ dog'.pc = "exit"
    BY <1>0, <1>5 DEF DogExits
  <2> QED BY <1>1, <1>5, <2>1 DEF DogExits, Clock, At
<1>6. CASE DogDone
  <2>1. /\ dog' \in [pc : {"wait", "kill", "grace", "done", "exit"}, wake : Nat]
        /\ dog'.pc = "done"
    BY <1>0, <1>6 DEF DogDone
  <2> QED BY <1>1, <1>6, <2>1 DEF DogDone, Clock, At
<1> QED BY <1>2, <1>3, <1>4, <1>5, <1>6 DEF DogStep

-----------------------------------------------------------------------------
(* The end, and time *)

\* Handles, seal, verdict.
LEMMA EndKeeps ==
  ASSUME SessionInv, HandlesClosed \/ Seal \/ Pack
  PROVE  SessionInv'
<1> USE DEF SessionInv
<1>0. run \in RunRecord /\ Told(run) /\ DOMAIN stream = {"recs", "gen", "closed"}
  BY DEF Types
<1>1. ASSUME NEW pc \in {"sealing", "ended"}, run.pc \in {"closing", "sealing"},
             run' = [run EXCEPT !.pc = pc], UNCHANGED <<now, plan, dog, child, verdict>>,
             DOMAIN stream' = DOMAIN stream, pc = "ended" => stream'.closed
      PROVE  SessionInv'
  <2>1. run' \in RunRecord
    BY <1>0, <1>1 DEF RunRecord, RunPCs
  <2>2. /\ run'.pc = pc /\ run'.i = run.i /\ run'.since = run.since /\ run'.credit = run.credit
        /\ run'.log = run.log /\ run'.checks = run.checks /\ run'.why = run.why
    BY <1>0, <1>1 DEF RunRecord
  <2>3. run'.failed <=> run.failed
    BY <1>0, <1>1 DEF RunRecord
  <2>4. Types' /\ Told(run)'
    BY <1>0, <1>1, <2>1, <2>2, <2>3 DEF Types, Told, After, ChildPCs, CallPCs
  <2>5. Clock' /\ Children' /\ Over'
    BY <1>1, <2>2 DEF Clock, Children, InChildOp, Over, At
  <2> QED BY <2>4, <2>5
<1>2. CASE HandlesClosed
  BY <1>1, <1>2 DEF HandlesClosed, At
<1>3. CASE Seal
  <2>1. stream' = [stream EXCEPT !.closed = TRUE]
    BY <1>3 DEF Seal
  <2>2. DOMAIN stream' = DOMAIN stream /\ stream'.closed
    BY <1>0, <2>1
  <2> QED BY <1>1, <1>3, <2>2 DEF Seal, At, Quiet
<1>4. CASE Pack
  <2>1. /\ UNCHANGED <<now, plan, run, dog, child, stream>> /\ At("ended") /\ verdict' = Status
    BY <1>4 DEF Pack
  <2>2. verdict' \in {"ok", "inert"} =>
            ~run.failed /\ (verdict' = "ok" <=> run.checks # {})
    BY <2>1 DEF Status
  <2>3. Over'
    BY <2>1, <2>2 DEF Over, At
  <2> QED BY <2>1, <2>3 DEF Types, Told, Clock, Children, InChildOp, Op, At
<1> QED BY <1>2, <1>3, <1>4

\* No time passes while somebody has something to do.
LEMMA TickKeeps ==
  ASSUME SessionInv, Tick
  PROVE  SessionInv'
<1> USE DEF SessionInv
<1>0. /\ now \in Nat /\ run.since \in Nat /\ run.credit \in Nat /\ dog.wake \in Nat
      /\ Budget \in Nat /\ SoftGrace \in Nat /\ HardGrace \in Nat
  BY Numbers DEF Types, RunRecord
<1>1. /\ now' = now + 1 /\ UNCHANGED <<plan, run, dog, child, stream, verdict>>
      /\ dog.pc # "kill" /\ (dog.pc \in {"wait", "grace"} => ~(now >= dog.wake))
  BY DEF Tick, DogBusy
<1>2. Types' /\ Told(run)'
  BY <1>0, <1>1 DEF Types, Told
<1>3. Clock'
  BY <1>0, <1>1 DEF Clock, At
<1>4. Children' /\ Over'
  BY <1>1 DEF Children, InChildOp, Op, Over, At
<1> QED BY <1>2, <1>3, <1>4

\* All steps.
LEMMA NextKeepsSession ==
  ASSUME SessionInv, [Next]_vars
  PROVE  SessionInv'
<1>1. CASE UNCHANGED vars
  BY <1>1 DEF vars, SessionInv, Types, Told, Clock, Children, InChildOp, Op, Over, At
<1>2. CASE PlanStep
  BY <1>2, BlockKeeps, OpsKeep, ChildOpsKeep, EndKeeps DEF PlanStep
<1>3. CASE DogStep
  BY <1>3, DogKeeps
<1>4. CASE UserKills \/ Elsewhere
  BY <1>4, OpsKeep, EndKeeps, UserKeeps, OutsideKeeps DEF Elsewhere
<1>5. CASE Tick
  BY <1>5, TickKeeps
<1> QED BY <1>1, <1>2, <1>3, <1>4, <1>5 DEF Next

\* The invariant of a session.
THEOREM SessionInvariant == Spec => []SessionInv
<1>1. Init => SessionInv
  <2> SUFFICES ASSUME Init PROVE SessionInv
    OBVIOUS
  <2>1. /\ now = 0 /\ plan \in Plans /\ verdict = "none" /\ child = NoChild
        /\ stream = [recs |-> <<>>, gen |-> 0, closed |-> FALSE]
        /\ dog = [pc |-> "wait", wake |-> Least(Budget + SoftGrace, Recheck)]
        /\ run = [pc |-> "op", i |-> 1, since |-> 0, moved |-> 0, canceled |-> FALSE,
                  credit |-> 0, log |-> <<>>, failed |-> FALSE, checks |-> {}, why |-> "none"]
    BY DEF Init
  <2>2. /\ Least(Budget + SoftGrace, Recheck) \in Nat
        /\ Least(Budget + SoftGrace, Recheck) <= Budget + SoftGrace
    BY Numbers DEF Least
  <2>3. run \in RunRecord
    BY <2>1 DEF RunRecord, RunPCs
  <2>4. Types
    BY <2>1, <2>2, <2>3 DEF Types, ChildRecord, NoChild
  <2>5. Told(run)
    <3>1. Len(plan) \in Nat
      BY <2>1, Numbers
    <3>2. Range(run.log) = {}
      BY <2>1 DEF Range
    <3> QED BY <2>1, <3>1, <3>2 DEF Told, After, ChildPCs, CallPCs
  <2>6. Clock
    BY <2>1, <2>2, Numbers DEF Clock
  <2>7. Children /\ Over
    BY <2>1 DEF Children, InChildOp, Over, At, NoChild
  <2> QED BY <2>4, <2>5, <2>6, <2>7 DEF SessionInv
<1>2. SessionInv /\ [Next]_vars => SessionInv'
  BY NextKeepsSession
<1> QED BY <1>1, <1>2, PTL DEF Spec

\* HardStop: no session outlives its budget, the hard grace and its credited waits.
THEOREM SessionsStop == Spec => []HardStop
<1>1. SessionInv => HardStop
  <2> SUFFICES ASSUME SessionInv, ~Exited, ~At("ended")
               PROVE  now <= Budget + HardGrace + run.credit
    BY DEF HardStop
  <2>1. /\ now \in Nat /\ run.credit \in Nat /\ dog.wake \in Nat /\ Budget \in Nat
        /\ SoftGrace \in Nat /\ HardGrace \in Nat /\ HardGrace > SoftGrace
        /\ dog.pc \in {"wait", "kill", "grace", "done", "exit"} /\ Clock
    BY Numbers DEF SessionInv, Types, RunRecord
  <2> QED BY <2>1 DEF Clock, Exited
<1> QED BY <1>1, SessionInvariant, PTL

\* NoChildLeft: a session leaves no child process running.
THEOREM ChildrenGo == Spec => []NoChildLeft
<1>1. SessionInv => NoChildLeft
  BY DEF SessionInv, Children, InChildOp, At, NoChildLeft
<1> QED BY <1>1, SessionInvariant, PTL

\* NoFalseOk: an artefact that says ok or inert tells the truth.
THEOREM VerdictsAreTrue == Spec => []NoFalseOk
<1>1. SessionInv => NoFalseOk
  <2> SUFFICES ASSUME SessionInv, verdict \in {"ok", "inert"}
               PROVE  /\ "error" \notin Range(run.log) /\ ~run.failed
                      /\ run.why \in {"end", "early", "deadline"}
                      /\ run.why = "end" => Len(run.log) = Len(plan)
                      /\ verdict = "ok" <=> run.checks = {"hit"}
    BY DEF NoFalseOk
  <2>1. At("ended") /\ ~run.failed /\ (verdict = "ok" <=> run.checks # {})
    BY DEF SessionInv, Over
  <2>2. run.pc \in After
    BY <2>1 DEF At, After
  <2>3. run.why \in {"none", "end", "deadline", "cancel", "early", "fatal"} /\ Told(run)
    BY DEF SessionInv, Types, RunRecord
  <2> QED BY <2>1, <2>2, <2>3 DEF Told
<1> QED BY <1>1, SessionInvariant, PTL

\* SealedAtEnd: a stream does not change after run_all.
THEOREM StreamsStaySealed == Spec => SealedAtEnd
<1>1. ASSUME SessionInv, [Next]_vars, At("ended") PROVE stream' = stream
  <2>0. stream.closed
    BY <1>1 DEF SessionInv, Over
  <2>1. CASE UNCHANGED vars
    BY <2>1 DEF vars
  <2>2. CASE PlanStep
    BY <1>1, <2>2 DEF PlanStep, PlanDone, OverDeadline, SeesCancel, CallBegins, DelayBegins,
       DelayEnds, BulkBegins, PieceBegins, BulkCanceled, BulkTimesOut, BulkDone, LateBegins,
       LateLocked, LateCanceled, Listen, ExpectBegins, ExpectPolls, ExpectHits, ExpectTimesOut,
       ExpectCanceled, Popen, Track, Arm, ChildDone, ChildCanceled, ChildTimesOut, Seal, Pack,
       Calm, Quiet, At, Begins, InBlock
  <2>3. CASE DogStep
    BY <2>3 DEF DogStep, DogSleeps, DogCancels, DogKills, DogExits, DogDone
  <2>4. CASE UserKills \/ Elsewhere
    BY <2>0, <2>4 DEF Elsewhere, UserKills, CallReturns, PieceReturns, HandlesClosed,
       UserCancels, PeerEnds, ChildExits, ChildDies, DrainReads, StreamAppend, Calm
  <2>5. CASE Tick
    BY <2>5 DEF Tick
  <2> QED BY <1>1, <2>1, <2>2, <2>3, <2>4, <2>5 DEF Next
<1> QED BY <1>1, SessionInvariant, PTL DEF Spec, SealedAtEnd

\* CanceledChildDies: no time passes with the child of a canceled session up.
THEOREM CancelsReachChildren == Spec => CanceledChildDies
<1>1. ASSUME SessionInv, [Next]_vars, now' > now PROVE ~(run.canceled /\ child.st = "up")
  <2>0. now \in Nat /\ ~(now > now)
    BY <1>1 DEF SessionInv, Types
  <2>1. CASE Tick
    BY <1>1, <2>1 DEF SessionInv, Children, InChildOp, At, Tick, PlanThreadBusy, SeenByLoop
  <2>2. CASE UNCHANGED vars
    BY <1>1, <2>0, <2>2 DEF vars
  <2>3. CASE PlanStep
    <3>1. UNCHANGED now
      BY <2>3 DEF PlanStep, PlanDone, OverDeadline, SeesCancel, CallBegins, DelayBegins,
         DelayEnds, BulkBegins, PieceBegins, BulkCanceled, BulkTimesOut, BulkDone, LateBegins,
         LateLocked, LateCanceled, Listen, ExpectBegins, ExpectPolls, ExpectHits,
         ExpectTimesOut, ExpectCanceled, Popen, Track, Arm, ChildDone, ChildCanceled,
         ChildTimesOut, Seal, Pack, Calm, Quiet
    <3> QED BY <1>1, <2>0, <3>1
  <2>4. CASE DogStep \/ UserKills \/ Elsewhere
    <3>1. UNCHANGED now
      BY <2>4 DEF DogStep, DogSleeps, DogCancels, DogKills, DogExits, DogDone, Elsewhere,
         UserKills, CallReturns, PieceReturns, HandlesClosed, UserCancels, PeerEnds,
         ChildExits, ChildDies, DrainReads, Calm, Quiet
    <3> QED BY <1>1, <2>0, <3>1
  <2> QED BY <1>1, <2>1, <2>2, <2>3, <2>4 DEF Next
<1> QED BY <1>1, SessionInvariant, PTL DEF Spec, CanceledChildDies

-----------------------------------------------------------------------------
(* Loops over records *)

\* A set of numbers has a least one.
LEMMA LeastNat ==
  ASSUME NEW T \in SUBSET Nat, T # {}
  PROVE  \E n \in T : \A m \in T : n <= m
<1>1. PICK n \in T : \A m \in T : <<m, n>> \notin OpToRel(<, Nat)
  BY NatLessThanWellFounded, WFMin, Zenon
<1>2. \A m \in T : m < n => <<m, n>> \in OpToRel(<, Nat)
  BY DEF OpToRel
<1>3. \A m \in T : ~(m < n)
  BY <1>1, <1>2, Zenon
<1>4. \A m \in T : n <= m
  BY <1>3
<1> QED BY <1>4

\* What holds of the first record and passes from each to the next holds of all.
LEMMA RecordByRecord ==
  ASSUME NEW m \in Nat, NEW n \in Nat, NEW T,
         m \in T, \A k \in m + 1 .. n : k - 1 \in T => k \in T
  PROVE  \A k \in m .. n : k \in T
<1> DEFINE out == {k \in m .. n : k \notin T}
<1>1. SUFFICES ASSUME out # {} PROVE FALSE
  OBVIOUS
<1>2. out \in SUBSET Nat
  OBVIOUS
<1>3. PICK k \in out : \A j \in out : k <= j
  <2> HIDE DEF out
  <2> QED BY <1>1, <1>2, LeastNat
<1>4. k # m /\ k \in m + 1 .. n /\ k - 1 \in m .. n /\ k - 1 \notin out
  BY <1>3
<1> QED BY <1>3, <1>4

\* f is the loop that starts from first and takes one step for each record.
IsLoop(f, step, first, recs, m, n) ==
    f[m] = first /\ \A k \in m + 1 .. n : f[k] = step[f[k - 1]][recs[k]]

\* There is such a function.
LEMMA LoopExists ==
  ASSUME NEW A, NEW D, NEW step \in [A -> [D -> A]], NEW first \in A, NEW recs \in Seq(D),
         NEW m \in Nat, NEW n \in m .. Len(recs)
  PROVE  \E f \in [m .. n -> A] : IsLoop(f, step, first, recs, m, n)
<1> DEFINE Loop(f, l) == IsLoop(f, step, first, recs, m, l)
           T == {l \in m .. n : \E f \in [m .. l -> A] : Loop(f, l)}
<1>0. n \in Nat /\ m <= n /\ \A k \in m + 1 .. n : recs[k] \in D
  OBVIOUS
<1>1. m \in T
  <2> DEFINE f == [k \in m .. m |-> first]
  <2>1. f \in [m .. m -> A] /\ Loop(f, m)
    <3>1. f[m] = first /\ m + 1 .. m = {}
      OBVIOUS
    <3>2. f \in [m .. m -> A]
      OBVIOUS
    <3> HIDE DEF f
    <3> QED BY <3>1, <3>2 DEF IsLoop
  <2>2. m \in m .. n
    BY <1>0
  <2> HIDE DEF f, Loop
  <2> QED BY <2>1, <2>2
<1>2. ASSUME NEW l \in m + 1 .. n, l - 1 \in T PROVE l \in T
  <2>1. PICK f \in [m .. l - 1 -> A] : Loop(f, l - 1)
    <3> HIDE DEF Loop
    <3> QED BY <1>2
  <2>2. recs[l] \in D /\ l \in m .. n /\ l - 1 \in m .. l - 1
    BY <1>0
  <2>3. f[l - 1] \in A
    BY <2>2
  <2> DEFINE last == step[f[l - 1]][recs[l]]
             g    == [k \in m .. l |-> IF k = l THEN last ELSE f[k]]
  <2>4. last \in A
    BY <2>2, <2>3
  <2>5. g \in [m .. l -> A] /\ g[l] = last /\ \A k \in m .. l - 1 : g[k] = f[k]
    <3> HIDE DEF last, Loop
    <3> QED BY <2>2, <2>4
  <2> HIDE DEF g
  <2>6. Loop(g, l)
    <3>1. g[m] = first
      BY <2>1, <2>5 DEF IsLoop
    <3>2. ASSUME NEW k \in m + 1 .. l PROVE g[k] = step[g[k - 1]][recs[k]]
      <4>1. CASE k = l
        BY <2>2, <2>5, <4>1
      <4>2. CASE k # l
        BY <2>1, <2>5, <4>2 DEF IsLoop
      <4> QED BY <4>1, <4>2
    <3> QED BY <3>1, <3>2, Zenon DEF IsLoop
  <2> HIDE DEF Loop
  <2> QED BY <2>2, <2>5, <2>6
<1>3. n \in T
  <2> HIDE DEF T
  <2>1. \A l \in m .. n : l \in T
    BY <1>0, <1>1, <1>2, RecordByRecord
  <2> QED BY <1>0, <2>1
<1> QED BY <1>3

-----------------------------------------------------------------------------
(* The stream *)

First(recs, k) == SubSeq(recs, 1, k)

\* The loop that joins records, ...
Joins(f, recs) == f[1] = recs[1] /\ \A k \in 2 .. Len(recs) : f[k] = f[k - 1] \o recs[k]

\* There is one, for any records of any letters.
LEMMA JoinExists ==
  ASSUME NEW B, NEW recs \in Seq(Seq(B)), Len(recs) > 0
  PROVE  \E f \in [1 .. Len(recs) -> Seq(B)] : Joins(f, recs)
<1> DEFINE A    == Seq(B)
           join == [a \in Seq(B) |-> [d \in Seq(B) |-> a \o d]]
           n    == Len(recs)
<1>1. n \in Nat /\ 1 \in Nat /\ 1 \in 1 .. n /\ n \in 1 .. n
  OBVIOUS
<1>2. \A k \in 1 .. n : recs[k] \in Seq(B)
  OBVIOUS
<1>3. /\ join \in [Seq(B) -> [Seq(B) -> Seq(B)]]
      /\ \A a, d \in Seq(B) : join[a][d] = a \o d
  OBVIOUS
<1> HIDE DEF join
<1>4. PICK f \in [1 .. n -> Seq(B)] : IsLoop(f, join, recs[1], recs, 1, n)
  <2>1. recs \in Seq(A) /\ recs[1] \in A /\ join \in [A -> [A -> A]]
    BY <1>1, <1>2, <1>3, Zenon
  <2> HIDE DEF A
  <2>2. \E f \in [1 .. n -> A] : IsLoop(f, join, recs[1], recs, 1, n)
    BY <1>1, <2>1, LoopExists
  <2> QED BY <2>2, Zenon DEF A
<1>5. f \in [1 .. n -> Seq(B)]
  BY <1>4
<1>6. f[1] = recs[1] /\ \A k \in 1 + 1 .. n : f[k] = join[f[k - 1]][recs[k]]
  BY <1>4, Zenon DEF IsLoop
<1>7. ASSUME NEW k \in 2 .. n PROVE f[k] = f[k - 1] \o recs[k]
  <2>1. k \in 1 .. n /\ k - 1 \in 1 .. n /\ k \in 1 + 1 .. n
    BY <1>1
  <2>2. f[k - 1] \in Seq(B) /\ recs[k] \in Seq(B)
    BY <1>2, <1>5, <2>1, Zenon
  <2> QED BY <1>3, <1>6, <2>1, <2>2, Zenon
<1> QED BY <1>5, <1>6, <1>7, Zenon DEF Joins

\* ... and FlattenSeq is that loop.
LEMMA JoinIs ==
  ASSUME NEW B, NEW recs \in Seq(Seq(B)), NEW n \in 1 .. Len(recs),
         NEW f \in [1 .. Len(recs) -> Seq(B)], Joins(f, recs)
  PROVE  Payload(First(recs, n)) = f[n]
<1> DEFINE s     == First(recs, n)
           Is(h) == h = [i \in 1 .. Len(s) |-> IF i = 1 THEN s[1] ELSE h[i - 1] \o s[i]]
           c     == CHOOSE h : Is(h)
           g     == [k \in 1 .. n |-> f[k]]
<1>1. Len(s) = n /\ n \in Nat /\ 1 <= n /\ \A k \in 1 .. n : s[k] = recs[k]
  BY DEF First
<1>2. /\ \A k \in 1 .. n : g[k] = f[k]
      /\ 1 \in 1 .. n /\ n \in 1 .. n
      /\ \A k \in 2 .. n : k - 1 \in 1 .. n /\ k \in 1 .. n /\ k \in 2 .. Len(recs)
  BY <1>1
<1>3. g = [k \in 1 .. n |-> g[k]]
  BY Zenon
<1> HIDE DEF s, g
<1>4. Payload(s) = c[n]
  <2>1. Len(s) # 0 /\ Len(s) = n
    BY <1>1
  <2> QED BY <2>1 DEF Payload, FlattenSeq
<1> HIDE DEF c
<1>5. g[1] = s[1] /\ \A k \in 2 .. n : g[k] = g[k - 1] \o s[k]
  BY <1>1, <1>2, Zenon DEF Joins
<1>6. Is(g)
  <2>1. ASSUME NEW k \in 1 .. n PROVE g[k] = IF k = 1 THEN s[1] ELSE g[k - 1] \o s[k]
    <3>1. CASE k = 1
      BY <1>5, <3>1, Zenon
    <3>2. CASE k # 1
      <4>1. k \in 2 .. n
        BY <1>1, <3>2
      <4> QED BY <1>5, <3>2, <4>1, Zenon
    <3> QED BY <3>1, <3>2
  <2>2. g = [k \in 1 .. n |-> IF k = 1 THEN s[1] ELSE g[k - 1] \o s[k]]
    BY <1>3, <2>1, Zenon
  <2> QED BY <1>1, <2>2, Zenon
<1>7. Is(c)
  <2> HIDE DEF Is
  <2> QED BY <1>6 DEF c
<1>8. \A k \in 1 .. n : c[k] = IF k = 1 THEN s[1] ELSE c[k - 1] \o s[k]
  BY <1>1, <1>7, Zenon
<1> HIDE DEF Is
<1>9. c[n] = g[n]
  <2> DEFINE T == {k \in 1 .. n : c[k] = g[k]}
  <2>1. 1 \in T
    BY <1>2, <1>5, <1>8, Zenon
  <2>2. ASSUME NEW k \in 1 + 1 .. n, k - 1 \in T PROVE k \in T
    <3>1. k \in 1 .. n /\ k # 1 /\ k \in 2 .. n /\ c[k - 1] = g[k - 1]
      BY <1>1, <2>2
    <3>2. c[k] = c[k - 1] \o s[k] /\ g[k] = g[k - 1] \o s[k]
      BY <1>5, <1>8, <3>1, Zenon
    <3> QED BY <3>1, <3>2, Zenon
  <2>3. \A k \in 1 .. n : k \in T
    <3> HIDE DEF T
    <3> QED BY <1>1, <2>1, <2>2, RecordByRecord
  <2> QED BY <1>2, <2>3, Zenon
<1> QED BY <1>2, <1>4, <1>9, Zenon DEF s

\* A stream's bytes: none, and one record more.
LEMMA PayloadSteps ==
  ASSUME NEW B, NEW recs \in Seq(Seq(B))
  PROVE  /\ Payload(First(recs, 0)) = <<>>
         /\ Payload(First(recs, Len(recs))) = Payload(recs)
         /\ \A k \in 0 .. Len(recs) : Payload(First(recs, k)) \in Seq(B)
         /\ \A k \in 1 .. Len(recs) :
              Payload(First(recs, k)) = Payload(First(recs, k - 1)) \o recs[k]
<1>1. Len(recs) \in Nat /\ First(recs, 0) = <<>> /\ First(recs, Len(recs)) = recs
  BY SubSeqEmpty, SubSeqFull DEF First
<1>2. Payload(<<>>) = <<>>
  BY DEF Payload, FlattenSeq
<1>3. <<>> \in Seq(B)
  OBVIOUS
<1>4. CASE Len(recs) = 0
  <2>1. 0 .. Len(recs) = {0} /\ 1 .. Len(recs) = {}
    BY <1>4
  <2> QED BY <1>1, <1>2, <1>3, <1>4, <2>1, Zenon
<1>5. CASE Len(recs) > 0
  <2>1. PICK f \in [1 .. Len(recs) -> Seq(B)] : Joins(f, recs)
    BY <1>5, JoinExists
  <2>2. \A k \in 1 .. Len(recs) : Payload(First(recs, k)) = f[k] /\ f[k] \in Seq(B)
    BY <2>1, JoinIs
  <2>3. ASSUME NEW k \in 0 .. Len(recs) PROVE Payload(First(recs, k)) \in Seq(B)
    <3>1. k = 0 \/ k \in 1 .. Len(recs)
      OBVIOUS
    <3> QED BY <1>1, <1>2, <1>3, <2>2, <3>1, Zenon
  <2>4. ASSUME NEW k \in 1 .. Len(recs)
        PROVE  Payload(First(recs, k)) = Payload(First(recs, k - 1)) \o recs[k]
    <3>1. CASE k = 1
      <4>1. Payload(First(recs, k)) = recs[1] /\ Payload(First(recs, k - 1)) = <<>>
        BY <1>1, <1>2, <2>1, <2>2, <3>1 DEF Joins
      <4>2. recs[1] \in Seq(B)
        BY <1>5
      <4>3. <<>> \o recs[1] = recs[1]
        BY <4>2, ConcatEmptySeq
      <4>4. recs[k] = recs[1]
        BY <3>1
      <4> QED BY <4>1, <4>3, <4>4, Zenon
    <3>2. CASE k # 1
      <4>1. k \in 2 .. Len(recs) /\ k - 1 \in 1 .. Len(recs)
        BY <3>2
      <4> QED BY <2>1, <2>2, <4>1, Zenon DEF Joins
    <3> QED BY <3>1, <3>2
  <2> QED BY <1>1, <1>2, <2>3, <2>4, Zenon
<1>6. Len(recs) = 0 \/ Len(recs) > 0
  BY <1>1
<1> QED BY <1>4, <1>5, <1>6, Zenon

\* What append drops: not the last record.
LEMMA ExcessLeavesOne ==
  ASSUME NEW B, NEW recs \in Seq(Seq(B)), Len(recs) > 0
  PROVE  Excess(recs) \in 0 .. Len(recs) - 1
<1> DEFINE Fits(j) == Len(Payload(SubSeq(recs, j + 1, Len(recs)))) <= StreamMax
                      \/ j = Len(recs) - 1
           Good(k) == Fits(k) /\ \A j \in 0 .. k - 1 : ~Fits(j)
           T == {k \in 0 .. Len(recs) - 1 : Fits(k)}
<1>1. Len(recs) - 1 \in 0 .. Len(recs) - 1 /\ Fits(Len(recs) - 1)
  OBVIOUS
<1> HIDE DEF Fits
<1>2. PICK n \in T : \A m \in T : n <= m
  <2>1. T \in SUBSET Nat /\ T # {}
    BY <1>1
  <2> HIDE DEF T
  <2> QED BY <2>1, LeastNat
<1>3. n \in 0 .. Len(recs) - 1 /\ Good(n)
  BY <1>2
<1> HIDE DEF T
<1>4. Excess(recs) = CHOOSE k \in 0 .. Len(recs) - 1 : Good(k)
  BY DEF Excess, Fits
<1> HIDE DEF Good
<1> QED BY <1>3, <1>4

Streams(B) == [recs : Seq(Seq(B)), gen : Nat, closed : BOOLEAN]

\* A stream after an append: the record is added, and nothing else has happened to
\* the records unless the count of evictions says so.
LEMMA AppendKeeps ==
  ASSUME NEW B, NEW s \in Streams(B), NEW data \in Seq(B)
  PROVE  /\ StreamAppend(s, data) \in Streams(B)
         /\ StreamAppend(s, data).gen >= s.gen
         /\ StreamAppend(s, data).gen = s.gen =>
              \/ StreamAppend(s, data).recs = s.recs
              \/ StreamAppend(s, data).recs = Append(s.recs, data)
<1> DEFINE recs == Append(s.recs, data)
           k    == Excess(recs)
<1>1. CASE s.closed
  BY <1>1 DEF StreamAppend, Streams
<1>2. CASE ~s.closed
  <2>1. recs \in Seq(Seq(B)) /\ Len(recs) > 0 /\ Len(recs) \in Nat
    BY DEF Streams
  <2>2. StreamAppend(s, data)
          = [s EXCEPT !.recs = SubSeq(recs, k + 1, Len(recs)), !.gen = s.gen + k]
    BY <1>2 DEF StreamAppend
  <2> HIDE DEF recs, k
  <2>3. k \in 0 .. Len(recs) - 1
    BY <2>1, ExcessLeavesOne DEF k
  <2>4. SubSeq(recs, k + 1, Len(recs)) \in Seq(Seq(B))
    <3> DEFINE A == Seq(B)
    <3>1. recs \in Seq(A)
      BY <2>1
    <3> HIDE DEF A
    <3>2. SubSeq(recs, k + 1, Len(recs)) \in Seq(A)
      BY <2>1, <2>3, <3>1
    <3> QED BY <3>2 DEF A
  <2>5. k = 0 => SubSeq(recs, k + 1, Len(recs)) = recs
    BY <2>1, SubSeqFull
  <2> DEFINE left == SubSeq(recs, k + 1, Len(recs))
             t    == StreamAppend(s, data)
  <2>6. t = [s EXCEPT !.recs = left, !.gen = s.gen + k]
    BY <2>2
  <2>7. left \in Seq(Seq(B)) /\ (k = 0 => left = Append(s.recs, data))
    BY <2>4, <2>5 DEF recs
  <2>8. s.gen \in Nat /\ k \in Nat
    BY <2>1, <2>3 DEF Streams
  <2> HIDE DEF left, t
  <2>9. t \in Streams(B) /\ t.recs = left /\ t.gen = s.gen + k
    <3> DEFINE A   == Seq(Seq(B))
               gen == s.gen + k
    <3>1. s \in [recs : A, gen : Nat, closed : BOOLEAN]
      BY DEF Streams
    <3>2. left \in A /\ gen \in Nat /\ t = [s EXCEPT !.recs = left, !.gen = gen]
      BY <2>6, <2>7, <2>8
    <3> HIDE DEF A, gen
    <3>3. t \in [recs : A, gen : Nat, closed : BOOLEAN] /\ t.recs = left /\ t.gen = gen
      BY <3>1, <3>2
    <3> QED BY <3>3 DEF Streams, A, gen
  <2>10. t \in Streams(B) /\ t.gen >= s.gen /\ (t.gen = s.gen => t.recs = Append(s.recs, data))
    BY <2>7, <2>8, <2>9
  <2> QED BY <2>10, Zenon DEF t
<1> QED BY <1>1, <1>2

-----------------------------------------------------------------------------
(* The search *)

\* The needle is not empty.
LEMMA NeedleIs == Needle \in Seq(Bytes) /\ Len(Needle) \in Nat /\ Len(Needle) > 0
  BY RunAssumption

\* What is kept of a text for the next search, as the text without its beginning.
LEMMA OverlapIs ==
  ASSUME NEW p \in Seq(Bytes)
  PROVE  \E o \in 0 .. Len(p) :
           /\ o = (IF Len(p) < Len(Needle) THEN 0 ELSE Len(p) - Len(Needle) + 1)
           /\ Overlap(p) \in Seq(Bytes) /\ Len(Overlap(p)) = Len(p) - o
           /\ \A i \in 1 .. Len(p) - o : Overlap(p)[i] = p[i + o]
<1>1. Len(p) \in Nat /\ Len(Needle) \in Nat /\ Len(Needle) > 0
  BY NeedleIs
<1>2. CASE Len(p) < Len(Needle)
  <2>1. Overlap(p) = SubSeq(p, 1, Len(p))
    BY <1>2 DEF Overlap
  <2>2. Overlap(p) = p
    BY <2>1, SubSeqFull
  <2>3. /\ 0 = IF Len(p) < Len(Needle) THEN 0 ELSE Len(p) - Len(Needle) + 1
        /\ Overlap(p) \in Seq(Bytes) /\ Len(Overlap(p)) = Len(p) - 0
        /\ \A i \in 1 .. Len(p) - 0 : Overlap(p)[i] = p[i + 0]
    BY <1>1, <1>2, <2>2
  <2>4. 0 \in 0 .. Len(p)
    BY <1>1
  <2> QED BY <2>3, <2>4, Zenon
<1>3. CASE Len(p) >= Len(Needle)
  <2> DEFINE o == Len(p) - Len(Needle) + 1
  <2>1. Overlap(p) = SubSeq(p, o + 1, Len(p))
    <3>1. ~(Len(p) < Len(Needle)) /\ Len(p) - Len(Needle) + 2 = o + 1
      BY <1>1, <1>3
    <3> HIDE DEF o
    <3>2. Overlap(p) = SubSeq(p, Len(p) - Len(Needle) + 2, Len(p))
      BY <3>1, Zenon DEF Overlap
    <3> QED BY <3>1, <3>2, Zenon
  <2>2. o \in 0 .. Len(p)
    BY <1>1, <1>3
  <2>3. o = IF Len(p) < Len(Needle) THEN 0 ELSE Len(p) - Len(Needle) + 1
    BY <1>1, <1>3
  <2> HIDE DEF o
  <2>4. /\ SubSeq(p, o + 1, Len(p)) \in Seq(Bytes)
        /\ Len(SubSeq(p, o + 1, Len(p))) = Len(p) - o
        /\ \A i \in 1 .. Len(p) - o : SubSeq(p, o + 1, Len(p))[i] = p[i + o]
    BY <1>1, <2>2
  <2> QED BY <2>1, <2>2, <2>3, <2>4
<1> QED BY <1>1, <1>2, <1>3

\* A needle, letter by letter.
LEMMA OccursAt ==
  ASSUME NEW w \in Seq(Bytes)
  PROVE  Occurs(Needle, w) <=>
           \E k \in 0 .. Len(w) - Len(Needle) :
              \A i \in 1 .. Len(Needle) : w[k + i] = Needle[i]
<1>1. Len(w) \in Nat /\ Len(Needle) \in Nat /\ Len(Needle) > 0 /\ Needle \in Seq(Bytes)
  BY NeedleIs
<1>2. ASSUME NEW k \in 0 .. Len(w) - Len(Needle)
      PROVE  SubSeq(w, k + 1, k + Len(Needle)) = Needle
               <=> \A i \in 1 .. Len(Needle) : w[k + i] = Needle[i]
  <2> DEFINE v == SubSeq(w, k + 1, k + Len(Needle))
  <2>1. /\ v \in Seq(Bytes) /\ Len(v) = Len(Needle)
        /\ \A i \in 1 .. Len(Needle) : v[i] = w[k + i]
    BY <1>1
  <2> HIDE DEF v
  <2>2. (\A i \in 1 .. Len(Needle) : v[i] = Needle[i]) => v = Needle
    BY <1>1, <2>1, SeqEqual, Zenon
  <2>3. v = Needle <=> \A i \in 1 .. Len(Needle) : w[k + i] = Needle[i]
    BY <2>1, <2>2
  <2> QED BY <2>3 DEF v
<1> QED BY <1>2, Zenon DEF Occurs

\* The end of a text stands for all of it, if the needle is not in it: the search goes
\* on as if the text were there, and keeps of both the same.
LEMMA OverlapSuffices ==
  ASSUME NEW p \in Seq(Bytes), NEW d \in Seq(Bytes), ~Occurs(Needle, p)
  PROVE  /\ Occurs(Needle, Overlap(p) \o d) <=> Occurs(Needle, p \o d)
         /\ Overlap(Overlap(p) \o d) = Overlap(p \o d)
<1> DEFINE t == Overlap(p)
           m == Len(p)
           n == Len(Needle)
           u == t \o d
           w == p \o d
<1>1. m \in Nat /\ n \in Nat /\ n > 0 /\ Len(d) \in Nat
  BY NeedleIs
<1>2. PICK o \in 0 .. m : /\ o = (IF m < n THEN 0 ELSE m - n + 1)
                          /\ t \in Seq(Bytes) /\ Len(t) = m - o
                          /\ \A i \in 1 .. m - o : t[i] = p[i + o]
  BY OverlapIs
<1>3. o \in Nat /\ o <= m /\ (m < n => o = 0) /\ (m >= n => o = m - n + 1)
  BY <1>1, <1>2
<1>4. /\ u \in Seq(Bytes) /\ Len(u) = m - o + Len(d)
      /\ w \in Seq(Bytes) /\ Len(w) = m + Len(d)
      /\ \A i \in 1 .. m - o + Len(d) : u[i] = w[i + o]
      /\ \A i \in 1 .. m : w[i] = p[i]
  <2> HIDE DEF t
  <2>1. /\ u \in Seq(Bytes) /\ Len(u) = m - o + Len(d)
        /\ w \in Seq(Bytes) /\ Len(w) = m + Len(d)
    <3>1. t \in Seq(Bytes) /\ Len(t) = m - o
      BY <1>2
    <3>2. /\ u \in Seq(Bytes) /\ Len(u) = Len(t) + Len(d)
          /\ w \in Seq(Bytes) /\ Len(w) = m + Len(d)
      BY <3>1, ConcatProperties, Zenon
    <3> QED BY <3>1, <3>2
  <2>2. ASSUME NEW i \in 1 .. m - o + Len(d) PROVE u[i] = w[i + o]
    <3>1. CASE i <= m - o
      <4>1. u[i] = t[i] /\ t[i] = p[i + o] /\ w[i + o] = p[i + o]
        BY <1>1, <1>2, <1>3, <3>1
      <4> QED BY <4>1
    <3>2. CASE ~(i <= m - o)
      <4>1. i - (m - o) \in 1 .. Len(d) /\ Len(t) = m - o /\ Len(d) \in Nat
        BY <1>1, <1>2, <1>3, <3>2
      <4>2. u[i] = d[i - (m - o)]
        <5>1. t \in Seq(Bytes) /\ i \in 1 .. Len(t) + Len(d) /\ ~(i <= Len(t))
          BY <1>1, <1>2, <1>3, <3>2, <4>1
        <5>2. u[i] = d[i - Len(t)]
          BY <5>1, ConcatProperties, Zenon
        <5> QED BY <4>1, <5>2
      <4>3. w[i + o] = d[i + o - m]
        BY <1>1, <1>3, <3>2, <4>1
      <4>4. i - (m - o) = i + o - m
        BY <1>1, <1>3
      <4> QED BY <4>2, <4>3, <4>4
    <3> QED BY <3>1, <3>2
  <2>3. \A i \in 1 .. m : w[i] = p[i]
    BY <1>1
  <2> QED BY <2>1, <2>2, <2>3
<1> HIDE DEF t, u, w
<1>5. ASSUME Occurs(Needle, u) PROVE Occurs(Needle, w)
  <2>1. PICK k \in 0 .. Len(u) - n : \A i \in 1 .. n : u[k + i] = Needle[i]
    BY <1>4, <1>5, OccursAt
  <2>2. k + o \in 0 .. Len(w) - n
    BY <1>1, <1>3, <1>4
  <2>3. \A i \in 1 .. n : w[k + o + i] = Needle[i]
    BY <1>1, <1>3, <1>4, <2>1
  <2> QED BY <1>4, <2>2, <2>3, OccursAt
<1>6. ASSUME Occurs(Needle, w) PROVE Occurs(Needle, u)
  <2>1. PICK k \in 0 .. Len(w) - n : \A i \in 1 .. n : w[k + i] = Needle[i]
    BY <1>4, <1>6, OccursAt
  <2>2. CASE k >= o
    <3>1. k - o \in 0 .. Len(u) - n
      BY <1>1, <1>3, <1>4, <2>2
    <3>2. \A i \in 1 .. n : u[k - o + i] = Needle[i]
      BY <1>1, <1>3, <1>4, <2>1, <2>2
    <3> QED BY <1>4, <3>1, <3>2, OccursAt
  <2>3. CASE k < o
    <3>1. k \in 0 .. m - n
      BY <1>1, <1>3, <2>3
    <3>2. \A i \in 1 .. n : p[k + i] = Needle[i]
      <4>1. \A i \in 1 .. n : k + i \in 1 .. m
        BY <1>1, <3>1
      <4> QED BY <1>4, <2>1, <4>1, Zenon
    <3> QED BY <3>1, <3>2, OccursAt
  <2> QED BY <1>1, <1>3, <2>2, <2>3
<1>7. Overlap(u) = Overlap(w)
  <2>1. PICK a \in 0 .. Len(u) :
          /\ a = (IF Len(u) < n THEN 0 ELSE Len(u) - n + 1)
          /\ Overlap(u) \in Seq(Bytes) /\ Len(Overlap(u)) = Len(u) - a
          /\ \A i \in 1 .. Len(u) - a : Overlap(u)[i] = u[i + a]
    BY <1>4, OverlapIs
  <2>2. PICK b \in 0 .. Len(w) :
          /\ b = (IF Len(w) < n THEN 0 ELSE Len(w) - n + 1)
          /\ Overlap(w) \in Seq(Bytes) /\ Len(Overlap(w)) = Len(w) - b
          /\ \A i \in 1 .. Len(w) - b : Overlap(w)[i] = w[i + b]
    BY <1>4, OverlapIs
  <2>3. b = a + o /\ Len(w) - b = Len(u) - a /\ a \in Nat
    <3>1. Len(u) = m - o + Len(d) /\ Len(w) = m + Len(d)
      BY <1>4
    <3>2. a = IF Len(u) < n THEN 0 ELSE Len(u) - n + 1
      BY <2>1
    <3>3. b = IF Len(w) < n THEN 0 ELSE Len(w) - n + 1
      BY <2>2
    <3>4. CASE m < n
      BY <1>1, <1>3, <3>1, <3>2, <3>3, <3>4
    <3>5. CASE ~(m < n)
      <4>1. o = m - n + 1 /\ Len(u) = n - 1 + Len(d) /\ b = m + Len(d) - n + 1
        BY <1>1, <1>3, <3>1, <3>3, <3>5
      <4>2. a = Len(d)
        BY <1>1, <3>2, <4>1
      <4> QED BY <1>1, <3>1, <4>1, <4>2
    <3> QED BY <3>4, <3>5
  <2>4. ASSUME NEW i \in 1 .. Len(u) - a PROVE Overlap(u)[i] = Overlap(w)[i]
    <3>1. i + a \in 1 .. m - o + Len(d) /\ i + a + o = i + b
      BY <1>1, <1>3, <1>4, <2>3
    <3>2. Overlap(u)[i] = u[i + a] /\ Overlap(w)[i] = w[i + b]
      BY <2>1, <2>2, <2>3
    <3> QED BY <1>4, <3>1, <3>2
  <2>5. /\ Overlap(u) \in Seq(Bytes) /\ Overlap(w) \in Seq(Bytes)
        /\ Len(Overlap(u)) = Len(Overlap(w)) /\ Len(Overlap(u)) = Len(u) - a
    BY <2>1, <2>2, <2>3
  <2>6. \A i \in 1 .. Len(Overlap(u)) : Overlap(u)[i] = Overlap(w)[i]
    BY <2>4, <2>5
  <2> QED BY <2>5, <2>6, SeqEqual, Zenon
<1> QED BY <1>5, <1>6, <1>7 DEF t, u, w

\* A needle found stays found.
LEMMA OccursStays ==
  ASSUME NEW p \in Seq(Bytes), NEW d \in Seq(Bytes), Occurs(Needle, p)
  PROVE  Occurs(Needle, p \o d)
<1> DEFINE w == p \o d
<1>1. /\ Len(p) \in Nat /\ Len(Needle) \in Nat /\ Len(Needle) > 0 /\ Len(d) \in Nat
      /\ w \in Seq(Bytes) /\ Len(w) = Len(p) + Len(d) /\ \A i \in 1 .. Len(p) : w[i] = p[i]
  BY NeedleIs
<1> HIDE DEF w
<1>2. PICK k \in 0 .. Len(p) - Len(Needle) : \A i \in 1 .. Len(Needle) : p[k + i] = Needle[i]
  BY OccursAt
<1>3. k \in 0 .. Len(w) - Len(Needle)
  BY <1>1
<1>4. \A i \in 1 .. Len(Needle) : k + i \in 1 .. Len(p)
  BY <1>1
<1>5. \A i \in 1 .. Len(Needle) : w[k + i] = Needle[i]
  BY <1>1, <1>2, <1>4, Zenon
<1> QED BY <1>1, <1>3, <1>5, OccursAt DEF w

\* What the search knows of a text: whether the needle is in it, and if not, its end.
Searched(a, p) == /\ a.found \in BOOLEAN /\ (a.found <=> Occurs(Needle, p))
                  /\ ~a.found => a.tail = Overlap(p)

SearchStates == [found : BOOLEAN, tail : Seq(Bytes)]
SearchStep   == [a \in SearchStates |->
                   [d \in Seq(Bytes) |-> IF a.found THEN a ELSE Window(a.tail \o d)]]

\* One record with the tail before it is a text searched from its start.
LEMMA WindowIs ==
  ASSUME NEW w \in Seq(Bytes)
  PROVE  Window(w) \in SearchStates /\ Searched(Window(w), w)
<1>1. Overlap(w) \in Seq(Bytes)
  BY OverlapIs
<1>2. Occurs(Needle, w) \in BOOLEAN
  BY DEF Occurs
<1> QED BY <1>1, <1>2 DEF Window, SearchStates, Searched

\* A step of the search leads from what it keeps to what it keeps.
LEMMA SearchStepIs == SearchStep \in [SearchStates -> [Seq(Bytes) -> SearchStates]]
<1>1. ASSUME NEW a \in SearchStates, NEW d \in Seq(Bytes)
      PROVE  (IF a.found THEN a ELSE Window(a.tail \o d)) \in SearchStates
  <2>1. a.tail \o d \in Seq(Bytes)
    BY DEF SearchStates
  <2> QED BY <2>1, WindowIs, Zenon
<1>2. ASSUME NEW a \in SearchStates
      PROVE  [d \in Seq(Bytes) |-> IF a.found THEN a ELSE Window(a.tail \o d)]
                \in [Seq(Bytes) -> SearchStates]
  BY <1>1, Zenon
<1> QED BY <1>2, Zenon DEF SearchStep

\* One more record.
LEMMA SearchedOn ==
  ASSUME NEW p \in Seq(Bytes), NEW d \in Seq(Bytes), NEW a, Searched(a, p)
  PROVE  Searched(IF a.found THEN a ELSE Window(a.tail \o d), p \o d)
<1>1. CASE a.found
  BY <1>1, OccursStays DEF Searched
<1>2. CASE ~a.found
  <2>1. ~Occurs(Needle, p) /\ a.tail = Overlap(p) /\ Overlap(p) \in Seq(Bytes)
    BY <1>2, OverlapIs DEF Searched
  <2> DEFINE u == Overlap(p) \o d
             w == p \o d
  <2>2. (Occurs(Needle, u) <=> Occurs(Needle, w)) /\ Overlap(u) = Overlap(w)
    BY <2>1, OverlapSuffices
  <2>3. u \in Seq(Bytes)
    BY <2>1
  <2> HIDE DEF u, w
  <2>6. Searched(Window(u), u)
    BY <2>3, WindowIs
  <2>4. Searched(Window(u), w)
    BY <2>2, <2>6 DEF Searched
  <2>5. (IF a.found THEN a ELSE Window(a.tail \o d)) = Window(u)
    BY <1>2, <2>1, Zenon DEF u
  <2> QED BY <2>4, <2>5 DEF w
<1> QED BY <1>1, <1>2 DEF Searched

\* Where the search takes up: what was searched is searched.
ResumesWell(s, c) ==
    LET from == ScanFrom(s, c) IN
    /\ from.index \in 0 .. Len(s.recs)
    /\ Searched([found |-> FALSE, tail |-> from.tail], Payload(First(s.recs, from.index)))

\* contains_bytes, if it takes up well, has searched the whole stream.
LEMMA ScanIs ==
  ASSUME NEW s \in Streams(Bytes), NEW c, ResumesWell(s, c)
  PROVE  /\ Searched([found |-> Scan(s, c).found, tail |-> Scan(s, c).cursor.tail], Payload(s.recs))
         /\ Scan(s, c).cursor.index = Len(s.recs)
         /\ Scan(s, c).cursor.gen = s.gen
<1> DEFINE recs  == s.recs
           m     == ScanFrom(s, c).index
           n     == Len(recs)
           first == [found |-> FALSE, tail |-> ScanFrom(s, c).tail]
           Is(h) == h = [k \in m .. n |->
                           IF k = m THEN first
                           ELSE IF h[k - 1].found THEN h[k - 1]
                           ELSE Window(h[k - 1].tail \o recs[k])]
           end   == CHOOSE h : Is(h)
           P(k)  == Payload(First(recs, k))
<1>1. recs \in Seq(Seq(Bytes)) /\ n \in Nat /\ m \in Nat /\ m <= n /\ m \in m .. n /\ n \in m .. n
  BY DEF ResumesWell, Streams
<1>2. /\ \A k \in 0 .. n : P(k) \in Seq(Bytes)
      /\ P(n) = Payload(recs)
      /\ \A k \in 1 .. n : P(k) = P(k - 1) \o recs[k] /\ recs[k] \in Seq(Bytes)
  <2>1. \A k \in 1 .. n : recs[k] \in Seq(Bytes)
    BY <1>1
  <2> QED BY <1>1, <2>1, PayloadSteps, Zenon
<1>3. Searched(first, P(m))
  BY DEF ResumesWell
<1>4. Scan(s, c) = [found  |-> end[n].found,
                    cursor |-> [index |-> n, tail |-> end[n].tail, gen |-> s.gen]]
  BY Zenon DEF Scan
<1>5. first \in SearchStates
  <2>1. ScanFrom(s, c).tail = Overlap(P(m)) /\ P(m) \in Seq(Bytes)
    BY <1>1, <1>2, <1>3 DEF Searched
  <2>2. Overlap(P(m)) \in Seq(Bytes)
    BY <2>1, OverlapIs
  <2> QED BY <2>1, <2>2 DEF SearchStates
<1> HIDE DEF recs, m, n, first, end, P
<1>6. Is(end)
  <2>1. PICK f \in [m .. n -> SearchStates] : IsLoop(f, SearchStep, first, recs, m, n)
    <3> DEFINE A == SearchStates
               D == Seq(Bytes)
    <3>1. SearchStep \in [A -> [D -> A]] /\ first \in A /\ recs \in Seq(D) /\ n \in m .. Len(recs)
      BY <1>1, <1>5, SearchStepIs, Zenon DEF n
    <3> HIDE DEF A, D
    <3>2. \E f \in [m .. n -> A] : IsLoop(f, SearchStep, first, recs, m, n)
      BY <1>1, <3>1, LoopExists
    <3> QED BY <3>2 DEF A
  <2>2. f \in [m .. n -> SearchStates]
    BY <2>1
  <2>3. f[m] = first /\ \A k \in m + 1 .. n : f[k] = SearchStep[f[k - 1]][recs[k]]
    BY <2>1, Zenon DEF IsLoop
  <2>4. ASSUME NEW k \in m .. n
        PROVE  f[k] = IF k = m THEN first
                      ELSE IF f[k - 1].found THEN f[k - 1]
                      ELSE Window(f[k - 1].tail \o recs[k])
    <3>1. CASE k = m
      BY <2>3, <3>1, Zenon
    <3>2. CASE k # m
      <4>1. k \in m + 1 .. n /\ k - 1 \in m .. n /\ k \in 1 .. n
        BY <1>1, <3>2
      <4>2. f[k - 1] \in SearchStates /\ recs[k] \in Seq(Bytes)
        BY <1>2, <2>2, <4>1, Zenon
      <4>3. f[k] = SearchStep[f[k - 1]][recs[k]]
        BY <2>3, <4>1, Zenon
      <4>4. SearchStep[f[k - 1]][recs[k]]
               = IF f[k - 1].found THEN f[k - 1] ELSE Window(f[k - 1].tail \o recs[k])
        BY <4>2, Zenon DEF SearchStep
      <4> QED BY <3>2, <4>3, <4>4, Zenon
    <3> QED BY <3>1, <3>2
  <2>5. f = [k \in m .. n |-> f[k]]
    BY <2>2, Zenon
  <2>6. Is(f)
    BY <2>4, <2>5, Zenon
  <2> HIDE DEF Is
  <2> QED BY <2>6 DEF end
<1>7. \A k \in m .. n : end[k] = IF k = m THEN first
                                 ELSE IF end[k - 1].found THEN end[k - 1]
                                 ELSE Window(end[k - 1].tail \o recs[k])
  BY <1>6, Zenon
<1> HIDE DEF Is
<1>8. Searched(end[n], P(n))
  <2> DEFINE T == {k \in m .. n : Searched(end[k], P(k))}
  <2>1. m \in T
    BY <1>1, <1>3, <1>7, Zenon
  <2>2. ASSUME NEW k \in m + 1 .. n, k - 1 \in T PROVE k \in T
    <3>1. /\ k \in m .. n /\ k # m /\ k \in 1 .. n /\ k - 1 \in 0 .. n
          /\ Searched(end[k - 1], P(k - 1))
      BY <1>1, <2>2
    <3>2. end[k] = IF end[k - 1].found THEN end[k - 1] ELSE Window(end[k - 1].tail \o recs[k])
      BY <1>7, <3>1, Zenon
    <3>3. P(k - 1) \in Seq(Bytes) /\ recs[k] \in Seq(Bytes) /\ P(k) = P(k - 1) \o recs[k]
      BY <1>2, <3>1, Zenon
    <3>4. Searched(end[k], P(k))
      BY <3>1, <3>2, <3>3, SearchedOn, Zenon
    <3> QED BY <3>1, <3>4
  <2>3. \A k \in m .. n : k \in T
    <3> HIDE DEF T
    <3> QED BY <1>1, <2>1, <2>2, RecordByRecord
  <2> QED BY <1>1, <2>3
<1>9. /\ Scan(s, c).found = end[n].found /\ Scan(s, c).cursor.tail = end[n].tail
      /\ Scan(s, c).cursor.index = n /\ Scan(s, c).cursor.gen = s.gen
  BY <1>4
<1>10. Searched([found |-> Scan(s, c).found, tail |-> Scan(s, c).cursor.tail], Payload(recs))
  BY <1>2, <1>8, <1>9 DEF Searched
<1> QED BY <1>9, <1>10 DEF n, recs

-----------------------------------------------------------------------------
(* Bytes come, the search goes on *)

\* What the device can say.
Said == UNION {Range(c) : c \in Chunks}

\* The stream, and a cursor that has not outrun it: what it has passed was searched.
Following ==
    /\ stream \in Streams(Said) /\ stream \in Streams(Bytes)
    /\ cursor.index \in Nat /\ cursor.gen \in -1 .. stream.gen
    /\ cursor.gen = stream.gen =>
         /\ cursor.index <= Len(stream.recs)
         /\ Searched([found |-> FALSE, tail |-> cursor.tail],
                     Payload(First(stream.recs, cursor.index)))

\* What one read returns.
LEMMA ChunkIs ==
  ASSUME NEW c \in Chunks
  PROVE  c \in Seq(Said) /\ c \in Seq(Bytes)
<1>1. c \in Seq(Bytes) /\ Len(c) \in Nat /\ DOMAIN c = 1 .. Len(c) /\ c = [i \in 1 .. Len(c) |-> c[i]]
  BY RunAssumption
<1>2. \A i \in 1 .. Len(c) : c[i] \in Said
  BY <1>1 DEF Said, Range
<1>3. c \in [1 .. Len(c) -> Said]
  BY <1>1, <1>2, Zenon
<1> QED BY <1>1, <1>3

\* Nothing searched, nothing found.
LEMMA NothingSearched == Searched([found |-> FALSE, tail |-> <<>>], <<>>)
<1>1. <<>> \in Seq(Bytes) /\ Len(<<>>) = 0
  OBVIOUS
<1>2. ~Occurs(Needle, <<>>)
  BY <1>1, NeedleIs DEF Occurs
<1>3. Overlap(<<>>) = SubSeq(<<>>, 1, Len(<<>>))
  <2>1. Len(<<>>) < Len(Needle)
    BY <1>1, NeedleIs
  <2> QED BY <2>1, Zenon DEF Overlap
<1>4. Overlap(<<>>) = <<>>
  BY <1>1, <1>3, SubSeqFull
<1> QED BY <1>2, <1>4 DEF Searched

\* The search takes up where it has been, or from the start.
LEMMA FollowingResumes ==
  ASSUME Following
  PROVE  ResumesWell(stream, cursor)
<1>1. /\ stream.recs \in Seq(Seq(Bytes)) /\ Len(stream.recs) \in Nat /\ cursor.index \in Nat
      /\ Payload(First(stream.recs, 0)) = <<>>
  <2>1. stream.recs \in Seq(Seq(Bytes)) /\ Len(stream.recs) \in Nat /\ cursor.index \in Nat
    BY DEF Following, Streams
  <2> QED BY <2>1, PayloadSteps, Zenon
<1>2. CASE cursor.gen # stream.gen \/ cursor.index > Len(stream.recs)
  <2>1. ScanFrom(stream, cursor) = [index |-> 0, tail |-> <<>>]
    BY <1>2 DEF ScanFrom
  <2> QED BY <1>1, <2>1, NothingSearched DEF ResumesWell
<1>3. CASE ~(cursor.gen # stream.gen \/ cursor.index > Len(stream.recs))
  <2>1. ScanFrom(stream, cursor) = [index |-> cursor.index, tail |-> cursor.tail]
    BY <1>3 DEF ScanFrom
  <2>2. cursor.index \in 0 .. Len(stream.recs)
    BY <1>1, <1>3
  <2>3. Searched([found |-> FALSE, tail |-> cursor.tail], Payload(First(stream.recs, cursor.index)))
    BY <1>3 DEF Following
  <2> QED BY <2>1, <2>2, <2>3 DEF ResumesWell
<1> QED BY <1>2, <1>3

\* A new search has seen nothing.
LEMMA FreshCursor ==
  ASSUME Following, stream' = stream, cursor' = NoCursor
  PROVE  Following'
<1>1. stream.gen \in Nat
  BY DEF Following, Streams
<1> QED BY <1>1 DEF Following, NoCursor

\* A poll that finds nothing has searched all there is.
LEMMA PollFollows ==
  ASSUME Following, ExpectPolls
  PROVE  Following'
<1>1. /\ ResumesWell(stream, cursor) /\ stream \in Streams(Bytes)
      /\ stream.gen \in Nat /\ Len(stream.recs) \in Nat /\ stream.recs \in Seq(Seq(Bytes))
  BY FollowingResumes DEF Following, Streams
<1> DEFINE r == Scan(stream, cursor)
<1>2. /\ Searched([found |-> r.found, tail |-> r.cursor.tail], Payload(stream.recs))
      /\ r.cursor.index = Len(stream.recs) /\ r.cursor.gen = stream.gen
  BY <1>1, ScanIs
<1>3. Payload(First(stream.recs, Len(stream.recs))) = Payload(stream.recs)
  BY <1>1, PayloadSteps
<1>4. stream' = stream /\ ~r.found /\ cursor' = r.cursor
  BY DEF ExpectPolls
<1> HIDE DEF r
<1>5. Searched([found |-> FALSE, tail |-> r.cursor.tail], Payload(stream.recs))
  BY <1>2, <1>4 DEF Searched
<1>6. cursor'.index = Len(stream.recs) /\ cursor'.gen = stream.gen /\ cursor'.tail = r.cursor.tail
  BY <1>2, <1>4
<1>7. cursor'.index \in Nat /\ cursor'.gen \in -1 .. stream'.gen /\ cursor'.index <= Len(stream'.recs)
  BY <1>1, <1>4, <1>6
<1>8. Payload(First(stream'.recs, cursor'.index)) = Payload(stream.recs)
  BY <1>3, <1>4, <1>6
<1> QED BY <1>4, <1>5, <1>6, <1>7, <1>8 DEF Following

\* More bytes: what was searched stays searched, or the evictions tell.
LEMMA AppendFollows ==
  ASSUME Following, NEW data \in Chunks, stream' = StreamAppend(stream, data), cursor' = cursor
  PROVE  Following'
<1>1. /\ stream' \in Streams(Said) /\ stream' \in Streams(Bytes) /\ stream'.gen >= stream.gen
      /\ stream'.gen = stream.gen =>
           stream'.recs = stream.recs \/ stream'.recs = Append(stream.recs, data)
  BY ChunkIs, AppendKeeps DEF Following
<1>2. /\ stream.gen \in Nat /\ stream'.gen \in Nat /\ cursor.index \in Nat
      /\ cursor.gen \in -1 .. stream.gen /\ stream.recs \in Seq(Seq(Bytes))
  BY <1>1 DEF Following, Streams
<1>3. ASSUME cursor.gen = stream'.gen
      PROVE  /\ cursor.index <= Len(stream'.recs)
             /\ First(stream'.recs, cursor.index) = First(stream.recs, cursor.index)
             /\ Searched([found |-> FALSE, tail |-> cursor.tail],
                         Payload(First(stream.recs, cursor.index)))
  <2>1. cursor.gen = stream.gen /\ stream'.gen = stream.gen
    BY <1>1, <1>2, <1>3
  <2>2. /\ cursor.index <= Len(stream.recs)
        /\ Searched([found |-> FALSE, tail |-> cursor.tail],
                    Payload(First(stream.recs, cursor.index)))
    BY <2>1 DEF Following
  <2>3. CASE stream'.recs = stream.recs
    BY <2>2, <2>3
  <2>4. CASE stream'.recs = Append(stream.recs, data)
    <3> DEFINE A == Seq(Bytes)
    <3>1. stream.recs \in Seq(A) /\ data \in A
      BY <1>2, ChunkIs
    <3> HIDE DEF A
    <3>2. /\ Len(Append(stream.recs, data)) = Len(stream.recs) + 1 /\ Len(stream.recs) \in Nat
          /\ SubSeq(Append(stream.recs, data), 1, cursor.index) = SubSeq(stream.recs, 1, cursor.index)
      BY <1>2, <2>2, <3>1
    <3> QED BY <1>2, <2>2, <2>4, <3>2 DEF First
  <2> QED BY <1>1, <2>1, <2>3, <2>4
<1> QED BY <1>1, <1>2, <1>3 DEF Following

\* Every step keeps it.
LEMMA FollowingNext ==
  ASSUME Following, [Next]_vars
  PROVE  Following'
<1>1. CASE UNCHANGED <<stream, cursor>>
  BY <1>1 DEF Following
<1>2. CASE stream' = stream /\ cursor' = NoCursor
  BY <1>2, FreshCursor
<1>3. CASE ExpectPolls
  BY <1>3, PollFollows
<1>4. CASE \E data \in Chunks : DrainReads(data)
  BY <1>4, AppendFollows DEF DrainReads
<1>5. CASE Seal
  <2>1. stream' = [stream EXCEPT !.closed = TRUE] /\ cursor' = cursor
    BY <1>5 DEF Seal, Quiet
  <2>2. /\ stream' \in Streams(Said) /\ stream' \in Streams(Bytes)
        /\ stream'.recs = stream.recs /\ stream'.gen = stream.gen
    BY <2>1 DEF Following, Streams
  <2> QED BY <2>1, <2>2 DEF Following
<1>6. CASE PlanStep
  <2>1. \/ PlanDone \/ OverDeadline \/ SeesCancel \/ CallBegins \/ DelayBegins \/ DelayEnds
        \/ BulkBegins \/ PieceBegins \/ BulkCanceled \/ BulkTimesOut \/ BulkDone
        \/ LateBegins \/ LateLocked \/ LateCanceled
        => UNCHANGED <<stream, cursor>>
    BY DEF PlanDone, OverDeadline, SeesCancel, CallBegins, DelayBegins, DelayEnds, BulkBegins,
       PieceBegins, BulkCanceled, BulkTimesOut, BulkDone, LateBegins, LateLocked, LateCanceled, Calm
  <2>2. ExpectBegins \/ ExpectHits \/ ExpectTimesOut \/ ExpectCanceled
        => stream' = stream /\ cursor' = NoCursor
    BY DEF ExpectBegins, ExpectHits, ExpectTimesOut, ExpectCanceled
  <2>3. \/ Listen \/ Popen \/ Track \/ Arm \/ ChildDone \/ ChildCanceled \/ ChildTimesOut \/ Pack
        => UNCHANGED <<stream, cursor>>
    BY DEF Listen, Popen, Track, Arm, ChildDone, ChildCanceled, ChildTimesOut, Pack
  <2> QED BY <1>1, <1>2, <1>3, <1>5, <1>6, <2>1, <2>2, <2>3 DEF PlanStep
<1>7. CASE DogStep \/ UserKills \/ Tick
  BY <1>1, <1>7 DEF DogStep, DogSleeps, DogCancels, DogKills, DogExits, DogDone, UserKills, Tick
<1>8. CASE Elsewhere
  <2>1. \/ CallReturns \/ PieceReturns \/ HandlesClosed \/ UserCancels \/ PeerEnds
        \/ ChildExits \/ ChildDies
        => UNCHANGED <<stream, cursor>>
    BY DEF CallReturns, PieceReturns, HandlesClosed, UserCancels, PeerEnds, ChildExits, ChildDies, Calm
  <2> QED BY <1>1, <1>4, <1>8, <2>1 DEF Elsewhere
<1>9. CASE UNCHANGED vars
  BY <1>1, <1>9 DEF vars
<1> QED BY <1>6, <1>7, <1>8, <1>9 DEF Next

\* At every moment of the session the cursor has not outrun the stream.
LEMMA FollowingSession == Spec => []Following
<1>1. Init => Following
  <2> SUFFICES ASSUME Init PROVE Following
    OBVIOUS
  <2>1. stream = [recs |-> <<>>, gen |-> 0, closed |-> FALSE] /\ cursor = NoCursor
    BY DEF Init
  <2> QED BY <2>1 DEF Following, NoCursor, Streams
<1>2. Following /\ [Next]_vars => Following'
  BY FollowingNext
<1> QED BY <1>1, <1>2, PTL DEF Spec

\* The incremental search answers at every moment what a search of the whole stream
\* would: for any needle, any way the bytes are cut into records, and any cap.
THEOREM SearchMissesNothing == Spec => []SearchIsExact
<1>1. Following => SearchIsExact
  <2> SUFFICES ASSUME Following
               PROVE  Scan(stream, cursor).found <=> Occurs(Needle, Payload(stream.recs))
    BY DEF SearchIsExact
  <2>1. stream \in Streams(Bytes) /\ ResumesWell(stream, cursor)
    BY FollowingResumes DEF Following
  <2> QED BY <2>1, ScanIs DEF Searched
<1> QED BY <1>1, FollowingSession, PTL

-----------------------------------------------------------------------------
(* Types, to the number *)

\* Waits that were credited are over; a transfer has so many pieces.
Meter ==
    /\ run.credit <= now /\ (At("late") => run.credit <= run.since)
    /\ run.moved <= Transfer /\ (At("piece") => run.moved < Transfer)

\* There is a child where the code has one in hand.
Parent == child.tracked \/ InChildOp => child.st # "none"

\* The users, the other session, the drain thread and the verdict.
Around ==
    /\ peer \in BOOLEAN /\ user \in {"off", "kill", "done"}
    /\ uart \in [drain : {"off", "on", "stop"}, heard : 0 .. MaxHeard]
    /\ verdict \in {"none", "ok", "inert", "errors", "canceled"}

Measured == SessionInv /\ Following /\ Meter /\ Parent /\ Around

\* Numbers that do not grow keep their bounds, and so do the ones of an op that is over.
Tame(r) == /\ r.credit = run.credit /\ r.moved \in {0, run.moved}
           /\ r.pc \notin {"late", "piece"} \/ (r.pc = run.pc /\ r.since = run.since /\ r.moved = run.moved)

\* A tame step of the plan thread, or of the clock, keeps the bounds.
LEMMA TameKeeps ==
  ASSUME SessionInv, Meter, Tame(run'), now' \in Nat, now' >= now
  PROVE  Meter'
<1>1. /\ now \in Nat /\ run.credit \in Nat /\ run.since \in Nat /\ run.moved \in Nat
      /\ Transfer \in Nat
  BY RunAssumption DEF SessionInv, Types, RunRecord
<1> QED BY <1>1 DEF Meter, Tame, At

\* An op that is over.
LEMMA EndedTame ==
  ASSUME SessionInv, NEW st \in Rows, NEW hit, NEW why
  PROVE  /\ Tame(Ended(st)) /\ Ended(st).pc = "op"
         /\ Tame([Ended(st) EXCEPT !.checks = @ \cup {hit}])
         /\ [Ended(st) EXCEPT !.checks = @ \cup {hit}].pc = "op"
         /\ Tame([Ended(st) EXCEPT !.pc = "closing", !.why = why])
         /\ [Ended(st) EXCEPT !.pc = "closing", !.why = why].pc = "closing"
<1>1. DOMAIN run = {"pc", "i", "since", "moved", "canceled", "credit", "log", "failed", "checks", "why"}
  BY DEF SessionInv, Types, RunRecord
<1> QED BY <1>1 DEF Ended, Tame

\* A position taken, with its time or its reason.
LEMMA PositionTame ==
  ASSUME SessionInv, NEW pc \in RunPCs \ {"late", "piece"}, NEW since, NEW why
  PROVE  /\ Tame([run EXCEPT !.pc = pc]) /\ [run EXCEPT !.pc = pc].pc = pc
         /\ Tame([run EXCEPT !.pc = pc, !.since = since])
         /\ [run EXCEPT !.pc = pc, !.since = since].pc = pc
         /\ Tame([run EXCEPT !.pc = pc, !.why = why]) /\ [run EXCEPT !.pc = pc, !.why = why].pc = pc
<1>1. DOMAIN run = {"pc", "i", "since", "moved", "canceled", "credit", "log", "failed", "checks", "why"}
  BY DEF SessionInv, Types, RunRecord
<1> QED BY <1>1 DEF Tame

\* Every end of an op is tame, and leaves the op.
LEMMA EndsTame ==
  ASSUME SessionInv,
         \/ \E st \in Rows : OpEnds(st)
         \/ \E st \in Rows, hit \in {"hit", "miss", "timeout"} : OpChecks(st, hit)
         \/ Fails
  PROVE  Tame(run') /\ run'.pc \in {"op", "closing"}
<1>1. ASSUME NEW st \in Rows, OpEnds(st) PROVE Tame(run') /\ run'.pc \in {"op", "closing"}
  BY <1>1, EndedTame DEF OpEnds
<1>2. ASSUME NEW st \in Rows, NEW hit \in {"hit", "miss", "timeout"}, OpChecks(st, hit)
      PROVE  Tame(run') /\ run'.pc \in {"op", "closing"}
  BY <1>2, EndedTame DEF OpChecks
<1>3. CASE Fails
  BY <1>3, EndedTame DEF Fails, PlanStops, Rows
<1> QED BY <1>1, <1>2, <1>3

\* The plan thread counts what it should, and has a child in hand when it says so.
LEMMA PlanThreadMeters ==
  ASSUME SessionInv, Meter, Parent, PlanStep \/ CallReturns \/ PieceReturns \/ HandlesClosed
  PROVE  Meter' /\ Parent'
<1> DEFINE Ends == \/ \E st \in Rows : OpEnds(st)
                   \/ \E st \in Rows, hit \in {"hit", "miss", "timeout"} : OpChecks(st, hit)
                   \/ Fails
<1>0. /\ now \in Nat /\ run.credit \in Nat /\ run.since \in Nat /\ run.moved \in Nat
      /\ run \in RunRecord /\ Transfer \in Nat /\ child \in ChildRecord /\ run.since <= now
  BY RunAssumption DEF SessionInv, Types, RunRecord, Clock
<1>1. ASSUME now' = now, Tame(run') PROVE Meter'
  BY <1>0, <1>1, TameKeeps
<1>2. ASSUME child' = child, run'.pc \notin {"popen", "arm", "child"} \/ run' = run PROVE Parent'
  BY <1>2 DEF Parent, InChildOp
<1>3. ASSUME child'.st # "none" PROVE Parent'
  BY <1>3 DEF Parent
<1>4. ASSUME now' = now, child' = child, Ends PROVE Meter' /\ Parent'
  <2>1. Tame(run') /\ run'.pc \in {"op", "closing"}
    BY <1>4, EndsTame
  <2> QED BY <1>1, <1>2, <1>4, <2>1
<1>5. ASSUME NEW pc \in RunPCs \ ({"late", "piece"} \cup ChildPCs), NEW since, NEW why,
             now' = now, child' = child,
             \/ run' = [run EXCEPT !.pc = pc]
             \/ run' = [run EXCEPT !.pc = pc, !.since = since]
             \/ run' = [run EXCEPT !.pc = pc, !.why = why]
      PROVE  Meter' /\ Parent'
  <2>1. pc \in RunPCs \ {"late", "piece"}
    BY <1>5
  <2>2. /\ Tame([run EXCEPT !.pc = pc]) /\ [run EXCEPT !.pc = pc].pc = pc
        /\ Tame([run EXCEPT !.pc = pc, !.since = since])
        /\ [run EXCEPT !.pc = pc, !.since = since].pc = pc
        /\ Tame([run EXCEPT !.pc = pc, !.why = why]) /\ [run EXCEPT !.pc = pc, !.why = why].pc = pc
    BY <2>1, PositionTame
  <2>3. Tame(run') /\ run'.pc = pc
    BY <1>5, <2>2, Zenon
  <2> QED BY <1>1, <1>2, <1>5, <2>3 DEF ChildPCs
<1>6. CASE \/ DelayEnds \/ BulkCanceled \/ BulkTimesOut \/ BulkDone \/ LateCanceled \/ Listen
           \/ ExpectTimesOut \/ ExpectCanceled \/ CallReturns
  <2>1. Ends /\ now' = now /\ child' = child
    BY <1>6 DEF DelayEnds, BulkCanceled, BulkTimesOut, BulkDone, LateCanceled, Listen,
       ExpectTimesOut, ExpectCanceled, CallReturns, Calm, Quiet, Rows
  <2> HIDE DEF Ends
  <2> QED BY <1>4, <2>1
<1>7. CASE PlanDone \/ OverDeadline \/ HandlesClosed \/ Seal
  BY <1>5, <1>7 DEF PlanDone, OverDeadline, HandlesClosed, Seal, LeaveBlock, Calm, Quiet, RunPCs, ChildPCs
<1>8. CASE CallBegins \/ DelayBegins \/ BulkBegins \/ ExpectBegins
  BY <1>5, <1>8 DEF CallBegins, DelayBegins, BulkBegins, ExpectBegins, Enter, Calm, Quiet,
     RunPCs, ChildPCs
<1>9. CASE SeesCancel
  <2>1. now' = now /\ child' = child /\ run' = [run EXCEPT !.pc = "closing", !.why = "cancel", !.failed = TRUE]
    BY <1>9 DEF SeesCancel, LeaveBlock, Calm, Quiet
  <2>2. Tame(run') /\ run'.pc = "closing"
    BY <1>0, <2>1 DEF RunRecord, Tame
  <2> QED BY <1>1, <1>2, <2>1, <2>2
<1>10. CASE LateBegins
  <2>1. now' = now /\ child' = child /\ run' = [run EXCEPT !.pc = "late", !.since = now]
    BY <1>10 DEF LateBegins, Enter, Calm, Quiet
  <2>2. run'.pc = "late" /\ run'.since = now /\ run'.credit = run.credit /\ run'.moved = run.moved
    BY <1>0, <2>1 DEF RunRecord
  <2> QED BY <1>0, <1>2, <2>1, <2>2 DEF Meter, At
<1>11. CASE LateLocked
  <2>1. /\ now' = now /\ child' = child /\ run.pc = "late"
        /\ run' = [run EXCEPT !.pc = "call", !.since = 0, !.credit = run.credit + (now - run.since)]
    BY <1>11 DEF LateLocked, At, Calm, Quiet
  <2>2. run'.pc = "call" /\ run'.credit = run.credit + (now - run.since) /\ run'.moved = run.moved
    BY <1>0, <2>1 DEF RunRecord
  <2>3. Meter'
    BY <1>0, <2>1, <2>2 DEF Meter, At
  <2> QED BY <1>2, <2>1, <2>2, <2>3
<1>12. CASE PieceBegins
  <2>1. now' = now /\ child' = child /\ run.moved < Transfer /\ run' = [run EXCEPT !.pc = "piece"]
    BY <1>12 DEF PieceBegins, Calm, Quiet
  <2>2. run'.pc = "piece" /\ run'.credit = run.credit /\ run'.moved = run.moved
    BY <1>0, <2>1 DEF RunRecord
  <2>3. Meter'
    BY <1>0, <2>1, <2>2 DEF Meter, At
  <2> QED BY <1>2, <2>1, <2>2, <2>3
<1>13. CASE PieceReturns
  <2>1. now' = now /\ child' = child /\ run.moved < Transfer
    BY <1>13 DEF PieceReturns, Calm, Quiet, Meter
  <2>2. CASE OpEnds("error")
    <3>1. Ends
      BY <2>2 DEF Rows
    <3> HIDE DEF Ends
    <3> QED BY <1>4, <2>1, <3>1
  <2>3. CASE run' = [run EXCEPT !.pc = "bulk", !.moved = run.moved + 1]
    <3>1. run'.pc = "bulk" /\ run'.credit = run.credit /\ run'.moved = run.moved + 1
      BY <1>0, <2>3 DEF RunRecord
    <3>2. Meter'
      BY <1>0, <2>1, <3>1 DEF Meter, At
    <3> QED BY <1>2, <2>1, <3>1, <3>2
  <2> QED BY <1>13, <2>2, <2>3 DEF PieceReturns
<1>14. CASE ExpectHits
  <2>1. now' = now /\ child' = child
    BY <1>14 DEF ExpectHits, Quiet
  <2>2. CASE OpChecks("ok", "hit")
    <3>1. Ends
      BY <2>2 DEF Rows
    <3> HIDE DEF Ends
    <3> QED BY <1>4, <2>1, <3>1
  <2>3. CASE run' = [Ended("ok") EXCEPT !.checks = @ \cup {"hit"}, !.pc = "closing", !.why = "early"]
    <3>1. Tame(run') /\ run'.pc = "closing"
      BY <1>0, <2>3 DEF RunRecord, Ended, Tame
    <3> QED BY <1>1, <1>2, <2>1, <3>1
  <2> QED BY <1>14, <2>2, <2>3 DEF ExpectHits
<1>15. CASE ExpectPolls \/ Pack
  <2>1. now' = now /\ child' = child /\ run' = run
    BY <1>15 DEF ExpectPolls, Pack, Quiet
  <2> QED BY <2>1 DEF Meter, Parent, InChildOp, At
<1>16. CASE Popen
  <2>1. /\ now' = now /\ child'.st = "up"
        /\ \E pc \in ChildPCs : run' = [run EXCEPT !.pc = pc, !.since = now]
    BY <1>16 DEF Popen, Enter, Quiet, ChildPCs
  <2>2. PICK pc \in ChildPCs : run' = [run EXCEPT !.pc = pc, !.since = now]
    BY <2>1
  <2>3. pc \in RunPCs \ {"late", "piece"}
    BY DEF ChildPCs, RunPCs
  <2>4. Tame([run EXCEPT !.pc = pc, !.since = now])
    BY <2>3, PositionTame
  <2>5. Tame(run')
    BY <2>2, <2>4, Zenon
  <2> QED BY <1>1, <1>3, <2>1, <2>5
<1>17. CASE Track
  <2>1. /\ now' = now /\ child' = [child EXCEPT !.tracked = TRUE] /\ child.st # "none"
        /\ \E pc \in ChildPCs : run' = [run EXCEPT !.pc = pc]
    BY <1>17 DEF Track, Quiet, ChildPCs, Parent, InChildOp, At
  <2>2. PICK pc \in ChildPCs : run' = [run EXCEPT !.pc = pc]
    BY <2>1
  <2>4. pc \in RunPCs \ {"late", "piece"}
    BY DEF ChildPCs, RunPCs
  <2>5. Tame([run EXCEPT !.pc = pc]) /\ Tame([run EXCEPT !.pc = pc, !.since = now])
    BY <2>4, PositionTame
  <2>3. child'.st # "none"
    BY <1>0, <2>1 DEF ChildRecord
  <2>6. Tame(run')
    BY <2>2, <2>5, Zenon
  <2> QED BY <1>1, <1>3, <2>1, <2>3, <2>6
<1>18. ASSUME NEW tracked \in BOOLEAN, Drop(tracked), child.st # "none" PROVE child'.st # "none"
  BY <1>0, <1>18 DEF Drop, ChildRecord
<1>19. CASE Arm
  <2>1. now' = now /\ child.st # "none"
    BY <1>19 DEF Arm, Quiet, Parent, InChildOp, At
  <2>2. CASE OpEnds("error") /\ Drop(TRUE)
    <3>1. Tame(run')
      BY <2>2, EndsTame DEF Rows
    <3> QED BY <1>1, <1>3, <1>18, <2>1, <2>2, <3>1
  <2>3. CASE child' = [child EXCEPT !.armed = TRUE] /\ run' = [run EXCEPT !.pc = "child"]
    <3>1. Tame(run')
      BY <2>3, PositionTame DEF RunPCs
    <3>2. child'.st # "none"
      BY <1>0, <2>1, <2>3 DEF ChildRecord
    <3> QED BY <1>1, <1>3, <2>1, <3>1, <3>2
  <2> QED BY <1>19, <2>2, <2>3 DEF Arm
<1>20. CASE ChildDone \/ ChildCanceled \/ ChildTimesOut
  <2>1. /\ now' = now /\ child.st # "none" /\ \E st \in Rows : OpEnds(st)
        /\ child' = [child EXCEPT !.tracked = FALSE] \/ Drop(Op = "boot")
    BY <1>20 DEF ChildDone, ChildCanceled, ChildTimesOut, SeenByLoop, Quiet, Rows
  <2>2. Tame(run')
    BY <2>1, EndsTame
  <2>3. child'.st # "none"
    BY <1>0, <1>18, <2>1 DEF ChildRecord
  <2> QED BY <1>1, <1>3, <2>1, <2>2, <2>3
<1> QED BY <1>6, <1>7, <1>8, <1>9, <1>10, <1>11, <1>12, <1>13, <1>14, <1>15, <1>16, <1>17, <1>19, <1>20
     DEF PlanStep

\* A cancel and the wait of another session do not count anything.
LEMMA NextMeters ==
  ASSUME SessionInv, Meter, Parent, [Next]_vars
  PROVE  Meter' /\ Parent'
<1>0. now \in Nat /\ run \in RunRecord /\ child \in ChildRecord /\ run.credit \in Nat /\ run.since \in Nat
  BY DEF SessionInv, Types, RunRecord
<1>1. ASSUME now' = now, run' = run \/ Flag, child' = child \/ KillTracked PROVE Meter' /\ Parent'
  <2>1. run'.pc = run.pc /\ run'.since = run.since /\ run'.moved = run.moved /\ run'.credit = run.credit
    BY <1>0, <1>1 DEF Flag, RunRecord
  <2>2. child'.tracked = child.tracked /\ (child.st # "none" => child'.st # "none")
    BY <1>0, <1>1 DEF KillTracked, ChildRecord
  <2> QED BY <1>1, <2>1, <2>2 DEF Meter, Parent, InChildOp, At
<1>2. CASE PlanStep \/ CallReturns \/ PieceReturns \/ HandlesClosed
  BY <1>2, PlanThreadMeters
<1>3. CASE DogStep \/ UserKills \/ UserCancels \/ PeerEnds \/ (\E data \in Chunks : DrainReads(data))
  BY <1>1, <1>3 DEF DogStep, DogSleeps, DogCancels, DogKills, DogExits, DogDone, UserKills,
     UserCancels, PeerEnds, DrainReads
<1>4. CASE ChildExits \/ ChildDies
  <2>1. now' = now /\ run' = run /\ child'.st # "none"
    BY <1>0, <1>4 DEF ChildExits, ChildDies, ChildRecord
  <2> QED BY <2>1 DEF Meter, Parent, At
<1>5. CASE Tick
  <2>1. now' = now + 1 /\ run' = run /\ child' = child
    BY <1>5 DEF Tick
  <2> QED BY <1>0, <2>1 DEF Meter, Parent, InChildOp, At
<1>6. CASE UNCHANGED vars
  BY <1>1, <1>6 DEF vars
<1> QED BY <1>2, <1>3, <1>4, <1>5, <1>6 DEF Next, Elsewhere

\* The other threads' own state.
LEMMA NextAround ==
  ASSUME SessionInv, Around, [Next]_vars
  PROVE  Around'
<1>1. ASSUME UNCHANGED <<peer, user, uart, verdict>> PROVE Around'
  BY <1>1 DEF Around
<1>2. CASE PlanStep
  <2>1. CASE Listen
    BY <2>1 DEF Listen, Around
  <2>2. CASE Pack
    <3>1. Status \in {"ok", "inert", "errors", "canceled"}
      BY DEF Status
    <3>2. verdict' = Status /\ UNCHANGED <<peer, user, uart>>
      BY <2>2 DEF Pack
    <3> QED BY <3>1, <3>2 DEF Around
  <2>3. CASE \/ PlanDone \/ OverDeadline \/ SeesCancel \/ CallBegins \/ DelayBegins \/ DelayEnds
             \/ BulkBegins \/ PieceBegins \/ BulkCanceled \/ BulkTimesOut \/ BulkDone
             \/ LateBegins \/ LateLocked \/ LateCanceled
    <3>1. Quiet
      BY <2>3 DEF PlanDone, OverDeadline, SeesCancel, CallBegins, DelayBegins, DelayEnds, BulkBegins,
         PieceBegins, BulkCanceled, BulkTimesOut, BulkDone, LateBegins, LateLocked, LateCanceled, Calm
    <3> QED BY <1>1, <3>1 DEF Quiet
  <2>4. CASE \/ ExpectBegins \/ ExpectPolls \/ ExpectHits \/ ExpectTimesOut \/ ExpectCanceled
             \/ Popen \/ Track \/ Arm \/ ChildDone \/ ChildCanceled \/ ChildTimesOut \/ Seal
    <3>1. Quiet
      BY <2>4 DEF ExpectBegins, ExpectPolls, ExpectHits, ExpectTimesOut, ExpectCanceled, Popen,
         Track, Arm, ChildDone, ChildCanceled, ChildTimesOut, Seal
    <3> QED BY <1>1, <3>1 DEF Quiet
  <2> QED BY <1>2, <2>1, <2>2, <2>3, <2>4 DEF PlanStep
<1>3. CASE DogStep \/ UserKills \/ UserCancels \/ PeerEnds \/ Tick
  <2>1. UNCHANGED <<uart, verdict>> /\ peer' \in {peer, FALSE} /\ user' \in {user, "kill", "done"}
    BY <1>3 DEF DogStep, DogSleeps, DogCancels, DogKills, DogExits, DogDone, UserKills,
       UserCancels, PeerEnds, Tick
  <2> QED BY <2>1 DEF Around
<1>4. ASSUME NEW data \in Chunks, DrainReads(data) PROVE Around'
  <2>1. Len(data) \in Nat /\ MaxHeard \in Nat /\ uart.heard \in 0 .. MaxHeard
    BY RunAssumption, ChunkIs DEF Around
  <2>2. /\ UNCHANGED <<peer, user, verdict>> /\ uart.heard + Len(data) <= MaxHeard
        /\ uart' = [drain |-> IF uart.drain = "stop" THEN "off" ELSE "on",
                    heard |-> uart.heard + Len(data)]
    BY <1>4 DEF DrainReads
  <2>3. uart.heard + Len(data) \in 0 .. MaxHeard
    BY <2>1, <2>2
  <2> QED BY <2>2, <2>3 DEF Around
<1>5. CASE HandlesClosed
  <2>1. /\ uart' = [uart EXCEPT !.drain = IF @ = "on" THEN "stop" ELSE @]
        /\ UNCHANGED <<peer, user, verdict>>
    BY <1>5 DEF HandlesClosed
  <2> QED BY <2>1 DEF Around
<1>6. CASE CallReturns \/ PieceReturns \/ ChildExits \/ ChildDies
  <2>1. UNCHANGED <<peer, user, uart, verdict>>
    BY <1>6 DEF CallReturns, PieceReturns, ChildExits, ChildDies, Calm, Quiet
  <2> QED BY <1>1, <2>1
<1>7. CASE UNCHANGED vars
  BY <1>1, <1>7 DEF vars
<1> QED BY <1>2, <1>3, <1>4, <1>5, <1>6, <1>7 DEF Next, Elsewhere

\* What the invariant says of the types.
LEMMA MeasuredIsTyped == Measured => TypeOK
<1> SUFFICES ASSUME Measured PROVE TypeOK
  OBVIOUS
<1>1. /\ run \in RunRecord /\ child \in ChildRecord /\ now \in Nat /\ plan \in Plans
      /\ dog \in [pc : {"wait", "kill", "grace", "done", "exit"}, wake : Nat]
      /\ run.i \in 1 .. Len(plan) + 1 /\ run.since <= now /\ Transfer \in Nat
  BY RunAssumption DEF Measured, SessionInv, Types, Told, Clock
<1>2. /\ run.pc \in RunPCs /\ run.since \in 0 .. now /\ run.moved \in 0 .. Transfer
      /\ run.credit \in 0 .. now /\ run.log \in Seq({"ok", "error"})
      /\ run.checks \subseteq {"hit", "miss", "timeout"}
      /\ run.why \in {"none", "end", "deadline", "cancel", "early", "fatal"}
      /\ run.canceled \in BOOLEAN /\ run.failed \in BOOLEAN
  BY <1>1 DEF RunRecord, Measured, Meter, Rows
<1>3. stream.closed \in BOOLEAN /\ cursor.index \in Nat /\ cursor.gen \in -1 .. stream.gen
  BY DEF Measured, Following, Streams
<1>4. Payload(stream.recs) \in Seq(Said)
  <2>1. stream.recs \in Seq(Seq(Said)) /\ Len(stream.recs) \in Nat
    BY DEF Measured, Following, Streams
  <2>2. /\ Payload(First(stream.recs, Len(stream.recs))) = Payload(stream.recs)
        /\ \A k \in 0 .. Len(stream.recs) : Payload(First(stream.recs, k)) \in Seq(Said)
    BY <2>1, PayloadSteps, Zenon
  <2>3. Len(stream.recs) \in 0 .. Len(stream.recs)
    BY <2>1
  <2> QED BY <2>2, <2>3
<1>5. child.st \in {"none", "up", "dying", "exited", "killed"} /\ (child.tracked => child.st # "none")
  BY <1>1 DEF ChildRecord, Measured, Parent
<1>6. /\ peer \in BOOLEAN /\ user \in {"off", "kill", "done"}
      /\ uart.drain \in {"off", "on", "stop"} /\ uart.heard \in 0 .. MaxHeard
      /\ verdict \in {"none", "ok", "inert", "errors", "canceled"}
  BY DEF Measured, Around
<1>7. {run.canceled, run.failed, stream.closed} \subseteq BOOLEAN
  BY <1>2, <1>3
<1> QED BY <1>1, <1>2, <1>3, <1>4, <1>5, <1>6, <1>7 DEF TypeOK, Said

\* Every variable of the session has its type, the clock and the counts their bounds.
THEOREM SessionStaysTyped == Spec => []TypeOK
<1>1. Init => Meter /\ Parent /\ Around
  <2> SUFFICES ASSUME Init PROVE Meter /\ Parent /\ Around
    OBVIOUS
  <2>1. /\ run.pc = "op" /\ run.credit = 0 /\ run.moved = 0 /\ run.since = 0 /\ now = 0
        /\ child = NoChild /\ user = "off" /\ peer \in BOOLEAN /\ verdict = "none"
        /\ uart = [drain |-> "off", heard |-> 0]
    BY DEF Init
  <2> QED BY <2>1, RunAssumption DEF Meter, Parent, Around, InChildOp, NoChild, At
<1>2. SessionInv /\ Meter /\ Parent /\ Around /\ [Next]_vars => (Meter /\ Parent /\ Around)'
  BY NextMeters, NextAround
<1>3. SessionInv /\ Following /\ Meter /\ Parent /\ Around => TypeOK
  BY MeasuredIsTyped DEF Measured
<1>4. Spec => []Following
  BY FollowingSession
<1> QED BY <1>1, <1>2, <1>3, <1>4, SessionInvariant, PTL DEF Spec
=============================================================================
