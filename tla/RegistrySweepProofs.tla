------------------------ MODULE RegistrySweepProofs -------------------------
(***************************************************************************)
(* What RegistrySweep promises for any number of devices, helper threads,  *)
(* sweeps, sessions and hanging calls.                                     *)
(***************************************************************************)
EXTENDS RegistrySweep, FiniteSetTheorems, WellFoundedInduction, TLAPS

AcqPCs == {"free", "check", "lock", "recheck", "open", "held", "ok", "failed"}
JobPCs == {"none", "spawned", "refresh", "probe", "resolve", "pin", "lock", "op",
           "unlock", "unpin", "end"}

AcqRecord  == [key : Keys \cup {0}, pc : AcqPCs, alone : BOOLEAN]
JobRecord  == [pc : JobPCs, key : Keys \cup {0}]
MainRecord == [pc : {"loop", "scan", "probe", "sweep", "verify"}, goal : {"none", "sweep"},
               todo : SUBSET Keys, found : SUBSET Keys, key : Keys \cup {0},
               helper : Helpers \cup {Nobody}, clean : BOOLEAN]

Types ==
    /\ attached \subseteq Keys /\ specs \subseteq Keys /\ cached \subseteq Keys
    /\ refs \in [Keys -> Nat] /\ hung \in [Keys -> Nat]
    /\ lock \in [Keys -> Takers \cup {Nobody}]
    /\ acq \in [Takers -> AcqRecord] /\ main \in MainRecord /\ job \in JobRecord

\* At most one call of a plugin's probe is in the driver.
ProbeAlone == probing \in [Keys -> {{}, {"main"}, {"job"}, {"left"}}]

\* A device that was quarantined, whether an operator has released it since or not.
Flagged == quarantined \cup cleared

HungFlagged == \A k \in Keys : hung[k] > 0 => k \in Flagged

\* A sweep that began on an idle bench has it to itself.
Alone ==
    /\ main.pc \in {"sweep", "verify"} => main.goal = "sweep"
    /\ main.pc # "loop" /\ main.goal = "sweep" /\ main.clean => job.pc = "none"

\* The key of every acquire, and who has its lock.
OwnsItsKey(a) ==
    /\ acq[a].pc # "free" => acq[a].key \in Keys
    /\ acq[a].pc \in {"recheck", "open", "held"} => lock[acq[a].key] = a
    /\ a \in Helpers => \A k \in Keys : lock[k] = a =>
           acq[a].pc \in {"recheck", "open", "held"} /\ acq[a].key = k

\* A helper works for the main loop until its time is up, and then on a device
\* that has been quarantined; it goes when it is done.
Employed(a) ==
    acq[a].pc # "free" =>
        IF acq[a].alone THEN acq[a].pc \notin {"ok", "failed"} /\ acq[a].key \in Flagged
        ELSE main.pc = "verify" /\ main.helper = a /\ main.key = acq[a].key

\* The main loop has one helper, and waits for it at its device.
Waiting ==
    main.pc = "verify" =>
        /\ main.helper \in Helpers /\ acq[main.helper].pc # "free"
        /\ ~acq[main.helper].alone /\ acq[main.helper].key = main.key

\* A session has the lock of its device from JobLocks to JobUnlocks, and an
\* acquire of its own only while its op runs.
SessionLock ==
    /\ job.pc # "none" => job.key \in Keys
    /\ \A k \in Keys : lock[k] = "job" <=> job.pc \in {"op", "unlock"} /\ job.key = k
    /\ acq["job"].pc # "free" <=> job.pc = "op"
    /\ job.pc = "op" => acq["job"].key = job.key
    /\ ~acq["job"].alone

Threads ==
    /\ \A a \in Takers : OwnsItsKey(a)
    /\ \A a \in Helpers : Employed(a)
    /\ Waiting /\ SessionLock

\* The references of a handle are those of its one user, and a handle without a
\* user is that of a sweep or a session about to close it, or of a flagged device.
Kept(k) ==
    /\ refs[k] = IF \E a \in Takers : acq[a].pc = "held" /\ acq[a].key = k THEN 1 ELSE 0
    /\ refs[k] > 0 => k \in cached
    /\ k \in cached /\ refs[k] = 0 =>
           \/ main.pc = "verify" /\ main.key = k /\ acq[main.helper].pc = "ok"
           \/ job.pc = "op" /\ job.key = k
           \/ k \in Flagged

SweepInv ==
    /\ Types /\ ProbeAlone /\ HungFlagged /\ Alone /\ Threads
    /\ \A k \in Keys : Kept(k)

-----------------------------------------------------------------------------
(* Helpers *)

\* The devices have a first one.
LEMMA FirstIn ==
  ASSUME NEW S \in SUBSET Keys, S # {}
  PROVE  First(S) \in S
<1> DEFINE Less == {ss \in Nat \X Nat : ss[1] < ss[2]}
<1>1. IsWellFoundedOn(Less, Nat)
  BY NatLessThanWellFounded DEF OpToRel
<1>2. S \subseteq Nat
  BY SweepAssumption
<1> HIDE DEF Less
<1>3. PICK x \in S : \A y \in S : ~(<<y, x>> \in Less)
  BY <1>1, <1>2, WFMin
<1>4. ASSUME NEW y \in S PROVE x <= y
  <2>1. x \in Nat /\ y \in Nat
    BY <1>2
  <2>2. y < x => <<y, x>> \in Less
    BY <2>1 DEF Less
  <2> QED BY <1>3, <2>1, <2>2
<1> QED BY <1>4 DEF First

\* The records an acquire and the main loop start with.
LEMMA Blank ==
  /\ Free \in AcqRecord /\ Free.pc = "free" /\ ~Free.alone
  /\ Loop \in MainRecord /\ Loop.pc = "loop"
  BY DEF Free, AcqRecord, AcqPCs, Loop, MainRecord

\* What becomes of an acquire that goes on to pc.
LEMMA GoesOn ==
  ASSUME Types, NEW a \in Takers, NEW pc \in AcqPCs, To(a, pc)
  PROVE  /\ acq' \in [Takers -> AcqRecord]
         /\ \A b \in Takers \ {a} : acq'[b] = acq[b]
         /\ acq[a].alone /\ pc \in {"ok", "failed"} => acq'[a] = Free
         /\ ~(acq[a].alone /\ pc \in {"ok", "failed"}) =>
                /\ acq'[a].pc = pc /\ acq'[a].key = acq[a].key
                /\ acq'[a].alone = acq[a].alone
<1>1. acq \in [Takers -> AcqRecord] /\ acq[a] \in AcqRecord
  BY DEF Types
<1>2. CASE acq[a].alone /\ pc \in {"ok", "failed"}
  <2>1. acq' = [acq EXCEPT ![a] = Free]
    BY <1>2 DEF To
  <2> QED BY <1>1, <1>2, <2>1, Blank
<1>3. CASE ~(acq[a].alone /\ pc \in {"ok", "failed"})
  <2> DEFINE r == [acq[a] EXCEPT !.pc = pc]
  <2>1. acq' = [acq EXCEPT ![a] = r]
    BY <1>3 DEF To
  <2>2. r \in AcqRecord /\ r.pc = pc /\ r.key = acq[a].key /\ r.alone = acq[a].alone
    BY <1>1 DEF AcqRecord
  <2> HIDE DEF r
  <2> QED BY <1>1, <1>3, <2>1, <2>2
<1> QED BY <1>2, <1>3

-----------------------------------------------------------------------------
(* Probes *)

\* No step enters a probe beside another one.
LEMMA ProbesKeep == ProbeAlone /\ [Next]_vars => ProbeAlone'
<1> SUFFICES ASSUME ProbeAlone, [Next]_vars PROVE ProbeAlone'
  OBVIOUS
<1>0. probing \in [Keys -> {{}, {"main"}, {"job"}, {"left"}}]
  BY DEF ProbeAlone
<1>1. ASSUME NEW who \in {"main", "job"}, NEW k, ProbeStarts(who, k), ~ProbeBusy(k)
      PROVE  ProbeAlone'
  BY <1>0, <1>1 DEF ProbeStarts, ProbeBusy, ProbeAlone
<1>2. ASSUME NEW who \in {"main", "job", "left"}, NEW k, ProbeReturns(who, k)
      PROVE  ProbeAlone'
  BY <1>0, <1>2 DEF ProbeReturns, ProbeAlone
<1>3. ASSUME NEW who \in {"main", "job"}, NEW k, ProbeTimesOut(who, k)
      PROVE  ProbeAlone'
  BY <1>0, <1>3 DEF ProbeTimesOut, ProbeAlone
<1>4. ASSUME UNCHANGED probing PROVE ProbeAlone'
  BY <1>4 DEF ProbeAlone
<1>5. CASE ScanPlugin \/ JobProbes
  BY <1>1, <1>4, <1>5 DEF ScanPlugin, JobProbes
<1>6. CASE ScanReturns \/ JobProbeReturns
  BY <1>2, <1>6 DEF ScanReturns, JobProbeReturns
<1>7. CASE \E k \in Keys : LeftProbeReturns(k)
  BY <1>2, <1>7 DEF LeftProbeReturns
<1>8. CASE ScanTimesOut \/ JobProbeTimesOut
  BY <1>3, <1>8 DEF ScanTimesOut, JobProbeTimesOut
<1>9. CASE UNCHANGED vars
  BY <1>4, <1>9 DEF vars
<1>10. CASE \E k \in Keys : \/ Plug(k) \/ ReleaseMarker(k) \/ Spawn(k)
                            \/ \E opened \in BOOLEAN : HungReturns(k, opened)
  BY <1>4, <1>10 DEF Plug, ReleaseMarker, Spawn, HungReturns, calls
<1>11. CASE \E a \in Takers : \/ Opened(a) \/ OpenFails(a) \/ OpenHangs(a) \/ AcqStep(a)
  BY <1>4, <1>11 DEF Opened, OpenFails, OpenHangs, AcqStep, Check, TakeLock, Recheck,
     Leave, calls
<1>12. CASE \/ RefreshTick \/ SweepAsked \/ ScanApplies \/ SweepNext
            \/ Verified \/ VerifyTimesOut \/ SweepDone
  BY <1>4, <1>12 DEF RefreshTick, SweepAsked, ScanApplies, SweepNext, Verified,
     VerifyTimesOut, SweepDone, calls
<1>13. CASE \/ JobCanceled \/ Register \/ Resolve \/ Pin \/ JobLocks
            \/ JobCloses \/ JobUnlocks \/ Unpin \/ JobEnds
  BY <1>4, <1>13 DEF JobCanceled, Register, Resolve, Pin, JobLocks, JobCloses,
     JobUnlocks, Unpin, JobEnds, calls
<1> QED BY <1>5, <1>6, <1>7, <1>8, <1>9, <1>10, <1>11, <1>12, <1>13
        DEF Next, Environment, MainStep, JobStep

-----------------------------------------------------------------------------
(* Flags *)

\* A flag stays, and a call that hangs has flagged its device.
LEMMA FlagsKeep ==
  Types /\ HungFlagged /\ [Next]_vars => Flagged \subseteq Flagged' /\ HungFlagged'
<1> SUFFICES ASSUME Types, HungFlagged, [Next]_vars
             PROVE  Flagged \subseteq Flagged' /\ HungFlagged'
  OBVIOUS
<1>0. hung \in [Keys -> Nat]
  BY DEF Types
<1>1. ASSUME UNCHANGED <<quarantined, cleared, hung>>
      PROVE  Flagged \subseteq Flagged' /\ HungFlagged'
  BY <1>1 DEF Flagged, HungFlagged
<1>2. CASE \E a \in Takers : OpenHangs(a)
  <2>1. PICK k : /\ hung' = [hung EXCEPT ![k] = hung[k] + 1]
                 /\ quarantined' = quarantined \cup {k} /\ cleared' = cleared \ {k}
    BY <1>2 DEF OpenHangs, Quarantine
  <2> QED BY <1>0, <2>1 DEF Flagged, HungFlagged
<1>3. CASE VerifyTimesOut
  BY <1>3 DEF VerifyTimesOut, Quarantine, Flagged, HungFlagged, calls
<1>4. CASE \E k \in Keys : ReleaseMarker(k)
  BY <1>4 DEF ReleaseMarker, Flagged, HungFlagged, calls
<1>5. CASE \E k \in Keys, opened \in BOOLEAN : HungReturns(k, opened)
  BY <1>0, <1>5 DEF HungReturns, Flagged, HungFlagged, reg
<1>6. CASE UNCHANGED vars
  BY <1>1, <1>6 DEF vars
<1>7. CASE \E k \in Keys : Plug(k) \/ LeftProbeReturns(k) \/ Spawn(k)
  BY <1>1, <1>7 DEF Plug, LeftProbeReturns, Spawn, reg, calls
<1>8. CASE \E a \in Takers : Opened(a) \/ OpenFails(a) \/ AcqStep(a)
  BY <1>1, <1>8 DEF Opened, OpenFails, AcqStep, Check, TakeLock, Recheck, Leave, reg,
     calls
<1>9. CASE \/ RefreshTick \/ SweepAsked \/ ScanPlugin \/ ScanReturns \/ ScanTimesOut
           \/ ScanApplies \/ SweepNext \/ Verified \/ SweepDone
  BY <1>1, <1>9 DEF RefreshTick, SweepAsked, ScanPlugin, ScanReturns, ScanTimesOut,
     ScanApplies, SweepNext, Verified, SweepDone, reg, calls
<1>10. CASE JobCanceled \/ JobProbeReturns \/ JobStep
  BY <1>1, <1>10 DEF JobCanceled, JobProbeReturns, JobStep, Register, JobProbes,
     JobProbeTimesOut, Resolve, Pin, JobLocks, JobCloses, JobUnlocks, Unpin, JobEnds,
     reg, calls
<1> QED BY <1>2, <1>3, <1>4, <1>5, <1>6, <1>7, <1>8, <1>9, <1>10
        DEF Next, Environment, MainStep

-----------------------------------------------------------------------------
(* Who changes what *)

\* The steps of the bench, of an acquire, of the main loop, of the session.
BenchStep(k) ==
    \/ Plug(k) \/ LeftProbeReturns(k) \/ ReleaseMarker(k) \/ Spawn(k)
    \/ \E opened \in BOOLEAN : HungReturns(k, opened)
TakerStep(a) ==
    \/ Opened(a) \/ OpenFails(a) \/ OpenHangs(a) \/ Check(a) \/ TakeLock(a)
    \/ Recheck(a) \/ Leave(a)
LoopStep ==
    \/ RefreshTick \/ SweepAsked \/ ScanReturns \/ ScanPlugin \/ ScanTimesOut
    \/ ScanApplies \/ SweepNext \/ Verified \/ VerifyTimesOut \/ SweepDone
SessionStep ==
    \/ JobProbeReturns \/ JobCanceled \/ Register \/ JobProbes
    \/ JobProbeTimesOut \/ Resolve \/ Pin \/ JobLocks \/ JobCloses
    \/ JobUnlocks \/ Unpin \/ JobEnds

\* A step is one of these.
LEMMA StepIs ==
  ASSUME [Next]_vars
  PROVE  \/ \E k \in Keys : BenchStep(k)
         \/ \E a \in Takers : TakerStep(a)
         \/ LoopStep \/ SessionStep \/ UNCHANGED vars
  BY DEF Next, Environment, MainStep, JobStep, AcqStep, BenchStep, TakerStep, LoopStep,
     SessionStep

\* The bench, an operator and a new plan: which step changes what.
LEMMA BenchChanges ==
  ASSUME NEW k \in Keys, BenchStep(k)
  PROVE  /\ UNCHANGED <<specs, refs, lock, acq, main>>
         /\ UNCHANGED attached \/ Plug(k)
         /\ UNCHANGED cached \/ ReleaseMarker(k)
         /\ UNCHANGED hung \/ \E opened \in BOOLEAN : HungReturns(k, opened)
         /\ UNCHANGED probing \/ LeftProbeReturns(k)
         /\ UNCHANGED <<quarantined, cleared>> \/ ReleaseMarker(k)
         /\ UNCHANGED job \/ Spawn(k)
<1>1. UNCHANGED <<specs, refs, lock, acq, main>>
  BY DEF BenchStep, Plug, LeftProbeReturns, ReleaseMarker, Spawn, HungReturns,
     bench, reg, calls
<1>2. UNCHANGED attached \/ Plug(k)
  BY DEF BenchStep, LeftProbeReturns, ReleaseMarker, Spawn, HungReturns, bench,
     reg, calls
<1>3. UNCHANGED cached \/ ReleaseMarker(k)
  BY DEF BenchStep, Plug, LeftProbeReturns, Spawn, HungReturns, bench, reg, calls
<1>4. UNCHANGED hung \/ \E opened \in BOOLEAN : HungReturns(k, opened)
  BY DEF BenchStep, Plug, LeftProbeReturns, ReleaseMarker, Spawn, bench, reg, calls
<1>5. UNCHANGED probing \/ LeftProbeReturns(k)
  BY DEF BenchStep, Plug, ReleaseMarker, Spawn, HungReturns, bench, reg, calls
<1>6. UNCHANGED <<quarantined, cleared>> \/ ReleaseMarker(k)
  BY DEF BenchStep, Plug, LeftProbeReturns, Spawn, HungReturns, bench, reg, calls
<1>7. UNCHANGED job \/ Spawn(k)
  BY DEF BenchStep, Plug, LeftProbeReturns, ReleaseMarker, HungReturns, bench, reg,
     calls
<1> QED BY <1>1, <1>2, <1>3, <1>4, <1>5, <1>6, <1>7

\* An acquire: which step changes what.
LEMMA TakerChanges ==
  ASSUME NEW a \in Takers, TakerStep(a)
  PROVE  /\ UNCHANGED <<attached, specs, probing, main, job>>
         /\ UNCHANGED cached \/ Opened(a)
         /\ UNCHANGED refs \/ Recheck(a) \/ Opened(a) \/ Leave(a)
         /\ UNCHANGED hung \/ OpenHangs(a)
         /\ UNCHANGED lock \/ TakeLock(a) \/ Recheck(a) \/ OpenFails(a)
            \/ OpenHangs(a) \/ Leave(a)
         /\ UNCHANGED <<quarantined, cleared>> \/ OpenHangs(a)
<1>1. UNCHANGED <<attached, specs, probing, main, job>>
  BY DEF TakerStep, Opened, OpenFails, OpenHangs, Check, TakeLock, Recheck, Leave,
     bench, reg, calls
<1>2. UNCHANGED cached \/ Opened(a)
  BY DEF TakerStep, OpenFails, OpenHangs, Check, TakeLock, Recheck, Leave, bench,
     reg, calls
<1>3. UNCHANGED refs \/ Recheck(a) \/ Opened(a) \/ Leave(a)
  BY DEF TakerStep, OpenFails, OpenHangs, Check, TakeLock, bench, reg, calls
<1>4. UNCHANGED hung \/ OpenHangs(a)
  BY DEF TakerStep, Opened, OpenFails, Check, TakeLock, Recheck, Leave, bench, reg,
     calls
<1>5. UNCHANGED lock \/ TakeLock(a) \/ Recheck(a) \/ OpenFails(a)
      \/ OpenHangs(a) \/ Leave(a)
  BY DEF TakerStep, Opened, Check, bench, reg, calls
<1>6. UNCHANGED <<quarantined, cleared>> \/ OpenHangs(a)
  BY DEF TakerStep, Opened, OpenFails, Check, TakeLock, Recheck, Leave, bench, reg,
     calls
<1> QED BY <1>1, <1>2, <1>3, <1>4, <1>5, <1>6

\* The main loop: which step changes what.
LEMMA LoopChanges ==
  ASSUME LoopStep
  PROVE  /\ UNCHANGED <<attached, refs, hung, lock, job>>
         /\ UNCHANGED specs \/ ScanApplies
         /\ UNCHANGED cached \/ ScanApplies \/ Verified
         /\ UNCHANGED probing \/ ScanPlugin \/ ScanReturns \/ ScanTimesOut
         /\ UNCHANGED <<quarantined, cleared>> \/ VerifyTimesOut
         /\ UNCHANGED acq \/ SweepNext \/ Verified \/ VerifyTimesOut
<1>1. UNCHANGED <<attached, refs, hung, lock, job>>
  BY DEF LoopStep, RefreshTick, SweepAsked, ScanReturns, ScanPlugin, ScanTimesOut,
     ScanApplies, SweepNext, Verified, VerifyTimesOut, SweepDone, bench, reg, calls
<1>2. UNCHANGED specs \/ ScanApplies
  BY DEF LoopStep, RefreshTick, SweepAsked, ScanReturns, ScanPlugin, ScanTimesOut,
     SweepNext, Verified, VerifyTimesOut, SweepDone, bench, reg, calls
<1>3. UNCHANGED cached \/ ScanApplies \/ Verified
  BY DEF LoopStep, RefreshTick, SweepAsked, ScanReturns, ScanPlugin, ScanTimesOut,
     SweepNext, VerifyTimesOut, SweepDone, bench, reg, calls
<1>4. UNCHANGED probing \/ ScanPlugin \/ ScanReturns \/ ScanTimesOut
  BY DEF LoopStep, RefreshTick, SweepAsked, ScanApplies, SweepNext, Verified,
     VerifyTimesOut, SweepDone, bench, reg, calls
<1>5. UNCHANGED <<quarantined, cleared>> \/ VerifyTimesOut
  BY DEF LoopStep, RefreshTick, SweepAsked, ScanReturns, ScanPlugin, ScanTimesOut,
     ScanApplies, SweepNext, Verified, SweepDone, bench, reg, calls
<1>6. UNCHANGED acq \/ SweepNext \/ Verified \/ VerifyTimesOut
  BY DEF LoopStep, RefreshTick, SweepAsked, ScanReturns, ScanPlugin, ScanTimesOut,
     ScanApplies, SweepDone, bench, reg, calls
<1> QED BY <1>1, <1>2, <1>3, <1>4, <1>5, <1>6

\* The session: which step changes what.
LEMMA SessionChanges ==
  ASSUME SessionStep
  PROVE  /\ UNCHANGED <<attached, refs, hung, quarantined, cleared, main>>
         /\ UNCHANGED specs \/ JobProbeReturns
         /\ UNCHANGED cached \/ JobProbeReturns \/ JobCloses
         /\ UNCHANGED lock \/ JobLocks \/ JobUnlocks
         /\ UNCHANGED probing \/ JobProbes \/ JobProbeReturns
            \/ JobProbeTimesOut
         /\ UNCHANGED acq \/ JobLocks \/ JobCloses
<1>1. UNCHANGED <<attached, refs, hung, quarantined, cleared, main>>
  BY DEF SessionStep, JobProbeReturns, JobCanceled, Register, JobProbes,
     JobProbeTimesOut, Resolve, Pin, JobLocks, JobCloses, JobUnlocks, Unpin,
     JobEnds, bench, reg, calls
<1>2. UNCHANGED specs \/ JobProbeReturns
  BY DEF SessionStep, JobCanceled, Register, JobProbes, JobProbeTimesOut, Resolve,
     Pin, JobLocks, JobCloses, JobUnlocks, Unpin, JobEnds, bench, reg, calls
<1>3. UNCHANGED cached \/ JobProbeReturns \/ JobCloses
  BY DEF SessionStep, JobCanceled, Register, JobProbes, JobProbeTimesOut, Resolve,
     Pin, JobLocks, JobUnlocks, Unpin, JobEnds, bench, reg, calls
<1>4. UNCHANGED lock \/ JobLocks \/ JobUnlocks
  BY DEF SessionStep, JobProbeReturns, JobCanceled, Register, JobProbes,
     JobProbeTimesOut, Resolve, Pin, JobCloses, Unpin, JobEnds, bench, reg, calls
<1>5. UNCHANGED probing \/ JobProbes \/ JobProbeReturns \/ JobProbeTimesOut
  BY DEF SessionStep, JobCanceled, Register, Resolve, Pin, JobLocks, JobCloses,
     JobUnlocks, Unpin, JobEnds, bench, reg, calls
<1>6. UNCHANGED acq \/ JobLocks \/ JobCloses
  BY DEF SessionStep, JobProbeReturns, JobCanceled, Register, JobProbes,
     JobProbeTimesOut, Resolve, Pin, JobUnlocks, Unpin, JobEnds, bench, reg, calls
<1> QED BY <1>1, <1>2, <1>3, <1>4, <1>5, <1>6

-----------------------------------------------------------------------------
(* The sweep and the session *)

\* A sweep that found the bench idle has it to itself to its end.
LEMMA AloneKeeps == Types /\ Alone /\ [Next]_vars => Alone'
<1> SUFFICES ASSUME Types, Alone, [Next]_vars PROVE Alone'
  OBVIOUS
<1>0. main \in MainRecord /\ job \in JobRecord
  BY DEF Types
<1>1. ASSUME UNCHANGED <<main, job>> PROVE Alone'
  BY <1>1 DEF Alone
<1>3. ASSUME main' = Loop, UNCHANGED job PROVE Alone'
  BY <1>3, Blank DEF Alone
<1>4. ASSUME job.pc # "none", UNCHANGED main PROVE Alone'
  BY <1>4 DEF Alone
<1>5. ASSUME NEW goal, NEW clean, Rescan(goal, clean), UNCHANGED job,
             goal = "sweep" /\ clean => job.pc = "none"
      PROVE  Alone'
  <2>1. /\ main'.pc = "scan" /\ main'.goal = goal /\ main'.clean = clean
    BY <1>5, Blank DEF Rescan, MainRecord
  <2> QED BY <1>5, <2>1 DEF Alone
<1>6. CASE RefreshTick
  BY <1>5, <1>6 DEF RefreshTick
<1>7. CASE SweepAsked
  BY <1>5, <1>7 DEF SweepAsked, JobActive
<1>8. ASSUME NEW k, NEW found, main' = ScanDone(k, found), main.pc \in {"scan", "probe"},
             UNCHANGED job
      PROVE  Alone'
  <2>1. main'.pc = "scan" /\ main'.goal = main.goal /\ main'.clean = main.clean
    BY <1>0, <1>8 DEF ScanDone, MainRecord
  <2> QED BY <1>8, <2>1 DEF Alone
<1>9. CASE ScanPlugin
  <2>1. CASE ProbeBusy(First(main.todo))
    BY <1>8, <1>9, <2>1 DEF ScanPlugin, Main
  <2>2. CASE ~ProbeBusy(First(main.todo))
    <3>1. /\ main' = [main EXCEPT !.pc = "probe", !.key = First(main.todo)]
          /\ UNCHANGED job /\ main.pc = "scan"
      BY <1>9, <2>2 DEF ScanPlugin, Main
    <3>2. main'.pc = "probe" /\ main'.goal = main.goal /\ main'.clean = main.clean
      BY <1>0, <3>1 DEF MainRecord
    <3> QED BY <3>1, <3>2 DEF Alone
  <2> QED BY <2>1, <2>2
<1>10. CASE ScanReturns \/ ScanTimesOut
  BY <1>8, <1>10 DEF ScanReturns, ScanTimesOut, Main
<1>11. CASE ScanApplies
  <2>1. CASE main.goal = "none"
    BY <1>3, <1>11, <2>1 DEF ScanApplies
  <2>2. CASE main.goal # "none"
    <3>1. /\ main' = [main EXCEPT !.pc = "sweep", !.found = {}, !.todo = specs']
          /\ main.pc = "scan" /\ main.goal = "sweep" /\ UNCHANGED job
      BY <1>0, <1>11, <2>2 DEF ScanApplies, Main, MainRecord
    <3>2. main'.pc = "sweep" /\ main'.goal = main.goal /\ main'.clean = main.clean
      BY <1>0, <3>1 DEF MainRecord
    <3> QED BY <3>1, <3>2 DEF Alone
  <2> QED BY <2>1, <2>2
<1>12. ASSUME main'.pc \in {"sweep", "verify"}, main'.goal = main.goal,
              main'.clean = main.clean, main.pc \in {"sweep", "verify"}, UNCHANGED job
       PROVE  Alone'
  BY <1>12 DEF Alone
<1>13. CASE SweepNext
  <2>1. /\ main'.pc \in {"sweep", "verify"} /\ main'.goal = main.goal
        /\ main'.clean = main.clean
    <3> DEFINE k == First(main.todo)
    <3>1. CASE k \in cached /\ refs[k] > 0
      <4>1. main' = [main EXCEPT !.todo = main.todo \ {k}] /\ main.pc = "sweep"
        BY <1>13, <3>1 DEF SweepNext, Main
      <4> HIDE DEF k
      <4> QED BY <1>0, <4>1 DEF MainRecord
    <3>2. CASE ~(k \in cached /\ refs[k] > 0)
      <4>1. PICK h \in Helpers : main' = [main EXCEPT !.pc = "verify",
                                   !.todo = main.todo \ {k}, !.key = k, !.helper = h]
        BY <1>13, <3>2 DEF SweepNext
      <4> HIDE DEF k
      <4> QED BY <1>0, <4>1 DEF MainRecord
    <3> QED BY <3>1, <3>2
  <2> QED BY <1>12, <1>13, <2>1 DEF SweepNext, Main
<1>14. CASE Verified \/ VerifyTimesOut
  <2>1. main' = [main EXCEPT !.pc = "sweep", !.key = 0, !.helper = Nobody]
        /\ main.pc = "verify" /\ UNCHANGED job
    BY <1>14 DEF Verified, VerifyTimesOut, NextKey, Main
  <2>2. main'.pc = "sweep" /\ main'.goal = main.goal /\ main'.clean = main.clean
    BY <1>0, <2>1 DEF MainRecord
  <2> QED BY <1>12, <2>1, <2>2
<1>15. CASE SweepDone
  BY <1>3, <1>15 DEF SweepDone
<1>16. CASE \E k \in Keys : Spawn(k)
  BY <1>16 DEF Spawn, Main, Alone
<1>17. CASE JobCanceled \/ JobProbeReturns \/ JobStep
  BY <1>4, <1>17 DEF JobCanceled, JobProbeReturns, JobStep, Register, JobProbes,
     JobProbeTimesOut, Resolve, Pin, JobLocks, JobCloses, JobUnlocks, Unpin, JobEnds
<1>18. CASE UNCHANGED vars
  BY <1>1, <1>18 DEF vars
<1>19. CASE \E k \in Keys : \/ Plug(k) \/ LeftProbeReturns(k) \/ ReleaseMarker(k)
                            \/ \E opened \in BOOLEAN : HungReturns(k, opened)
  BY <1>1, <1>19 DEF Plug, LeftProbeReturns, ReleaseMarker, HungReturns
<1>20. CASE \E a \in Takers : \/ Opened(a) \/ OpenFails(a) \/ OpenHangs(a) \/ AcqStep(a)
  BY <1>1, <1>20 DEF Opened, OpenFails, OpenHangs, AcqStep, Check, TakeLock, Recheck,
     Leave
<1> QED BY <1>6, <1>7, <1>9, <1>10, <1>11, <1>13, <1>14, <1>15, <1>16, <1>17, <1>18,
           <1>19, <1>20 DEF Next, Environment, MainStep

-----------------------------------------------------------------------------
(* Acquires *)

\* A step of an acquire: where it goes, and what it does to its lock.
LEMMA TakerMoves ==
  ASSUME SweepInv, NEW a \in Takers, TakerStep(a)
  PROVE  /\ KeyOf(a) \in Keys /\ acq[a].pc \in {"check", "lock", "recheck", "open", "held"}
         /\ \E pc \in AcqPCs \ {"free", "check"} :
               /\ To(a, pc)
               /\ pc \in {"recheck", "open", "held"} => lock'[KeyOf(a)] = a
               /\ a \in Helpers /\ pc \notin {"recheck", "open", "held"} =>
                      \A q \in Keys : lock'[q] # a
         /\ \/ UNCHANGED lock
            \/ lock[KeyOf(a)] = a /\ a # "job" /\ lock' = [lock EXCEPT ![KeyOf(a)] = Nobody]
            \/ lock[KeyOf(a)] \in {Nobody, a} /\ lock' = [lock EXCEPT ![KeyOf(a)] = a]
               /\ acq[a].pc = "lock"
<1> USE DEF SweepInv, On
<1>1. /\ lock \in [Keys -> Takers \cup {Nobody}]
      /\ acq[a].pc # "free" => KeyOf(a) \in Keys
      /\ acq[a].pc \in {"recheck", "open", "held"} => lock[KeyOf(a)] = a
      /\ a \in Helpers => \A q \in Keys : lock[q] = a =>
             acq[a].pc \in {"recheck", "open", "held"} /\ q = KeyOf(a)
      /\ a \in Helpers => a # "job" /\ a # Nobody
  BY SweepAssumption DEF Types, Threads, OwnsItsKey, KeyOf
<1>2. CASE Check(a)
  BY <1>1, <1>2 DEF Check, AcqPCs
<1>3. CASE TakeLock(a)
  BY <1>1, <1>3 DEF TakeLock, AcqPCs
<1>4. CASE Recheck(a)
  BY <1>1, <1>4 DEF Recheck, Give, AcqPCs
<1>5. CASE Opened(a)
  BY <1>1, <1>5 DEF Opened, AcqPCs
<1>6. CASE OpenFails(a)
  BY <1>1, <1>6 DEF OpenFails, Give, AcqPCs
<1>7. CASE OpenHangs(a)
  BY <1>1, <1>7 DEF OpenHangs, Give, AcqPCs
<1>8. CASE Leave(a)
  BY <1>1, <1>8 DEF Leave, Give, AcqPCs
<1> QED BY <1>2, <1>3, <1>4, <1>5, <1>6, <1>7, <1>8 DEF TakerStep

\* An acquire's steps leave the threads in order.
LEMMA TakersKeepThreads ==
  ASSUME SweepInv, NEW a \in Takers, TakerStep(a), Flagged \subseteq Flagged'
  PROVE  Threads' /\ acq' \in [Takers -> AcqRecord]
<1> DEFINE k == KeyOf(a)
<1>0. /\ Types /\ Threads /\ UNCHANGED <<main, job>>
      /\ Nobody \notin Takers /\ "job" \notin Helpers /\ "job" \in Takers
      /\ Helpers \subseteq Takers
  BY TakerChanges, SweepAssumption DEF SweepInv, Takers
<1>1. PICK pc \in AcqPCs \ {"free", "check"} :
         /\ To(a, pc) /\ (pc \in {"recheck", "open", "held"} => lock'[k] = a)
         /\ a \in Helpers /\ pc \notin {"recheck", "open", "held"} =>
                \A q \in Keys : lock'[q] # a
  BY TakerMoves
<1>2. /\ k \in Keys /\ acq[a].pc # "free" /\ acq[a].pc \notin {"ok", "failed"}
      /\ \/ UNCHANGED lock
         \/ lock[k] = a /\ a # "job" /\ lock' = [lock EXCEPT ![k] = Nobody]
         \/ lock[k] \in {Nobody, a} /\ lock' = [lock EXCEPT ![k] = a]
            /\ acq[a].pc = "lock"
  BY TakerMoves
<1>3. /\ acq' \in [Takers -> AcqRecord]
      /\ \A b \in Takers \ {a} : acq'[b] = acq[b]
      /\ acq[a].alone /\ pc \in {"ok", "failed"} => acq'[a] = Free
      /\ ~(acq[a].alone /\ pc \in {"ok", "failed"}) =>
             acq'[a].pc = pc /\ acq'[a].key = k /\ acq'[a].alone = acq[a].alone
  BY <1>0, <1>1, GoesOn DEF KeyOf
<1>4. lock \in [Keys -> Takers \cup {Nobody}]
  BY <1>0 DEF Types
<1>5. ASSUME NEW b \in Takers PROVE OwnsItsKey(b)'
  <2>1. CASE b = a
    <3>1. \A q \in Keys : lock[q] = a /\ a \in Helpers => q = k
      BY <1>0 DEF Threads, OwnsItsKey, KeyOf
    <3>2. \A q \in Keys : lock'[q] = a /\ a \in Helpers =>
              q = k /\ pc \in {"recheck", "open", "held"}
      BY <1>0, <1>1, <1>2, <1>4, <3>1
    <3> QED BY <1>1, <1>2, <1>3, <2>1, <3>2, Blank DEF OwnsItsKey
  <2>2. CASE b # a
    <3>1. OwnsItsKey(b) /\ acq'[b] = acq[b]
      BY <1>0, <1>3, <2>2 DEF Threads
    <3>2. \A q \in Keys : lock[q] = b <=> lock'[q] = b
      BY <1>0, <1>2, <1>4, <2>2
    <3> QED BY <3>1, <3>2 DEF OwnsItsKey
  <2> QED BY <2>1, <2>2
<1>6. ASSUME NEW b \in Helpers PROVE Employed(b)'
  <2>1. Employed(b)
    BY <1>0 DEF Threads
  <2>2. CASE b = a
    BY <1>0, <1>1, <1>2, <1>3, <2>1, <2>2, Blank DEF Employed, KeyOf
  <2>3. CASE b # a
    BY <1>0, <1>3, <2>1, <2>3 DEF Employed
  <2> QED BY <2>2, <2>3
<1>7. Waiting'
  <2>1. Waiting
    BY <1>0 DEF Threads
  <2>2. CASE main.helper = a
    BY <1>0, <1>1, <1>2, <1>3, <2>1, <2>2 DEF Waiting, KeyOf
  <2>3. CASE main.helper # a
    BY <1>0, <1>3, <2>1, <2>3 DEF Waiting
  <2> QED BY <2>2, <2>3
<1>8. SessionLock'
  <2>1. SessionLock
    BY <1>0 DEF Threads
  <2>2. CASE a = "job"
    <3>1. job.pc = "op" /\ job.key = k /\ lock[k] = "job"
      BY <1>2, <2>1, <2>2 DEF SessionLock, KeyOf
    <3>2. UNCHANGED lock
      BY <1>2, <1>4, <2>2, <3>1
    <3>3. acq'["job"].pc = pc /\ acq'["job"].key = k /\ ~acq'["job"].alone
      BY <1>3, <2>1, <2>2 DEF SessionLock
    <3> QED BY <1>0, <1>1, <2>1, <3>1, <3>2, <3>3 DEF SessionLock
  <2>3. CASE a # "job"
    <3>1. acq'["job"] = acq["job"]
      BY <1>0, <1>3, <2>3
    <3>2. \A q \in Keys : lock'[q] = "job" <=> lock[q] = "job"
      BY <1>0, <1>2, <1>4, <2>3
    <3> QED BY <1>0, <2>1, <3>1, <3>2 DEF SessionLock
  <2> QED BY <2>2, <2>3
<1> QED BY <1>3, <1>5, <1>6, <1>7, <1>8 DEF Threads

\* The main loop's steps leave the threads in order.
LEMMA LoopKeepsThreads ==
  ASSUME SweepInv, LoopStep, Flagged \subseteq Flagged'
  PROVE  Threads' /\ acq' \in [Takers -> AcqRecord]
<1>0. /\ Types /\ Threads /\ UNCHANGED <<lock, job>>
      /\ Nobody \notin Takers /\ "job" \notin Helpers /\ "job" \in Takers
      /\ Helpers \subseteq Takers
      /\ acq \in [Takers -> AcqRecord] /\ main \in MainRecord
  BY LoopChanges, SweepAssumption DEF SweepInv, Takers, Types
<1>1. ASSUME NEW h \in Helpers, acq' \in [Takers -> AcqRecord],
             \A b \in Takers \ {h} : acq'[b] = acq[b],
             OwnsItsKey(h)', Employed(h)', Waiting',
             \A b \in Helpers \ {h} : acq[b].pc = "free" \/ acq[b].alone
      PROVE  Threads' /\ acq' \in [Takers -> AcqRecord]
  <2>1. ASSUME NEW b \in Takers PROVE OwnsItsKey(b)'
    BY <1>0, <1>1, <2>1 DEF Threads, OwnsItsKey
  <2>2. ASSUME NEW b \in Helpers PROVE Employed(b)'
    BY <1>0, <1>1, <2>2 DEF Threads, Employed
  <2>3. SessionLock'
    BY <1>0, <1>1 DEF Threads, SessionLock
  <2> QED BY <1>1, <2>1, <2>2, <2>3 DEF Threads
<1>2. ASSUME UNCHANGED acq, main.pc # "verify", main'.pc # "verify"
      PROVE  Threads' /\ acq' \in [Takers -> AcqRecord]
  BY <1>0, <1>2 DEF Threads, OwnsItsKey, Employed, Waiting, SessionLock
<1>3. main.pc = "verify" => \A b \in Helpers \ {main.helper} : acq[b].pc = "free" \/ acq[b].alone
  BY <1>0 DEF Threads, Employed
<1>4. main.pc # "verify" => \A b \in Helpers : acq[b].pc = "free" \/ acq[b].alone
  BY <1>0 DEF Threads, Employed
<1>5. CASE SweepNext
  <2> DEFINE k == First(main.todo)
  <2>1. main.pc = "sweep" /\ k \in Keys
    BY <1>0, <1>5, FirstIn DEF SweepNext, Main, MainRecord
  <2>2. CASE k \in cached /\ refs[k] > 0
    <3>1. main' = [main EXCEPT !.todo = main.todo \ {k}] /\ UNCHANGED acq
      BY <1>5, <2>2 DEF SweepNext
    <3> HIDE DEF k
    <3>2. main'.pc = "sweep"
      BY <1>0, <2>1, <3>1 DEF MainRecord
    <3> QED BY <1>2, <2>1, <3>1, <3>2
  <2>3. CASE ~(k \in cached /\ refs[k] > 0)
    <3>1. PICK h \in Helpers :
             /\ acq[h].pc = "free"
             /\ acq' = [acq EXCEPT ![h] = [key |-> k, pc |-> "check", alone |-> FALSE]]
             /\ main' = [main EXCEPT !.pc = "verify", !.todo = main.todo \ {k}, !.key = k,
                                     !.helper = h]
      BY <1>5, <2>3 DEF SweepNext, On
    <3> HIDE DEF k
    <3>2. main'.pc = "verify" /\ main'.key = k /\ main'.helper = h
      BY <1>0, <3>1 DEF MainRecord
    <3> DEFINE r == [key |-> k, pc |-> "check", alone |-> FALSE]
    <3>3. r \in AcqRecord /\ r.pc = "check" /\ r.key = k /\ ~r.alone
      BY <2>1 DEF AcqRecord, AcqPCs
    <3>4. acq' = [acq EXCEPT ![h] = r]
      BY <3>1
    <3> HIDE DEF r
    <3>5. acq' \in [Takers -> AcqRecord] /\ acq'[h] = r
          /\ \A b \in Takers \ {h} : acq'[b] = acq[b]
      BY <1>0, <3>3, <3>4
    <3>6. \A q \in Keys : lock[q] # h
      BY <1>0, <3>1 DEF Threads, OwnsItsKey
    <3>7. OwnsItsKey(h)' /\ Employed(h)' /\ Waiting'
      BY <1>0, <2>1, <3>2, <3>3, <3>5, <3>6 DEF OwnsItsKey, Employed, Waiting
    <3> QED BY <1>1, <1>4, <2>1, <3>5, <3>7
  <2> QED BY <2>2, <2>3
<1>6. ASSUME NEW h \in Helpers, h = main.helper, main.pc = "verify", NextKey,
             NEW r \in AcqRecord, acq' = [acq EXCEPT ![h] = r],
             \/ r.pc = "free" /\ acq[h].pc \in {"ok", "failed"}
             \/ /\ r.pc = acq[h].pc /\ r.key = main.key /\ r.alone
                /\ r.pc \notin {"ok", "failed"} /\ main.key \in Flagged'
      PROVE  Threads' /\ acq' \in [Takers -> AcqRecord]
  <2>1. main'.pc = "sweep"
    BY <1>0, <1>6 DEF NextKey, MainRecord
  <2>2. acq[h].pc # "free" /\ acq[h].key = main.key /\ OwnsItsKey(h)
    BY <1>0, <1>6 DEF Threads, Waiting
  <2>3. acq' \in [Takers -> AcqRecord] /\ acq'[h] = r
        /\ \A b \in Takers \ {h} : acq'[b] = acq[b]
    BY <1>0, <1>6
  <2>4. OwnsItsKey(h)' /\ Employed(h)' /\ Waiting'
    BY <1>0, <1>6, <2>1, <2>2, <2>3 DEF OwnsItsKey, Employed, Waiting
  <2> QED BY <1>1, <1>3, <1>6, <2>3, <2>4
<1>7. main.pc = "verify" => main.helper \in Helpers /\ acq[main.helper].key = main.key
                            /\ acq[main.helper] \in AcqRecord
  BY <1>0 DEF Threads, Waiting
<1>8. CASE Verified
  <2>1. /\ main.pc = "verify" /\ NextKey /\ acq' = [acq EXCEPT ![main.helper] = Free]
        /\ acq[main.helper].pc \in {"ok", "failed"}
    BY <1>8 DEF Verified, Main
  <2> QED BY <1>6, <1>7, <2>1, Blank
<1>9. CASE VerifyTimesOut
  <2>1. /\ main.pc = "verify" /\ NextKey /\ quarantined' = quarantined \cup {main.key}
        /\ acq[main.helper].pc \in {"open", "lock"}
        /\ acq' = [acq EXCEPT ![main.helper].alone = TRUE]
    BY <1>9 DEF VerifyTimesOut, Main, On, Quarantine
  <2> DEFINE r == [acq[main.helper] EXCEPT !.alone = TRUE]
  <2>2. /\ r \in AcqRecord /\ r.pc = acq[main.helper].pc /\ r.key = main.key /\ r.alone
        /\ r.pc \notin {"ok", "failed"}
    BY <1>7, <2>1 DEF AcqRecord
  <2>3. acq' = [acq EXCEPT ![main.helper] = r] /\ main.key \in Flagged'
    BY <2>1 DEF Flagged
  <2> HIDE DEF r
  <2> QED BY <1>6, <1>7, <2>1, <2>2, <2>3
<1>10. CASE RefreshTick \/ SweepAsked
  <2>1. main.pc = "loop" /\ main'.pc = "scan" /\ UNCHANGED acq
    BY <1>10, Blank DEF RefreshTick, SweepAsked, Main, Rescan, MainRecord
  <2> QED BY <1>2, <2>1
<1>11. ASSUME NEW k, NEW found, main' = ScanDone(k, found) PROVE main'.pc = "scan"
  BY <1>0, <1>11 DEF ScanDone, MainRecord
<1>12. CASE ScanPlugin
  <2>1. main.pc = "scan" /\ UNCHANGED acq
    BY <1>12 DEF ScanPlugin, Main
  <2>2. main'.pc \in {"scan", "probe"}
    <3>1. CASE ProbeBusy(First(main.todo))
      BY <1>11, <1>12, <3>1 DEF ScanPlugin
    <3>2. CASE ~ProbeBusy(First(main.todo))
      BY <1>0, <1>12, <3>2 DEF ScanPlugin, MainRecord
    <3> QED BY <3>1, <3>2
  <2> QED BY <1>2, <2>1, <2>2
<1>13. CASE ScanReturns \/ ScanTimesOut
  BY <1>2, <1>11, <1>13 DEF ScanReturns, ScanTimesOut, Main
<1>14. CASE ScanApplies
  <2>1. main.pc = "scan" /\ UNCHANGED acq
    BY <1>14 DEF ScanApplies, Main
  <2>2. main'.pc \in {"loop", "sweep"}
    <3>1. CASE main.goal = "none"
      BY <1>14, <3>1, Blank DEF ScanApplies
    <3>2. CASE main.goal # "none"
      BY <1>0, <1>14, <3>2 DEF ScanApplies, MainRecord
    <3> QED BY <3>1, <3>2
  <2> QED BY <1>2, <2>1, <2>2
<1>15. CASE SweepDone
  BY <1>2, <1>15, Blank DEF SweepDone, Main
<1> QED BY <1>5, <1>8, <1>9, <1>10, <1>12, <1>13, <1>14, <1>15 DEF LoopStep

\* The session's steps, and those of the bench, leave the threads in order.
LEMMA OthersKeepThreads ==
  ASSUME SweepInv, SessionStep \/ \E k \in Keys : BenchStep(k), Flagged \subseteq Flagged'
  PROVE  Threads' /\ acq' \in [Takers -> AcqRecord]
<1>0. /\ Types /\ Threads /\ UNCHANGED main
      /\ Nobody \notin Takers /\ "job" \notin Helpers /\ "job" \in Takers
      /\ Helpers \subseteq Takers
      /\ acq \in [Takers -> AcqRecord] /\ job \in JobRecord
      /\ lock \in [Keys -> Takers \cup {Nobody}] /\ SessionLock
  BY SessionChanges, BenchChanges, SweepAssumption DEF SweepInv, Takers, Types, Threads
<1>1. ASSUME \A b \in Helpers : acq'[b] = acq[b], acq' \in [Takers -> AcqRecord],
             \A b \in Helpers : \A q \in Keys : lock[q] = b <=> lock'[q] = b,
             OwnsItsKey("job")', SessionLock'
      PROVE  Threads' /\ acq' \in [Takers -> AcqRecord]
  <2>1. ASSUME NEW b \in Takers PROVE OwnsItsKey(b)'
    BY <1>0, <1>1, <2>1 DEF Threads, OwnsItsKey, Takers
  <2>2. ASSUME NEW b \in Helpers PROVE Employed(b)'
    BY <1>0, <1>1, <2>2 DEF Threads, Employed
  <2>3. Waiting'
    BY <1>0, <1>1 DEF Threads, Waiting
  <2> QED BY <1>1, <2>1, <2>2, <2>3 DEF Threads
<1>2. ASSUME UNCHANGED <<lock, acq>>, SessionLock'
      PROVE  Threads' /\ acq' \in [Takers -> AcqRecord]
  BY <1>0, <1>1, <1>2 DEF Threads, OwnsItsKey
<1>3. CASE \E k \in Keys : BenchStep(k)
  <2>1. PICK k \in Keys : BenchStep(k)
    BY <1>3
  <2>2. UNCHANGED <<lock, acq>> /\ (UNCHANGED job \/ Spawn(k))
    BY <2>1, BenchChanges
  <2>3. CASE UNCHANGED job
    BY <1>0, <1>2, <2>2, <2>3 DEF SessionLock
  <2>4. CASE Spawn(k)
    <3>1. job.pc = "none" /\ job'.pc = "spawned" /\ job'.key = k
      BY <2>4 DEF Spawn
    <3> QED BY <1>0, <1>2, <2>2, <3>1 DEF SessionLock
  <2> QED BY <2>2, <2>3, <2>4
<1>4. ASSUME NEW pc \in JobPCs, JobTo(pc) PROVE job'.pc = pc /\ job'.key = job.key
  BY <1>0, <1>4 DEF JobTo, JobRecord
<1>5. CASE JobCanceled \/ Register \/ JobProbes \/ JobProbeReturns \/ JobProbeTimesOut
           \/ Resolve \/ Pin \/ Unpin
  <2>1. /\ \E pc \in JobPCs \ {"none", "op", "unlock"} : JobTo(pc)
        /\ job.pc \notin {"none", "op", "unlock"} /\ UNCHANGED <<lock, acq>>
    BY <1>5 DEF JobCanceled, Register, JobProbes, JobProbeReturns, JobProbeTimesOut,
       Resolve, Pin, Unpin, JobPCs, bench, reg, calls
  <2> QED BY <1>0, <1>2, <1>4, <2>1 DEF SessionLock
<1>6. CASE JobEnds
  <2>1. job.pc = "end" /\ job'.pc = "none" /\ UNCHANGED <<lock, acq>>
    BY <1>6 DEF JobEnds
  <2> QED BY <1>0, <1>2, <2>1 DEF SessionLock
<1>7. CASE JobLocks
  <2> DEFINE r == [key |-> job.key, pc |-> "check", alone |-> FALSE]
  <2>1. /\ job.pc = "lock" /\ job.key \in Keys /\ job'.pc = "op" /\ job'.key = job.key
        /\ lock[job.key] = Nobody /\ lock' = [lock EXCEPT ![job.key] = "job"]
        /\ acq' = [acq EXCEPT !["job"] = r]
    BY <1>0, <1>4, <1>7 DEF JobLocks, SessionLock, JobPCs
  <2>2. r \in AcqRecord /\ r.key = job.key /\ r.pc = "check" /\ ~r.alone
    BY <2>1 DEF AcqRecord, AcqPCs
  <2> HIDE DEF r
  <2>3. /\ acq'["job"] = r /\ acq' \in [Takers -> AcqRecord]
        /\ \A b \in Helpers : acq'[b] = acq[b]
        /\ \A b \in Helpers : \A q \in Keys : lock[q] = b <=> lock'[q] = b
        /\ \A q \in Keys : lock'[q] = "job" <=> q = job.key
    BY <1>0, <2>1, <2>2 DEF SessionLock
  <2>4. OwnsItsKey("job")' /\ SessionLock'
    BY <1>0, <2>1, <2>2, <2>3 DEF OwnsItsKey, SessionLock
  <2> QED BY <1>1, <2>3, <2>4
<1>8. CASE JobCloses
  <2>1. /\ job.pc = "op" /\ job'.pc = "unlock" /\ job'.key = job.key /\ UNCHANGED lock
        /\ acq' = [acq EXCEPT !["job"] = Free]
    BY <1>0, <1>4, <1>8 DEF JobCloses, JobPCs
  <2>2. /\ acq'["job"] = Free /\ acq' \in [Takers -> AcqRecord]
        /\ \A b \in Helpers : acq'[b] = acq[b]
    BY <1>0, <2>1, Blank
  <2>3. OwnsItsKey("job")' /\ SessionLock'
    BY <1>0, <2>1, <2>2, Blank DEF OwnsItsKey, SessionLock
  <2> QED BY <1>1, <2>1, <2>2, <2>3
<1>9. CASE JobUnlocks
  <2>1. /\ job.pc = "unlock" /\ job'.pc = "unpin" /\ job'.key = job.key /\ UNCHANGED acq
        /\ lock' = [lock EXCEPT ![job.key] = Nobody]
    BY <1>0, <1>4, <1>9 DEF JobUnlocks, JobPCs
  <2>2. /\ \A b \in Helpers : \A q \in Keys : lock[q] = b <=> lock'[q] = b
        /\ \A q \in Keys : lock'[q] # "job"
    BY <1>0, <2>1 DEF SessionLock
  <2>3. OwnsItsKey("job")' /\ SessionLock'
    BY <1>0, <2>1, <2>2 DEF OwnsItsKey, SessionLock
  <2> QED BY <1>0, <1>1, <2>1, <2>2, <2>3
<1> QED BY <1>3, <1>5, <1>6, <1>7, <1>8, <1>9 DEF SessionStep

-----------------------------------------------------------------------------
(* Types *)

\* Which of the other variables a step changes.
LEMMA StepChanges ==
  ASSUME [Next]_vars
  PROVE  /\ UNCHANGED attached \/ \E k \in Keys : Plug(k)
         /\ UNCHANGED specs \/ ScanApplies \/ JobProbeReturns
         /\ \/ UNCHANGED cached \/ ScanApplies \/ Verified \/ JobProbeReturns \/ JobCloses
            \/ \E k \in Keys : ReleaseMarker(k)
            \/ \E a \in Takers : Opened(a)
         /\ UNCHANGED refs \/ \E a \in Takers : Recheck(a) \/ Opened(a) \/ Leave(a)
         /\ \/ UNCHANGED hung \/ \E a \in Takers : OpenHangs(a)
            \/ \E k \in Keys, opened \in BOOLEAN : HungReturns(k, opened)
         /\ UNCHANGED lock \/ JobLocks \/ JobUnlocks \/ \E a \in Takers : TakerStep(a)
         /\ UNCHANGED main \/ LoopStep
         /\ UNCHANGED job \/ SessionStep \/ \E k \in Keys : Spawn(k)
<1>1. CASE UNCHANGED vars
  BY <1>1 DEF vars
<1>2. CASE \E k \in Keys : BenchStep(k)
  BY <1>2, BenchChanges
<1>3. CASE \E a \in Takers : TakerStep(a)
  <2>1. PICK a \in Takers : TakerStep(a)
    BY <1>3
  <2>2. UNCHANGED <<attached, specs, main, job>>
    BY <2>1, TakerChanges
  <2>3. /\ UNCHANGED cached \/ Opened(a)
        /\ UNCHANGED refs \/ Recheck(a) \/ Opened(a) \/ Leave(a)
        /\ UNCHANGED hung \/ OpenHangs(a)
    BY <2>1, TakerChanges
  <2> QED BY <2>1, <2>2, <2>3
<1>4. CASE LoopStep
  BY <1>4, LoopChanges
<1>5. CASE SessionStep
  BY <1>5, SessionChanges
<1> QED BY <1>1, <1>2, <1>3, <1>4, <1>5, StepIs

\* The main loop's record.
LEMMA MainTypes == ASSUME Types, LoopStep PROVE main' \in MainRecord
<1>0. main \in MainRecord /\ specs \subseteq Keys /\ attached \subseteq Keys
  BY DEF Types
<1>1. Loop \in MainRecord
  BY Blank
<1>2. CASE RefreshTick \/ SweepAsked
  <2>1. \E goal \in {"none", "sweep"}, clean \in BOOLEAN : Rescan(goal, clean)
    BY <1>2 DEF RefreshTick, SweepAsked
  <2> QED BY <1>1, <2>1 DEF Rescan, MainRecord
<1>3. ASSUME NEW k, NEW found \in SUBSET Keys, main' = ScanDone(k, found)
      PROVE  main' \in MainRecord
  BY <1>0, <1>3 DEF ScanDone, MainRecord
<1>4. CASE ScanPlugin
  <2>1. main.todo # {} /\ First(main.todo) \in Keys
    BY <1>0, <1>4, FirstIn DEF ScanPlugin, MainRecord
  <2>2. CASE ProbeBusy(First(main.todo))
    BY <1>0, <1>3, <1>4, <2>2 DEF ScanPlugin
  <2>3. CASE ~ProbeBusy(First(main.todo))
    <3>1. main' = [main EXCEPT !.pc = "probe", !.key = First(main.todo)]
      BY <1>4, <2>3 DEF ScanPlugin
    <3> QED BY <1>0, <2>1, <3>1 DEF MainRecord
  <2> QED BY <2>2, <2>3
<1>5. CASE ScanReturns \/ ScanTimesOut
  BY <1>0, <1>3, <1>5 DEF ScanReturns, ScanTimesOut
<1>6. CASE ScanApplies
  <2>1. specs' \subseteq Keys
    BY <1>0, <1>6 DEF ScanApplies, Apply, MainRecord
  <2> QED BY <1>0, <1>1, <1>6, <2>1 DEF ScanApplies, MainRecord
<1>7. CASE SweepNext
  <2>1. main.todo # {} /\ First(main.todo) \in Keys
    BY <1>0, <1>7, FirstIn DEF SweepNext, MainRecord
  <2> DEFINE k == First(main.todo)
  <2>2. \/ main' = [main EXCEPT !.todo = main.todo \ {k}]
        \/ \E h \in Helpers : main' = [main EXCEPT !.pc = "verify",
                                   !.todo = main.todo \ {k}, !.key = k, !.helper = h]
    BY <1>7 DEF SweepNext
  <2> HIDE DEF k
  <2>3. CASE main' = [main EXCEPT !.todo = main.todo \ {k}]
    BY <1>0, <2>3 DEF MainRecord
  <2>4. ASSUME NEW h \in Helpers, main' = [main EXCEPT !.pc = "verify",
                                   !.todo = main.todo \ {k}, !.key = k, !.helper = h]
        PROVE  main' \in MainRecord
    BY <1>0, <2>1, <2>4 DEF MainRecord, k
  <2> QED BY <2>2, <2>3, <2>4
<1>8. CASE Verified \/ VerifyTimesOut
  BY <1>0, <1>8 DEF Verified, VerifyTimesOut, NextKey, MainRecord
<1>9. CASE SweepDone
  BY <1>1, <1>9 DEF SweepDone
<1> QED BY <1>2, <1>4, <1>5, <1>6, <1>7, <1>8, <1>9 DEF LoopStep

\* The session's record.
LEMMA JobTypes ==
  ASSUME Types, SessionStep \/ \E k \in Keys : Spawn(k)
  PROVE  job' \in JobRecord
<1>0. job \in JobRecord
  BY DEF Types
<1>1. ASSUME NEW pc \in JobPCs, JobTo(pc) PROVE job' \in JobRecord
  BY <1>0, <1>1 DEF JobTo, JobRecord
<1>2. CASE JobEnds \/ \E k \in Keys : Spawn(k)
  BY <1>2 DEF JobEnds, Spawn, JobRecord, JobPCs
<1>3. CASE SessionStep /\ ~JobEnds
  <2>1. \E pc \in JobPCs : JobTo(pc)
    BY <1>3 DEF SessionStep, JobCanceled, Register, JobProbes, JobProbeReturns,
       JobProbeTimesOut, Resolve, Pin, Unpin, JobLocks, JobCloses, JobUnlocks, JobPCs
  <2> QED BY <1>1, <2>1
<1> QED BY <1>2, <1>3

\* The records and sets keep their types; a reference is given back by its user.
LEMMA TypesKeep ==
  ASSUME SweepInv, [Next]_vars, acq' \in [Takers -> AcqRecord]
  PROVE  Types'
<1>0. /\ attached \subseteq Keys /\ specs \subseteq Keys /\ cached \subseteq Keys
      /\ refs \in [Keys -> Nat] /\ hung \in [Keys -> Nat]
      /\ lock \in [Keys -> Takers \cup {Nobody}]
      /\ acq \in [Takers -> AcqRecord] /\ main \in MainRecord /\ job \in JobRecord
      /\ Types
  BY DEF SweepInv, Types
<1>1. attached' \subseteq Keys
  BY <1>0, StepChanges DEF Plug
<1>2. specs' \subseteq Keys
  BY <1>0, StepChanges DEF ScanApplies, JobProbeReturns, Apply, MainRecord
<1>3. \A a \in Takers : acq[a].pc # "free" => KeyOf(a) \in Keys
  BY DEF SweepInv, Threads, OwnsItsKey, KeyOf
<1>4. cached' \subseteq Keys
  <2>1. CASE UNCHANGED cached \/ ScanApplies \/ JobProbeReturns
    BY <1>0, <2>1 DEF ScanApplies, JobProbeReturns, Apply
  <2>2. CASE Verified \/ JobCloses \/ \E k \in Keys : ReleaseMarker(k)
    BY <1>0, <2>2 DEF Verified, JobCloses, ReleaseMarker, ReleaseNow
  <2>3. CASE \E a \in Takers : Opened(a)
    BY <1>0, <1>3, <2>3 DEF Opened, On
  <2> QED BY <2>1, <2>2, <2>3, StepChanges
<1>5. refs' \in [Keys -> Nat]
  <2>1. CASE UNCHANGED refs
    BY <1>0, <2>1
  <2>2. ASSUME NEW a \in Takers, Recheck(a) \/ Opened(a) PROVE refs' \in [Keys -> Nat]
    BY <1>0, <1>3, <2>2 DEF Recheck, Opened, On
  <2>3. ASSUME NEW a \in Takers, Leave(a) PROVE refs' \in [Keys -> Nat]
    <3>1. KeyOf(a) \in Keys /\ acq[a].pc = "held"
      BY <1>3, <2>3 DEF Leave, On
    <3>2. refs[KeyOf(a)] = 1
      BY <3>1 DEF SweepInv, Kept, KeyOf
    <3> QED BY <1>0, <2>3, <3>1, <3>2 DEF Leave
  <2> QED BY <2>1, <2>2, <2>3, StepChanges
<1>6. hung' \in [Keys -> Nat]
  <2>1. CASE UNCHANGED hung
    BY <1>0, <2>1
  <2>2. ASSUME NEW a \in Takers, OpenHangs(a) PROVE hung' \in [Keys -> Nat]
    BY <1>0, <1>3, <2>2 DEF OpenHangs, On
  <2>3. CASE \E k \in Keys, opened \in BOOLEAN : HungReturns(k, opened)
    BY <1>0, <2>3 DEF HungReturns
  <2> QED BY <2>1, <2>2, <2>3, StepChanges
<1>7. lock' \in [Keys -> Takers \cup {Nobody}]
  <2>1. CASE UNCHANGED lock \/ JobLocks \/ JobUnlocks
    BY <1>0, <2>1 DEF JobLocks, JobUnlocks, Takers
  <2>2. ASSUME NEW a \in Takers, TakerStep(a) PROVE lock' \in [Keys -> Takers \cup {Nobody}]
    BY <1>0, <2>2, TakerMoves
  <2> QED BY <2>1, <2>2, StepChanges
<1>8.  main' \in MainRecord /\ job' \in JobRecord
  BY <1>0, StepChanges, MainTypes, JobTypes
<1> QED BY <1>1, <1>2, <1>4, <1>5, <1>6, <1>7, <1>8 DEF Types

-----------------------------------------------------------------------------
(* References and handles *)

\* Nothing that happens to device k while its handle and its references stay.
LEMMA QuietKeeps ==
  ASSUME NEW k, Kept(k), k \in Flagged => k \in Flagged',
         refs'[k] = refs[k], k \in cached' <=> k \in cached,
         \A a \in Takers : (acq'[a].pc = "held" /\ acq'[a].key = k)
                           <=> (acq[a].pc = "held" /\ acq[a].key = k),
         main.pc = "verify" /\ main.key = k /\ acq[main.helper].pc = "ok" =>
             (main'.pc = "verify" /\ main'.key = k /\ acq'[main'.helper].pc = "ok"),
         job.pc = "op" /\ job.key = k => job'.pc = "op" /\ job'.key = k
  PROVE  Kept(k)'
  BY DEF Kept

\* A handle that goes has no references.
LEMMA ClosedKeeps ==
  ASSUME NEW k \in Keys, Kept(k), refs'[k] = refs[k],
         k \in cached' => k \in cached /\ (refs[k] = 0 => k \in Flagged'),
         refs[k] > 0 /\ k \in cached => k \in cached',
         \A a \in Takers : (acq'[a].pc = "held" /\ acq'[a].key = k)
                           <=> (acq[a].pc = "held" /\ acq[a].key = k)
  PROVE  Kept(k)'
  BY DEF Kept

\* An acquire counts its own reference, and leaves the handle to its keeper.
LEMMA TakersKeep ==
  ASSUME SweepInv, NEW a \in Takers, TakerStep(a), Flagged \subseteq Flagged',
         NEW q \in Keys
  PROVE  Kept(q)'
<1> DEFINE k == KeyOf(a)
<1>0. /\ Types /\ Threads /\ UNCHANGED <<main, job>> /\ Kept(q)
      /\ Helpers \subseteq Takers /\ refs \in [Keys -> Nat]
      /\ acq[a].pc \notin {"free", "ok", "failed"} /\ k \in Keys
  BY TakerChanges, TakerMoves DEF SweepInv, Takers, Types
<1>1. PICK pc \in AcqPCs \ {"free", "check"} : To(a, pc)
  BY TakerMoves
<1>2. /\ \A b \in Takers \ {a} : acq'[b] = acq[b]
      /\ acq[a].alone /\ pc \in {"ok", "failed"} => acq'[a] = Free
      /\ ~(acq[a].alone /\ pc \in {"ok", "failed"}) =>
             acq'[a].pc = pc /\ acq'[a].key = k /\ acq'[a].alone = acq[a].alone
  BY <1>0, <1>1, GoesOn DEF KeyOf
<1>3. main.pc = "verify" => main.helper \in Takers
  BY <1>0 DEF Threads, Waiting
<1>4. main.pc = "verify" /\ main.key = q /\ acq[main.helper].pc = "ok" =>
          acq'[main.helper].pc = "ok"
  BY <1>0, <1>2, <1>3
<1>5. ASSUME acq[a].pc # "held", acq'[a].pc # "held", refs'[q] = refs[q],
             q \in cached' <=> q \in cached
      PROVE  Kept(q)'
  <2>1. \A b \in Takers : (acq'[b].pc = "held" /\ acq'[b].key = q)
                           <=> (acq[b].pc = "held" /\ acq[b].key = q)
    BY <1>2, <1>5
  <2> QED BY <1>0, <1>4, <1>5, <2>1, QuietKeeps
<1>6. ASSUME k # q, refs'[q] = refs[q], q \in cached' <=> q \in cached PROVE Kept(q)'
  <2>1. \A b \in Takers : (acq'[b].pc = "held" /\ acq'[b].key = q)
                           <=> (acq[b].pc = "held" /\ acq[b].key = q)
    BY <1>2, <1>6, Blank DEF KeyOf
  <2> QED BY <1>0, <1>4, <1>6, <2>1, QuietKeeps
<1>7. CASE Check(a) \/ TakeLock(a) \/ OpenFails(a) \/ OpenHangs(a)
  <2>1. acq[a].pc # "held" /\ UNCHANGED <<refs, cached>>
    BY <1>7 DEF Check, TakeLock, OpenFails, OpenHangs, On, reg
  <2>2. \E p \in {"lock", "recheck", "failed"} : To(a, p)
    BY <1>7 DEF Check, TakeLock, OpenFails, OpenHangs
  <2>3. acq'[a].pc # "held"
    BY <1>0, <2>2, GoesOn, Blank DEF AcqPCs
  <2> QED BY <1>5, <2>1, <2>3
<1>8. \A b \in Takers : acq[b].pc = "held" /\ acq[b].key = k =>
          (acq[a].pc \in {"recheck", "open", "held"} => b = a)
  BY <1>0 DEF Threads, OwnsItsKey, KeyOf
<1>9. CASE Recheck(a)
  <2>1. acq[a].pc = "recheck" /\ UNCHANGED cached
    BY <1>9 DEF Recheck, On
  <2>2. CASE UNCHANGED refs /\ \E p \in {"failed", "open"} : To(a, p)
    <3>1. acq'[a].pc # "held"
      BY <1>0, <2>2, GoesOn, Blank DEF AcqPCs
    <3> QED BY <1>5, <2>1, <2>2, <3>1
  <2>3. CASE k \in cached /\ To(a, "held") /\ refs' = [refs EXCEPT ![k] = refs[k] + 1]
    <3>1. CASE k # q
      BY <1>0, <1>6, <2>1, <2>3, <3>1
    <3>2. CASE k = q
      <4>1. acq'[a].pc = "held" /\ acq'[a].key = k
        BY <1>0, <2>3, GoesOn DEF AcqPCs, KeyOf
      <4>2. refs[k] = 0
        BY <1>0, <1>8, <2>1, <3>2 DEF Kept
      <4>3. refs'[k] = 1 /\ k \in cached'
        BY <1>0, <2>1, <2>3, <4>2
      <4> QED BY <3>2, <4>1, <4>3 DEF Kept
    <3> QED BY <3>1, <3>2
  <2> QED BY <1>9, <2>2, <2>3 DEF Recheck
<1>10. CASE Opened(a)
  <2>1. /\ acq[a].pc = "open" /\ To(a, "held") /\ cached' = cached \cup {k}
        /\ refs' = [refs EXCEPT ![k] = 1]
    BY <1>10 DEF Opened, On
  <2>2. CASE k # q
    BY <1>0, <1>6, <2>1, <2>2
  <2>3. CASE k = q
    <3>1. acq'[a].pc = "held" /\ acq'[a].key = k
      BY <1>0, <2>1, GoesOn DEF AcqPCs, KeyOf
    <3>2. refs'[k] = 1 /\ k \in cached'
      BY <1>0, <2>1
    <3> QED BY <2>3, <3>1, <3>2 DEF Kept
  <2> QED BY <2>2, <2>3
<1>11. CASE Leave(a)
  <2>1. /\ acq[a].pc = "held" /\ To(a, "ok") /\ UNCHANGED cached
        /\ refs' = IF k \in cached THEN [refs EXCEPT ![k] = refs[k] - 1] ELSE refs
    BY <1>11 DEF Leave, On
  <2>2. CASE k # q
    BY <1>0, <1>6, <2>1, <2>2
  <2>3. CASE k = q
    <3>1. refs[k] = 1 /\ k \in cached
      BY <1>0, <2>1, <2>3 DEF Kept, KeyOf
    <3>2. refs'[k] = 0 /\ k \in cached'
      BY <1>0, <2>1, <3>1
    <3>3. acq[a].alone => acq'[a] = Free
      BY <1>0, <2>1, GoesOn DEF AcqPCs
    <3>4. ~acq[a].alone => acq'[a].pc = "ok"
      BY <1>0, <2>1, GoesOn DEF AcqPCs
    <3>5. \A b \in Takers : ~(acq'[b].pc = "held" /\ acq'[b].key = k)
      BY <1>2, <1>8, <2>1, <3>3, <3>4, Blank
    <3>6. CASE a \in Helpers /\ acq[a].alone
      <4>1. k \in Flagged
        BY <1>0, <3>6 DEF Threads, Employed, KeyOf
      <4> QED BY <2>3, <3>2, <3>5, <4>1 DEF Kept
    <3>7. CASE a \in Helpers /\ ~acq[a].alone
      <4>1. main.pc = "verify" /\ main.helper = a /\ main.key = k
        BY <1>0, <3>7 DEF Threads, Employed, KeyOf
      <4> QED BY <1>0, <2>3, <3>2, <3>4, <3>5, <3>7, <4>1 DEF Kept
    <3>8. CASE a = "job"
      <4>1. job.pc = "op" /\ job.key = k
        BY <1>0, <3>8 DEF Threads, SessionLock, KeyOf
      <4> QED BY <1>0, <2>3, <3>2, <3>5, <4>1 DEF Kept
    <3> QED BY <3>6, <3>7, <3>8 DEF Takers
  <2> QED BY <2>2, <2>3
<1> QED BY <1>7, <1>9, <1>10, <1>11 DEF TakerStep

\* The main loop closes what its sweep opened, and nothing that is in use.
LEMMA LoopKeeps ==
  ASSUME SweepInv, LoopStep, Flagged \subseteq Flagged', NEW q \in Keys
  PROVE  Kept(q)'
<1>0. /\ Types /\ Threads /\ UNCHANGED <<job, refs>> /\ Kept(q)
      /\ Helpers \subseteq Takers /\ refs \in [Keys -> Nat]
      /\ acq \in [Takers -> AcqRecord] /\ main \in MainRecord
  BY LoopChanges DEF SweepInv, Takers, Types
<1>1. ASSUME main.pc # "verify", UNCHANGED acq, UNCHANGED cached PROVE Kept(q)'
  BY <1>0, <1>1, QuietKeeps
<1>2. CASE RefreshTick \/ SweepAsked \/ ScanPlugin \/ ScanReturns \/ ScanTimesOut
           \/ SweepDone
  BY <1>1, <1>2 DEF RefreshTick, SweepAsked, ScanPlugin, ScanReturns, ScanTimesOut,
     SweepDone, Main, reg
<1>3. CASE ScanApplies
  <2>1. /\ main.pc = "scan" /\ UNCHANGED acq /\ cached' \subseteq cached
        /\ q \in cached /\ refs[q] > 0 => q \in cached'
    BY <1>0, <1>3 DEF ScanApplies, Main, Apply
  <2>2. CASE q \in cached' <=> q \in cached
    BY <1>0, <2>1, <2>2, QuietKeeps
  <2>3. CASE ~(q \in cached' <=> q \in cached)
    BY <1>0, <2>1, <2>3 DEF Kept
  <2> QED BY <2>2, <2>3
<1>4. CASE SweepNext
  <2>1. main.pc = "sweep" /\ UNCHANGED cached
    BY <1>4 DEF SweepNext, Main, reg
  <2>2. \A a \in Takers : (acq'[a].pc = "held" /\ acq'[a].key = q)
                           <=> (acq[a].pc = "held" /\ acq[a].key = q)
    <3> DEFINE r == [key |-> First(main.todo), pc |-> "check", alone |-> FALSE]
    <3>1. UNCHANGED acq \/ \E h \in Helpers : acq[h].pc = "free"
                              /\ acq' = [acq EXCEPT ![h] = r]
      BY <1>4 DEF SweepNext, On
    <3>2. r.pc = "check"
      OBVIOUS
    <3> HIDE DEF r
    <3> QED BY <1>0, <3>1, <3>2
  <2> QED BY <1>0, <2>1, <2>2, QuietKeeps
<1>5. main.pc = "verify" => main.helper \in Takers /\ acq[main.helper].key = main.key
  BY <1>0 DEF Threads, Waiting
<1>6. CASE Verified
  <2>1. /\ main.pc = "verify" /\ acq[main.helper].pc \in {"ok", "failed"}
        /\ acq' = [acq EXCEPT ![main.helper] = Free]
        /\ acq[main.helper].pc = "ok" => ReleaseNow(main.key)
        /\ acq[main.helper].pc # "ok" => UNCHANGED cached
    BY <1>6 DEF Verified, Main, On
  <2>2. \A a \in Takers : (acq'[a].pc = "held" /\ acq'[a].key = q)
                           <=> (acq[a].pc = "held" /\ acq[a].key = q)
    BY <1>0, <1>5, <2>1, Blank
  <2>3. CASE main.key = q /\ acq[main.helper].pc = "ok"
    BY <1>0, <2>1, <2>2, <2>3 DEF Kept, ReleaseNow
  <2>4. CASE ~(main.key = q /\ acq[main.helper].pc = "ok")
    <3>1. q \in cached' <=> q \in cached
      BY <2>1, <2>4 DEF ReleaseNow
    <3> QED BY <1>0, <2>2, <2>4, <3>1, QuietKeeps
  <2> QED BY <2>3, <2>4
<1>7. CASE VerifyTimesOut
  <2>1. /\ main.pc = "verify" /\ acq[main.helper].pc \in {"open", "lock"}
        /\ acq' = [acq EXCEPT ![main.helper].alone = TRUE] /\ UNCHANGED cached
    BY <1>7 DEF VerifyTimesOut, Main, On
  <2>2. \A a \in Takers : acq'[a].pc = acq[a].pc /\ acq'[a].key = acq[a].key
    <3> DEFINE r == [acq[main.helper] EXCEPT !.alone = TRUE]
    <3>1. r.pc = acq[main.helper].pc /\ r.key = acq[main.helper].key
      BY <1>0, <1>5, <2>1 DEF AcqRecord
    <3>2. acq' = [acq EXCEPT ![main.helper] = r]
      BY <2>1
    <3> HIDE DEF r
    <3> QED BY <1>0, <3>1, <3>2
  <2> QED BY <1>0, <2>1, <2>2, QuietKeeps
<1> QED BY <1>2, <1>3, <1>4, <1>6, <1>7 DEF LoopStep

\* So do the session, and an operator's release marker.
LEMMA OthersKeep ==
  ASSUME SweepInv, SessionStep \/ \E k \in Keys : BenchStep(k), Flagged \subseteq Flagged',
         NEW q \in Keys
  PROVE  Kept(q)'
<1>0. /\ Types /\ Threads /\ UNCHANGED <<main, refs>> /\ Kept(q) /\ SessionLock
      /\ refs \in [Keys -> Nat] /\ acq \in [Takers -> AcqRecord] /\ job \in JobRecord
      /\ "job" \in Takers /\ (main.pc = "verify" => main.helper # "job")
  BY SessionChanges, BenchChanges, SweepAssumption
  DEF SweepInv, Takers, Types, Threads, Waiting
<1>1. ASSUME UNCHANGED acq, job.pc # "op" \/ UNCHANGED job, cached' \subseteq cached,
             q \in cached /\ refs[q] > 0 => q \in cached'
      PROVE  Kept(q)'
  <2>1. CASE q \in cached' <=> q \in cached
    BY <1>0, <1>1, <2>1, QuietKeeps
  <2>2. CASE ~(q \in cached' <=> q \in cached)
    BY <1>0, <1>1, <2>2 DEF Kept
  <2> QED BY <2>1, <2>2
<1>2. CASE \E k \in Keys : BenchStep(k)
  <2>1. PICK k \in Keys : BenchStep(k)
    BY <1>2
  <2>2. UNCHANGED acq /\ (UNCHANGED job \/ Spawn(k))
        /\ (UNCHANGED cached \/ ReleaseMarker(k))
    BY <2>1, BenchChanges
  <2> QED BY <1>0, <1>1, <2>2 DEF Spawn, ReleaseMarker, ReleaseNow
<1>3. CASE JobProbeReturns
  BY <1>0, <1>1, <1>3 DEF JobProbeReturns, Apply
<1>4. CASE JobCanceled \/ Register \/ JobProbes \/ JobProbeTimesOut \/ Resolve \/ Pin
           \/ JobUnlocks \/ Unpin \/ JobEnds
  BY <1>1, <1>4 DEF JobCanceled, Register, JobProbes, JobProbeTimesOut, Resolve, Pin,
     JobUnlocks, Unpin, JobEnds, reg
<1>5. CASE JobLocks
  <2> DEFINE r == [key |-> job.key, pc |-> "check", alone |-> FALSE]
  <2>1. /\ job.pc = "lock" /\ UNCHANGED cached /\ acq' = [acq EXCEPT !["job"] = r]
    BY <1>5 DEF JobLocks, reg
  <2>2. r.pc = "check"
    OBVIOUS
  <2> HIDE DEF r
  <2>3. /\ acq["job"].pc = "free" /\ acq'["job"] = r
        /\ \A b \in Takers \ {"job"} : acq'[b] = acq[b]
        /\ acq'[main.helper] = acq[main.helper] \/ main.pc # "verify"
    BY <1>0, <2>1 DEF SessionLock
  <2> QED BY <1>0, <2>1, <2>2, <2>3, QuietKeeps
<1>6. CASE JobCloses
  <2>1. /\ job.pc = "op" /\ acq["job"].pc \in {"ok", "failed"} /\ ReleaseNow(job.key)
        /\ acq' = [acq EXCEPT !["job"] = Free]
    BY <1>6 DEF JobCloses
  <2>2. /\ acq'["job"] = Free /\ \A b \in Takers \ {"job"} : acq'[b] = acq[b]
        /\ acq'[main.helper] = acq[main.helper] \/ main.pc # "verify"
    BY <1>0, <2>1
  <2>3. \A a \in Takers : (acq'[a].pc = "held" /\ acq'[a].key = q)
                           <=> (acq[a].pc = "held" /\ acq[a].key = q)
    BY <2>1, <2>2, Blank
  <2>4. CASE job.key = q
    BY <1>0, <2>1, <2>3, <2>4 DEF Kept, ReleaseNow
  <2>5. CASE job.key # q
    <3>1. q \in cached' <=> q \in cached
      BY <2>1, <2>5 DEF ReleaseNow
    <3> QED BY <1>0, <2>2, <2>3, <2>5, <3>1, QuietKeeps
  <2> QED BY <2>4, <2>5
<1> QED BY <1>2, <1>3, <1>4, <1>5, <1>6 DEF SessionStep

-----------------------------------------------------------------------------
(* The invariant *)

\* The bench at start-up, before the first scan.
LEMMA InitSweep == Init => SweepInv
<1> SUFFICES ASSUME Init PROVE SweepInv
  OBVIOUS
<1>1. /\ main \in MainRecord /\ main.pc = "scan" /\ main.goal = "sweep"
  BY Blank DEF Init, MainRecord
<1>2. job \in JobRecord /\ job.pc = "none"
  BY DEF Init, JobRecord, JobPCs
<1>3. acq \in [Takers -> AcqRecord] /\ \A a \in Takers : acq[a] = Free
  BY Blank DEF Init
<1>4. Types /\ ProbeAlone
  BY <1>1, <1>2, <1>3 DEF Init, Types, ProbeAlone
<1>5. HungFlagged /\ Alone
  BY <1>1, <1>2 DEF Init, HungFlagged, Alone
<1>6. Threads
  BY <1>1, <1>2, <1>3, Blank, SweepAssumption
  DEF Init, Threads, OwnsItsKey, Employed, Waiting, SessionLock, Takers
<1>7. \A k \in Keys : Kept(k)
  BY <1>3, Blank DEF Init, Kept
<1> QED BY <1>4, <1>5, <1>6, <1>7 DEF SweepInv

\* Every step of the poller and of the drivers keeps the invariant.
LEMMA NextKeepsSweep == SweepInv /\ [Next]_vars => SweepInv'
<1> SUFFICES ASSUME SweepInv, [Next]_vars PROVE SweepInv'
  OBVIOUS
<1>1. /\ Types /\ ProbeAlone' /\ Alone' /\ HungFlagged' /\ Flagged \subseteq Flagged'
  BY ProbesKeep, AloneKeeps, FlagsKeep DEF SweepInv
<1>2. Threads' /\ acq' \in [Takers -> AcqRecord]
  <2>1. CASE UNCHANGED vars
    BY <2>1 DEF vars, SweepInv, Threads, OwnsItsKey, Employed, Waiting, SessionLock,
       Flagged, Types
  <2> QED BY <1>1, <2>1, StepIs, TakersKeepThreads, LoopKeepsThreads, OthersKeepThreads
<1>3. Types'
  BY <1>2, TypesKeep
<1>4. \A k \in Keys : Kept(k)'
  <2>1. CASE UNCHANGED vars
    BY <2>1 DEF vars, SweepInv, Kept, Flagged
  <2> QED BY <1>1, <2>1, StepIs, TakersKeep, LoopKeeps, OthersKeep
<1> QED BY <1>1, <1>2, <1>3, <1>4 DEF SweepInv

\* The invariant of the registry under hanging calls.
THEOREM SweepInvariant == Spec => []SweepInv
<1>1. Init => SweepInv
  BY InitSweep
<1>2. SweepInv /\ [Next]_vars => SweepInv'
  BY NextKeepsSweep
<1> QED BY <1>1, <1>2, PTL DEF Spec

-----------------------------------------------------------------------------
(* What a bench can rely on *)

\* OneProbe: a plugin whose probe hangs is not probed again beside it, by the
\* 15 s rescan, a sweep or a session's refresh_plugin.
THEOREM ProbesAreSingle == Spec => []OneProbe
<1>1. SweepInv => OneProbe
  <2> SUFFICES ASSUME SweepInv, NEW k \in Keys PROVE Cardinality(probing[k]) <= 1
    BY DEF OneProbe
  <2>1. probing[k] \in {{}, {"main"}, {"job"}, {"left"}}
    BY DEF SweepInv, ProbeAlone
  <2>2. CASE probing[k] = {}
    BY <2>2, FS_EmptySet
  <2>3. ASSUME NEW who, probing[k] = {who} PROVE Cardinality(probing[k]) <= 1
    BY <2>3, FS_Singleton
  <2> QED BY <2>1, <2>2, <2>3
<1> QED BY <1>1, SweepInvariant, PTL

\* HeldStaysOpen: the handle an op or a sweep has entered stays in the cache, its
\* lock with that thread, and the cache counts its users exactly.
THEOREM HandlesStayWithTheirUser == Spec => []HeldStaysOpen
<1>1. SweepInv => HeldStaysOpen
  <2> SUFFICES ASSUME SweepInv, NEW k \in Keys
               PROVE  /\ refs[k] = Cardinality(Holding(k))
                      /\ \A a \in Holding(k) : k \in cached /\ Owns(a, k)
    BY DEF HeldStaysOpen
  <2>1. \A a \in Holding(k) : a \in Takers /\ acq[a].pc = "held" /\ acq[a].key = k
    BY DEF Holding, On, KeyOf
  <2>2. \A a \in Holding(k) : Owns(a, k)
    BY <2>1 DEF SweepInv, Threads, OwnsItsKey, Owns
  <2>3. CASE Holding(k) = {}
    <3>1. refs[k] = 0
      BY <2>3 DEF SweepInv, Kept, Holding, On, KeyOf
    <3> QED BY <2>3, <3>1, FS_EmptySet
  <2>4. ASSUME NEW a \in Holding(k)
        PROVE  refs[k] = Cardinality(Holding(k)) /\ k \in cached
    <3>1. Holding(k) = {a}
      BY <2>2, <2>4 DEF Owns
    <3>2. refs[k] = 1 /\ k \in cached
      BY <2>1, <2>4 DEF SweepInv, Kept
    <3> QED BY <3>1, <3>2, FS_Singleton
  <2> QED BY <2>2, <2>3, <2>4
<1> QED BY <1>1, SweepInvariant, PTL

\* CachedHasKeeper: no handle is left in the cache with nobody to close it.
THEOREM HandlesHaveKeepers == Spec => []CachedHasKeeper
<1>1. SweepInv => CachedHasKeeper
  BY DEF SweepInv, Types, Kept, Flagged, CachedHasKeeper, Main
<1> QED BY <1>1, SweepInvariant, PTL

\* NoSecondOpen: behind a hung open nobody starts another one of that device,
\* unless an operator has released it since.
THEOREM HungOpensAreSingle == Spec => NoSecondOpen
<1>1. ASSUME SweepInv, [Next]_vars, NEW a \in Takers, ~On(a, "open"), acq'[a].pc = "open",
             OpenRuns(KeyOf(a))
      PROVE  KeyOf(a) \in cleared
  <2>0. /\ Types /\ Threads /\ acq \in [Takers -> AcqRecord]
    BY <1>1 DEF SweepInv, Types
  <2>1. Recheck(a)
    <3>1. CASE LoopStep \/ SessionStep \/ (\E k \in Keys : BenchStep(k)) \/ UNCHANGED vars
      <4>1. \/ UNCHANGED acq \/ SweepNext \/ Verified \/ VerifyTimesOut \/ JobLocks
            \/ JobCloses
        BY <3>1, LoopChanges, SessionChanges, BenchChanges DEF vars
      <4>2. \E b, key, alone : \/ UNCHANGED acq
                               \/ acq' = [acq EXCEPT ![b] = Free]
                               \/ acq' = [acq EXCEPT ![b].alone = TRUE]
                               \/ acq' = [acq EXCEPT ![b] = [key |-> key, pc |-> "check",
                                                             alone |-> alone]]
        <5>1. CASE \/ UNCHANGED acq \/ Verified \/ JobCloses
          BY <5>1 DEF Verified, JobCloses
        <5>2. CASE VerifyTimesOut
          BY <5>2 DEF VerifyTimesOut
        <5>3. CASE SweepNext
          <6>1. \/ UNCHANGED acq
                \/ \E h \in Helpers : \E key :
                     acq' = [acq EXCEPT ![h] = [key |-> key, pc |-> "check", alone |-> FALSE]]
            BY <5>3, Zenon DEF SweepNext
          <6> QED BY <6>1, Zenon
        <5>4. CASE JobLocks
          BY <5>4 DEF JobLocks
        <5> QED BY <4>1, <5>1, <5>2, <5>3, <5>4
      <4> QED BY <1>1, <2>0, <4>2, Blank DEF On, AcqRecord
    <3>2. ASSUME NEW b \in Takers, TakerStep(b), b # a PROVE FALSE
      <4>1. \E pc \in AcqPCs : To(b, pc)
        BY <1>1, <3>2, TakerMoves
      <4> QED BY <1>1, <2>0, <3>2, <4>1, GoesOn DEF On
    <3>3. CASE TakerStep(a)
      <4>1. ASSUME NEW pc \in AcqPCs \ {"open"}, To(a, pc) PROVE FALSE
        BY <1>1, <2>0, <4>1, GoesOn, Blank
      <4> QED BY <3>3, <4>1 DEF TakerStep, Opened, OpenFails, OpenHangs, Check, TakeLock,
                 Leave, AcqPCs
    <3> QED BY <1>1, <3>1, <3>2, <3>3, StepIs
  <2> DEFINE k == KeyOf(a)
  <2>2. acq[a].pc = "recheck" /\ k \in Keys /\ lock[k] = a
    BY <1>1, <2>0, <2>1 DEF Recheck, On, Threads, OwnsItsKey, KeyOf
  <2>3. k \notin quarantined
    <3>1. CASE k \in quarantined
      <4>1. To(a, "failed")
        BY <2>1, <3>1 DEF Recheck
      <4> QED BY <1>1, <2>0, <4>1, GoesOn, Blank DEF AcqPCs
    <3> QED BY <3>1
  <2>4. ~\E b \in Takers : On(b, "open") /\ KeyOf(b) = k
    BY <2>0, <2>2 DEF On, Threads, OwnsItsKey, KeyOf
  <2>5. hung[k] > 0
    BY <1>1, <2>4 DEF OpenRuns
  <2> QED BY <1>1, <2>2, <2>3, <2>5 DEF SweepInv, HungFlagged, Flagged
<1>2. SweepInv /\ [Next]_vars =>
        [\A a \in Takers : ~On(a, "open") /\ acq'[a].pc = "open" /\ OpenRuns(KeyOf(a))
                           => KeyOf(a) \in cleared]_vars
  BY <1>1
<1> QED BY <1>2, SweepInvariant, PTL DEF Spec, NoSecondOpen

\* HealthyNotQuarantined: a sweep deferred until the bench is idle flags no device
\* that answers.
THEOREM HealthyDevicesStay == Spec => HealthyNotQuarantined
<1>1. ASSUME SweepInv, [Next]_vars, NEW k \in Keys, k \notin quarantined,
             k \in quarantined', main.pc = "verify", main.clean
      PROVE  OpenRuns(k)
  <2>0. Types /\ Threads /\ SessionLock /\ Alone /\ lock \in [Keys -> Takers \cup {Nobody}]
    BY <1>1 DEF SweepInv, Threads, Types
  <2>1. job.pc = "none"
    BY <1>1, <2>0 DEF Alone
  <2>2. VerifyTimesOut \/ \E a \in Takers : OpenHangs(a)
    <3>1. CASE UNCHANGED vars
      BY <1>1, <3>1 DEF vars
    <3>2. CASE \E q \in Keys : BenchStep(q)
      BY <1>1, <3>2, BenchChanges DEF ReleaseMarker
    <3>3. CASE \E a \in Takers : TakerStep(a)
      BY <1>1, <3>3, TakerChanges
    <3>4. CASE LoopStep \/ SessionStep
      BY <1>1, <3>4, LoopChanges, SessionChanges
    <3> QED BY <1>1, <3>1, <3>2, <3>3, <3>4, StepIs
  <2>3. ASSUME NEW a \in Takers, OpenHangs(a) PROVE OpenRuns(k)
    BY <1>1, <2>3 DEF OpenHangs, Quarantine, OpenRuns
  <2>4. CASE VerifyTimesOut
    <3>1. k = main.key /\ (On(main.helper, "open") \/ LongHeld(k))
      BY <1>1, <2>4 DEF VerifyTimesOut, Quarantine
    <3>2. CASE On(main.helper, "open")
      BY <1>1, <2>0, <3>1, <3>2 DEF Threads, Waiting, OpenRuns, Takers, KeyOf
    <3>3. CASE LongHeld(k)
      <4>1. lock[k] # "job"
        BY <2>0, <2>1 DEF SessionLock
      <4>2. lock[k] \in Helpers /\ On(lock[k], "open")
        BY <3>3, <4>1 DEF LongHeld
      <4>3. acq[lock[k]].key = k
        BY <1>1, <2>0, <4>2 DEF Threads, OwnsItsKey, Takers
      <4> QED BY <4>2, <4>3 DEF OpenRuns, Takers, KeyOf
    <3> QED BY <3>1, <3>2, <3>3
  <2> QED BY <2>2, <2>3, <2>4
<1>2. SweepInv /\ [Next]_vars =>
        [\A k \in Keys : k \notin quarantined /\ k \in quarantined' /\ main.pc = "verify"
                         /\ main.clean => OpenRuns(k)]_vars
  BY <1>1
<1> QED BY <1>2, SweepInvariant, PTL DEF Spec, HealthyNotQuarantined
=============================================================================
