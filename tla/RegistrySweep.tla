--------------------------- MODULE RegistrySweep ----------------------------
(***************************************************************************)
(* Calls into drivers that may hang, and what registry.py does about them: *)
(* every probe and every open runs in a thread of its own under a          *)
(* wall-clock cap, and a call that is over its cap is left to itself.      *)
(*                                                                         *)
(*   the main loop   rescans (a probe per plugin, then the result is       *)
(*                   applied), sweeps (open and close every device),       *)
(*                   honours release markers, starts sessions              *)
(*   helpers         the threads of verify_sweep, one acquire each         *)
(*   a session       re-probes its plugin, locks its device, runs one op   *)
(*                                                                         *)
(* Every plugin has one device.  The caps (15 s, 30 s, 60 s) elapse at any *)
(* moment at which the call they guard has not returned.                   *)
(***************************************************************************)
EXTENDS Naturals, FiniteSets

CONSTANTS
    Keys,        \* devices, numbered in the order of their names
    Helpers,     \* bound: helper threads alive at once
    Nobody,
    MaxFlaps,    \* bound: devices plugged or unplugged
    MaxSweeps,   \* bound: sweep requests
    MaxRuns,     \* bound: sessions
    MaxMarkers,  \* bound: release markers
    MaxHung      \* bound: abandoned opens of one device

ASSUME SweepAssumption ==
    /\ Keys \subseteq Nat \ {0} /\ IsFiniteSet(Keys)
    /\ Nobody \notin Helpers /\ "job" \notin Helpers /\ Nobody # "job"
    /\ {MaxFlaps, MaxSweeps, MaxRuns, MaxMarkers, MaxHung} \subseteq Nat

VARIABLES
    attached,     \* the devices that are there
    specs,        \* registry.specs
    cached, refs, \* registry.cache
    pinned,       \* keys with a pinned spec
    quarantined,
    lock,         \* per_dev_lock: its owner
    probing,      \* the probe calls under way for a plugin: who waits for them
    hung,         \* abandoned opens of a device that have not returned
    lost,         \* devices with a handle that nobody will close
    main,         \* the main loop
    job,          \* the session's thread
    acq,          \* the acquire of each helper and of the session
    cleared,      \* keys an operator released since they were quarantined
    left          \* what is left of the bounds

bench == <<attached, left>>
reg   == <<specs, cached, refs, pinned, quarantined>>
calls == <<probing, hung, lost>>
vars  == <<attached, specs, cached, refs, pinned, quarantined, lock, probing, hung,
           lost, main, job, acq, cleared, left>>

Takers == Helpers \cup {"job"}
Free   == [key |-> 0, pc |-> "free", alone |-> FALSE]
Loop   == [pc |-> "loop", goal |-> "none", todo |-> {}, found |-> {}, key |-> 0,
           helper |-> Nobody, clean |-> TRUE]

Spend(b) == left[b] > 0 /\ left' = [left EXCEPT ![b] = @ - 1]
First(S) == CHOOSE k \in S : \A q \in S : k <= q

Plug(k) ==
    /\ Spend("flaps")
    /\ attached' = IF k \in attached THEN attached \ {k} ELSE attached \cup {k}
    /\ UNCHANGED <<reg, lock, calls, main, job, acq, cleared>>

-----------------------------------------------------------------------------
(* _probe_with_timeout *)

\* Mutant: nobody looks at _probe_inflight.
BugProbeBusy(k) == FALSE

\* A probe of the plugin is under way, if only one that was given up on.
ProbeBusy(k) == probing[k] # {}

ProbeStarts(who, k)  == probing' = [probing EXCEPT ![k] = @ \cup {who}]
ProbeReturns(who, k) == who \in probing[k] /\ probing' = [probing EXCEPT ![k] = @ \ {who}]
ProbeTimesOut(who, k) ==
    /\ who \in probing[k]
    /\ probing' = [probing EXCEPT ![k] = (@ \ {who}) \cup {"left"}]

LeftProbeReturns(k) ==
    /\ ProbeReturns("left", k)
    /\ UNCHANGED <<bench, reg, lock, hung, lost, main, job, acq, cleared>>

\* The result of a scan of the plugins P: F is there.  A spec that is pinned or
\* in use stays; eviction forgets a cached handle without closing it.
Apply(P, F) ==
    LET gone == {k \in specs \cap P : k \notin F \cup pinned /\ refs[k] = 0} IN
    /\ specs' = (specs \ gone) \cup F
    /\ cached' = cached \ gone
    /\ lost' = lost \cup (cached \cap gone)

-----------------------------------------------------------------------------
(* _Acquire, for a helper of the sweep or for the session, which has the     *)
(* RLock already.  acq.alone: the caller has given up on the helper.         *)

Owns(a, k) == lock[k] = a
Give(a, k) == lock' = IF a = "job" THEN lock ELSE [lock EXCEPT ![k] = Nobody]
To(a, pc)  == acq' = [acq EXCEPT ![a] = IF @.alone /\ pc \in {"ok", "failed"}
                                        THEN Free ELSE [@ EXCEPT !.pc = pc]]
On(a, pc)  == acq[a].pc = pc
KeyOf(a)   == acq[a].key

\* Present and not quarantined, or it fails before it waits for the lock.
Check(a) ==
    /\ On(a, "check")
    /\ To(a, IF KeyOf(a) \in specs \ quarantined THEN "lock" ELSE "failed")
    /\ UNCHANGED <<bench, reg, lock, calls, main, job, cleared>>

TakeLock(a) ==
    /\ On(a, "lock") /\ lock[KeyOf(a)] \in {Nobody, a}
    /\ lock' = [lock EXCEPT ![KeyOf(a)] = a]
    /\ To(a, "recheck")
    /\ UNCHANGED <<bench, reg, calls, main, job, cleared>>

\* Mutant: whoever waited for the lock opens the device.
BugRecheck(a) ==
    /\ On(a, "recheck") /\ KeyOf(a) \in specs
    /\ IF KeyOf(a) \in cached
       THEN To(a, "held") /\ refs' = [refs EXCEPT ![KeyOf(a)] = @ + 1] /\ UNCHANGED lock
       ELSE To(a, "open") /\ UNCHANGED <<refs, lock>>
    /\ UNCHANGED <<bench, specs, cached, pinned, quarantined, calls, main, job, cleared>>

\* Quarantined or evicted in the meantime, a handle in the cache, or an open.
Recheck(a) ==
    /\ On(a, "recheck")
    /\ IF KeyOf(a) \in quarantined \/ KeyOf(a) \notin specs \cup cached
       THEN To(a, "failed") /\ Give(a, KeyOf(a)) /\ UNCHANGED refs
       ELSE IF KeyOf(a) \in cached
       THEN To(a, "held") /\ refs' = [refs EXCEPT ![KeyOf(a)] = @ + 1] /\ UNCHANGED lock
       ELSE To(a, "open") /\ UNCHANGED <<refs, lock>>
    /\ UNCHANGED <<bench, specs, cached, pinned, quarantined, calls, main, job, cleared>>

Opened(a) ==
    /\ On(a, "open")
    /\ cached' = cached \cup {KeyOf(a)} /\ refs' = [refs EXCEPT ![KeyOf(a)] = 1]
    /\ To(a, "held")
    /\ UNCHANGED <<bench, specs, pinned, quarantined, lock, calls, main, job, cleared>>

\* Mutant: the error path gives back a reference it never took.
BugOpenFails(a) ==
    /\ On(a, "open")
    /\ refs' = [refs EXCEPT ![KeyOf(a)] = @ - 1]
    /\ To(a, "failed") /\ Give(a, KeyOf(a))
    /\ UNCHANGED <<bench, specs, cached, pinned, quarantined, calls, main, job, cleared>>

OpenFails(a) ==
    /\ On(a, "open")
    /\ To(a, "failed") /\ Give(a, KeyOf(a))
    /\ UNCHANGED <<bench, reg, calls, main, job, cleared>>

Quarantine(k) == quarantined' = quarantined \cup {k} /\ cleared' = cleared \ {k}

\* OPEN_TIMEOUT_S: quarantined, then the lock is released.  The sweep's own cap
\* is the shorter one.
OpenHangs(a) ==
    /\ On(a, "open") /\ (a = "job" \/ acq[a].alone)
    /\ hung[KeyOf(a)] < MaxHung
    /\ hung' = [hung EXCEPT ![KeyOf(a)] = @ + 1]
    /\ Quarantine(KeyOf(a))
    /\ To(a, "failed") /\ Give(a, KeyOf(a))
    /\ UNCHANGED <<bench, specs, cached, refs, pinned, probing, lost, main, job>>

\* An abandoned open returns: an error, or a handle for nobody.
HungReturns(k, opened) ==
    /\ hung[k] > 0
    /\ hung' = [hung EXCEPT ![k] = @ - 1]
    /\ lost' = IF opened THEN lost \cup {k} ELSE lost
    /\ UNCHANGED <<bench, reg, lock, probing, main, job, acq, cleared>>

\* __exit__: the cache entry may be gone.
Leave(a) ==
    /\ On(a, "held")
    /\ refs' = IF KeyOf(a) \in cached THEN [refs EXCEPT ![KeyOf(a)] = @ - 1] ELSE refs
    /\ To(a, "ok") /\ Give(a, KeyOf(a))
    /\ UNCHANGED <<bench, specs, cached, pinned, quarantined, calls, main, job, cleared>>

\* Mutant: a forced close.
BugReleaseNow(k) == cached' = cached \ {k}

\* release_now: a handle in use is left alone.
ReleaseNow(k) == cached' = IF refs[k] > 0 THEN cached ELSE cached \ {k}

-----------------------------------------------------------------------------
(* The main loop *)

Main(pc) == main.pc = pc
JobActive == job.pc \notin {"none", "spawned"}     \* in _active_sessions

\* refresh(), from the 15 s tick or as the first half of a sweep
Rescan(goal, clean) ==
    main' = [Loop EXCEPT !.pc = "scan", !.goal = goal, !.todo = Keys, !.clean = clean]

RefreshTick ==
    /\ Main("loop") /\ Spend("sweeps") /\ Rescan("none", TRUE)
    /\ UNCHANGED <<attached, reg, lock, calls, job, acq, cleared>>

\* Mutant: sweeps are not deferred.
BugSweepAsked ==
    /\ Main("loop") /\ Spend("sweeps") /\ Rescan("sweep", job.pc # "spawned")
    /\ UNCHANGED <<attached, reg, lock, calls, job, acq, cleared>>

\* _drain_sweep_markers: deferred while a session is registered.  main.clean:
\* nor was one about to register.
SweepAsked ==
    /\ Main("loop") /\ ~JobActive /\ Spend("sweeps")
    /\ Rescan("sweep", job.pc # "spawned")
    /\ UNCHANGED <<attached, reg, lock, calls, job, acq, cleared>>

ScanDone(k, found) == [main EXCEPT !.pc = "scan", !.todo = @ \ {k}, !.found = @ \cup found]

ScanPlugin ==
    /\ Main("scan") /\ main.todo # {}
    /\ LET k == First(main.todo) IN
       IF ProbeBusy(k)
       THEN main' = ScanDone(k, specs \cap {k}) /\ UNCHANGED probing
       ELSE ProbeStarts("main", k) /\ main' = [main EXCEPT !.pc = "probe", !.key = k]
    /\ UNCHANGED <<bench, reg, lock, hung, lost, job, acq, cleared>>

ScanReturns ==                      \* an error keeps what was known
    /\ Main("probe") /\ ProbeReturns("main", main.key)
    /\ \E found \in {attached, specs} : main' = ScanDone(main.key, found \cap {main.key})
    /\ UNCHANGED <<bench, reg, lock, hung, lost, job, acq, cleared>>

\* Mutant: the main loop waits for the probe.
BugScanTimesOut == FALSE /\ UNCHANGED vars

ScanTimesOut ==
    /\ Main("probe") /\ ProbeTimesOut("main", main.key)
    /\ main' = ScanDone(main.key, specs \cap {main.key})
    /\ UNCHANGED <<bench, reg, lock, hung, lost, job, acq, cleared>>

ScanApplies ==
    /\ Main("scan") /\ main.todo = {}
    /\ Apply(Keys, main.found)
    /\ main' = IF main.goal = "none" THEN Loop
               ELSE [main EXCEPT !.pc = "sweep", !.found = {}, !.todo = specs']
    /\ UNCHANGED <<bench, refs, pinned, quarantined, lock, probing, hung, job, acq, cleared>>

\* verify_sweep, key by key: a device whose handle is in use is passed over.
SweepNext ==
    /\ Main("sweep") /\ main.todo # {}
    /\ LET k == First(main.todo) IN
       IF k \in cached /\ refs[k] > 0
       THEN main' = [main EXCEPT !.todo = @ \ {k}] /\ UNCHANGED acq
       ELSE \E h \in Helpers :
            /\ On(h, "free")
            /\ acq' = [acq EXCEPT ![h] = [key |-> k, pc |-> "check", alone |-> FALSE]]
            /\ main' = [main EXCEPT !.pc = "verify", !.todo = @ \ {k}, !.key = k,
                                    !.helper = h]
    /\ UNCHANGED <<bench, reg, lock, calls, job, cleared>>

NextKey == main' = [main EXCEPT !.pc = "sweep", !.key = 0, !.helper = Nobody]

\* Mutant: a sweep leaves what it opened in the cache.
BugVerified ==
    /\ Main("verify") /\ acq[main.helper].pc \in {"ok", "failed"}
    /\ acq' = [acq EXCEPT ![main.helper] = Free]
    /\ NextKey
    /\ UNCHANGED <<bench, reg, lock, calls, job, cleared>>

Verified ==
    /\ Main("verify") /\ acq[main.helper].pc \in {"ok", "failed"}
    /\ IF On(main.helper, "ok") THEN ReleaseNow(main.key) ELSE UNCHANGED cached
    /\ acq' = [acq EXCEPT ![main.helper] = Free]
    /\ NextKey
    /\ UNCHANGED <<bench, specs, refs, pinned, quarantined, lock, calls, job, cleared>>

\* Only a session or a hanging open keeps a lock for 30 s.
LongHeld(k) == lock[k] = "job" \/ (lock[k] \in Helpers /\ On(lock[k], "open"))

\* VERIFY_OPEN_TIMEOUT_S: the helper hangs in the open, or waits for the lock.
VerifyTimesOut ==
    /\ Main("verify")
    /\ \/ On(main.helper, "open")
       \/ On(main.helper, "lock") /\ LongHeld(main.key)
    /\ Quarantine(main.key)
    /\ acq' = [acq EXCEPT ![main.helper].alone = TRUE]
    /\ NextKey
    /\ UNCHANGED <<bench, specs, cached, refs, pinned, lock, calls, job>>

SweepDone ==
    /\ Main("sweep") /\ main.todo = {}
    /\ main' = Loop
    /\ UNCHANGED <<bench, reg, lock, calls, job, acq, cleared>>

\* _drain_release_markers: POST /devices/<key>/release
ReleaseMarker(k) ==
    /\ Main("loop") /\ Spend("markers")
    /\ ReleaseNow(k)
    /\ quarantined' = quarantined \ {k} /\ cleared' = cleared \cup {k}
    /\ UNCHANGED <<attached, specs, refs, pinned, lock, calls, main, job, acq>>

-----------------------------------------------------------------------------
(* A session *)

JobTo(pc) == job' = [job EXCEPT !.pc = pc]

\* A plan for device k is picked up; its worker registers the session later.
Spawn(k) ==
    /\ Main("loop") /\ job.pc = "none" /\ Spend("runs")
    /\ job' = [pc |-> "spawned", key |-> k]
    /\ UNCHANGED <<attached, reg, lock, calls, main, acq, cleared>>

Register ==
    /\ job.pc = "spawned" /\ JobTo("refresh")
    /\ UNCHANGED <<bench, reg, lock, calls, main, acq, cleared>>

\* refresh_plugin: a probe under way is good enough.
JobProbes ==
    /\ job.pc = "refresh"
    /\ IF ProbeBusy(job.key) THEN JobTo("resolve") /\ UNCHANGED probing
                             ELSE JobTo("probe") /\ ProbeStarts("job", job.key)
    /\ UNCHANGED <<bench, reg, lock, hung, lost, main, acq, cleared>>

JobProbeReturns ==
    /\ job.pc = "probe" /\ ProbeReturns("job", job.key) /\ JobTo("resolve")
    /\ \/ Apply({job.key}, attached \cap {job.key})
       \/ UNCHANGED <<specs, cached, lost>>
    /\ UNCHANGED <<bench, refs, pinned, quarantined, lock, hung, main, acq, cleared>>

JobProbeTimesOut ==
    /\ job.pc = "probe" /\ ProbeTimesOut("job", job.key) /\ JobTo("resolve")
    /\ UNCHANGED <<bench, reg, lock, hung, lost, main, acq, cleared>>

\* resolve and the spec pin are two looks at the registry.
Resolve ==
    /\ job.pc = "resolve"
    /\ JobTo(IF job.key \in specs THEN "pin" ELSE "end")
    /\ UNCHANGED <<bench, reg, lock, calls, main, acq, cleared>>

Pin ==
    /\ job.pc = "pin" /\ JobTo("lock")
    /\ pinned' = pinned \cup {job.key}
    /\ UNCHANGED <<bench, specs, cached, refs, quarantined, lock, calls, main, acq, cleared>>

JobLocks ==
    /\ job.pc = "lock" /\ lock[job.key] = Nobody
    /\ lock' = [lock EXCEPT ![job.key] = "job"]
    /\ acq' = [acq EXCEPT !["job"] = [key |-> job.key, pc |-> "check", alone |-> FALSE]]
    /\ JobTo("op")
    /\ UNCHANGED <<bench, reg, calls, main, cleared>>

\* run_all's finally: close the device, then release its lock, then unpin.
JobCloses ==
    /\ job.pc = "op" /\ acq["job"].pc \in {"ok", "failed"}
    /\ ReleaseNow(job.key) /\ JobTo("unlock")
    /\ acq' = [acq EXCEPT !["job"] = Free]
    /\ UNCHANGED <<bench, specs, refs, pinned, quarantined, lock, calls, main, cleared>>

JobUnlocks ==
    /\ job.pc = "unlock" /\ JobTo("unpin")
    /\ lock' = [lock EXCEPT ![job.key] = Nobody]
    /\ UNCHANGED <<bench, reg, calls, main, acq, cleared>>

JobCanceled ==                      \* in the lock wait
    /\ job.pc = "lock" /\ JobTo("unpin")
    /\ UNCHANGED <<bench, reg, lock, calls, main, acq, cleared>>

Unpin ==
    /\ job.pc = "unpin" /\ JobTo("end")
    /\ pinned' = pinned \ {job.key}
    /\ UNCHANGED <<bench, specs, cached, refs, quarantined, lock, calls, main, acq, cleared>>

JobEnds ==
    /\ job.pc = "end" /\ job' = [pc |-> "none", key |-> 0]
    /\ UNCHANGED <<bench, reg, lock, calls, main, acq, cleared>>

-----------------------------------------------------------------------------

Init ==
    /\ attached \in SUBSET Keys /\ specs = {}
    /\ cached = {} /\ refs = [k \in Keys |-> 0] /\ pinned = {} /\ quarantined = {}
    /\ lock = [k \in Keys |-> Nobody]
    /\ probing = [k \in Keys |-> {}] /\ hung = [k \in Keys |-> 0] /\ lost = {}
    /\ main = [Loop EXCEPT !.pc = "scan", !.goal = "sweep", !.todo = Keys]
    /\ job = [pc |-> "none", key |-> 0] /\ acq = [a \in Takers |-> Free]
    /\ cleared = {}
    /\ left = [flaps |-> MaxFlaps, sweeps |-> MaxSweeps, runs |-> MaxRuns, markers |-> MaxMarkers]

\* Steps nobody has to take: requests, and calls into drivers that return.
Environment ==
    \/ \E k \in Keys : Plug(k) \/ LeftProbeReturns(k) \/ ReleaseMarker(k) \/ Spawn(k)
    \/ \E k \in Keys, opened \in BOOLEAN : HungReturns(k, opened)
    \/ \E a \in Takers : Opened(a) \/ OpenFails(a) \/ OpenHangs(a)
    \/ RefreshTick \/ SweepAsked \/ ScanReturns \/ JobProbeReturns \/ JobCanceled

AcqStep(a) == Check(a) \/ TakeLock(a) \/ Recheck(a) \/ Leave(a)

MainStep ==
    \/ ScanPlugin \/ ScanTimesOut \/ ScanApplies
    \/ SweepNext \/ Verified \/ VerifyTimesOut \/ SweepDone

JobStep ==
    \/ Register \/ JobProbes \/ JobProbeTimesOut \/ Resolve \/ Pin
    \/ JobLocks \/ JobCloses \/ JobUnlocks \/ Unpin \/ JobEnds

Next == Environment \/ MainStep \/ JobStep \/ \E a \in Takers : AcqStep(a)

Spec == Init /\ [][Next]_vars

\* Threads run and caps elapse; no call into a driver has to return.
FairSpec ==
    /\ Spec /\ WF_vars(MainStep) /\ WF_vars(JobStep)
    /\ \A a \in Takers : WF_vars(AcqStep(a) \/ OpenHangs(a))

-----------------------------------------------------------------------------
(* Properties *)

\* No plugin's probe is entered while an earlier call of it is still inside the
\* driver, given up on or not, whichever of the two threads asks for it.
OneProbe == \A k \in Keys : Cardinality(probing[k]) <= 1

\* A device whose open hangs is not opened a second time while the first call is
\* still inside the driver, by a queued session or a later sweep, until an
\* operator releases it.
OpenRuns(k) == hung[k] > 0 \/ \E a \in Takers : On(a, "open") /\ KeyOf(a) = k
NoSecondOpen ==
    [][\A a \in Takers :
          ~On(a, "open") /\ acq'[a].pc = "open" /\ OpenRuns(KeyOf(a)) => KeyOf(a) \in cleared]_vars

\* While an op has a handle it stays in the cache and the device's lock is with
\* the op's thread, whatever sweeps, release markers, rescans and helpers that
\* were given up on do meanwhile; the references are counted exactly.
Holding(k) == {a \in Takers : On(a, "held") /\ KeyOf(a) = k}
HeldStaysOpen ==
    \A k \in Keys : /\ refs[k] = Cardinality(Holding(k))
                   /\ \A a \in Holding(k) : k \in cached /\ Owns(a, k)

\* A sweep that found the bench idle, no session registered or about to be,
\* quarantines a device only for an open that does hang.
HealthyNotQuarantined ==
    [][\A k \in Keys :
          k \notin quarantined /\ k \in quarantined' /\ main.pc = "verify" /\ main.clean
          => OpenRuns(k)]_vars

\* A cached handle nobody refers to has somebody who will close it: the sweep or
\* the session at that device, or the operator who lifts its quarantine (or did
\* so before the late open came back).
CachedHasKeeper ==
    \A k \in cached :
        refs[k] = 0 => \/ Main("verify") /\ main.key = k
                       \/ job.key = k /\ job.pc = "op"
                       \/ k \in quarantined \cup cleared

\* The main loop comes back from every rescan and every sweep, whichever probes
\* and opens never return.
LoopComesBack == [](main.pc # "loop" => <>(main.pc = "loop"))
=============================================================================
