----------------------------- MODULE DeviceHold -----------------------------
(***************************************************************************)
(* How the sessions of the poller share the devices of the bench.          *)
(* session.py grabs the lock of every device its plan names, holds them    *)
(* for the whole run, picks up late devices on the way and closes and      *)
(* releases everything in its finally block; registry.py keeps the specs,  *)
(* the handle cache, the per-device RLocks, the spec pins and the          *)
(* quarantine.                                                             *)
(*                                                                         *)
(* A device key ("mp135.evb") and a device reference of a plan ("mp135" or *)
(* "mp135.evb") are numbers, ordered the way the program sorts the         *)
(* strings.  Targets[r] holds the keys a reference can mean, Family[r] all *)
(* the keys of its plugin, and AnyKeys the "<plugin>.any" instances.       *)
(***************************************************************************)
EXTENDS Integers, FiniteSets

CONSTANTS
    Sessions,    \* the jobs' sessions, each on a thread of its own
    Keys, Refs, AnyKeys,
    Targets, Family,
    NoSession,
    MarkerKeys,  \* bound: keys an operator asks to release
    MaxOps,      \* bound: device ops of one session
    MaxFlaps     \* bound: devices plugged in or unplugged

ASSUME DeviceAssumption ==
    /\ Keys \subseteq Nat /\ IsFiniteSet(Keys)
    /\ Refs \subseteq Nat \ {0} /\ IsFiniteSet(Refs)
    /\ AnyKeys \subseteq Keys /\ MarkerKeys \subseteq Keys
    /\ Targets \in [Refs -> SUBSET Keys]
    /\ Family \in [Refs -> SUBSET Keys]
    /\ \A r \in Refs : Targets[r] \subseteq Family[r]
    /\ NoSession \notin Sessions
    /\ MaxOps \in Nat /\ MaxFlaps \in Nat

\* One acquisition of a device lock: for a reference resolved up front, for a
\* device that showed up later, by an explicit open, or around a single op.
Hold == [why : {"eager"}, ref : Refs, key : Keys]
            \cup [why : {"late", "open", "op"}, ref : {0}, key : Keys]

VARIABLES
    attached,    \* keys probe() would report now
    flaps,
    specs,       \* registry.specs
    pins,        \* registry.pinned_specs
    cached,      \* keys of registry.cache
    refs,        \* the reference count of a cache entry
    quarantined, \* registry.quarantined
    owner,       \* who holds per_dev_lock[key] ...
    depth,       \* ... and how many times (RLock)
    pc,          \* where the session's thread is
    needed,      \* required_device_refs(plan)
    todo,        \* references run_all has still to look up
    eager,       \* zip(eager_keys, eager_locks), by reference
    holds,       \* acquisitions not yet released
    locked,      \* _session_locked_keys
    pinned,      \* _pinned_specs
    touched,     \* touched_keys
    released,    \* released_keys
    cur,         \* the key (or, at "relook", the reference) in hand
    ops,
    canceled

registry == <<specs, pins, cached, refs, quarantined>>
locks    == <<owner, depth, holds>>
session  == <<pc, needed, todo, eager, locked, pinned, touched, released, cur,
              ops, canceled>>
vars     == <<attached, flaps, registry, locks, session>>

-----------------------------------------------------------------------------
(* registry.py *)

\* resolve(): the one key a reference means now; none if it is absent or
\* ambiguous.  A real instance is preferred to "any".
Resolved(r) ==
    LET candidates == Targets[r] \cap specs
        real       == candidates \ AnyKeys
    IN  IF Cardinality(candidates) = 1 THEN candidates
        ELSE IF Cardinality(real) = 1 THEN real
        ELSE {}

\* refresh() and refresh_plugin() over the keys of scope: a vanished spec goes
\* unless it is pinned or its handle is in use, and its cache entry with it.
Evicted(scope) ==
    {k \in (specs \cap scope) \ attached :
        pins[k] <= 0 /\ (k \in cached => refs[k] = 0)}
Rescan(scope) ==
    /\ specs' = (specs \ Evicted(scope)) \cup (attached \cap scope)
    /\ cached' = cached \ Evicted(scope)
    /\ UNCHANGED <<pins, refs, quarantined>>

\* pinned_specs[k] += 1, and the decrement that drops the key at zero
PinMore(S) == pins' = [k \in Keys |-> IF k \in S THEN pins[k] + 1 ELSE pins[k]]
PinLess(S) == pins' = [k \in Keys |-> IF k \in S /\ pins[k] > 0
                                      THEN pins[k] - 1 ELSE pins[k]]

\* release_now(): close the cached handle unless it is in use.
ReleaseNow(k) == cached' = IF refs[k] > 0 THEN cached ELSE cached \ {k}

\* The RLock of a key, taken and released by the thread of session s.
Free(k, s) == owner[k] \in {NoSession, s}
Take(s, h) ==
    /\ Free(h.key, s)
    /\ owner' = [owner EXCEPT ![h.key] = s]
    /\ depth' = [depth EXCEPT ![h.key] = @ + 1]
    /\ holds' = [holds EXCEPT ![s] = @ \cup {h}]
\* Mutant: a lock that does not nest; the end of an op frees it.
BugGiveBack(s, h) ==
    /\ depth' = [depth EXCEPT ![h.key] = 0]
    /\ owner' = [owner EXCEPT ![h.key] = NoSession]
    /\ holds' = [holds EXCEPT ![s] = @ \ {h}]

GiveBack(s, h) ==
    /\ depth' = [depth EXCEPT ![h.key] = @ - 1]
    /\ owner' = [owner EXCEPT ![h.key] = IF depth[h.key] = 1 THEN NoSession ELSE @]
    /\ holds' = [holds EXCEPT ![s] = @ \ {h}]

HoldsOf(s, kinds) == {h \in holds[s] : h.why \in kinds}
Opened(s) == {h.key : h \in HoldsOf(s, {"open"})}         \* the keys of self.pinned
OpHold(why, k) == [why |-> why, ref |-> 0, key |-> k]

\* run_all has returned and the Session object is garbage.
Gone(s) ==
    /\ pc' = [pc EXCEPT ![s] = "done"]
    /\ needed' = [needed EXCEPT ![s] = {}]
    /\ eager' = [eager EXCEPT ![s] = {}]
    /\ locked' = [locked EXCEPT ![s] = {}]
    /\ pinned' = [pinned EXCEPT ![s] = {}]
    /\ released' = [released EXCEPT ![s] = {}]
    /\ ops' = [ops EXCEPT ![s] = 0]
    /\ canceled' = [canceled EXCEPT ![s] = FALSE]
    /\ UNCHANGED <<todo, touched, cur>>

At(s, l)   == pc[s] = l
Goto(s, l) == pc' = [pc EXCEPT ![s] = l]

-----------------------------------------------------------------------------
(* The bench: devices come and go, the main loop rescans, an operator asks  *)
(* for a device to be released, an agent cancels.                           *)

Plug(k) ==
    /\ flaps < MaxFlaps
    /\ flaps' = flaps + 1
    /\ attached' = IF k \in attached THEN attached \ {k} ELSE attached \cup {k}
    /\ UNCHANGED <<registry, locks, session>>

\* The 15 s tick of the main loop.
Refresh ==
    /\ Rescan(Keys)
    /\ UNCHANGED <<attached, flaps, locks, session>>

\* _drain_release_markers: POST /devices/<key>/release.
ReleaseMarker(k) ==
    /\ ReleaseNow(k)
    /\ quarantined' = quarantined \ {k}
    /\ UNCHANGED <<attached, flaps, specs, pins, refs, locks, session>>

Canceling(s) ==
    /\ canceled' = [canceled EXCEPT ![s] = TRUE]
    /\ UNCHANGED <<attached, flaps, registry, locks, pc, needed, todo, eager,
                   locked, pinned, touched, released, cur, ops>>

\* signal_cancel, from DELETE /jobs/<digest> or a dropped agent
Cancel(s) ==
    /\ pc[s] \notin {"idle", "done"}
    /\ ~canceled[s]
    /\ Canceling(s)

\* The watchdog thread, which run_all starts once the eager locks are held.
Watchdog(s) ==
    /\ pc[s] \in {"run", "relook", "wait", "acquire", "opening", "use"}
    /\ ~canceled[s]
    /\ Canceling(s)

-----------------------------------------------------------------------------
(* Session.run_all up to the first op *)

\* A plan that names the references R; refresh_plugin for each of them.
Start(s, R) ==
    /\ At(s, "idle")
    /\ R # {}
    /\ needed' = [needed EXCEPT ![s] = R]
    /\ todo' = [todo EXCEPT ![s] = R]
    /\ Rescan(UNION {Family[r] : r \in R})
    /\ Goto(s, "resolve")
    /\ UNCHANGED <<attached, flaps, locks, eager, locked, pinned, touched,
                   released, cur, ops, canceled>>

\* The references in sorted order; one that does not resolve is deferred.
ResolveEager(s, r) ==
    /\ At(s, "resolve")
    /\ r \in todo[s] /\ \A q \in todo[s] : r <= q
    /\ todo' = [todo EXCEPT ![s] = @ \ {r}]
    /\ eager' = [eager EXCEPT ![s] = @ \cup {[why |-> "eager", ref |-> r, key |-> k] :
                                                k \in Resolved(r)}]
    /\ UNCHANGED <<attached, flaps, registry, locks, pc, needed, locked, pinned,
                   touched, released, cur, ops, canceled>>

EagerKeys(s) == {h.key : h \in eager[s]}

\* Under registry.lock, all the pins at once.
PinEager(s) ==
    /\ At(s, "resolve") /\ todo[s] = {}
    /\ pinned' = [pinned EXCEPT ![s] = EagerKeys(s)]
    /\ PinMore(EagerKeys(s))
    /\ Goto(s, "lock")
    /\ UNCHANGED <<attached, flaps, specs, cached, refs, quarantined, locks,
                   needed, todo, eager, locked, touched, released, cur, ops,
                   canceled>>

\* The locks one after the other, in the order of the references; a cancel is
\* looked at before every attempt, which gives up after 100 ms.
LockEager(s, h) ==
    /\ At(s, "lock") /\ ~canceled[s]
    /\ h \in eager[s] \ holds[s]
    /\ \A g \in eager[s] \ holds[s] : h.ref <= g.ref
    /\ Take(s, h)
    /\ UNCHANGED <<attached, flaps, registry, session>>

LockWaitCanceled(s) ==
    /\ At(s, "lock") /\ canceled[s] /\ eager[s] \ holds[s] # {}
    /\ Goto(s, "backout")
    /\ UNCHANGED <<attached, flaps, registry, locks, needed, todo, eager, locked,
                   pinned, touched, released, cur, ops, canceled>>

\* The locks acquired so far, in reverse.
BackOut(s, h) ==
    /\ At(s, "backout")
    /\ h \in holds[s] /\ \A g \in holds[s] : g.ref <= h.ref
    /\ GiveBack(s, h)
    /\ UNCHANGED <<attached, flaps, registry, session>>

\* Mutant: the pins survive a cancel in the lock wait.
BugBackOutUnpin(s) ==
    /\ At(s, "backout") /\ holds[s] = {}
    /\ Gone(s)
    /\ UNCHANGED <<attached, flaps, registry, locks>>

BackOutUnpin(s) ==
    /\ At(s, "backout") /\ holds[s] = {}
    /\ PinLess(pinned[s])
    /\ Gone(s)
    /\ UNCHANGED <<attached, flaps, specs, cached, refs, quarantined, locks>>

LocksHeld(s) ==
    /\ At(s, "lock") /\ eager[s] \subseteq holds[s]
    /\ locked' = [locked EXCEPT ![s] = EagerKeys(s)]
    /\ Goto(s, "run")
    /\ UNCHANGED <<attached, flaps, registry, locks, needed, todo, eager, pinned,
                   touched, released, cur, ops, canceled>>

-----------------------------------------------------------------------------
(* One device op: _run_device_op and _resolve_device *)

\* _resolve_device once the key is known: a key the session does not hold yet
\* is pinned and its lock waited for.
GotKey(s, k) ==
    /\ cur' = [cur EXCEPT ![s] = k]
    /\ IF k \in locked[s]
       THEN /\ touched' = [touched EXCEPT ![s] = @ \cup {k}]
            /\ Goto(s, "acquire")
            /\ UNCHANGED <<pins, pinned>>
       ELSE /\ pinned' = [pinned EXCEPT ![s] = @ \cup {k}]
            /\ PinMore({k})
            /\ Goto(s, "wait")
            /\ UNCHANGED touched

\* The next op of the plan, whose reference is r.  _run_block looks at the
\* cancel flag first.
BeginOp(s, r) ==
    /\ At(s, "run") /\ ~canceled[s]
    /\ ops[s] < MaxOps
    /\ ops' = [ops EXCEPT ![s] = @ + 1]
    /\ r \in needed[s]
    /\ \E k \in Resolved(r) : GotKey(s, k)
    /\ UNCHANGED <<attached, flaps, specs, cached, refs, quarantined, locks,
                   needed, todo, eager, locked, released, canceled>>

\* LookupError: one targeted re-probe, then a second look.
BeginOpReprobe(s, r) ==
    /\ At(s, "run") /\ ~canceled[s]
    /\ ops[s] < MaxOps
    /\ ops' = [ops EXCEPT ![s] = @ + 1]
    /\ r \in needed[s] /\ Resolved(r) = {}
    /\ Rescan(Family[r])
    /\ cur' = [cur EXCEPT ![s] = r]
    /\ Goto(s, "relook")
    /\ UNCHANGED <<attached, flaps, locks, needed, todo, eager, locked, pinned,
                   touched, released, canceled>>

Relook(s) ==
    /\ At(s, "relook")
    /\ \E k \in Resolved(cur[s]) : GotKey(s, k)
    /\ UNCHANGED <<attached, flaps, specs, cached, refs, quarantined, locks,
                   needed, todo, eager, locked, released, ops, canceled>>

OpEnds(s) ==
    /\ Goto(s, "run")
    /\ cur' = [cur EXCEPT ![s] = 0]
    /\ UNCHANGED <<attached, flaps, specs, pins, needed, todo, eager, locked,
                   pinned, touched, released, ops, canceled>>

OpMisses(s) ==                      \* the second LookupError fails the op
    /\ At(s, "relook") /\ Resolved(cur[s]) = {}
    /\ OpEnds(s)
    /\ UNCHANGED <<cached, refs, quarantined, locks>>

\* The lock of a late device, then kept to the end of the session.
LockLate(s) ==
    /\ At(s, "wait")
    /\ Take(s, OpHold("late", cur[s]))
    /\ locked' = [locked EXCEPT ![s] = @ \cup {cur[s]}]
    /\ touched' = [touched EXCEPT ![s] = @ \cup {cur[s]}]
    /\ Goto(s, "acquire")
    /\ UNCHANGED <<attached, flaps, registry, needed, todo, eager, pinned,
                   released, cur, ops, canceled>>

\* Mutant: nothing interrupts the wait for a late device.
BugLateWaitCanceled(s) == FALSE /\ UNCHANGED vars

LateWaitCanceled(s) ==
    /\ At(s, "wait") /\ canceled[s] /\ ~Free(cur[s], s)
    /\ OpEnds(s)
    /\ UNCHANGED <<cached, refs, quarantined, locks>>

\* "open" of an open key and "close" of a closed one do nothing; an op on an
\* open key uses its handle.
OpOnOpenKey(s, verb) ==
    /\ At(s, "acquire") /\ cur[s] \in Opened(s)
    /\ \/ verb = "open" /\ OpEnds(s)
       \/ /\ verb = "op"
          /\ Goto(s, "use")
          /\ UNCHANGED <<attached, flaps, specs, pins, needed, todo, eager, locked,
                         pinned, touched, released, cur, ops, canceled>>
    /\ UNCHANGED <<cached, refs, quarantined, locks>>

\* _Acquire.__exit__
Exit(s, h) ==
    /\ refs' = IF h.key \in cached THEN [refs EXCEPT ![h.key] = @ - 1] ELSE refs
    /\ GiveBack(s, h)
    /\ UNCHANGED cached

CloseVerb(s) ==
    /\ At(s, "acquire")
    /\ IF cur[s] \in Opened(s) THEN Exit(s, OpHold("open", cur[s]))
                               ELSE UNCHANGED <<cached, refs, locks>>
    /\ OpEnds(s)
    /\ UNCHANGED quarantined

\* _Acquire.__enter__: the spec must be there and not quarantined; the RLock
\* nests in the one the session holds; a cached handle is used again.
AcquireRefused(s) ==
    /\ At(s, "acquire") /\ cur[s] \notin Opened(s)
    /\ cur[s] \notin specs \/ cur[s] \in quarantined
    /\ OpEnds(s)
    /\ UNCHANGED <<cached, refs, quarantined, locks>>

HandleReady(s, why) ==              \* "open" is done, any other verb runs
    IF why = "open" THEN Goto(s, "run") /\ cur' = [cur EXCEPT ![s] = 0]
                    ELSE Goto(s, "use") /\ UNCHANGED cur

Acquire(s, why) ==
    /\ At(s, "acquire") /\ cur[s] \notin Opened(s)
    /\ cur[s] \in specs \ quarantined
    /\ Take(s, OpHold(why, cur[s]))
    /\ IF cur[s] \in cached
       THEN refs' = [refs EXCEPT ![cur[s]] = @ + 1] /\ HandleReady(s, why)
       ELSE UNCHANGED <<refs, cur>> /\ Goto(s, "opening")
    /\ UNCHANGED <<attached, flaps, specs, pins, cached, quarantined, needed, todo,
                   eager, locked, pinned, touched, released, ops, canceled>>

\* Mutant: the cache entry starts without the reference of its opener.
BugOpens(s, h) ==
    /\ At(s, "opening") /\ h \in HoldsOf(s, {"open", "op"}) /\ h.key = cur[s]
    /\ cached' = cached \cup {cur[s]}
    /\ refs' = [refs EXCEPT ![cur[s]] = 0]
    /\ HandleReady(s, h.why)
    /\ UNCHANGED <<attached, flaps, specs, pins, quarantined, locks, needed, todo,
                   eager, locked, pinned, touched, released, ops, canceled>>

\* pl.open outside registry.lock: it returns, raises, or hangs past
\* OPEN_TIMEOUT_S, which quarantines the key.
Opens(s, h) ==
    /\ At(s, "opening") /\ h \in HoldsOf(s, {"open", "op"}) /\ h.key = cur[s]
    /\ cached' = cached \cup {cur[s]}
    /\ refs' = [refs EXCEPT ![cur[s]] = 1]
    /\ HandleReady(s, h.why)
    /\ UNCHANGED <<attached, flaps, specs, pins, quarantined, locks, needed, todo,
                   eager, locked, pinned, touched, released, ops, canceled>>

OpenFails(s, h, hung) ==
    /\ At(s, "opening") /\ h \in HoldsOf(s, {"open", "op"}) /\ h.key = cur[s]
    /\ quarantined' = IF hung THEN quarantined \cup {cur[s]} ELSE quarantined
    /\ GiveBack(s, h)
    /\ OpEnds(s)
    /\ UNCHANGED <<cached, refs>>

\* schema.run returned or raised
UseEnds(s) ==
    /\ At(s, "use")
    /\ IF OpHold("op", cur[s]) \in holds[s] THEN Exit(s, OpHold("op", cur[s]))
                                            ELSE UNCHANGED <<cached, refs, locks>>
    /\ OpEnds(s)
    /\ UNCHANGED quarantined

-----------------------------------------------------------------------------
(* The finally block of run_all *)

\* Plan finished, cancel or deadline seen at an op boundary, StopSession or
\* HardFail: the handles of self.pinned are released ...
RunEnds(s) ==
    /\ At(s, "run")
    /\ Goto(s, "finally")
    /\ UNCHANGED <<attached, flaps, registry, locks, needed, todo, eager, locked,
                   pinned, touched, released, cur, ops, canceled>>

ExitOpened(s, h) ==
    /\ At(s, "finally") /\ h \in HoldsOf(s, {"open"})
    /\ Exit(s, h)
    /\ UNCHANGED <<attached, flaps, specs, pins, quarantined, session>>

\* Mutant: the touched keys are closed before self.pinned is emptied.
BugCloseTouched(s, k) ==
    /\ At(s, "finally")
    /\ k \in touched[s] /\ \A q \in touched[s] : k <= q
    /\ ReleaseNow(k)
    /\ cur' = [cur EXCEPT ![s] = k]
    /\ Goto(s, "drop")
    /\ UNCHANGED <<attached, flaps, specs, pins, refs, quarantined, locks, needed,
                   todo, eager, locked, pinned, touched, released, ops, canceled>>

\* ... then every touched key, sorted, is closed and its lock released ...
CloseTouched(s, k) ==
    /\ At(s, "finally") /\ Opened(s) = {}
    /\ k \in touched[s] /\ \A q \in touched[s] : k <= q
    /\ ReleaseNow(k)
    /\ cur' = [cur EXCEPT ![s] = k]
    /\ Goto(s, "drop")
    /\ UNCHANGED <<attached, flaps, specs, pins, refs, quarantined, locks, needed,
                   todo, eager, locked, pinned, touched, released, ops, canceled>>

\* lock_by_key holds one entry for a key, whichever references lead to it.
DropTouched(s, h) ==
    /\ At(s, "drop")
    /\ h \in HoldsOf(s, {"eager", "late"}) /\ h.key = cur[s]
    /\ \A g \in HoldsOf(s, {"eager", "late"}) : g.key = cur[s] => g.ref <= h.ref
    /\ GiveBack(s, h)
    /\ released' = [released EXCEPT ![s] = @ \cup {cur[s]}]
    /\ touched' = [touched EXCEPT ![s] = @ \ {cur[s]}]
    /\ cur' = [cur EXCEPT ![s] = 0]
    /\ Goto(s, "finally")
    /\ UNCHANGED <<attached, flaps, registry, needed, todo, eager, locked, pinned,
                   ops, canceled>>

\* ... the specs are unpinned ...
Unpin(s) ==
    /\ At(s, "finally") /\ Opened(s) = {} /\ touched[s] = {}
    /\ PinLess(pinned[s])
    /\ Goto(s, "rest")
    /\ UNCHANGED <<attached, flaps, specs, cached, refs, quarantined, locks,
                   needed, todo, eager, locked, pinned, touched, released, cur,
                   ops, canceled>>

\* ... and the locks of the keys no op touched: late ones, then eager ones.
Unreleased(s) == {h \in HoldsOf(s, {"eager", "late"}) : h.key \notin released[s]}
ReleaseRest(s, h) ==
    /\ At(s, "rest") /\ h \in Unreleased(s)
    /\ h.why = "eager" =>
           \A g \in Unreleased(s) : g.why = "eager" /\ g.ref <= h.ref
    /\ GiveBack(s, h)
    /\ UNCHANGED <<attached, flaps, registry, session>>

SessionEnded(s) ==
    /\ At(s, "rest") /\ Unreleased(s) = {}
    /\ Gone(s)
    /\ UNCHANGED <<attached, flaps, registry, locks>>

-----------------------------------------------------------------------------
Init ==
    /\ attached \in SUBSET Keys
    /\ flaps = 0
    /\ specs = attached
    /\ pins = [k \in Keys |-> 0]
    /\ cached = {}
    /\ refs = [k \in Keys |-> 0]
    /\ quarantined = {}
    /\ owner = [k \in Keys |-> NoSession]
    /\ depth = [k \in Keys |-> 0]
    /\ pc = [s \in Sessions |-> "idle"]
    /\ needed = [s \in Sessions |-> {}]
    /\ todo = [s \in Sessions |-> {}]
    /\ eager = [s \in Sessions |-> {}]
    /\ holds = [s \in Sessions |-> {}]
    /\ locked = [s \in Sessions |-> {}]
    /\ pinned = [s \in Sessions |-> {}]
    /\ touched = [s \in Sessions |-> {}]
    /\ released = [s \in Sessions |-> {}]
    /\ cur = [s \in Sessions |-> 0]
    /\ ops = [s \in Sessions |-> 0]
    /\ canceled = [s \in Sessions |-> FALSE]

\* run_all before, during and after the ops of the plan
Starting(s) ==
    \/ \E r \in todo[s] : ResolveEager(s, r)
    \/ PinEager(s)
    \/ \E h \in eager[s] : LockEager(s, h)
    \/ LockWaitCanceled(s)
    \/ \E h \in holds[s] : BackOut(s, h)
    \/ BackOutUnpin(s)
    \/ LocksHeld(s)
Finishing(s) ==
    \/ RunEnds(s)
    \/ \E h \in holds[s] : ExitOpened(s, h)
    \/ \E k \in touched[s] : CloseTouched(s, k)
    \/ \E h \in holds[s] : DropTouched(s, h)
    \/ Unpin(s)
    \/ \E h \in holds[s] : ReleaseRest(s, h)
    \/ SessionEnded(s)
Running(s) ==
    \/ \E r \in needed[s] : BeginOp(s, r) \/ BeginOpReprobe(s, r)
    \/ Relook(s) \/ OpMisses(s)
    \/ LockLate(s) \/ LateWaitCanceled(s)
    \/ \E verb \in {"open", "op"} : OpOnOpenKey(s, verb) \/ Acquire(s, verb)
    \/ CloseVerb(s) \/ AcquireRefused(s)
    \/ \E h \in holds[s] : Opens(s, h)
    \/ \E h \in holds[s], hung \in BOOLEAN : OpenFails(s, h, hung)
    \/ UseEnds(s)
SessionStep(s) == Starting(s) \/ Running(s) \/ Finishing(s)

AllDone ==
    /\ \A s \in Sessions : At(s, "done")
    /\ UNCHANGED vars

Next ==
    \/ \E k \in Keys : Plug(k)
    \/ \E k \in MarkerKeys : ReleaseMarker(k)
    \/ Refresh
    \/ \E s \in Sessions :
          \/ \E R \in SUBSET Refs : Start(s, R)
          \/ SessionStep(s)
          \/ Cancel(s)
          \/ Watchdog(s)
    \/ AllDone

Spec == Init /\ [][Next]_vars

\* A session's thread runs on, a lock that is free is acquired, an op on a
\* device returns, and the watchdog's timer elapses.
FairSpec ==
    /\ Spec
    /\ \A s \in Sessions : WF_vars(SessionStep(s)) /\ WF_vars(Watchdog(s))

-----------------------------------------------------------------------------
(* Properties *)

Labels == {"idle", "resolve", "lock", "backout", "run", "relook", "wait",
           "acquire", "opening", "use", "finally", "drop", "rest", "done"}

\* Types.  In particular no RLock is released more often than it was taken and
\* no handle or pin is counted below zero.
TypeOK ==
    /\ attached \subseteq Keys /\ flaps \in 0 .. MaxFlaps
    /\ specs \subseteq Keys /\ cached \subseteq Keys /\ quarantined \subseteq Keys
    /\ pins \in [Keys -> Nat] /\ refs \in [Keys -> Nat]
    /\ owner \in [Keys -> Sessions \cup {NoSession}] /\ depth \in [Keys -> Nat]
    /\ pc \in [Sessions -> Labels]
    /\ needed \in [Sessions -> SUBSET Refs] /\ todo \in [Sessions -> SUBSET Refs]
    /\ eager \in [Sessions -> SUBSET Hold] /\ holds \in [Sessions -> SUBSET Hold]
    /\ locked \in [Sessions -> SUBSET Keys] /\ pinned \in [Sessions -> SUBSET Keys]
    /\ touched \in [Sessions -> SUBSET Keys] /\ released \in [Sessions -> SUBSET Keys]
    /\ cur \in [Sessions -> Keys \cup Refs \cup {0}]
    /\ ops \in [Sessions -> 0 .. MaxOps]
    /\ canceled \in [Sessions -> BOOLEAN]

Operating == {"run", "relook", "wait", "acquire", "opening", "use"}

\* From its first op to its last a session owns the lock of every device it
\* counts as its own, whatever opens, closes, failed opens and late locks came
\* in between: no other job gets in between two ops (session.py 469-473).
JobAtomic ==
    \A s \in Sessions : pc[s] \in Operating => \A k \in locked[s] : owner[k] = s

\* A session that is over owns no device lock, so the next job can have its
\* devices, and left no pin behind once all are over.
LocksReturned ==
    /\ \A s \in Sessions : At(s, "done") => \A k \in Keys : owner[k] # s
    /\ (\A s \in Sessions : pc[s] \in {"idle", "done"}) => \A k \in Keys : pins[k] = 0

\* A device whose lock is free has no open handle: a lock only drops after its
\* device's close, so no session starts on a handle another one left.
CleanHandover == \A k \in Keys : owner[k] = NoSession => k \notin cached

\* Eviction of a vanished spec drops the cache entry without a pl.close (the
\* spec is gone when _close_if_cached_locked looks for the plugin); it never
\* meets an open handle, because every open handle has its spec pinned.
OpenIsPinned == \A k \in cached : k \in specs /\ pins[k] > 0

\* A spec a session has pinned is not evicted by any rescan while that session
\* operates, not even after another session that pinned it has finished.
PinnedSpecStays ==
    [][\A s \in Sessions, k \in Keys :
          pc[s] \in Operating /\ k \in pinned[s] /\ k \in specs => k \in specs']_vars

\* The order in which the program sorts references is an order of the devices
\* they can mean.  It is not when a plugin has a real device beside its "any":
\* "ssh" means the real one and sorts before "ssh.any".
InOrder ==
    \A q, r \in Refs : q < r => \A j \in Targets[q], k \in Targets[r] : j <= k

\* The lock a session asks for next, before its first op.
Awaited(s) == {h.key : h \in {g \in eager[s] \ holds[s] :
                                 \A f \in eager[s] \ holds[s] : g.ref <= f.ref}}

\* "Two jobs sharing a subset of devices cannot deadlock each other" (session.py
\* 474-476): sessions that acquire their eager locks never wait for one another
\* in a circle.  No watchdog runs yet that would break one.
NoCircle ==
    \A S \in SUBSET {s \in Sessions : At(s, "lock")} :
        S # {} => \E s \in S : \A k \in Awaited(s) : owner[k] \notin S \ {s}

\* Every session comes to its end: sessions that wait for each other's devices,
\* as two with late devices may, are broken up by the watchdog.
SessionEnds == \A s \in Sessions : (pc[s] = "resolve") ~> At(s, "done")
=============================================================================
