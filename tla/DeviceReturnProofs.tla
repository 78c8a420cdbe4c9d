------------------------- MODULE DeviceReturnProofs -------------------------
(***************************************************************************)
(* What a session finds of the devices it takes over and what it leaves of *)
(* them, for every bench: no handle of another session, no spec that is    *)
(* open and not pinned, and every lock and pin given back.  Built on the   *)
(* account of the locks in DeviceHoldProofs.                               *)
(***************************************************************************)
EXTENDS DeviceHoldProofs

-----------------------------------------------------------------------------
(* A session finds no handle of another one *)

\* A session that has its locks and has not closed all it touched.
Busy == Operating \cup {"finally", "drop"}

\* A touched key is held by a lock that outlives the ops on it, and the key in
\* hand is touched before its handle is used, cached after that, and not cached
\* any more when its lock is about to drop.
Keeps(t) ==
    /\ touched[t] # {} => pc[t] \in Busy
    /\ \A k \in touched[t] :
           \E h \in holds[t] : h.why \in {"eager", "late"} /\ h.key = k
    /\ pc[t] \in {"acquire", "opening", "use", "drop"} => cur[t] \in touched[t]
    /\ pc[t] \in {"opening", "drop"} => cur[t] \notin cached

\* A cached handle is touched by some session, and its count is that of the one
\* hold that may use it.
CacheKept ==
    \A k \in cached :
        /\ \E t \in Sessions : k \in touched[t]
        /\ refs[k] <= 1
        /\ refs[k] > 0 => \E t \in Sessions : \E h \in holds[t] :
                              h.why \in {"open", "op"} /\ h.key = k

Handover == (\A t \in Sessions : Keeps(t)) /\ CacheKept

\* What no session does.
Bench ==
    \/ \E k \in Keys : Plug(k)
    \/ Refresh
    \/ \E k \in MarkerKeys : ReleaseMarker(k)

\* Two sessions have not touched the same key, and a touched key is owned.
LEMMA TouchedIsOwned ==
  ASSUME IInv, NEW t \in Sessions, Keeps(t), NEW k \in touched[t]
  PROVE  k \in Keys /\ owner[k] = t
  BY DEF IInv, TypeOK, Balance, Keeps

\* When a handle is given back its count drops to zero; the others keep theirs.
LEMMA ExitKeepsCached ==
  ASSUME IInv, CacheKept, NEW s \in Sessions, NEW h \in holds[s],
         h.why \in {"open", "op"}, Exit(s, h), UNCHANGED touched
  PROVE  CacheKept'
<1> USE DEF IInv
<1>1. h.key \in Keys /\ (h.key \in cached => refs[h.key] > 0)
  BY HoldKey DEF TypeOK, Counted
<1>2. SUFFICES ASSUME NEW k \in cached
               PROVE  /\ \E t \in Sessions : k \in touched[t]
                      /\ refs'[k] <= 1
                      /\ refs'[k] > 0 => \E t \in Sessions : \E g \in holds'[t] :
                                            g.why \in {"open", "op"} /\ g.key = k
  BY DEF CacheKept, Exit
<1>3. k \in Keys /\ refs[k] \in Nat
  BY DEF TypeOK
<1>4. CASE k = h.key
  <2>1. refs'[k] = refs[k] - 1
    BY <1>1, <1>3, <1>4 DEF Exit, TypeOK
  <2> QED BY <2>1, <1>3 DEF CacheKept
<1>5. CASE k # h.key
  <2>1. refs'[k] = refs[k]
    BY <1>1, <1>3, <1>5 DEF Exit, TypeOK
  <2>2. \A t \in Sessions : \A g \in holds[t] : g.key = k => g \in holds'[t]
    BY <1>5 DEF Exit, GiveBack, TypeOK
  <2> QED BY <2>1, <2>2 DEF CacheKept
<1> QED BY <1>4, <1>5

-----------------------------------------------------------------------------

\* The bench.
LEMMA BenchKeepsHandover ==
  ASSUME IInv, IInv', Handover, Bench
  PROVE  Handover'
<1> USE DEF IInv, Handover, Busy, Operating, At, Goto, locks, registry, session
<1>1. ASSUME NEW k \in Keys, Plug(k) PROVE Handover'
  <2>1. \A t \in Sessions : Keeps(t)'
    BY <1>1 DEF Keeps, Plug
  <2>2. CacheKept'
    BY <1>1 DEF TypeOK, Shape, Keeps, CacheKept, Plug
  <2> QED BY <2>1, <2>2
<1>2. ASSUME Refresh PROVE Handover'
  <2>1. \A t \in Sessions : Keeps(t)'
    BY <1>2 DEF Keeps, Refresh, Rescan, Evicted
  <2>2. CacheKept'
    BY <1>2 DEF TypeOK, Shape, Keeps, CacheKept, Refresh, Rescan, Evicted
  <2> QED BY <2>1, <2>2
<1>3. ASSUME NEW k \in MarkerKeys, ReleaseMarker(k) PROVE Handover'
  <2>1. \A t \in Sessions : Keeps(t)'
    BY <1>3 DEF Keeps, ReleaseMarker, ReleaseNow
  <2>2. CacheKept'
    BY <1>3 DEF TypeOK, Shape, Keeps, CacheKept, ReleaseMarker, ReleaseNow
  <2> QED BY <2>1, <2>2
<1> QED BY <1>1, <1>2, <1>3 DEF Bench

\* A job starts, or is told to stop.
LEMMA OutsideKeepsHandover ==
  ASSUME IInv, IInv', Handover, NEW s \in Sessions,
         (\E R \in SUBSET Refs : Start(s, R)) \/ Cancel(s) \/ Watchdog(s)
  PROVE  Handover'
<1> USE DEF IInv, Handover, Busy, Operating, At, Goto, locks, registry, session
<1>1. ASSUME NEW R \in SUBSET Refs, Start(s, R) PROVE Handover'
  <2>1. ASSUME NEW t \in Sessions PROVE Keeps(t)'
    <3>1. CASE t = s
      BY <1>1, <3>1 DEF TypeOK, Shape, Keeps, Start, Rescan, Evicted
    <3>2. CASE t # s
      BY <1>1, <3>2 DEF TypeOK, Keeps, Start, Rescan, Evicted
    <3> QED BY <3>1, <3>2
  <2>2. CacheKept'
    BY <1>1 DEF TypeOK, Shape, Keeps, CacheKept, Start, Rescan, Evicted
  <2> QED BY <2>1, <2>2
<1>2. ASSUME Cancel(s) PROVE Handover'
  <2>1. ASSUME NEW t \in Sessions PROVE Keeps(t)'
    <3>1. CASE t = s
      BY <1>2, <3>1 DEF TypeOK, Shape, Keeps, Cancel, Canceling
    <3>2. CASE t # s
      BY <1>2, <3>2 DEF TypeOK, Keeps, Cancel, Canceling
    <3> QED BY <3>1, <3>2
  <2>2. CacheKept'
    BY <1>2 DEF TypeOK, Shape, Keeps, CacheKept, Cancel, Canceling
  <2> QED BY <2>1, <2>2
<1>3. ASSUME Watchdog(s) PROVE Handover'
  <2>1. ASSUME NEW t \in Sessions PROVE Keeps(t)'
    <3>1. CASE t = s
      BY <1>3, <3>1 DEF TypeOK, Shape, Keeps, Watchdog, Canceling
    <3>2. CASE t # s
      BY <1>3, <3>2 DEF TypeOK, Keeps, Watchdog, Canceling
    <3> QED BY <3>1, <3>2
  <2>2. CacheKept'
    BY <1>3 DEF TypeOK, Shape, Keeps, CacheKept, Watchdog, Canceling
  <2> QED BY <2>1, <2>2
<1> QED BY <1>1, <1>2, <1>3

\* run_all before the first op.
LEMMA StartingKeepsHandover ==
  ASSUME IInv, IInv', Handover, NEW s \in Sessions, Starting(s)
  PROVE  Handover'
<1> USE DEF IInv, Handover, Busy, Operating, At, Goto, locks, registry, session
<1>1. ASSUME NEW r \in todo[s], ResolveEager(s, r) PROVE Handover'
  <2>1. ASSUME NEW t \in Sessions PROVE Keeps(t)'
    <3>1. CASE t = s
      BY <1>1, <3>1 DEF TypeOK, Shape, Keeps, ResolveEager
    <3>2. CASE t # s
      BY <1>1, <3>2 DEF TypeOK, Keeps, ResolveEager
    <3> QED BY <3>1, <3>2
  <2>2. CacheKept'
    BY <1>1 DEF TypeOK, Shape, Keeps, CacheKept, ResolveEager
  <2> QED BY <2>1, <2>2
<1>2. ASSUME PinEager(s) PROVE Handover'
  <2>1. ASSUME NEW t \in Sessions PROVE Keeps(t)'
    <3>1. CASE t = s
      BY <1>2, <3>1 DEF TypeOK, Shape, Keeps, PinEager
    <3>2. CASE t # s
      BY <1>2, <3>2 DEF TypeOK, Keeps, PinEager
    <3> QED BY <3>1, <3>2
  <2>2. CacheKept'
    BY <1>2 DEF TypeOK, Shape, Keeps, CacheKept, PinEager
  <2> QED BY <2>1, <2>2
<1>3. ASSUME NEW h \in eager[s], LockEager(s, h) PROVE Handover'
  <2>1. ASSUME NEW t \in Sessions PROVE Keeps(t)'
    <3>1. CASE t = s
      BY <1>3, <3>1 DEF TypeOK, Shape, Keeps, LockEager, Take
    <3>2. CASE t # s
      BY <1>3, <3>2 DEF TypeOK, Keeps, LockEager, Take
    <3> QED BY <3>1, <3>2
  <2>2. CacheKept'
    BY <1>3 DEF TypeOK, Shape, Keeps, CacheKept, LockEager, Take
  <2> QED BY <2>1, <2>2
<1>4. ASSUME LockWaitCanceled(s) PROVE Handover'
  <2>1. ASSUME NEW t \in Sessions PROVE Keeps(t)'
    <3>1. CASE t = s
      <4>1. UNCHANGED touched /\ pc[s] = "lock" /\ pc'[s] = "backout"
        BY <1>4 DEF TypeOK, LockWaitCanceled
      <4>2. touched[s] = {}
        BY <4>1 DEF Keeps
      <4> QED BY <3>1, <4>1, <4>2 DEF Keeps
    <3>2. CASE t # s
      BY <1>4, <3>2 DEF TypeOK, Keeps, LockWaitCanceled
    <3> QED BY <3>1, <3>2
  <2>2. CacheKept'
    BY <1>4 DEF TypeOK, Shape, Keeps, CacheKept, LockWaitCanceled
  <2> QED BY <2>1, <2>2
<1>5. ASSUME NEW h \in holds[s], BackOut(s, h) PROVE Handover'
  <2>1. ASSUME NEW t \in Sessions PROVE Keeps(t)'
    <3>1. CASE t = s
      BY <1>5, <3>1 DEF TypeOK, Shape, Keeps, BackOut, GiveBack
    <3>2. CASE t # s
      BY <1>5, <3>2 DEF TypeOK, Keeps, BackOut, GiveBack
    <3> QED BY <3>1, <3>2
  <2>2. CacheKept'
    BY <1>5 DEF TypeOK, Shape, Keeps, CacheKept, BackOut, GiveBack
  <2> QED BY <2>1, <2>2
<1>6. ASSUME BackOutUnpin(s) PROVE Handover'
  <2>1. ASSUME NEW t \in Sessions PROVE Keeps(t)'
    <3>1. CASE t = s
      BY <1>6, <3>1 DEF TypeOK, Shape, Keeps, BackOutUnpin, Gone
    <3>2. CASE t # s
      BY <1>6, <3>2 DEF TypeOK, Keeps, BackOutUnpin, Gone
    <3> QED BY <3>1, <3>2
  <2>2. CacheKept'
    BY <1>6 DEF TypeOK, Shape, Keeps, CacheKept, BackOutUnpin, Gone
  <2> QED BY <2>1, <2>2
<1>7. ASSUME LocksHeld(s) PROVE Handover'
  <2>1. ASSUME NEW t \in Sessions PROVE Keeps(t)'
    <3>1. CASE t = s
      BY <1>7, <3>1 DEF TypeOK, Shape, Keeps, LocksHeld
    <3>2. CASE t # s
      BY <1>7, <3>2 DEF TypeOK, Keeps, LocksHeld
    <3> QED BY <3>1, <3>2
  <2>2. CacheKept'
    BY <1>7 DEF TypeOK, Shape, Keeps, CacheKept, LocksHeld
  <2> QED BY <2>1, <2>2
<1> QED BY <1>1, <1>2, <1>3, <1>4, <1>5, <1>6, <1>7 DEF Starting

\* The ops of the plan.
LEMMA RunningKeepsHandover ==
  ASSUME IInv, IInv', Handover, NEW s \in Sessions, Running(s)
  PROVE  Handover'
<1> USE DEF IInv, Handover, Busy, Operating, At, Goto, locks, registry, session
<1>1. ASSUME NEW r \in needed[s], BeginOp(s, r) PROVE Handover'
  <2>1. ASSUME NEW t \in Sessions PROVE Keeps(t)'
    <3>1. CASE t = s
      BY <1>1, <3>1 DEF TypeOK, Shape, Keeps, BeginOp, GotKey
    <3>2. CASE t # s
      BY <1>1, <3>2 DEF TypeOK, Keeps, BeginOp, GotKey
    <3> QED BY <3>1, <3>2
  <2>2. CacheKept'
    BY <1>1 DEF TypeOK, Shape, Keeps, CacheKept, BeginOp, GotKey
  <2> QED BY <2>1, <2>2
<1>2. ASSUME NEW r \in needed[s], BeginOpReprobe(s, r) PROVE Handover'
  <2>1. ASSUME NEW t \in Sessions PROVE Keeps(t)'
    <3>1. CASE t = s
      BY <1>2, <3>1 DEF TypeOK, Shape, Keeps, BeginOpReprobe, Rescan, Evicted
    <3>2. CASE t # s
      BY <1>2, <3>2 DEF TypeOK, Keeps, BeginOpReprobe, Rescan, Evicted
    <3> QED BY <3>1, <3>2
  <2>2. CacheKept'
    BY <1>2 DEF TypeOK, Shape, Keeps, CacheKept, BeginOpReprobe, Rescan, Evicted
  <2> QED BY <2>1, <2>2
<1>3. ASSUME Relook(s) PROVE Handover'
  <2>1. ASSUME NEW t \in Sessions PROVE Keeps(t)'
    <3>1. CASE t = s
      <4>1. PICK k \in Resolved(cur[s]) : GotKey(s, k)
        BY <1>3 DEF Relook
      <4>2. /\ UNCHANGED holds /\ pc[s] = "relook" /\ cur'[s] = k /\ pc'[s] \in {"acquire", "wait"}
            /\ IF k \in locked[s] THEN touched'[s] = touched[s] \cup {k}
                                  ELSE touched'[s] = touched[s] /\ pc'[s] = "wait"
        BY <1>3, <4>1 DEF TypeOK, Relook, GotKey
      <4>3. \A q \in locked[s] : \E h \in holds[s] : h.why \in {"eager", "late"} /\ h.key = q
        BY <4>2 DEF Shape
      <4> QED BY <3>1, <4>2, <4>3 DEF Keeps
    <3>2. CASE t # s
      BY <1>3, <3>2 DEF TypeOK, Keeps, Relook, GotKey
    <3> QED BY <3>1, <3>2
  <2>2. CacheKept'
    BY <1>3 DEF TypeOK, Shape, Keeps, CacheKept, Relook, GotKey
  <2> QED BY <2>1, <2>2
<1>4. ASSUME OpMisses(s) PROVE Handover'
  <2>1. ASSUME NEW t \in Sessions PROVE Keeps(t)'
    <3>1. CASE t = s
      BY <1>4, <3>1 DEF TypeOK, Shape, Keeps, OpMisses, OpEnds
    <3>2. CASE t # s
      BY <1>4, <3>2 DEF TypeOK, Keeps, OpMisses, OpEnds
    <3> QED BY <3>1, <3>2
  <2>2. CacheKept'
    BY <1>4 DEF TypeOK, Shape, Keeps, CacheKept, OpMisses, OpEnds
  <2> QED BY <2>1, <2>2
<1>5. ASSUME LockLate(s) PROVE Handover'
  <2>1. ASSUME NEW t \in Sessions PROVE Keeps(t)'
    <3>1. CASE t = s
      BY <1>5, <3>1 DEF TypeOK, Shape, Keeps, LockLate, Take, OpHold
    <3>2. CASE t # s
      BY <1>5, <3>2 DEF TypeOK, Keeps, LockLate, Take, OpHold
    <3> QED BY <3>1, <3>2
  <2>2. CacheKept'
    BY <1>5 DEF TypeOK, Shape, Keeps, CacheKept, LockLate, Take, OpHold
  <2> QED BY <2>1, <2>2
<1>6. ASSUME LateWaitCanceled(s) PROVE Handover'
  <2>1. ASSUME NEW t \in Sessions PROVE Keeps(t)'
    <3>1. CASE t = s
      BY <1>6, <3>1 DEF TypeOK, Shape, Keeps, LateWaitCanceled, OpEnds
    <3>2. CASE t # s
      BY <1>6, <3>2 DEF TypeOK, Keeps, LateWaitCanceled, OpEnds
    <3> QED BY <3>1, <3>2
  <2>2. CacheKept'
    BY <1>6 DEF TypeOK, Shape, Keeps, CacheKept, LateWaitCanceled, OpEnds
  <2> QED BY <2>1, <2>2
<1>7. ASSUME NEW verb \in {"open", "op"}, OpOnOpenKey(s, verb) PROVE Handover'
  <2>1. ASSUME NEW t \in Sessions PROVE Keeps(t)'
    <3>1. CASE t = s
      BY <1>7, <3>1 DEF TypeOK, Shape, Keeps, OpOnOpenKey, OpEnds
    <3>2. CASE t # s
      BY <1>7, <3>2 DEF TypeOK, Keeps, OpOnOpenKey, OpEnds
    <3> QED BY <3>1, <3>2
  <2>2. CacheKept'
    BY <1>7 DEF TypeOK, Shape, Keeps, CacheKept, OpOnOpenKey, OpEnds
  <2> QED BY <2>1, <2>2
<1>8. ASSUME CloseVerb(s) PROVE Handover'
  <2>1. ASSUME NEW t \in Sessions PROVE Keeps(t)'
    <3>1. CASE t = s
      BY <1>8, <3>1 DEF TypeOK, Shape, Keeps, CloseVerb, Exit, OpEnds,
         GiveBack, OpHold
    <3>2. CASE t # s
      BY <1>8, <3>2 DEF TypeOK, Keeps, CloseVerb, Exit, OpEnds,
         GiveBack, OpHold
    <3> QED BY <3>1, <3>2
  <2>2. CacheKept'
    <3>1. CASE OpHold("open", cur[s]) \in holds[s]
      <4>1. /\ Exit(s, OpHold("open", cur[s])) /\ UNCHANGED touched
            /\ OpHold("open", cur[s]).why \in {"open", "op"}
        BY <1>8, <3>1 DEF CloseVerb, OpEnds, Opened, HoldsOf, OpHold
      <4> QED BY <3>1, <4>1, ExitKeepsCached
    <3>2. CASE OpHold("open", cur[s]) \notin holds[s]
      <4>1. UNCHANGED <<cached, refs, holds, touched>>
        BY <1>8, <3>2 DEF CloseVerb, OpEnds, Opened, HoldsOf, OpHold, TypeOK, Hold
      <4> QED BY <4>1 DEF CacheKept
    <3> QED BY <3>1, <3>2
  <2> QED BY <2>1, <2>2
<1>9. ASSUME AcquireRefused(s) PROVE Handover'
  <2>1. ASSUME NEW t \in Sessions PROVE Keeps(t)'
    <3>1. CASE t = s
      BY <1>9, <3>1 DEF TypeOK, Shape, Keeps, AcquireRefused, OpEnds
    <3>2. CASE t # s
      BY <1>9, <3>2 DEF TypeOK, Keeps, AcquireRefused, OpEnds
    <3> QED BY <3>1, <3>2
  <2>2. CacheKept'
    BY <1>9 DEF TypeOK, Shape, Keeps, CacheKept, AcquireRefused, OpEnds
  <2> QED BY <2>1, <2>2
<1>10. ASSUME NEW verb \in {"open", "op"}, Acquire(s, verb) PROVE Handover'
  <2>1. ASSUME NEW t \in Sessions PROVE Keeps(t)'
    <3>1. CASE t = s
      BY <1>10, <3>1 DEF TypeOK, Shape, Keeps, Acquire, Take, HandleReady,
         OpHold
    <3>2. CASE t # s
      BY <1>10, <3>2 DEF TypeOK, Keeps, Acquire, Take, HandleReady,
         OpHold
    <3> QED BY <3>1, <3>2
  <2>2. CacheKept'
    <3> DEFINE k == cur[s]
               h == OpHold(verb, cur[s])
    <3>1. k \in touched[s] /\ k \in Keys /\ owner[k] = s
      BY <1>10, TouchedIsOwned DEF Acquire, Keeps
    <3>2. h.why = verb /\ h.key = k /\ h \in holds'[s]
      BY <1>10 DEF Acquire, Take, OpHold, TypeOK
    <3>3. \A t \in Sessions : holds[t] \subseteq holds'[t]
      BY <1>10 DEF Acquire, Take, TypeOK
    <3>4. k \in cached => refs[k] = 0
      <4>1. SUFFICES ASSUME k \in cached, refs[k] > 0 PROVE FALSE
        BY <3>1 DEF TypeOK
      <4>t. PICK t \in Sessions :
                \E g \in holds[t] : g.why \in {"open", "op"} /\ g.key = k
        BY <4>1 DEF CacheKept
      <4>2. PICK g \in holds[t] : g.why \in {"open", "op"} /\ g.key = k
        BY <4>t
      <4>3. t = s
        BY <3>1, <4>2 DEF Balance
      <4> QED BY <1>10, <4>2, <4>3 DEF Acquire, Opened, HoldsOf, Shape
    <3>5. UNCHANGED <<cached, touched>> /\ \A j \in Keys : j # k => refs'[j] = refs[j]
      BY <1>10 DEF Acquire, TypeOK
    <3>6. k \in cached => refs'[k] = 1
      BY <1>10, <3>1, <3>4 DEF Acquire, TypeOK
    <3>7. ASSUME NEW j \in cached, j # k, refs'[j] > 0
          PROVE  \E t \in Sessions : \E g \in holds'[t] :
                     g.why \in {"open", "op"} /\ g.key = j
      BY <3>3, <3>5, <3>7 DEF CacheKept, TypeOK
    <3> QED BY <3>1, <3>2, <3>5, <3>6, <3>7 DEF CacheKept, TypeOK
  <2> QED BY <2>1, <2>2
<1>11. ASSUME NEW h \in holds[s], Opens(s, h) PROVE Handover'
  <2>0. cur[s] \in touched[s] /\ cached' = cached \cup {cur[s]} /\ UNCHANGED touched
    BY <1>11 DEF Opens, Keeps
  <2>1. ASSUME NEW t \in Sessions PROVE Keeps(t)'
    <3>1. CASE t = s
      BY <1>11, <3>1 DEF TypeOK, Shape, Keeps, Opens, HandleReady, HoldsOf
    <3>2. CASE t # s
      <4>1. UNCHANGED <<pc[t], cur[t], holds[t], touched[t]>>
        BY <1>11, <3>2 DEF TypeOK, Opens, HandleReady
      <4>2. pc[t] \in {"opening", "drop"} => cur[t] # cur[s]
        BY <2>0, <3>2, TouchedIsOwned DEF Keeps
      <4> QED BY <2>0, <4>1, <4>2 DEF Keeps
    <3> QED BY <3>1, <3>2
  <2>2. CacheKept'
    BY <1>11, <2>0 DEF TypeOK, Shape, Keeps, CacheKept, Opens, HandleReady, HoldsOf
  <2> QED BY <2>1, <2>2
<1>12. ASSUME NEW h \in holds[s], NEW hung \in BOOLEAN, OpenFails(s, h, hung) PROVE Handover'
  <2>1. ASSUME NEW t \in Sessions PROVE Keeps(t)'
    <3>1. CASE t = s
      BY <1>12, <3>1 DEF TypeOK, Shape, Keeps, OpenFails, OpEnds, GiveBack,
         HoldsOf
    <3>2. CASE t # s
      BY <1>12, <3>2 DEF TypeOK, Keeps, OpenFails, OpEnds, GiveBack, HoldsOf
    <3> QED BY <3>1, <3>2
  <2>2. CacheKept'
    BY <1>12 DEF TypeOK, Shape, Keeps, CacheKept, OpenFails, OpEnds, GiveBack,
       HoldsOf
  <2> QED BY <2>1, <2>2
<1>13. ASSUME UseEnds(s) PROVE Handover'
  <2>1. ASSUME NEW t \in Sessions PROVE Keeps(t)'
    <3>1. CASE t = s
      BY <1>13, <3>1 DEF TypeOK, Shape, Keeps, UseEnds, Exit, OpEnds,
         GiveBack, OpHold
    <3>2. CASE t # s
      BY <1>13, <3>2 DEF TypeOK, Keeps, UseEnds, Exit, OpEnds,
         GiveBack, OpHold
    <3> QED BY <3>1, <3>2
  <2>2. CacheKept'
    <3>1. CASE OpHold("op", cur[s]) \in holds[s]
      <4>1. /\ Exit(s, OpHold("op", cur[s])) /\ UNCHANGED touched
            /\ OpHold("op", cur[s]).why \in {"open", "op"}
        BY <1>13, <3>1 DEF UseEnds, OpEnds, Opened, HoldsOf, OpHold
      <4> QED BY <3>1, <4>1, ExitKeepsCached
    <3>2. CASE OpHold("op", cur[s]) \notin holds[s]
      <4>1. UNCHANGED <<cached, refs, holds, touched>>
        BY <1>13, <3>2 DEF UseEnds, OpEnds, Opened, HoldsOf, OpHold, TypeOK, Hold
      <4> QED BY <4>1 DEF CacheKept
    <3> QED BY <3>1, <3>2
  <2> QED BY <2>1, <2>2
<1> QED BY <1>1, <1>2, <1>3, <1>4, <1>5, <1>6, <1>7, <1>8, <1>9, <1>10, <1>11, <1>12, <1>13 DEF Running

\* The finally block.
LEMMA FinishingKeepsHandover ==
  ASSUME IInv, IInv', Handover, NEW s \in Sessions, Finishing(s)
  PROVE  Handover'
<1> USE DEF IInv, Handover, Busy, Operating, At, Goto, locks, registry, session
<1>1. ASSUME RunEnds(s) PROVE Handover'
  <2>1. ASSUME NEW t \in Sessions PROVE Keeps(t)'
    <3>1. CASE t = s
      BY <1>1, <3>1 DEF TypeOK, Shape, Keeps, RunEnds
    <3>2. CASE t # s
      BY <1>1, <3>2 DEF TypeOK, Keeps, RunEnds
    <3> QED BY <3>1, <3>2
  <2>2. CacheKept'
    BY <1>1 DEF TypeOK, Shape, Keeps, CacheKept, RunEnds
  <2> QED BY <2>1, <2>2
<1>2. ASSUME NEW h \in holds[s], ExitOpened(s, h) PROVE Handover'
  <2>1. ASSUME NEW t \in Sessions PROVE Keeps(t)'
    <3>1. CASE t = s
      <4>1. /\ UNCHANGED <<pc[s], touched[s], cur[s], cached>> /\ holds'[s] = holds[s] \ {h}
            /\ h.why = "open" /\ pc[s] = "finally"
        BY <1>2 DEF TypeOK, ExitOpened, Exit, GiveBack, HoldsOf
      <4> QED BY <3>1, <4>1 DEF Keeps
    <3>2. CASE t # s
      BY <1>2, <3>2 DEF TypeOK, Keeps, ExitOpened, Exit, GiveBack, HoldsOf
    <3> QED BY <3>1, <3>2
  <2>2. CacheKept'
    BY <1>2 DEF TypeOK, Shape, Keeps, CacheKept, ExitOpened, Exit, GiveBack,
       HoldsOf
  <2> QED BY <2>1, <2>2
<1>3. ASSUME NEW k \in touched[s], CloseTouched(s, k) PROVE Handover'
  <2>0. cached' \subseteq cached /\ UNCHANGED touched
    BY <1>3 DEF CloseTouched, ReleaseNow
  <2>1. ASSUME NEW t \in Sessions PROVE Keeps(t)'
    <3>1. CASE t = s
      <4>1. k \notin cached'
        <5>1. SUFFICES ASSUME k \in cached, refs[k] > 0 PROVE FALSE
          BY <1>3 DEF CloseTouched, ReleaseNow
        <5>u. PICK u \in Sessions :
                 \E g \in holds[u] : g.why \in {"open", "op"} /\ g.key = k
          BY <5>1 DEF CacheKept
        <5>2. PICK g \in holds[u] : g.why \in {"open", "op"} /\ g.key = k
          BY <5>u
        <5>3. owner[k] = s /\ u = s
          BY <5>2, TouchedIsOwned DEF Balance
        <5> QED BY <1>3, <5>2, <5>3 DEF CloseTouched, Opened, HoldsOf, Shape
      <4>2. pc'[s] = "drop" /\ cur'[s] = k /\ k \in touched[s]
        BY <1>3 DEF CloseTouched, TypeOK
      <4> QED BY <1>3, <2>0, <3>1, <4>1, <4>2 DEF CloseTouched, Keeps
    <3>2. CASE t # s
      BY <1>3, <2>0, <3>2 DEF TypeOK, Keeps, CloseTouched
    <3> QED BY <3>1, <3>2
  <2>2. CacheKept'
    BY <1>3 DEF TypeOK, Shape, Keeps, CacheKept, CloseTouched, ReleaseNow
  <2> QED BY <2>1, <2>2
<1>4. ASSUME NEW h \in holds[s], DropTouched(s, h) PROVE Handover'
  <2>1. ASSUME NEW t \in Sessions PROVE Keeps(t)'
    <3>1. CASE t = s
      BY <1>4, <3>1 DEF TypeOK, Shape, Keeps, DropTouched, GiveBack, HoldsOf
    <3>2. CASE t # s
      BY <1>4, <3>2 DEF TypeOK, Keeps, DropTouched, GiveBack, HoldsOf
    <3> QED BY <3>1, <3>2
  <2>2. CacheKept'
    BY <1>4 DEF TypeOK, Shape, Keeps, CacheKept, DropTouched, GiveBack, HoldsOf
  <2> QED BY <2>1, <2>2
<1>5. ASSUME Unpin(s) PROVE Handover'
  <2>1. ASSUME NEW t \in Sessions PROVE Keeps(t)'
    <3>1. CASE t = s
      BY <1>5, <3>1 DEF TypeOK, Shape, Keeps, Unpin
    <3>2. CASE t # s
      BY <1>5, <3>2 DEF TypeOK, Keeps, Unpin
    <3> QED BY <3>1, <3>2
  <2>2. CacheKept'
    BY <1>5 DEF TypeOK, Shape, Keeps, CacheKept, Unpin
  <2> QED BY <2>1, <2>2
<1>6. ASSUME NEW h \in holds[s], ReleaseRest(s, h) PROVE Handover'
  <2>1. ASSUME NEW t \in Sessions PROVE Keeps(t)'
    <3>1. CASE t = s
      BY <1>6, <3>1 DEF TypeOK, Shape, Keeps, ReleaseRest, GiveBack, Unreleased,
         HoldsOf
    <3>2. CASE t # s
      BY <1>6, <3>2 DEF TypeOK, Keeps, ReleaseRest, GiveBack, Unreleased,
         HoldsOf
    <3> QED BY <3>1, <3>2
  <2>2. CacheKept'
    BY <1>6 DEF TypeOK, Shape, Keeps, CacheKept, ReleaseRest, GiveBack,
       Unreleased, HoldsOf
  <2> QED BY <2>1, <2>2
<1>7. ASSUME SessionEnded(s) PROVE Handover'
  <2>1. ASSUME NEW t \in Sessions PROVE Keeps(t)'
    <3>1. CASE t = s
      <4>1. UNCHANGED touched /\ pc[s] = "rest" /\ pc'[s] = "done"
        BY <1>7 DEF TypeOK, SessionEnded, Gone
      <4>2. touched[s] = {}
        BY <4>1 DEF Keeps
      <4> QED BY <3>1, <4>1, <4>2 DEF Keeps
    <3>2. CASE t # s
      BY <1>7, <3>2 DEF TypeOK, Keeps, SessionEnded, Gone
    <3> QED BY <3>1, <3>2
  <2>2. CacheKept'
    BY <1>7 DEF TypeOK, Shape, Keeps, CacheKept, SessionEnded, Gone
  <2> QED BY <2>1, <2>2
<1> QED BY <1>1, <1>2, <1>3, <1>4, <1>5, <1>6, <1>7 DEF Finishing

-----------------------------------------------------------------------------
\* The initial state.
LEMMA InitHandover == Init => Handover
  BY DEF Init, Handover, Keeps, CacheKept, Busy, Operating

\* Every step of the system keeps Handover.
LEMMA NextKeepsHandover == IInv /\ IInv' /\ Handover /\ [Next]_vars => Handover'
<1> SUFFICES ASSUME IInv, IInv', Handover, [Next]_vars PROVE Handover'
  OBVIOUS
<1>1. CASE UNCHANGED vars
  BY <1>1 DEF Handover, Keeps, CacheKept, vars, registry, locks, session
<1>2. CASE AllDone
  BY <1>1, <1>2 DEF AllDone
<1>3. CASE Bench
  BY <1>3, BenchKeepsHandover
<1>4. ASSUME NEW s \in Sessions,
             (\E R \in SUBSET Refs : Start(s, R)) \/ Cancel(s) \/ Watchdog(s)
      PROVE  Handover'
  BY <1>4, OutsideKeepsHandover
<1>5. ASSUME NEW s \in Sessions, SessionStep(s) PROVE Handover'
  BY <1>5, StartingKeepsHandover, RunningKeepsHandover, FinishingKeepsHandover
     DEF SessionStep
<1> QED BY <1>1, <1>2, <1>3, <1>4, <1>5 DEF Next, Bench

\* CleanHandover holds in every reachable state, for every bench and every plan:
\* a lock only drops after its device's close, so no session starts on a handle
\* another one left (session.py 674-704, registry.py 503-522).
THEOREM CleanHandovers == Spec => []CleanHandover
<1>1. IInv /\ Handover => CleanHandover
  <2> SUFFICES ASSUME IInv, Handover, NEW k \in cached, k \in Keys
               PROVE  owner[k] # NoSession
    BY DEF CleanHandover
  <2>1. PICK t \in Sessions : k \in touched[t]
    BY DEF Handover, CacheKept
  <2> QED BY <2>1, TouchedIsOwned, DeviceAssumption DEF Handover
<1> QED BY <1>1, InitInv, NextKeepsInv, InitHandover, NextKeepsHandover, PTL DEF Spec

-----------------------------------------------------------------------------
(* A spec is pinned as many times as there are sessions that pinned it, so no *)
(* rescan takes it away from a session at work, and no pin outlives them all. *)

\* The sessions whose finally block has yet to unpin k.
Pinners(k) == {t \in Sessions : k \in pinned[t] /\ pc[t] # "rest"}

PinsExact ==
    \A k \in Keys : IsFiniteSet(Pinners(k)) /\ pins[k] = Cardinality(Pinners(k))

\* What a session's place in the code says about its pins.  A key it pinned but
\* could not lock is the end of its ops, so that no key is pinned twice.
PinShape(t) ==
    /\ pc[t] \in {"idle", "resolve", "done"} => pinned[t] = {}
    /\ pc[t] = "lock" => pinned[t] = EagerKeys(t)
    /\ pc[t] \in Operating => locked[t] \subseteq pinned[t]
    /\ pc[t] \in {"relook", "acquire", "opening", "use"} => pinned[t] = locked[t]
    /\ pc[t] = "run" /\ ~canceled[t] => pinned[t] = locked[t]
    /\ pc[t] = "wait" => pinned[t] = locked[t] \cup {cur[t]}
    /\ touched[t] \subseteq pinned[t]
    /\ pc[t] = "opening" => cur[t] \in specs

PinInv == PinsExact /\ (\A t \in Sessions : PinShape(t)) /\ cached \subseteq specs

-----------------------------------------------------------------------------
\* A pin of a session that is not over counts.
LEMMA PinCounts ==
  ASSUME IInv, PinsExact, NEW t \in Sessions, NEW k \in pinned[t], pc[t] # "rest"
  PROVE  pins[k] > 0 /\ \A scope : k \notin Evicted(scope)
<1>1. k \in Keys /\ pins[k] \in Nat
  BY DEF IInv, TypeOK
<1>2. t \in Pinners(k) /\ IsFiniteSet(Pinners(k)) /\ pins[k] = Cardinality(Pinners(k))
  BY <1>1 DEF PinsExact, Pinners
<1>3. pins[k] # 0
  BY <1>2, FS_EmptySet
<1> QED BY <1>1, <1>3 DEF Evicted

\* A step that neither pins nor unpins.
LEMMA SamePins ==
  ASSUME PinsExact, UNCHANGED <<pins, pinned>>,
         \A t \in Sessions : pinned[t] # {} => (pc'[t] = "rest" <=> pc[t] = "rest")
  PROVE  PinsExact'
<1>1. \A k \in Keys : Pinners(k)' = Pinners(k)
  BY DEF Pinners
<1> QED BY <1>1 DEF PinsExact

\* A session pins keys it has not pinned yet.
LEMMA MorePins ==
  ASSUME IInv, PinsExact, NEW s \in Sessions, NEW S \in SUBSET Keys, PinMore(S),
         pc[s] # "rest", pinned[s] \cap S = {},
         pinned' = [pinned EXCEPT ![s] = pinned[s] \cup S],
         pc' \in [Sessions -> Labels], pc'[s] # "rest",
         \A t \in Sessions \ {s} : pc'[t] = pc[t]
  PROVE  PinsExact'
<1>1. SUFFICES ASSUME NEW k \in Keys
               PROVE  IsFiniteSet(Pinners(k)') /\ pins'[k] = Cardinality(Pinners(k)')
  BY DEF PinsExact
<1>2. IsFiniteSet(Pinners(k)) /\ pins[k] = Cardinality(Pinners(k)) /\ pins[k] \in Nat
  BY DEF PinsExact, IInv, TypeOK
<1>3. pinned'[s] = pinned[s] \cup S /\ \A t \in Sessions \ {s} : pinned'[t] = pinned[t]
  BY DEF IInv, TypeOK
<1>4. CASE k \in S
  <2>1. Pinners(k)' = Pinners(k) \cup {s} /\ s \notin Pinners(k)
    BY <1>3, <1>4 DEF Pinners
  <2>2. pins'[k] = pins[k] + 1
    BY <1>4 DEF PinMore
  <2> QED BY <1>2, <2>1, <2>2, FS_AddElement
<1>5. CASE k \notin S
  <2>1. Pinners(k)' = Pinners(k)
    BY <1>3, <1>5 DEF Pinners
  <2>2. pins'[k] = pins[k]
    BY <1>5 DEF PinMore
  <2> QED BY <1>2, <2>1, <2>2
<1> QED BY <1>4, <1>5

\* A session gives back all its pins.
LEMMA LessPins ==
  ASSUME IInv, PinsExact, NEW s \in Sessions, PinLess(pinned[s]), pc[s] # "rest",
         pinned'[s] = {} \/ pc'[s] = "rest",
         \A t \in Sessions \ {s} : pc'[t] = pc[t] /\ pinned'[t] = pinned[t]
  PROVE  PinsExact'
<1>1. SUFFICES ASSUME NEW k \in Keys
               PROVE  IsFiniteSet(Pinners(k)') /\ pins'[k] = Cardinality(Pinners(k)')
  BY DEF PinsExact
<1>2. IsFiniteSet(Pinners(k)) /\ pins[k] = Cardinality(Pinners(k)) /\ pins[k] \in Nat
  BY DEF PinsExact, IInv, TypeOK
<1>3. Pinners(k)' = Pinners(k) \ {s}
  BY DEF Pinners
<1>4. CASE k \in pinned[s]
  <2>1. s \in Pinners(k) /\ pins[k] > 0
    BY <1>4, PinCounts DEF Pinners
  <2>2. pins'[k] = pins[k] - 1
    BY <1>4, <2>1 DEF PinLess
  <2> QED BY <1>2, <1>3, <2>1, <2>2, FS_RemoveElement
<1>5. CASE k \notin pinned[s]
  <2>1. Pinners(k)' = Pinners(k)
    BY <1>3, <1>5 DEF Pinners
  <2>2. pins'[k] = pins[k]
    BY <1>5 DEF PinLess
  <2> QED BY <1>2, <2>1, <2>2
<1> QED BY <1>4, <1>5

-----------------------------------------------------------------------------
\* The bench.
LEMMA BenchKeepsPins ==
  ASSUME IInv, IInv', Handover, PinInv, Bench
  PROVE  PinInv'
<1> USE DEF IInv, Handover, PinInv, Busy, Operating, At, Goto, locks, registry,
            session
<1>1. ASSUME NEW k \in Keys, Plug(k) PROVE PinInv'
  <2>1. PinsExact'
    BY <1>1, SamePins DEF TypeOK, PinShape, Plug
  <2>2. \A t \in Sessions : PinShape(t)'
    BY <1>1 DEF PinShape, EagerKeys, TypeOK, Shape, Plug
  <2>3. (cached \subseteq specs)'
    BY <1>1 DEF PinShape, Plug
  <2> QED BY <2>1, <2>2, <2>3
<1>2. ASSUME Refresh PROVE PinInv'
  <2>1. PinsExact'
    BY <1>2, SamePins DEF TypeOK, PinShape, Refresh, Rescan
  <2>2. \A t \in Sessions : PinShape(t)'
    BY <1>2, PinCounts DEF PinShape, EagerKeys, TypeOK, Shape, Refresh, Rescan
  <2>3. (cached \subseteq specs)'
    BY <1>2 DEF PinShape, Refresh, Rescan
  <2> QED BY <2>1, <2>2, <2>3
<1>3. ASSUME NEW k \in MarkerKeys, ReleaseMarker(k) PROVE PinInv'
  <2>1. PinsExact'
    BY <1>3, SamePins DEF TypeOK, PinShape, ReleaseMarker, ReleaseNow
  <2>2. \A t \in Sessions : PinShape(t)'
    BY <1>3 DEF PinShape, EagerKeys, TypeOK, Shape, ReleaseMarker, ReleaseNow
  <2>3. (cached \subseteq specs)'
    BY <1>3 DEF PinShape, ReleaseMarker, ReleaseNow
  <2> QED BY <2>1, <2>2, <2>3
<1> QED BY <1>1, <1>2, <1>3 DEF Bench

\* A job starts, or is told to stop.
LEMMA OutsideKeepsPins ==
  ASSUME IInv, IInv', Handover, PinInv, NEW s \in Sessions,
         (\E R \in SUBSET Refs : Start(s, R)) \/ Cancel(s) \/ Watchdog(s)
  PROVE  PinInv'
<1> USE DEF IInv, Handover, PinInv, Busy, Operating, At, Goto, locks, registry,
            session
<1>1. ASSUME NEW R \in SUBSET Refs, Start(s, R) PROVE PinInv'
  <2>1. PinsExact'
    BY <1>1, SamePins DEF TypeOK, PinShape, Start, Rescan
  <2>2. ASSUME NEW t \in Sessions PROVE PinShape(t)'
    <3>1. CASE t = s
      <4>1. pc[s] = "idle" /\ pc'[s] = "resolve" /\ UNCHANGED <<pinned, touched>>
        BY <1>1 DEF TypeOK, Start
      <4>2. pinned[s] = {} /\ touched[s] = {}
        BY <4>1 DEF PinShape
      <4> QED BY <3>1, <4>1, <4>2 DEF PinShape
    <3>2. CASE t # s
      <4>1. /\ pc'[t] = pc[t] /\ UNCHANGED <<pinned, eager, locked, touched, canceled, cur>>
            /\ \E scope : specs' = (specs \ Evicted(scope)) \cup (attached \cap scope)
        BY <1>1, <3>2 DEF TypeOK, Start, Rescan
      <4>2. pc[t] = "opening" => cur[t] \in pinned[t] /\ cur[t] \in specs
        BY DEF PinShape, Shape
      <4>3. pc[t] = "opening" => cur'[t] \in specs'
        BY <4>1, <4>2, PinCounts
      <4> QED BY <4>1, <4>3 DEF PinShape, EagerKeys
    <3> QED BY <3>1, <3>2
  <2>3. (cached \subseteq specs)'
    BY <1>1 DEF PinShape, Start, Rescan
  <2> QED BY <2>1, <2>2, <2>3
<1>2. ASSUME Cancel(s) PROVE PinInv'
  <2>1. PinsExact'
    BY <1>2, SamePins DEF TypeOK, PinShape, Cancel, Canceling
  <2>2. ASSUME NEW t \in Sessions PROVE PinShape(t)'
    <3>1. CASE t = s
      BY <1>2, <3>1 DEF TypeOK, Shape, PinShape, EagerKeys, Keeps, Cancel,
         Canceling
    <3>2. CASE t # s
      BY <1>2, <3>2 DEF TypeOK, Shape, PinShape, EagerKeys, Cancel, Canceling
    <3> QED BY <3>1, <3>2
  <2>3. (cached \subseteq specs)'
    BY <1>2 DEF PinShape, Cancel, Canceling
  <2> QED BY <2>1, <2>2, <2>3
<1>3. ASSUME Watchdog(s) PROVE PinInv'
  <2>1. PinsExact'
    BY <1>3, SamePins DEF TypeOK, PinShape, Watchdog, Canceling
  <2>2. ASSUME NEW t \in Sessions PROVE PinShape(t)'
    <3>1. CASE t = s
      BY <1>3, <3>1 DEF TypeOK, Shape, PinShape, EagerKeys, Keeps, Watchdog,
         Canceling
    <3>2. CASE t # s
      BY <1>3, <3>2 DEF TypeOK, Shape, PinShape, EagerKeys, Watchdog, Canceling
    <3> QED BY <3>1, <3>2
  <2>3. (cached \subseteq specs)'
    BY <1>3 DEF PinShape, Watchdog, Canceling
  <2> QED BY <2>1, <2>2, <2>3
<1> QED BY <1>1, <1>2, <1>3

\* run_all before the first op.
LEMMA StartingKeepsPins ==
  ASSUME IInv, IInv', Handover, PinInv, NEW s \in Sessions, Starting(s)
  PROVE  PinInv'
<1> USE DEF IInv, Handover, PinInv, Busy, Operating, At, Goto, locks, registry,
            session
<1>1. ASSUME NEW r \in todo[s], ResolveEager(s, r) PROVE PinInv'
  <2>1. PinsExact'
    BY <1>1, SamePins DEF TypeOK, PinShape, ResolveEager
  <2>2. ASSUME NEW t \in Sessions PROVE PinShape(t)'
    <3>1. CASE t = s
      BY <1>1, <3>1 DEF TypeOK, Shape, PinShape, EagerKeys, Keeps, ResolveEager
    <3>2. CASE t # s
      BY <1>1, <3>2 DEF TypeOK, Shape, PinShape, EagerKeys, ResolveEager
    <3> QED BY <3>1, <3>2
  <2>3. (cached \subseteq specs)'
    BY <1>1 DEF PinShape, ResolveEager
  <2> QED BY <2>1, <2>2, <2>3
<1>2. ASSUME PinEager(s) PROVE PinInv'
  <2>1. PinsExact'
    <3>1. EagerKeys(s) \in SUBSET Keys
      BY HoldKey DEF EagerKeys, TypeOK
    <3>2. /\ PinMore(EagerKeys(s)) /\ pc[s] # "rest" /\ pinned[s] = {}
          /\ pinned' = [pinned EXCEPT ![s] = pinned[s] \cup EagerKeys(s)]
      <4>1. /\ PinMore(EagerKeys(s)) /\ pc[s] = "resolve"
            /\ pinned' = [pinned EXCEPT ![s] = EagerKeys(s)]
        BY <1>2 DEF PinEager
      <4>2. pinned[s] = {}
        BY <4>1 DEF PinShape
      <4>3. pinned[s] \cup EagerKeys(s) = EagerKeys(s)
        BY <4>2
      <4> QED BY <4>1, <4>2, <4>3
    <3>3. /\ pc' \in [Sessions -> Labels] /\ pc'[s] # "rest"
          /\ \A t \in Sessions \ {s} : pc'[t] = pc[t]
      BY <1>2 DEF PinEager, TypeOK, Labels
    <3> QED BY <3>1, <3>2, <3>3, MorePins
  <2>2. ASSUME NEW t \in Sessions PROVE PinShape(t)'
    <3>1. CASE t = s
      BY <1>2, <3>1 DEF TypeOK, Shape, PinShape, EagerKeys, Keeps, PinEager
    <3>2. CASE t # s
      BY <1>2, <3>2 DEF TypeOK, Shape, PinShape, EagerKeys, PinEager
    <3> QED BY <3>1, <3>2
  <2>3. (cached \subseteq specs)'
    BY <1>2 DEF PinShape, PinEager
  <2> QED BY <2>1, <2>2, <2>3
<1>3. ASSUME NEW h \in eager[s], LockEager(s, h) PROVE PinInv'
  <2>1. PinsExact'
    BY <1>3, SamePins DEF TypeOK, PinShape, LockEager, Take
  <2>2. ASSUME NEW t \in Sessions PROVE PinShape(t)'
    <3>1. CASE t = s
      BY <1>3, <3>1 DEF TypeOK, Shape, PinShape, EagerKeys, Keeps, LockEager,
         Take
    <3>2. CASE t # s
      BY <1>3, <3>2 DEF TypeOK, Shape, PinShape, EagerKeys, LockEager, Take
    <3> QED BY <3>1, <3>2
  <2>3. (cached \subseteq specs)'
    BY <1>3 DEF PinShape, LockEager, Take
  <2> QED BY <2>1, <2>2, <2>3
<1>4. ASSUME LockWaitCanceled(s) PROVE PinInv'
  <2>1. PinsExact'
    BY <1>4, SamePins DEF TypeOK, PinShape, LockWaitCanceled
  <2>2. ASSUME NEW t \in Sessions PROVE PinShape(t)'
    <3>1. CASE t = s
      BY <1>4, <3>1 DEF TypeOK, Shape, PinShape, EagerKeys, Keeps,
         LockWaitCanceled
    <3>2. CASE t # s
      BY <1>4, <3>2 DEF TypeOK, Shape, PinShape, EagerKeys, LockWaitCanceled
    <3> QED BY <3>1, <3>2
  <2>3. (cached \subseteq specs)'
    BY <1>4 DEF PinShape, LockWaitCanceled
  <2> QED BY <2>1, <2>2, <2>3
<1>5. ASSUME NEW h \in holds[s], BackOut(s, h) PROVE PinInv'
  <2>1. PinsExact'
    BY <1>5, SamePins DEF TypeOK, PinShape, BackOut, GiveBack
  <2>2. ASSUME NEW t \in Sessions PROVE PinShape(t)'
    <3>1. CASE t = s
      BY <1>5, <3>1 DEF TypeOK, Shape, PinShape, EagerKeys, Keeps, BackOut,
         GiveBack
    <3>2. CASE t # s
      BY <1>5, <3>2 DEF TypeOK, Shape, PinShape, EagerKeys, BackOut, GiveBack
    <3> QED BY <3>1, <3>2
  <2>3. (cached \subseteq specs)'
    BY <1>5 DEF PinShape, BackOut, GiveBack
  <2> QED BY <2>1, <2>2, <2>3
<1>6. ASSUME BackOutUnpin(s) PROVE PinInv'
  <2>1. PinsExact'
    <3>1. /\ PinLess(pinned[s]) /\ pc[s] # "rest"
          /\ pinned'[s] = {} \/ pc'[s] = "rest"
          /\ \A t \in Sessions \ {s} : pc'[t] = pc[t] /\ pinned'[t] = pinned[t]
      BY <1>6 DEF BackOutUnpin, Gone, TypeOK
    <3> QED BY <3>1, LessPins
  <2>2. ASSUME NEW t \in Sessions PROVE PinShape(t)'
    <3>1. CASE t = s
      BY <1>6, <3>1 DEF TypeOK, Shape, PinShape, EagerKeys, Keeps, BackOutUnpin, Gone
    <3>2. CASE t # s
      BY <1>6, <3>2 DEF TypeOK, Shape, PinShape, EagerKeys, BackOutUnpin, Gone
    <3> QED BY <3>1, <3>2
  <2>3. (cached \subseteq specs)'
    BY <1>6 DEF PinShape, BackOutUnpin, Gone
  <2> QED BY <2>1, <2>2, <2>3
<1>7. ASSUME LocksHeld(s) PROVE PinInv'
  <2>1. PinsExact'
    BY <1>7, SamePins DEF TypeOK, PinShape, LocksHeld
  <2>2. ASSUME NEW t \in Sessions PROVE PinShape(t)'
    <3>1. CASE t = s
      BY <1>7, <3>1 DEF TypeOK, Shape, PinShape, EagerKeys, Keeps, LocksHeld
    <3>2. CASE t # s
      BY <1>7, <3>2 DEF TypeOK, Shape, PinShape, EagerKeys, LocksHeld
    <3> QED BY <3>1, <3>2
  <2>3. (cached \subseteq specs)'
    BY <1>7 DEF PinShape, LocksHeld
  <2> QED BY <2>1, <2>2, <2>3
<1> QED BY <1>1, <1>2, <1>3, <1>4, <1>5, <1>6, <1>7 DEF Starting

\* The ops of the plan.
LEMMA RunningKeepsPins ==
  ASSUME IInv, IInv', Handover, PinInv, NEW s \in Sessions, Running(s)
  PROVE  PinInv'
<1> USE DEF IInv, Handover, PinInv, Busy, Operating, At, Goto, locks, registry,
            session
<1>1. ASSUME NEW r \in needed[s], BeginOp(s, r) PROVE PinInv'
  <2>k. PICK k \in Resolved(r) : GotKey(s, k)
    BY <1>1 DEF BeginOp
  <2>r. k \in Keys /\ pinned[s] = locked[s] /\ pc[s] # "rest"
    BY <1>1, ResolvedKey DEF BeginOp, TypeOK, Shape, PinShape
  <2>1. PinsExact'
    <3>1. CASE k \in locked[s]
      BY <1>1, <2>k, <2>r, <3>1, SamePins DEF GotKey, BeginOp, TypeOK
    <3>2. CASE k \notin locked[s]
      <4>1. /\ PinMore({k}) /\ pinned' = [pinned EXCEPT ![s] = pinned[s] \cup {k}]
            /\ pc' \in [Sessions -> Labels] /\ pc'[s] # "rest"
            /\ \A t \in Sessions \ {s} : pc'[t] = pc[t]
        BY <2>k, <3>2 DEF GotKey, TypeOK, Labels
      <4> QED BY <2>r, <3>2, <4>1, MorePins
    <3> QED BY <3>1, <3>2
  <2>2. ASSUME NEW t \in Sessions PROVE PinShape(t)'
    <3>1. CASE t = s
      BY <1>1, <3>1 DEF TypeOK, Shape, PinShape, EagerKeys, Keeps, BeginOp,
         GotKey
    <3>2. CASE t # s
      BY <1>1, <3>2 DEF TypeOK, Shape, PinShape, EagerKeys, BeginOp,
         GotKey
    <3> QED BY <3>1, <3>2
  <2>3. (cached \subseteq specs)'
    BY <1>1 DEF PinShape, BeginOp, GotKey
  <2> QED BY <2>1, <2>2, <2>3
<1>2. ASSUME NEW r \in needed[s], BeginOpReprobe(s, r) PROVE PinInv'
  <2>1. PinsExact'
    BY <1>2, SamePins DEF TypeOK, PinShape, BeginOpReprobe, Rescan
  <2>2. ASSUME NEW t \in Sessions PROVE PinShape(t)'
    <3>0. pc[t] = "opening" => cur[t] \in specs'
      BY <1>2, PinCounts DEF BeginOpReprobe, Rescan, PinShape, Shape
    <3>1. CASE t = s
      BY <1>2, <3>0, <3>1 DEF TypeOK, PinShape, BeginOpReprobe, Rescan
    <3>2. CASE t # s
      BY <1>2, <3>0, <3>2 DEF TypeOK, PinShape, EagerKeys, BeginOpReprobe, Rescan
    <3> QED BY <3>1, <3>2
  <2>3. (cached \subseteq specs)'
    BY <1>2 DEF PinShape, BeginOpReprobe, Rescan
  <2> QED BY <2>1, <2>2, <2>3
<1>3. ASSUME Relook(s) PROVE PinInv'
  <2>k. PICK k \in Resolved(cur[s]) : GotKey(s, k)
    BY <1>3 DEF Relook
  <2>r. k \in Keys /\ pinned[s] = locked[s] /\ pc[s] # "rest"
    BY <1>3, ResolvedKey DEF Relook, TypeOK, Shape, PinShape
  <2>1. PinsExact'
    <3>1. CASE k \in locked[s]
      BY <1>3, <2>k, <2>r, <3>1, SamePins DEF GotKey, Relook, TypeOK
    <3>2. CASE k \notin locked[s]
      <4>1. /\ PinMore({k}) /\ pinned' = [pinned EXCEPT ![s] = pinned[s] \cup {k}]
            /\ pc' \in [Sessions -> Labels] /\ pc'[s] # "rest"
            /\ \A t \in Sessions \ {s} : pc'[t] = pc[t]
        BY <2>k, <3>2 DEF GotKey, TypeOK, Labels
      <4> QED BY <2>r, <3>2, <4>1, MorePins
    <3> QED BY <3>1, <3>2
  <2>2. ASSUME NEW t \in Sessions PROVE PinShape(t)'
    <3>1. CASE t = s
      BY <1>3, <3>1 DEF TypeOK, Shape, PinShape, EagerKeys, Keeps, Relook,
         GotKey
    <3>2. CASE t # s
      BY <1>3, <3>2 DEF TypeOK, Shape, PinShape, EagerKeys, Relook,
         GotKey
    <3> QED BY <3>1, <3>2
  <2>3. (cached \subseteq specs)'
    BY <1>3 DEF PinShape, Relook, GotKey
  <2> QED BY <2>1, <2>2, <2>3
<1>4. ASSUME OpMisses(s) PROVE PinInv'
  <2>1. PinsExact'
    BY <1>4, SamePins DEF TypeOK, PinShape, OpMisses, OpEnds
  <2>2. ASSUME NEW t \in Sessions PROVE PinShape(t)'
    <3>1. CASE t = s
      BY <1>4, <3>1 DEF TypeOK, Shape, PinShape, EagerKeys, Keeps, OpMisses,
         OpEnds
    <3>2. CASE t # s
      BY <1>4, <3>2 DEF TypeOK, Shape, PinShape, EagerKeys, OpMisses, OpEnds
    <3> QED BY <3>1, <3>2
  <2>3. (cached \subseteq specs)'
    BY <1>4 DEF PinShape, OpMisses, OpEnds
  <2> QED BY <2>1, <2>2, <2>3
<1>5. ASSUME LockLate(s) PROVE PinInv'
  <2>1. PinsExact'
    BY <1>5, SamePins DEF TypeOK, PinShape, LockLate, Take, OpHold
  <2>2. ASSUME NEW t \in Sessions PROVE PinShape(t)'
    <3>1. CASE t = s
      BY <1>5, <3>1 DEF TypeOK, Shape, PinShape, EagerKeys, Keeps, LockLate,
         Take, OpHold
    <3>2. CASE t # s
      BY <1>5, <3>2 DEF TypeOK, Shape, PinShape, EagerKeys, LockLate, Take,
         OpHold
    <3> QED BY <3>1, <3>2
  <2>3. (cached \subseteq specs)'
    BY <1>5 DEF PinShape, LockLate, Take, OpHold
  <2> QED BY <2>1, <2>2, <2>3
<1>6. ASSUME LateWaitCanceled(s) PROVE PinInv'
  <2>1. PinsExact'
    BY <1>6, SamePins DEF TypeOK, PinShape, LateWaitCanceled, OpEnds
  <2>2. ASSUME NEW t \in Sessions PROVE PinShape(t)'
    <3>1. CASE t = s
      BY <1>6, <3>1 DEF TypeOK, Shape, PinShape, EagerKeys, Keeps,
         LateWaitCanceled, OpEnds
    <3>2. CASE t # s
      BY <1>6, <3>2 DEF TypeOK, Shape, PinShape, EagerKeys, LateWaitCanceled,
         OpEnds
    <3> QED BY <3>1, <3>2
  <2>3. (cached \subseteq specs)'
    BY <1>6 DEF PinShape, LateWaitCanceled, OpEnds
  <2> QED BY <2>1, <2>2, <2>3
<1>7. ASSUME NEW verb \in {"open", "op"}, OpOnOpenKey(s, verb) PROVE PinInv'
  <2>1. PinsExact'
    BY <1>7, SamePins DEF TypeOK, PinShape, OpOnOpenKey, OpEnds
  <2>2. ASSUME NEW t \in Sessions PROVE PinShape(t)'
    <3>1. CASE t = s
      BY <1>7, <3>1 DEF TypeOK, Shape, PinShape, EagerKeys, Keeps, OpOnOpenKey,
         OpEnds
    <3>2. CASE t # s
      BY <1>7, <3>2 DEF TypeOK, Shape, PinShape, EagerKeys, OpOnOpenKey, OpEnds
    <3> QED BY <3>1, <3>2
  <2>3. (cached \subseteq specs)'
    BY <1>7 DEF PinShape, OpOnOpenKey, OpEnds
  <2> QED BY <2>1, <2>2, <2>3
<1>8. ASSUME CloseVerb(s) PROVE PinInv'
  <2>1. PinsExact'
    BY <1>8, SamePins DEF TypeOK, PinShape, CloseVerb, Exit, OpEnds, GiveBack,
       OpHold
  <2>2. ASSUME NEW t \in Sessions PROVE PinShape(t)'
    <3>1. CASE t = s
      BY <1>8, <3>1 DEF TypeOK, Shape, PinShape, EagerKeys, Keeps, CloseVerb,
         Exit, OpEnds, GiveBack, OpHold
    <3>2. CASE t # s
      BY <1>8, <3>2 DEF TypeOK, Shape, PinShape, EagerKeys, CloseVerb, Exit,
         OpEnds, GiveBack, OpHold
    <3> QED BY <3>1, <3>2
  <2>3. (cached \subseteq specs)'
    BY <1>8 DEF PinShape, CloseVerb, Exit, OpEnds, GiveBack, OpHold
  <2> QED BY <2>1, <2>2, <2>3
<1>9. ASSUME AcquireRefused(s) PROVE PinInv'
  <2>1. PinsExact'
    BY <1>9, SamePins DEF TypeOK, PinShape, AcquireRefused, OpEnds
  <2>2. ASSUME NEW t \in Sessions PROVE PinShape(t)'
    <3>1. CASE t = s
      BY <1>9, <3>1 DEF TypeOK, Shape, PinShape, EagerKeys, Keeps,
         AcquireRefused, OpEnds
    <3>2. CASE t # s
      BY <1>9, <3>2 DEF TypeOK, Shape, PinShape, EagerKeys, AcquireRefused,
         OpEnds
    <3> QED BY <3>1, <3>2
  <2>3. (cached \subseteq specs)'
    BY <1>9 DEF PinShape, AcquireRefused, OpEnds
  <2> QED BY <2>1, <2>2, <2>3
<1>10. ASSUME NEW verb \in {"open", "op"}, Acquire(s, verb) PROVE PinInv'
  <2>1. PinsExact'
    BY <1>10, SamePins DEF TypeOK, PinShape, Acquire, Take, HandleReady, OpHold
  <2>2. ASSUME NEW t \in Sessions PROVE PinShape(t)'
    <3>1. CASE t = s
      BY <1>10, <3>1 DEF TypeOK, Shape, PinShape, EagerKeys, Keeps, Acquire,
         Take, HandleReady, OpHold
    <3>2. CASE t # s
      BY <1>10, <3>2 DEF TypeOK, Shape, PinShape, EagerKeys, Acquire, Take,
         HandleReady, OpHold
    <3> QED BY <3>1, <3>2
  <2>3. (cached \subseteq specs)'
    BY <1>10 DEF PinShape, Acquire, Take, HandleReady, OpHold
  <2> QED BY <2>1, <2>2, <2>3
<1>11. ASSUME NEW h \in holds[s], Opens(s, h) PROVE PinInv'
  <2>1. PinsExact'
    BY <1>11, SamePins DEF TypeOK, PinShape, Opens, HandleReady, HoldsOf
  <2>2. ASSUME NEW t \in Sessions PROVE PinShape(t)'
    <3>1. CASE t = s
      BY <1>11, <3>1 DEF TypeOK, Shape, PinShape, EagerKeys, Keeps, Opens,
         HandleReady, HoldsOf
    <3>2. CASE t # s
      BY <1>11, <3>2 DEF TypeOK, Shape, PinShape, EagerKeys, Opens, HandleReady,
         HoldsOf
    <3> QED BY <3>1, <3>2
  <2>3. (cached \subseteq specs)'
    BY <1>11 DEF PinShape, Opens, HandleReady, HoldsOf
  <2> QED BY <2>1, <2>2, <2>3
<1>12. ASSUME NEW h \in holds[s], NEW hung \in BOOLEAN, OpenFails(s, h, hung) PROVE PinInv'
  <2>1. PinsExact'
    BY <1>12, SamePins DEF TypeOK, PinShape, OpenFails, OpEnds, GiveBack,
       HoldsOf
  <2>2. ASSUME NEW t \in Sessions PROVE PinShape(t)'
    <3>1. CASE t = s
      BY <1>12, <3>1 DEF TypeOK, Shape, PinShape, EagerKeys, Keeps, OpenFails,
         OpEnds, GiveBack, HoldsOf
    <3>2. CASE t # s
      BY <1>12, <3>2 DEF TypeOK, Shape, PinShape, EagerKeys, OpenFails, OpEnds,
         GiveBack, HoldsOf
    <3> QED BY <3>1, <3>2
  <2>3. (cached \subseteq specs)'
    BY <1>12 DEF PinShape, OpenFails, OpEnds, GiveBack, HoldsOf
  <2> QED BY <2>1, <2>2, <2>3
<1>13. ASSUME UseEnds(s) PROVE PinInv'
  <2>1. PinsExact'
    BY <1>13, SamePins DEF TypeOK, PinShape, UseEnds, Exit, OpEnds, GiveBack,
       OpHold
  <2>2. ASSUME NEW t \in Sessions PROVE PinShape(t)'
    <3>1. CASE t = s
      BY <1>13, <3>1 DEF TypeOK, Shape, PinShape, EagerKeys, Keeps, UseEnds,
         Exit, OpEnds, GiveBack, OpHold
    <3>2. CASE t # s
      BY <1>13, <3>2 DEF TypeOK, Shape, PinShape, EagerKeys, UseEnds, Exit,
         OpEnds, GiveBack, OpHold
    <3> QED BY <3>1, <3>2
  <2>3. (cached \subseteq specs)'
    BY <1>13 DEF PinShape, UseEnds, Exit, OpEnds, GiveBack, OpHold
  <2> QED BY <2>1, <2>2, <2>3
<1> QED BY <1>1, <1>2, <1>3, <1>4, <1>5, <1>6, <1>7, <1>8, <1>9, <1>10, <1>11, <1>12, <1>13 DEF Running

\* The finally block.
LEMMA FinishingKeepsPins ==
  ASSUME IInv, IInv', Handover, PinInv, NEW s \in Sessions, Finishing(s)
  PROVE  PinInv'
<1> USE DEF IInv, Handover, PinInv, Busy, Operating, At, Goto, locks, registry,
            session
<1>1. ASSUME RunEnds(s) PROVE PinInv'
  <2>1. PinsExact'
    BY <1>1, SamePins DEF TypeOK, PinShape, RunEnds
  <2>2. ASSUME NEW t \in Sessions PROVE PinShape(t)'
    <3>1. CASE t = s
      BY <1>1, <3>1 DEF TypeOK, Shape, PinShape, EagerKeys, Keeps, RunEnds
    <3>2. CASE t # s
      BY <1>1, <3>2 DEF TypeOK, Shape, PinShape, EagerKeys, RunEnds
    <3> QED BY <3>1, <3>2
  <2>3. (cached \subseteq specs)'
    BY <1>1 DEF PinShape, RunEnds
  <2> QED BY <2>1, <2>2, <2>3
<1>2. ASSUME NEW h \in holds[s], ExitOpened(s, h) PROVE PinInv'
  <2>1. PinsExact'
    BY <1>2, SamePins DEF TypeOK, PinShape, ExitOpened, Exit, GiveBack, HoldsOf
  <2>2. ASSUME NEW t \in Sessions PROVE PinShape(t)'
    <3>1. CASE t = s
      BY <1>2, <3>1 DEF TypeOK, Shape, PinShape, EagerKeys, Keeps, ExitOpened,
         Exit, GiveBack, HoldsOf
    <3>2. CASE t # s
      BY <1>2, <3>2 DEF TypeOK, Shape, PinShape, EagerKeys, ExitOpened, Exit,
         GiveBack, HoldsOf
    <3> QED BY <3>1, <3>2
  <2>3. (cached \subseteq specs)'
    BY <1>2 DEF PinShape, ExitOpened, Exit, GiveBack, HoldsOf
  <2> QED BY <2>1, <2>2, <2>3
<1>3. ASSUME NEW k \in touched[s], CloseTouched(s, k) PROVE PinInv'
  <2>1. PinsExact'
    BY <1>3, SamePins DEF TypeOK, PinShape, CloseTouched, ReleaseNow
  <2>2. ASSUME NEW t \in Sessions PROVE PinShape(t)'
    <3>1. CASE t = s
      BY <1>3, <3>1 DEF TypeOK, Shape, PinShape, EagerKeys, Keeps, CloseTouched,
         ReleaseNow
    <3>2. CASE t # s
      BY <1>3, <3>2 DEF TypeOK, Shape, PinShape, EagerKeys, CloseTouched,
         ReleaseNow
    <3> QED BY <3>1, <3>2
  <2>3. (cached \subseteq specs)'
    BY <1>3 DEF PinShape, CloseTouched, ReleaseNow
  <2> QED BY <2>1, <2>2, <2>3
<1>4. ASSUME NEW h \in holds[s], DropTouched(s, h) PROVE PinInv'
  <2>1. PinsExact'
    BY <1>4, SamePins DEF TypeOK, PinShape, DropTouched, GiveBack, HoldsOf
  <2>2. ASSUME NEW t \in Sessions PROVE PinShape(t)'
    <3>1. CASE t = s
      BY <1>4, <3>1 DEF TypeOK, Shape, PinShape, EagerKeys, Keeps, DropTouched,
         GiveBack, HoldsOf
    <3>2. CASE t # s
      BY <1>4, <3>2 DEF TypeOK, Shape, PinShape, EagerKeys, DropTouched,
         GiveBack, HoldsOf
    <3> QED BY <3>1, <3>2
  <2>3. (cached \subseteq specs)'
    BY <1>4 DEF PinShape, DropTouched, GiveBack, HoldsOf
  <2> QED BY <2>1, <2>2, <2>3
<1>5. ASSUME Unpin(s) PROVE PinInv'
  <2>1. PinsExact'
    <3>1. /\ PinLess(pinned[s]) /\ pc[s] # "rest"
          /\ pinned'[s] = {} \/ pc'[s] = "rest"
          /\ \A t \in Sessions \ {s} : pc'[t] = pc[t] /\ pinned'[t] = pinned[t]
      BY <1>5 DEF Unpin, TypeOK
    <3> QED BY <3>1, LessPins
  <2>2. ASSUME NEW t \in Sessions PROVE PinShape(t)'
    <3>1. CASE t = s
      BY <1>5, <3>1 DEF TypeOK, Shape, PinShape, EagerKeys, Keeps, Unpin
    <3>2. CASE t # s
      BY <1>5, <3>2 DEF TypeOK, Shape, PinShape, EagerKeys, Unpin
    <3> QED BY <3>1, <3>2
  <2>3. (cached \subseteq specs)'
    BY <1>5 DEF PinShape, Unpin
  <2> QED BY <2>1, <2>2, <2>3
<1>6. ASSUME NEW h \in holds[s], ReleaseRest(s, h) PROVE PinInv'
  <2>1. PinsExact'
    BY <1>6, SamePins DEF TypeOK, PinShape, ReleaseRest, GiveBack, Unreleased,
       HoldsOf
  <2>2. ASSUME NEW t \in Sessions PROVE PinShape(t)'
    <3>1. CASE t = s
      BY <1>6, <3>1 DEF TypeOK, Shape, PinShape, EagerKeys, Keeps, ReleaseRest,
         GiveBack, Unreleased, HoldsOf
    <3>2. CASE t # s
      BY <1>6, <3>2 DEF TypeOK, Shape, PinShape, EagerKeys, ReleaseRest,
         GiveBack, Unreleased, HoldsOf
    <3> QED BY <3>1, <3>2
  <2>3. (cached \subseteq specs)'
    BY <1>6 DEF PinShape, ReleaseRest, GiveBack, Unreleased, HoldsOf
  <2> QED BY <2>1, <2>2, <2>3
<1>7. ASSUME SessionEnded(s) PROVE PinInv'
  <2>1. PinsExact'
    <3>1. \A k \in Keys : Pinners(k)' = Pinners(k)
      BY <1>7 DEF SessionEnded, Gone, Pinners, TypeOK
    <3> QED BY <1>7, <3>1 DEF PinsExact, SessionEnded
  <2>2. ASSUME NEW t \in Sessions PROVE PinShape(t)'
    <3>1. CASE t = s
      BY <1>7, <3>1 DEF TypeOK, Shape, PinShape, EagerKeys, Keeps, SessionEnded, Gone
    <3>2. CASE t # s
      BY <1>7, <3>2 DEF TypeOK, Shape, PinShape, EagerKeys, SessionEnded, Gone
    <3> QED BY <3>1, <3>2
  <2>3. (cached \subseteq specs)'
    BY <1>7 DEF PinShape, SessionEnded, Gone
  <2> QED BY <2>1, <2>2, <2>3
<1> QED BY <1>1, <1>2, <1>3, <1>4, <1>5, <1>6, <1>7 DEF Finishing

-----------------------------------------------------------------------------
\* The initial state.
LEMMA InitPins == Init => PinInv
<1> SUFFICES ASSUME Init PROVE PinInv
  OBVIOUS
<1>1. \A k \in Keys : Pinners(k) = {} /\ pins[k] = 0
  BY DEF Init, Pinners
<1>2. PinsExact
  BY <1>1, FS_EmptySet DEF PinsExact
<1>3. \A t \in Sessions : PinShape(t)
  BY DEF Init, PinShape, Operating
<1> QED BY <1>2, <1>3 DEF Init, PinInv

\* Every step of the system keeps PinInv.
LEMMA NextKeepsPins == IInv /\ IInv' /\ Handover /\ PinInv /\ [Next]_vars => PinInv'
<1> SUFFICES ASSUME IInv, IInv', Handover, PinInv, [Next]_vars PROVE PinInv'
  OBVIOUS
<1>1. CASE UNCHANGED vars
  BY <1>1 DEF PinInv, PinsExact, Pinners, PinShape, EagerKeys, vars, registry,
     locks, session
<1>2. CASE AllDone
  BY <1>1, <1>2 DEF AllDone
<1>3. CASE Bench
  BY <1>3, BenchKeepsPins
<1>4. ASSUME NEW s \in Sessions,
             (\E R \in SUBSET Refs : Start(s, R)) \/ Cancel(s) \/ Watchdog(s)
      PROVE  PinInv'
  BY <1>4, OutsideKeepsPins
<1>5. ASSUME NEW s \in Sessions, SessionStep(s) PROVE PinInv'
  BY <1>5, StartingKeepsPins, RunningKeepsPins, FinishingKeepsPins DEF SessionStep
<1> QED BY <1>1, <1>2, <1>3, <1>4, <1>5 DEF Next, Bench

\* OpenIsPinned holds in every reachable state, for every bench: eviction, which
\* drops a cache entry without a close, never meets an open handle (registry.py
\* 191-219 and 503-522).
THEOREM OpenHandlesPinned == Spec => []OpenIsPinned
<1>1. IInv /\ Handover /\ PinInv => OpenIsPinned
  <2> SUFFICES ASSUME IInv, Handover, PinInv, NEW k \in cached
               PROVE  k \in specs /\ pins[k] > 0
    BY DEF OpenIsPinned
  <2>1. PICK t \in Sessions : k \in touched[t]
    BY DEF Handover, CacheKept
  <2>2. k \in pinned[t] /\ pc[t] # "rest"
    BY <2>1 DEF PinInv, PinShape, Handover, Keeps, Busy, Operating
  <2> QED BY <2>2, PinCounts DEF PinInv
<1> QED BY <1>1, InitInv, NextKeepsInv, InitHandover, NextKeepsHandover, InitPins,
           NextKeepsPins, PTL DEF Spec

\* PinnedSpecStays holds of every behaviour, for every bench: no rescan evicts a
\* spec that a session at work has pinned, whoever else unpins it (session.py
\* 500-513 and 710-719, registry.py 191-219).
THEOREM PinnedSpecsStay == Spec => PinnedSpecStays
<1>1. IInv /\ PinInv /\ [Next]_vars =>
        [\A s \in Sessions, k \in Keys :
            pc[s] \in Operating /\ k \in pinned[s] /\ k \in specs => k \in specs']_vars
  <2> SUFFICES ASSUME IInv, PinInv, [Next]_vars, NEW s \in Sessions, NEW k \in Keys,
                      pc[s] \in Operating, k \in pinned[s], k \in specs
               PROVE  k \in specs'
    OBVIOUS
  <2>1. \A scope : k \notin Evicted(scope)
    BY PinCounts DEF PinInv, Operating
  <2>2. CASE UNCHANGED specs
    BY <2>2
  <2>3. ASSUME NEW scope, Rescan(scope) PROVE k \in specs'
    BY <2>1, <2>3 DEF Rescan
  <2>4. UNCHANGED specs \/ \E scope : Rescan(scope)
    <3>1. CASE UNCHANGED vars \/ AllDone \/ Bench
      BY <3>1 DEF vars, registry, AllDone, Bench, Plug, Refresh, ReleaseMarker
    <3>2. ASSUME NEW t \in Sessions, NEW R \in SUBSET Refs, Start(t, R)
          PROVE  \E scope : Rescan(scope)
      BY <3>2 DEF Start
    <3>3. ASSUME NEW t \in Sessions, Cancel(t) \/ Watchdog(t) PROVE UNCHANGED specs
      BY <3>3 DEF Cancel, Watchdog, Canceling, registry
    <3>4. ASSUME NEW t \in Sessions, Starting(t) PROVE UNCHANGED specs
      BY <3>4 DEF Starting, ResolveEager, PinEager, LockEager, LockWaitCanceled,
         BackOut, BackOutUnpin, LocksHeld, registry
    <3>5. ASSUME NEW t \in Sessions, Finishing(t) PROVE UNCHANGED specs
      BY <3>5 DEF Finishing, RunEnds, ExitOpened, CloseTouched, DropTouched, Unpin,
         ReleaseRest, SessionEnded, registry
    <3>6. ASSUME NEW t \in Sessions, NEW r \in needed[t], BeginOpReprobe(t, r)
          PROVE  \E scope : Rescan(scope)
      BY <3>6 DEF BeginOpReprobe
    <3>7. ASSUME NEW t \in Sessions, Running(t),
                 ~ \E r \in needed[t] : BeginOpReprobe(t, r)
          PROVE  UNCHANGED specs
      BY <3>7 DEF Running, BeginOp, Relook, OpMisses, OpEnds, LockLate,
         LateWaitCanceled, OpOnOpenKey, CloseVerb, AcquireRefused, Acquire, Opens,
         OpenFails, UseEnds, registry
    <3> QED BY <3>1, <3>2, <3>3, <3>4, <3>5, <3>6, <3>7 DEF Next, Bench, SessionStep
  <2> QED BY <2>2, <2>3, <2>4
<1> QED BY <1>1, InitInv, NextKeepsInv, InitHandover, NextKeepsHandover, InitPins,
           NextKeepsPins, PTL DEF Spec, PinnedSpecStays

-----------------------------------------------------------------------------
(* A session gives back every lock and every pin on a bench on which no device *)
(* has two names.  Where one has, DeviceHold_alias shows that it does not.     *)

\* No key is meant by two references of one plan.
OneName == \A q, r \in Refs : q # r => Targets[q] \cap Targets[r] = {}

Ending == {"finally", "drop", "rest"}

\* The holds of a session, up to the last one: eager and late locks exclude each
\* other on a key, a released key has no hold any more, and a session that is
\* over has none at all.
HoldShape(t) ==
    /\ pc[t] = "done" => holds[t] = {}
    /\ \A h \in eager[t] : h.key \in Targets[h.ref]
    /\ \A h \in holds[t] : h.why = "eager" => h \in eager[t]
    /\ pc[t] \in Operating => EagerKeys(t) \subseteq locked[t]
    /\ \A h \in holds[t] : h.why = "late" => h.key \notin EagerKeys(t)
    /\ pc[t] \notin Ending => released[t] = {}
    /\ released[t] # {} \/ pc[t] \in {"drop", "rest"} =>
           \A h \in holds[t] : h.why # "open"
    /\ \A h \in holds[t] : h.key \notin released[t]

HoldInv == \A t \in Sessions : HoldShape(t)

\* With one name for each device, a session has one lock for each key to
\* release in its finally block.
LEMMA OneLockPerKey ==
  ASSUME OneName, IInv, NEW t \in Sessions, HoldShape(t),
         NEW h \in holds[t], NEW g \in holds[t], h.key = g.key,
         h.why \in {"eager", "late"}, g.why \in {"eager", "late"}
  PROVE  h = g
<1>1. h \in Hold /\ g \in Hold
  BY DEF IInv, TypeOK
<1>2. CASE h.why = "eager" /\ g.why = "eager"
  BY <1>1, <1>2 DEF Hold, HoldShape, OneName
<1>3. CASE h.why = "late" /\ g.why = "late"
  BY <1>1, <1>3 DEF Hold
<1>4. h.why = g.why
  BY DEF HoldShape, EagerKeys
<1> QED BY <1>2, <1>3, <1>4

\* Between two ops and inside one, the holds of a session only get fewer.
LEMMA OpsKeepHolds ==
  ASSUME NEW t \in Sessions, HoldShape(t), pc[t] \in Operating, pc'[t] \in Operating,
         holds'[t] \subseteq holds[t], UNCHANGED <<eager[t], locked[t], released[t]>>
  PROVE  HoldShape(t)'
  BY DEF HoldShape, EagerKeys, Operating, Ending

-----------------------------------------------------------------------------
\* The bench.
LEMMA BenchKeepsHolds ==
  ASSUME IInv, HoldInv, Bench
  PROVE  HoldInv'
<1> USE DEF IInv, HoldInv, Operating, Ending, At, Goto, locks, registry, session
<1>1. ASSUME NEW k \in Keys, Plug(k) PROVE HoldInv'
  BY <1>1 DEF HoldShape, EagerKeys, Plug
<1>2. ASSUME Refresh PROVE HoldInv'
  BY <1>2 DEF HoldShape, EagerKeys, Refresh
<1>3. ASSUME NEW k \in MarkerKeys, ReleaseMarker(k) PROVE HoldInv'
  BY <1>3 DEF HoldShape, EagerKeys, ReleaseMarker, ReleaseNow
<1> QED BY <1>1, <1>2, <1>3 DEF Bench

\* A job starts, or is told to stop.
LEMMA OutsideKeepsHolds ==
  ASSUME IInv, HoldInv, NEW s \in Sessions,
         (\E R \in SUBSET Refs : Start(s, R)) \/ Cancel(s) \/ Watchdog(s)
  PROVE  HoldInv'
<1> USE DEF IInv, HoldInv, Operating, Ending, At, Goto, locks, registry, session
<1>1. ASSUME NEW R \in SUBSET Refs, Start(s, R) PROVE HoldInv'
  <2> SUFFICES ASSUME NEW t \in Sessions PROVE HoldShape(t)'
    OBVIOUS
  <2>1. CASE t = s
    <3>1. pc[s] = "idle" /\ pc'[s] = "resolve" /\ UNCHANGED <<holds[s], eager[s], locked[s], released[s]>>
      BY <1>1 DEF Start, TypeOK
    <3>2. holds[s] = {} /\ released[s] = {}
      BY <3>1 DEF Shape, HoldShape
    <3> QED BY <2>1, <3>1, <3>2 DEF HoldShape, EagerKeys
  <2>2. CASE t # s
    BY <1>1, <2>2 DEF TypeOK, HoldShape, EagerKeys, Start
  <2> QED BY <2>1, <2>2
<1>2. ASSUME Cancel(s) PROVE HoldInv'
  <2> SUFFICES ASSUME NEW t \in Sessions PROVE HoldShape(t)'
    OBVIOUS
  <2>1. CASE t = s
    BY <1>2, <2>1 DEF TypeOK, Shape, HoldShape, EagerKeys, Cancel, Canceling
  <2>2. CASE t # s
    BY <1>2, <2>2 DEF TypeOK, HoldShape, EagerKeys, Cancel, Canceling
  <2> QED BY <2>1, <2>2
<1>3. ASSUME Watchdog(s) PROVE HoldInv'
  <2> SUFFICES ASSUME NEW t \in Sessions PROVE HoldShape(t)'
    OBVIOUS
  <2>1. CASE t = s
    BY <1>3, <2>1 DEF TypeOK, Shape, HoldShape, EagerKeys, Watchdog, Canceling
  <2>2. CASE t # s
    BY <1>3, <2>2 DEF TypeOK, HoldShape, EagerKeys, Watchdog, Canceling
  <2> QED BY <2>1, <2>2
<1> QED BY <1>1, <1>2, <1>3

\* run_all before the first op.
LEMMA StartingKeepsHolds ==
  ASSUME IInv, HoldInv, NEW s \in Sessions, Starting(s)
  PROVE  HoldInv'
<1> USE DEF IInv, HoldInv, Operating, Ending, At, Goto, locks, registry, session
<1>1. ASSUME NEW r \in todo[s], ResolveEager(s, r) PROVE HoldInv'
  <2> SUFFICES ASSUME NEW t \in Sessions PROVE HoldShape(t)'
    OBVIOUS
  <2>1. CASE t = s
    <3>1. /\ pc[s] = "resolve" /\ holds[s] = {}
          /\ UNCHANGED <<pc[s], holds[s], locked[s], released[s]>>
      BY <1>1 DEF ResolveEager, Shape
    <3>2. \A h \in eager'[s] : h.key \in Targets[h.ref]
      <4>1. \A h \in eager'[s] : h \in eager[s] \/ h \in
               {[why |-> "eager", ref |-> r, key |-> k] : k \in Resolved(r)}
        BY <1>1 DEF ResolveEager, TypeOK
      <4>2. Resolved(r) \subseteq Targets[r]
        BY DEF Resolved
      <4> QED BY <4>1, <4>2 DEF HoldShape
    <3> QED BY <2>1, <3>1, <3>2 DEF HoldShape, EagerKeys
  <2>2. CASE t # s
    BY <1>1, <2>2 DEF TypeOK, HoldShape, EagerKeys, ResolveEager
  <2> QED BY <2>1, <2>2
<1>2. ASSUME PinEager(s) PROVE HoldInv'
  <2> SUFFICES ASSUME NEW t \in Sessions PROVE HoldShape(t)'
    OBVIOUS
  <2>1. CASE t = s
    <3>1. pc[s] = "resolve" /\ pc'[s] = "lock" /\ UNCHANGED <<holds[s], eager[s], locked[s], released[s]>>
      BY <1>2 DEF PinEager, TypeOK
    <3>2. holds[s] = {} /\ released[s] = {}
      BY <3>1 DEF Shape, HoldShape
    <3> QED BY <2>1, <3>1, <3>2 DEF HoldShape, EagerKeys
  <2>2. CASE t # s
    BY <1>2, <2>2 DEF TypeOK, HoldShape, EagerKeys, PinEager
  <2> QED BY <2>1, <2>2
<1>3. ASSUME NEW h \in eager[s], LockEager(s, h) PROVE HoldInv'
  <2> SUFFICES ASSUME NEW t \in Sessions PROVE HoldShape(t)'
    OBVIOUS
  <2>1. CASE t = s
    <3>1. /\ pc[s] = "lock" /\ holds'[s] = holds[s] \cup {h}
          /\ UNCHANGED <<eager[s], pc[s], locked[s], released[s]>>
      BY <1>3 DEF LockEager, Take, TypeOK
    <3>2. h.why = "eager" /\ h.why # "late" /\ h.why # "open"
      BY <1>3 DEF Shape
    <3>3. released[s] = {}
      BY <3>1 DEF HoldShape
    <3> QED BY <2>1, <3>1, <3>2, <3>3 DEF HoldShape, EagerKeys
  <2>2. CASE t # s
    BY <1>3, <2>2 DEF TypeOK, HoldShape, EagerKeys, LockEager, Take
  <2> QED BY <2>1, <2>2
<1>4. ASSUME LockWaitCanceled(s) PROVE HoldInv'
  <2> SUFFICES ASSUME NEW t \in Sessions PROVE HoldShape(t)'
    OBVIOUS
  <2>1. CASE t = s
    <3>1. /\ pc[s] = "lock" /\ pc'[s] = "backout"
          /\ UNCHANGED <<holds[s], eager[s], locked[s], released[s]>>
      BY <1>4 DEF LockWaitCanceled, TypeOK
    <3>2. released[s] = {}
      BY <3>1 DEF HoldShape
    <3> QED BY <2>1, <3>1, <3>2 DEF HoldShape, EagerKeys
  <2>2. CASE t # s
    <3>1. pc'[t] = pc[t] /\ UNCHANGED <<holds, eager, locked, released>>
      BY <1>4, <2>2 DEF TypeOK, LockWaitCanceled
    <3> QED BY <3>1 DEF HoldShape, EagerKeys
  <2> QED BY <2>1, <2>2
<1>5. ASSUME NEW h \in holds[s], BackOut(s, h) PROVE HoldInv'
  <2> SUFFICES ASSUME NEW t \in Sessions PROVE HoldShape(t)'
    OBVIOUS
  <2>1. CASE t = s
    <3>1. /\ pc[s] = "backout" /\ holds'[s] \subseteq holds[s]
          /\ UNCHANGED <<pc, eager[s], locked[s], released[s]>>
      BY <1>5 DEF BackOut, GiveBack, TypeOK
    <3>2. released[s] = {}
      BY <3>1 DEF HoldShape
    <3> QED BY <2>1, <3>1, <3>2 DEF HoldShape, EagerKeys
  <2>2. CASE t # s
    BY <1>5, <2>2 DEF TypeOK, HoldShape, EagerKeys, BackOut, GiveBack
  <2> QED BY <2>1, <2>2
<1>6. ASSUME BackOutUnpin(s) PROVE HoldInv'
  <2> SUFFICES ASSUME NEW t \in Sessions PROVE HoldShape(t)'
    OBVIOUS
  <2>1. CASE t = s
    BY <1>6, <2>1 DEF TypeOK, Shape, HoldShape, EagerKeys, BackOutUnpin, Gone
  <2>2. CASE t # s
    BY <1>6, <2>2 DEF TypeOK, HoldShape, EagerKeys, BackOutUnpin, Gone
  <2> QED BY <2>1, <2>2
<1>7. ASSUME LocksHeld(s) PROVE HoldInv'
  <2> SUFFICES ASSUME NEW t \in Sessions PROVE HoldShape(t)'
    OBVIOUS
  <2>1. CASE t = s
    <3>1. /\ pc[s] = "lock" /\ pc'[s] = "run" /\ UNCHANGED <<holds[s], eager[s], released[s]>>
          /\ locked'[s] = EagerKeys(s)
      BY <1>7 DEF LocksHeld, TypeOK
    <3>2. released[s] = {}
      BY <3>1 DEF HoldShape
    <3> QED BY <2>1, <3>1, <3>2 DEF HoldShape, EagerKeys
  <2>2. CASE t # s
    BY <1>7, <2>2 DEF TypeOK, HoldShape, EagerKeys, LocksHeld
  <2> QED BY <2>1, <2>2
<1> QED BY <1>1, <1>2, <1>3, <1>4, <1>5, <1>6, <1>7 DEF Starting

\* The ops of the plan.
LEMMA RunningKeepsHolds ==
  ASSUME IInv, HoldInv, NEW s \in Sessions, Running(s)
  PROVE  HoldInv'
<1> USE DEF IInv, HoldInv, Operating, Ending, At, Goto, locks, registry, session
<1>1. ASSUME NEW r \in needed[s], BeginOp(s, r) PROVE HoldInv'
  <2> SUFFICES ASSUME NEW t \in Sessions PROVE HoldShape(t)'
    OBVIOUS
  <2>1. CASE t = s
    <3>1. /\ pc[s] \in Operating /\ pc'[s] \in Operating /\ holds'[s] \subseteq holds[s]
          /\ UNCHANGED <<eager[s], locked[s], released[s]>>
      BY <1>1 DEF TypeOK, BeginOp, GotKey
    <3> QED BY <2>1, <3>1, OpsKeepHolds
  <2>2. CASE t # s
    BY <1>1, <2>2 DEF TypeOK, HoldShape, EagerKeys, BeginOp, GotKey
  <2> QED BY <2>1, <2>2
<1>2. ASSUME NEW r \in needed[s], BeginOpReprobe(s, r) PROVE HoldInv'
  <2> SUFFICES ASSUME NEW t \in Sessions PROVE HoldShape(t)'
    OBVIOUS
  <2>1. CASE t = s
    <3>1. /\ pc[s] \in Operating /\ pc'[s] \in Operating /\ holds'[s] \subseteq holds[s]
          /\ UNCHANGED <<eager[s], locked[s], released[s]>>
      BY <1>2 DEF TypeOK, BeginOpReprobe
    <3> QED BY <2>1, <3>1, OpsKeepHolds
  <2>2. CASE t # s
    BY <1>2, <2>2 DEF TypeOK, HoldShape, EagerKeys, BeginOpReprobe
  <2> QED BY <2>1, <2>2
<1>3. ASSUME Relook(s) PROVE HoldInv'
  <2> SUFFICES ASSUME NEW t \in Sessions PROVE HoldShape(t)'
    OBVIOUS
  <2>1. CASE t = s
    <3>1. /\ pc[s] \in Operating /\ pc'[s] \in Operating /\ holds'[s] \subseteq holds[s]
          /\ UNCHANGED <<eager[s], locked[s], released[s]>>
      BY <1>3 DEF TypeOK, Relook, GotKey
    <3> QED BY <2>1, <3>1, OpsKeepHolds
  <2>2. CASE t # s
    BY <1>3, <2>2 DEF TypeOK, HoldShape, EagerKeys, Relook, GotKey
  <2> QED BY <2>1, <2>2
<1>4. ASSUME OpMisses(s) PROVE HoldInv'
  <2> SUFFICES ASSUME NEW t \in Sessions PROVE HoldShape(t)'
    OBVIOUS
  <2>1. CASE t = s
    <3>1. /\ pc[s] \in Operating /\ pc'[s] \in Operating /\ holds'[s] \subseteq holds[s]
          /\ UNCHANGED <<eager[s], locked[s], released[s]>>
      BY <1>4 DEF TypeOK, OpMisses, OpEnds
    <3> QED BY <2>1, <3>1, OpsKeepHolds
  <2>2. CASE t # s
    BY <1>4, <2>2 DEF TypeOK, HoldShape, EagerKeys, OpMisses, OpEnds
  <2> QED BY <2>1, <2>2
<1>5. ASSUME LockLate(s) PROVE HoldInv'
  <2> SUFFICES ASSUME NEW t \in Sessions PROVE HoldShape(t)'
    OBVIOUS
  <2>1. CASE t = s
    <3>1. /\ pc[s] \in Operating /\ pc'[s] \in Operating
          /\ holds'[s] = holds[s] \cup {OpHold("late", cur[s])}
          /\ UNCHANGED <<eager[s], released[s]>> /\ locked[s] \subseteq locked'[s]
      BY <1>5 DEF TypeOK, LockLate, Take
    <3>2. OpHold("late", cur[s]).why = "late" /\ OpHold("late", cur[s]).key = cur[s]
      BY DEF OpHold
    <3>3. cur[s] \notin EagerKeys(s)
      BY <1>5 DEF LockLate, Shape, HoldShape
    <3> QED BY <2>1, <3>1, <3>2, <3>3 DEF HoldShape, EagerKeys
  <2>2. CASE t # s
    BY <1>5, <2>2 DEF TypeOK, HoldShape, EagerKeys, LockLate, Take, OpHold
  <2> QED BY <2>1, <2>2
<1>6. ASSUME LateWaitCanceled(s) PROVE HoldInv'
  <2> SUFFICES ASSUME NEW t \in Sessions PROVE HoldShape(t)'
    OBVIOUS
  <2>1. CASE t = s
    <3>1. /\ pc[s] \in Operating /\ pc'[s] \in Operating /\ UNCHANGED holds
          /\ UNCHANGED <<eager[s], locked[s], released[s]>>
      BY <1>6 DEF TypeOK, LateWaitCanceled, OpEnds
    <3> QED BY <2>1, <3>1, OpsKeepHolds
  <2>2. CASE t # s
    BY <1>6, <2>2 DEF TypeOK, HoldShape, EagerKeys, LateWaitCanceled, OpEnds
  <2> QED BY <2>1, <2>2
<1>7. ASSUME NEW verb \in {"open", "op"}, OpOnOpenKey(s, verb) PROVE HoldInv'
  <2> SUFFICES ASSUME NEW t \in Sessions PROVE HoldShape(t)'
    OBVIOUS
  <2>1. CASE t = s
    <3>1. /\ pc[s] \in Operating /\ pc'[s] \in Operating /\ holds'[s] \subseteq holds[s]
          /\ UNCHANGED <<eager[s], locked[s], released[s]>>
      BY <1>7 DEF TypeOK, OpOnOpenKey, OpEnds
    <3> QED BY <2>1, <3>1, OpsKeepHolds
  <2>2. CASE t # s
    BY <1>7, <2>2 DEF TypeOK, HoldShape, EagerKeys, OpOnOpenKey, OpEnds
  <2> QED BY <2>1, <2>2
<1>8. ASSUME CloseVerb(s) PROVE HoldInv'
  <2> SUFFICES ASSUME NEW t \in Sessions PROVE HoldShape(t)'
    OBVIOUS
  <2>1. CASE t = s
    <3>1. /\ pc[s] \in Operating /\ pc'[s] \in Operating /\ holds'[s] \subseteq holds[s]
          /\ UNCHANGED <<eager[s], locked[s], released[s]>>
      BY <1>8 DEF TypeOK, CloseVerb, Exit, OpEnds, GiveBack, OpHold
    <3> QED BY <2>1, <3>1, OpsKeepHolds
  <2>2. CASE t # s
    BY <1>8, <2>2 DEF TypeOK, HoldShape, EagerKeys, CloseVerb, Exit, OpEnds,
       GiveBack, OpHold
  <2> QED BY <2>1, <2>2
<1>9. ASSUME AcquireRefused(s) PROVE HoldInv'
  <2> SUFFICES ASSUME NEW t \in Sessions PROVE HoldShape(t)'
    OBVIOUS
  <2>1. CASE t = s
    <3>1. /\ pc[s] \in Operating /\ pc'[s] \in Operating /\ holds'[s] \subseteq holds[s]
          /\ UNCHANGED <<eager[s], locked[s], released[s]>>
      <4>1. pc \in [Sessions -> Labels]
        BY DEF TypeOK
      <4>2. pc[s] = "acquire" /\ pc' = [pc EXCEPT ![s] = "run"]
        BY <1>9 DEF AcquireRefused, OpEnds
      <4>3. UNCHANGED <<holds, eager, locked, released>>
        BY <1>9 DEF AcquireRefused, OpEnds
      <4> QED BY <4>1, <4>2, <4>3
    <3> QED BY <2>1, <3>1, OpsKeepHolds
  <2>2. CASE t # s
    BY <1>9, <2>2 DEF TypeOK, HoldShape, EagerKeys, AcquireRefused, OpEnds
  <2> QED BY <2>1, <2>2
<1>10. ASSUME NEW verb \in {"open", "op"}, Acquire(s, verb) PROVE HoldInv'
  <2> SUFFICES ASSUME NEW t \in Sessions PROVE HoldShape(t)'
    OBVIOUS
  <2>1. CASE t = s
    <3>1. /\ pc[s] \in Operating /\ pc'[s] \in Operating
          /\ holds'[s] = holds[s] \cup {OpHold(verb, cur[s])}
          /\ UNCHANGED <<eager[s], released[s]>> /\ locked[s] \subseteq locked'[s]
      BY <1>10 DEF TypeOK, Acquire, Take, HandleReady
    <3>2. OpHold(verb, cur[s]).why = verb /\ OpHold(verb, cur[s]).key = cur[s]
      BY DEF OpHold
    <3> QED BY <2>1, <3>1, <3>2 DEF HoldShape, EagerKeys
  <2>2. CASE t # s
    BY <1>10, <2>2 DEF TypeOK, HoldShape, EagerKeys, Acquire, Take, HandleReady,
       OpHold
  <2> QED BY <2>1, <2>2
<1>11. ASSUME NEW h \in holds[s], Opens(s, h) PROVE HoldInv'
  <2> SUFFICES ASSUME NEW t \in Sessions PROVE HoldShape(t)'
    OBVIOUS
  <2>1. CASE t = s
    <3>1. /\ pc[s] \in Operating /\ pc'[s] \in Operating /\ holds'[s] \subseteq holds[s]
          /\ UNCHANGED <<eager[s], locked[s], released[s]>>
      BY <1>11 DEF TypeOK, Opens, HandleReady
    <3> QED BY <2>1, <3>1, OpsKeepHolds
  <2>2. CASE t # s
    BY <1>11, <2>2 DEF TypeOK, HoldShape, EagerKeys, Opens, HandleReady
  <2> QED BY <2>1, <2>2
<1>12. ASSUME NEW h \in holds[s], NEW hung \in BOOLEAN, OpenFails(s, h, hung) PROVE HoldInv'
  <2> SUFFICES ASSUME NEW t \in Sessions PROVE HoldShape(t)'
    OBVIOUS
  <2>1. CASE t = s
    <3>1. /\ pc[s] \in Operating /\ pc'[s] \in Operating /\ holds'[s] \subseteq holds[s]
          /\ UNCHANGED <<eager[s], locked[s], released[s]>>
      BY <1>12 DEF TypeOK, OpenFails, OpEnds, GiveBack
    <3> QED BY <2>1, <3>1, OpsKeepHolds
  <2>2. CASE t # s
    BY <1>12, <2>2 DEF TypeOK, HoldShape, EagerKeys, OpenFails, OpEnds, GiveBack
  <2> QED BY <2>1, <2>2
<1>13. ASSUME UseEnds(s) PROVE HoldInv'
  <2> SUFFICES ASSUME NEW t \in Sessions PROVE HoldShape(t)'
    OBVIOUS
  <2>1. CASE t = s
    <3>1. /\ pc[s] \in Operating /\ pc'[s] \in Operating /\ holds'[s] \subseteq holds[s]
          /\ UNCHANGED <<eager[s], locked[s], released[s]>>
      BY <1>13 DEF TypeOK, UseEnds, Exit, GiveBack, OpEnds
    <3> QED BY <2>1, <3>1, OpsKeepHolds
  <2>2. CASE t # s
    BY <1>13, <2>2 DEF TypeOK, HoldShape, EagerKeys, UseEnds, Exit, OpEnds,
       GiveBack, OpHold
  <2> QED BY <2>1, <2>2
<1> QED BY <1>1, <1>2, <1>3, <1>4, <1>5, <1>6, <1>7, <1>8, <1>9, <1>10, <1>11, <1>12, <1>13 DEF Running

\* The finally block.
LEMMA FinishingKeepsHolds ==
  ASSUME OneName, IInv, HoldInv, NEW s \in Sessions, Finishing(s)
  PROVE  HoldInv'
<1> USE DEF IInv, HoldInv, Operating, Ending, At, Goto, locks, registry, session
<1>1. ASSUME RunEnds(s) PROVE HoldInv'
  <2> SUFFICES ASSUME NEW t \in Sessions PROVE HoldShape(t)'
    OBVIOUS
  <2>1. CASE t = s
    BY <1>1, <2>1 DEF TypeOK, Shape, HoldShape, EagerKeys, RunEnds
  <2>2. CASE t # s
    BY <1>1, <2>2 DEF TypeOK, HoldShape, EagerKeys, RunEnds
  <2> QED BY <2>1, <2>2
<1>2. ASSUME NEW h \in holds[s], ExitOpened(s, h) PROVE HoldInv'
  <2> SUFFICES ASSUME NEW t \in Sessions PROVE HoldShape(t)'
    OBVIOUS
  <2>1. CASE t = s
    <3>1. /\ pc[s] = "finally" /\ holds'[s] \subseteq holds[s]
          /\ UNCHANGED <<pc, eager, locked, released>>
      BY <1>2 DEF TypeOK, ExitOpened, Exit, GiveBack
    <3> QED BY <2>1, <3>1 DEF HoldShape, EagerKeys
  <2>2. CASE t # s
    BY <1>2, <2>2 DEF TypeOK, HoldShape, EagerKeys, ExitOpened, Exit, GiveBack,
       HoldsOf
  <2> QED BY <2>1, <2>2
<1>3. ASSUME NEW k \in touched[s], CloseTouched(s, k) PROVE HoldInv'
  <2> SUFFICES ASSUME NEW t \in Sessions PROVE HoldShape(t)'
    OBVIOUS
  <2>1. CASE t = s
    <3>1. /\ pc[s] = "finally" /\ pc'[s] = "drop"
          /\ UNCHANGED <<holds[s], eager[s], locked[s], released[s]>>
          /\ Opened(s) = {}
      BY <1>3 DEF CloseTouched, TypeOK
    <3>2. ASSUME NEW g \in holds[s], g.why = "open" PROVE FALSE
      <4>1. g.key \in Opened(s)
        BY <3>2 DEF Opened, HoldsOf
      <4> QED BY <3>1, <4>1
    <3> QED BY <2>1, <3>1, <3>2 DEF HoldShape, EagerKeys
  <2>2. CASE t # s
    BY <1>3, <2>2 DEF TypeOK, HoldShape, EagerKeys, CloseTouched, ReleaseNow
  <2> QED BY <2>1, <2>2
<1>4. ASSUME NEW h \in holds[s], DropTouched(s, h) PROVE HoldInv'
  <2> SUFFICES ASSUME NEW t \in Sessions PROVE HoldShape(t)'
    OBVIOUS
  <2>1. CASE t = s
    <3>1. /\ pc[s] = "drop" /\ pc'[s] = "finally" /\ holds'[s] = holds[s] \ {h}
          /\ released'[s] = released[s] \cup {h.key} /\ h.why \in {"eager", "late"}
          /\ UNCHANGED <<eager[s], locked[s]>>
      BY <1>4 DEF DropTouched, GiveBack, HoldsOf, TypeOK
    <3>2. \A g \in holds[s] : g.why # "open" /\ g.why # "op"
      BY <3>1 DEF HoldShape, Shape
    <3>3. ASSUME NEW g \in holds[s], g.key = h.key PROVE g = h
      <4>1. g.why \in {"eager", "late"}
        BY <3>2 DEF TypeOK, Hold
      <4> QED BY <3>1, <3>3, <4>1, OneLockPerKey
    <3> QED BY <2>1, <3>1, <3>2, <3>3 DEF HoldShape, EagerKeys
  <2>2. CASE t # s
    BY <1>4, <2>2 DEF TypeOK, HoldShape, EagerKeys, DropTouched, GiveBack
  <2> QED BY <2>1, <2>2
<1>5. ASSUME Unpin(s) PROVE HoldInv'
  <2> SUFFICES ASSUME NEW t \in Sessions PROVE HoldShape(t)'
    OBVIOUS
  <2>1. CASE t = s
    <3>1. /\ pc[s] = "finally" /\ pc'[s] = "rest"
          /\ UNCHANGED <<holds[s], eager[s], locked[s], released[s]>>
          /\ Opened(s) = {}
      BY <1>5 DEF Unpin, TypeOK
    <3>2. ASSUME NEW g \in holds[s], g.why = "open" PROVE FALSE
      <4>1. g.key \in Opened(s)
        BY <3>2 DEF Opened, HoldsOf
      <4> QED BY <3>1, <4>1
    <3> QED BY <2>1, <3>1, <3>2 DEF HoldShape, EagerKeys
  <2>2. CASE t # s
    BY <1>5, <2>2 DEF TypeOK, HoldShape, EagerKeys, Unpin
  <2> QED BY <2>1, <2>2
<1>6. ASSUME NEW h \in holds[s], ReleaseRest(s, h) PROVE HoldInv'
  <2> SUFFICES ASSUME NEW t \in Sessions PROVE HoldShape(t)'
    OBVIOUS
  <2>1. CASE t = s
    BY <1>6, <2>1 DEF TypeOK, Shape, HoldShape, EagerKeys, ReleaseRest,
       GiveBack, Unreleased, HoldsOf
  <2>2. CASE t # s
    BY <1>6, <2>2 DEF TypeOK, HoldShape, EagerKeys, ReleaseRest, GiveBack,
       Unreleased, HoldsOf
  <2> QED BY <2>1, <2>2
<1>7. ASSUME SessionEnded(s) PROVE HoldInv'
  <2> SUFFICES ASSUME NEW t \in Sessions PROVE HoldShape(t)'
    OBVIOUS
  <2>1. CASE t = s
    <3>1. /\ pc[s] = "rest" /\ pc'[s] = "done" /\ Unreleased(s) = {}
          /\ eager'[s] = {} /\ released'[s] = {} /\ UNCHANGED holds
      BY <1>7 DEF SessionEnded, Gone, TypeOK
    <3>2. holds[s] = {}
      <4> SUFFICES ASSUME NEW h \in holds[s] PROVE FALSE
        OBVIOUS
      <4>1. h.why \in {"eager", "late"}
        BY <3>1 DEF HoldShape, Shape, TypeOK, Hold
      <4> QED BY <3>1, <4>1 DEF HoldShape, Unreleased, HoldsOf
    <3> QED BY <2>1, <3>1, <3>2 DEF HoldShape, EagerKeys
  <2>2. CASE t # s
    BY <1>7, <2>2 DEF TypeOK, HoldShape, EagerKeys, SessionEnded, Gone
  <2> QED BY <2>1, <2>2
<1> QED BY <1>1, <1>2, <1>3, <1>4, <1>5, <1>6, <1>7 DEF Finishing

-----------------------------------------------------------------------------
\* The initial state.
LEMMA InitHolds == Init => HoldInv
  BY DEF Init, HoldInv, HoldShape, EagerKeys, Operating, Ending

\* Where no device has two names, every step of the system keeps HoldInv.
LEMMA NextKeepsHolds ==
  ASSUME OneName PROVE IInv /\ HoldInv /\ [Next]_vars => HoldInv'
<1> SUFFICES ASSUME IInv, HoldInv, [Next]_vars PROVE HoldInv'
  OBVIOUS
<1>1. CASE UNCHANGED vars
  BY <1>1 DEF HoldInv, HoldShape, EagerKeys, vars, registry, locks, session
<1>2. CASE AllDone
  BY <1>1, <1>2 DEF AllDone
<1>3. CASE Bench
  BY <1>3, BenchKeepsHolds
<1>4. ASSUME NEW s \in Sessions,
             (\E R \in SUBSET Refs : Start(s, R)) \/ Cancel(s) \/ Watchdog(s)
      PROVE  HoldInv'
  BY <1>4, OutsideKeepsHolds
<1>5. ASSUME NEW s \in Sessions, SessionStep(s) PROVE HoldInv'
  BY <1>5, StartingKeepsHolds, RunningKeepsHolds, FinishingKeepsHolds DEF SessionStep
<1> QED BY <1>1, <1>2, <1>3, <1>4, <1>5 DEF Next, Bench

\* LocksReturned holds in every reachable state, for every bench on which no
\* device has two names: a session that is over owns no device lock and left no
\* pin (session.py 664-734).
THEOREM LocksComeBack ==
  ASSUME OneName PROVE Spec => []LocksReturned
<1>1. IInv /\ HoldInv /\ PinInv => LocksReturned
  <2> SUFFICES ASSUME IInv, HoldInv, PinInv PROVE LocksReturned
    OBVIOUS
  <2>1. ASSUME NEW s \in Sessions, At(s, "done"), NEW k \in Keys, owner[k] = s
        PROVE  FALSE
    <3>1. Holding(s, k) = {}
      BY <2>1 DEF HoldInv, HoldShape, At, Holding
    <3>2. Cardinality(Holding(s, k)) > 0
      BY <2>1 DEF IInv, Balance
    <3> QED BY <3>1, <3>2, FS_EmptySet
  <2>2. ASSUME \A s \in Sessions : pc[s] \in {"idle", "done"}, NEW k \in Keys
        PROVE  pins[k] = 0
    <3>1. Pinners(k) = {}
      BY <2>2 DEF PinInv, PinShape, Pinners
    <3> QED BY <3>1, FS_EmptySet DEF PinInv, PinsExact
  <2> QED BY <2>1, <2>2 DEF LocksReturned
<1> QED BY <1>1, InitInv, NextKeepsInv, InitHandover, NextKeepsHandover, InitPins,
           NextKeepsPins, InitHolds, NextKeepsHolds, PTL DEF Spec
=============================================================================
