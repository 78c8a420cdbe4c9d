-------------------------- MODULE DeviceHoldProofs --------------------------
(***************************************************************************)
(* What DeviceHold promises for every bench: any number of sessions,       *)
(* devices, references and ops, and any overlap of the references.         *)
(***************************************************************************)
EXTENDS DeviceHold, FiniteSetTheorems, WellFoundedInduction, TLAPS

Holding(s, k) == {h \in holds[s] : h.key = k}

\* The account of the RLocks: who has outstanding acquisitions of a key owns
\* it, and its depth is their number.
Balance ==
    /\ \A s \in Sessions : IsFiniteSet(holds[s])
    /\ \A s \in Sessions : \A h \in holds[s] : owner[h.key] = s
    /\ \A k \in Keys : owner[k] = NoSession => depth[k] = 0
    /\ \A s \in Sessions : \A k \in Keys :
           owner[k] = s => depth[k] = Cardinality(Holding(s, k)) /\ depth[k] > 0

-----------------------------------------------------------------------------
LocksType ==
    /\ owner \in [Keys -> Sessions \cup {NoSession}] /\ depth \in [Keys -> Nat]
    /\ holds \in [Sessions -> SUBSET Hold]

\* A hold names a key.
LEMMA HoldKey == \A h \in Hold : h.key \in Keys
  BY DEF Hold

\* Acquiring a lock that is free or one's own keeps the account.
LEMMA TakeKeepsBalance ==
  ASSUME LocksType, Balance, NEW s \in Sessions, NEW h \in Hold, h \notin holds[s],
         Take(s, h)
  PROVE  LocksType' /\ Balance'
<1> DEFINE k == h.key
<1>0. k \in Keys /\ NoSession \notin Sessions
  BY HoldKey, DeviceAssumption
<1>1. LocksType'
  BY <1>0 DEF LocksType, Take
<1>2. holds' = [holds EXCEPT ![s] = holds[s] \cup {h}] /\ holds'[s] = holds[s] \cup {h}
  BY DEF LocksType, Take
<1>3. \A t \in Sessions : t # s => holds'[t] = holds[t]
  BY <1>2 DEF LocksType
<1>4. owner'[k] = s /\ depth'[k] = depth[k] + 1
  BY <1>0 DEF LocksType, Take
<1>5. \A j \in Keys : j # k => owner'[j] = owner[j] /\ depth'[j] = depth[j]
  BY <1>0 DEF LocksType, Take
<1>6. \A t \in Sessions : IsFiniteSet(holds'[t])
  BY <1>2, <1>3, FS_AddElement DEF Balance
<1>7. \A t \in Sessions : \A g \in holds'[t] : owner'[g.key] = t
  <2> SUFFICES ASSUME NEW t \in Sessions, NEW g \in holds'[t]
               PROVE  owner'[g.key] = t
    OBVIOUS
  <2>1. CASE t = s /\ g = h
    BY <2>1, <1>4
  <2>2. CASE g \in holds[t]
    <3>1. g.key \in Keys /\ owner[g.key] = t
      BY <2>2, HoldKey DEF Balance, LocksType
    <3>2. CASE g.key = k
      BY <3>1, <3>2, <1>4, <1>0 DEF Take, Free
    <3>3. CASE g.key # k
      BY <3>1, <3>3, <1>5
    <3> QED BY <3>2, <3>3
  <2> QED BY <2>1, <2>2, <1>2, <1>3
<1>8. \A j \in Keys : owner'[j] = NoSession => depth'[j] = 0
  BY <1>0, <1>4, <1>5 DEF Balance
<1>9. depth'[k] = Cardinality(Holding(s, k)') /\ depth'[k] > 0
  <2>1. Holding(s, k)' = Holding(s, k) \cup {h}
    BY <1>2 DEF Holding
  <2>2. IsFiniteSet(Holding(s, k)) /\ h \notin Holding(s, k)
    BY FS_Subset DEF Holding, Balance
  <2>3. Cardinality(Holding(s, k) \cup {h}) = Cardinality(Holding(s, k)) + 1
    BY <2>2, FS_AddElement
  <2>4. depth[k] = Cardinality(Holding(s, k))
    <3>1. CASE owner[k] = s
      BY <3>1, <1>0 DEF Balance
    <3>2. CASE owner[k] # s
      <4>1. owner[k] = NoSession
        BY <3>2 DEF Take, Free
      <4>2. depth[k] = 0
        BY <4>1, <1>0 DEF Balance
      <4>3. Holding(s, k) = {}
        BY <3>2 DEF Balance, Holding
      <4> QED BY <4>2, <4>3, FS_EmptySet
    <3> QED BY <3>1, <3>2
  <2>5. depth[k] \in Nat
    BY <1>0 DEF LocksType
  <2> QED BY <2>1, <2>3, <2>4, <2>5, <1>4
<1>10. \A t \in Sessions : \A j \in Keys :
          owner'[j] = t => depth'[j] = Cardinality(Holding(t, j)') /\ depth'[j] > 0
  <2> SUFFICES ASSUME NEW t \in Sessions, NEW j \in Keys, owner'[j] = t
               PROVE  depth'[j] = Cardinality(Holding(t, j)') /\ depth'[j] > 0
    OBVIOUS
  <2>1. CASE j = k
    BY <2>1, <1>4, <1>9
  <2>2. CASE j # k
    <3>1. Holding(t, j)' = Holding(t, j)
      BY <2>2, <1>2, <1>3 DEF Holding
    <3> QED BY <3>1, <2>2, <1>5 DEF Balance
  <2> QED BY <2>1, <2>2
<1> QED BY <1>1, <1>6, <1>7, <1>8, <1>10 DEF Balance

\* So does giving back an acquisition one has.
LEMMA GiveBackKeepsBalance ==
  ASSUME LocksType, Balance, NEW s \in Sessions, NEW h \in holds[s], GiveBack(s, h)
  PROVE  LocksType' /\ Balance'
<1> DEFINE k == h.key
<1>0. k \in Keys /\ NoSession \notin Sessions
  BY HoldKey, DeviceAssumption DEF LocksType
<1>1. owner[k] = s /\ depth[k] = Cardinality(Holding(s, k)) /\ depth[k] > 0
  BY <1>0 DEF Balance
<1>2. LocksType'
  BY <1>0, <1>1 DEF LocksType, GiveBack
<1>3. holds'[s] = holds[s] \ {h} /\ \A t \in Sessions : t # s => holds'[t] = holds[t]
  BY DEF LocksType, GiveBack
<1>4. depth'[k] = depth[k] - 1 /\ owner'[k] = IF depth[k] = 1 THEN NoSession ELSE s
  BY <1>0, <1>1 DEF LocksType, GiveBack
<1>5. \A j \in Keys : j # k => owner'[j] = owner[j] /\ depth'[j] = depth[j]
  BY <1>0 DEF LocksType, GiveBack
<1>6. \A t \in Sessions : IsFiniteSet(holds'[t])
  BY <1>3, FS_RemoveElement DEF Balance
<1>7. /\ Holding(s, k)' = Holding(s, k) \ {h}
      /\ IsFiniteSet(Holding(s, k)')
      /\ Cardinality(Holding(s, k)') = depth[k] - 1
  <2>1. Holding(s, k)' = Holding(s, k) \ {h}
    BY <1>3 DEF Holding
  <2>2. IsFiniteSet(Holding(s, k)) /\ h \in Holding(s, k)
    BY FS_Subset DEF Holding, Balance
  <2> QED BY <2>1, <2>2, <1>1, FS_RemoveElement
<1>8. \A t \in Sessions : \A g \in holds'[t] : owner'[g.key] = t
  <2> SUFFICES ASSUME NEW t \in Sessions, NEW g \in holds'[t]
               PROVE  owner'[g.key] = t
    OBVIOUS
  <2>1. g \in holds[t] /\ g.key \in Keys /\ owner[g.key] = t
    BY <1>3, HoldKey DEF Balance, LocksType
  <2>2. CASE g.key = k
    <3>1. t = s /\ g \in Holding(s, k)'
      BY <2>1, <2>2, <1>1 DEF Holding
    <3>2. depth[k] # 1
      BY <3>1, <1>7, <1>0, FS_EmptySet DEF LocksType
    <3> QED BY <2>2, <3>1, <3>2, <1>4
  <2>3. CASE g.key # k
    BY <2>1, <2>3, <1>5
  <2> QED BY <2>2, <2>3
<1>9. \A j \in Keys : owner'[j] = NoSession => depth'[j] = 0
  <2> SUFFICES ASSUME NEW j \in Keys, owner'[j] = NoSession
               PROVE  depth'[j] = 0
    OBVIOUS
  <2>1. CASE j = k
    BY <2>1, <1>0, <1>4
  <2>2. CASE j # k
    BY <2>2, <1>5 DEF Balance
  <2> QED BY <2>1, <2>2
<1>10. \A t \in Sessions : \A j \in Keys :
          owner'[j] = t => depth'[j] = Cardinality(Holding(t, j)') /\ depth'[j] > 0
  <2> SUFFICES ASSUME NEW t \in Sessions, NEW j \in Keys, owner'[j] = t
               PROVE  depth'[j] = Cardinality(Holding(t, j)') /\ depth'[j] > 0
    OBVIOUS
  <2>1. CASE j = k
    <3>1. depth[k] # 1 /\ t = s
      BY <2>1, <1>0, <1>4
    <3>2. depth[k] \in Nat
      BY <1>0 DEF LocksType
    <3> QED BY <2>1, <3>1, <3>2, <1>1, <1>4, <1>7
  <2>2. CASE j # k
    <3>1. Holding(t, j)' = Holding(t, j)
      BY <2>2, <1>3 DEF Holding
    <3> QED BY <3>1, <2>2, <1>5 DEF Balance
  <2> QED BY <2>1, <2>2
<1> QED BY <1>2, <1>6, <1>8, <1>9, <1>10 DEF Balance

\* A step that leaves the locks alone.
LEMMA LocksKeepBalance ==
  ASSUME LocksType, Balance, UNCHANGED locks
  PROVE  LocksType' /\ Balance'
  BY DEF LocksType, Balance, Holding, locks

-----------------------------------------------------------------------------
(* The inductive invariant *)

\* What a session's place in the code says about its locks.
Shape(s) ==
    /\ pc[s] \in {"idle", "resolve"} => holds[s] = {}
    /\ \A h \in eager[s] : h.why = "eager"
    /\ pc[s] \in {"lock", "backout"} => \A h \in holds[s] : h.why = "eager"
    /\ pc[s] \in {"acquire", "opening", "use"} => cur[s] \in locked[s]
    /\ pc[s] = "wait" => cur[s] \in Keys \ locked[s]
    /\ pc[s] = "relook" => cur[s] \in Refs
    /\ \A h \in holds[s] : h.why = "op" =>
           pc[s] \in {"opening", "use"} /\ h.key = cur[s]
    /\ \A h, g \in holds[s] : h.why = "op" /\ g.why = "open" => h.key # g.key
    /\ pc[s] \in Operating =>
           /\ \A h \in holds[s] : h.why = "late" => h.key \in locked[s]
           /\ \A k \in locked[s] : \E h \in holds[s] :
                  h.why \in {"eager", "late"} /\ h.key = k

\* A handle in use is counted in its cache entry.
Counted ==
    \A s \in Sessions : \A h \in holds[s] :
        h.why \in {"open", "op"} /\ h.key \in cached => refs[h.key] > 0

IInv == TypeOK /\ Balance /\ (\A s \in Sessions : Shape(s)) /\ Counted

\* The part of TypeOK about the locks.
LEMMA TypeGivesLocks == TypeOK => LocksType
  BY DEF TypeOK, LocksType

\* A reference resolves to a key.
LEMMA ResolvedKey == \A r \in Refs : Resolved(r) \subseteq Keys
  BY DeviceAssumption DEF Resolved

\* Leaving _Acquire takes one reference off a count that has it, and no other
\* hold counts on the same entry.
LEMMA ExitKeepsCount ==
  ASSUME TypeOK, Balance, \A t \in Sessions : Shape(t), Counted,
         NEW s \in Sessions, NEW h \in holds[s], h.why \in {"open", "op"}, Exit(s,
            h)
  PROVE  refs' \in [Keys -> Nat] /\ Counted'
<1>1. h.key \in Keys /\ (h.key \in cached => refs[h.key] > 0)
  BY HoldKey DEF TypeOK, Counted
<1>2. refs' \in [Keys -> Nat]
  BY <1>1 DEF Exit, TypeOK
<1>3. ASSUME NEW t \in Sessions, NEW g \in holds'[t], g.why \in {"open", "op"}
      PROVE  g \in holds[t] /\ g.key \in Keys /\ g.key # h.key
  <2>1. g \in holds[t] /\ (t = s => g # h)
    BY <1>3 DEF Exit, GiveBack, TypeOK
  <2>2. g \in Hold /\ h \in Hold /\ g.key \in Keys
    BY <2>1, HoldKey DEF TypeOK
  <2>3. CASE t # s
    BY <2>1, <2>2, <2>3 DEF Balance
  <2>4. CASE t = s
    <3>1. h.why = g.why => h.key # g.key
      BY <2>1, <2>2, <2>4, <1>3 DEF Hold
    <3>2. h.why # g.why => h.key # g.key
      BY <2>1, <2>4, <1>3 DEF Shape
    <3> QED BY <2>1, <2>2, <3>1, <3>2
  <2> QED BY <2>1, <2>2, <2>3, <2>4
<1>4. Counted'
  BY <1>1, <1>3 DEF Counted, Exit, TypeOK
<1> QED BY <1>2, <1>4

\* The initial state.
LEMMA InitInv == Init => IInv
<1> SUFFICES ASSUME Init PROVE IInv
  OBVIOUS
<1>1. TypeOK
  BY DeviceAssumption DEF Init, TypeOK, Labels
<1>2. Balance
  BY FS_EmptySet, DeviceAssumption DEF Init, Balance
<1>3. \A s \in Sessions : Shape(s)
  BY DEF Init, Shape, Operating
<1>4. Counted
  BY DEF Init, Counted
<1> QED BY <1>1, <1>2, <1>3, <1>4 DEF IInv

-----------------------------------------------------------------------------
(* Every step keeps it *)

\* A device is plugged in or out.
LEMMA PlugKeepsInv ==
  ASSUME IInv, NEW k \in Keys, Plug(k)
  PROVE  IInv'
<1> USE DEF IInv, At, Goto, locks, registry, session
<1>0. LocksType
  BY TypeGivesLocks
<1>1. LocksType' /\ Balance'
  BY <1>0, LocksKeepBalance DEF Plug
<1>2. TypeOK'
  BY <1>1, ResolvedKey, DeviceAssumption DEF TypeOK, LocksType, Labels, Plug
<1>3. \A t \in Sessions : Shape(t)'
  BY ResolvedKey, DeviceAssumption DEF TypeOK, Shape, Operating, Plug
<1>4. Counted'
  BY DEF TypeOK, Counted, Shape, Plug
<1> QED BY <1>1, <1>2, <1>3, <1>4 DEF IInv

\* The tick of the main loop.
LEMMA RefreshKeepsInv ==
  ASSUME IInv, Refresh
  PROVE  IInv'
<1> USE DEF IInv, At, Goto, locks, registry, session
<1>0. LocksType
  BY TypeGivesLocks
<1>1. LocksType' /\ Balance'
  BY <1>0, LocksKeepBalance DEF Refresh
<1>2. TypeOK'
  BY <1>1, ResolvedKey, DeviceAssumption DEF TypeOK, LocksType, Labels, Refresh,
     Rescan, Evicted
<1>3. \A t \in Sessions : Shape(t)'
  BY ResolvedKey, DeviceAssumption DEF TypeOK, Shape, Operating, Refresh, Rescan,
     Evicted
<1>4. Counted'
  BY DEF TypeOK, Counted, Shape, Refresh, Rescan, Evicted
<1> QED BY <1>1, <1>2, <1>3, <1>4 DEF IInv

\* An operator has a device released.
LEMMA MarkerKeepsInv ==
  ASSUME IInv, NEW k \in MarkerKeys, ReleaseMarker(k)
  PROVE  IInv'
<1> USE DEF IInv, At, Goto, locks, registry, session
<1>0. LocksType
  BY TypeGivesLocks
<1>1. LocksType' /\ Balance'
  BY <1>0, LocksKeepBalance DEF ReleaseMarker
<1>2. TypeOK'
  BY <1>1, ResolvedKey, DeviceAssumption DEF TypeOK, LocksType, Labels,
     ReleaseMarker, ReleaseNow
<1>3. \A t \in Sessions : Shape(t)'
  BY ResolvedKey, DeviceAssumption DEF TypeOK, Shape, Operating, ReleaseMarker,
     ReleaseNow
<1>4. Counted'
  BY DEF TypeOK, Counted, Shape, ReleaseMarker, ReleaseNow
<1> QED BY <1>1, <1>2, <1>3, <1>4 DEF IInv

\* A job starts, or is told to stop.
LEMMA OutsideKeepsInv ==
  ASSUME IInv, NEW s \in Sessions,
         (\E R \in SUBSET Refs : Start(s, R)) \/ Cancel(s) \/ Watchdog(s)
  PROVE  IInv'
<1> USE DEF IInv, At, Goto, locks, registry, session
<1>0. LocksType
  BY TypeGivesLocks
<1>1. ASSUME Cancel(s) PROVE IInv'
  <2>1. LocksType' /\ Balance'
    BY <1>0, <1>1, LocksKeepBalance DEF Cancel, Canceling
  <2>2. TypeOK'
    BY <1>1, <2>1, ResolvedKey, DeviceAssumption DEF TypeOK, LocksType, Labels,
       Cancel, Canceling
  <2>3. \A t \in Sessions : Shape(t)'
    BY <1>1, ResolvedKey, DeviceAssumption DEF TypeOK, Shape, Operating, Cancel,
       Canceling
  <2>4. Counted'
    BY <1>1 DEF TypeOK, Counted, Shape, Cancel, Canceling
  <2> QED BY <2>1, <2>2, <2>3, <2>4 DEF IInv
<1>2. ASSUME Watchdog(s) PROVE IInv'
  <2>1. LocksType' /\ Balance'
    BY <1>0, <1>2, LocksKeepBalance DEF Watchdog, Canceling
  <2>2. TypeOK'
    BY <1>2, <2>1, ResolvedKey, DeviceAssumption DEF TypeOK, LocksType, Labels,
       Watchdog, Canceling
  <2>3. \A t \in Sessions : Shape(t)'
    BY <1>2, ResolvedKey, DeviceAssumption DEF TypeOK, Shape, Operating, Watchdog,
       Canceling
  <2>4. Counted'
    BY <1>2 DEF TypeOK, Counted, Shape, Watchdog, Canceling
  <2> QED BY <2>1, <2>2, <2>3, <2>4 DEF IInv
<1>3. ASSUME NEW R \in SUBSET Refs, Start(s, R) PROVE IInv'
  <2>1. LocksType' /\ Balance'
    BY <1>0, <1>3, LocksKeepBalance DEF Start
  <2>2. TypeOK'
    BY <1>3, <2>1, ResolvedKey, DeviceAssumption DEF TypeOK, LocksType, Labels,
       Start, Rescan, Evicted
  <2>3. \A t \in Sessions : Shape(t)'
    BY <1>3, ResolvedKey, DeviceAssumption DEF TypeOK, Shape, Operating, Start,
       Rescan, Evicted
  <2>4. Counted'
    BY <1>3 DEF TypeOK, Counted, Shape, Start, Rescan, Evicted
  <2> QED BY <2>1, <2>2, <2>3, <2>4 DEF IInv
<1> QED BY <1>1, <1>2, <1>3

\* run_all before the first op.
LEMMA StartingKeepsInv ==
  ASSUME IInv, NEW s \in Sessions, Starting(s)
  PROVE  IInv'
<1> USE DEF IInv, At, Goto, locks, registry, session
<1>0. LocksType
  BY TypeGivesLocks
<1>1. ASSUME NEW r \in todo[s], ResolveEager(s, r) PROVE IInv'
  <2>1. LocksType' /\ Balance'
    BY <1>0, <1>1, LocksKeepBalance DEF ResolveEager
  <2>2. TypeOK'
    BY <1>1, <2>1, ResolvedKey, DeviceAssumption DEF TypeOK, LocksType, Labels,
       ResolveEager, Hold
  <2>3. \A t \in Sessions : Shape(t)'
    BY <1>1, ResolvedKey, DeviceAssumption DEF TypeOK, Shape, Operating,
       ResolveEager, Hold
  <2>4. Counted'
    BY <1>1 DEF TypeOK, Counted, Shape, ResolveEager, Hold
  <2> QED BY <2>1, <2>2, <2>3, <2>4 DEF IInv
<1>2. ASSUME PinEager(s) PROVE IInv'
  <2>1. LocksType' /\ Balance'
    BY <1>0, <1>2, LocksKeepBalance DEF PinEager
  <2>2. TypeOK'
    BY <1>2, <2>1, ResolvedKey, DeviceAssumption DEF TypeOK, LocksType, Labels,
       PinEager, PinMore, EagerKeys, Hold
  <2>3. \A t \in Sessions : Shape(t)'
    BY <1>2, ResolvedKey, DeviceAssumption DEF TypeOK, Shape, Operating, PinEager,
       PinMore, EagerKeys, Hold
  <2>4. Counted'
    BY <1>2 DEF TypeOK, Counted, Shape, PinEager, PinMore, EagerKeys, Hold
  <2> QED BY <2>1, <2>2, <2>3, <2>4 DEF IInv
<1>3. ASSUME NEW h \in eager[s], LockEager(s, h) PROVE IInv'
  <2>now. h \in Hold \ holds[s] /\ Take(s, h)
    BY <1>3 DEF LockEager, TypeOK, Shape, Operating, OpHold, Hold, Opened,
       HoldsOf, At
  <2>1. LocksType' /\ Balance'
    BY <1>0, <2>now, TakeKeepsBalance
  <2>2. TypeOK'
    BY <1>3, <2>1, ResolvedKey, DeviceAssumption DEF TypeOK, LocksType, Labels,
       LockEager, Take
  <2>3. \A t \in Sessions : Shape(t)'
    BY <1>3, ResolvedKey, DeviceAssumption DEF TypeOK, Shape, Operating,
       LockEager, Take
  <2>4. Counted'
    BY <1>3 DEF TypeOK, Counted, Shape, LockEager, Take
  <2> QED BY <2>1, <2>2, <2>3, <2>4 DEF IInv
<1>4. ASSUME LockWaitCanceled(s) PROVE IInv'
  <2>1. LocksType' /\ Balance'
    BY <1>0, <1>4, LocksKeepBalance DEF LockWaitCanceled
  <2>2. TypeOK'
    BY <1>4, <2>1, ResolvedKey, DeviceAssumption DEF TypeOK, LocksType, Labels,
       LockWaitCanceled
  <2>3. \A t \in Sessions : Shape(t)'
    BY <1>4, ResolvedKey, DeviceAssumption DEF TypeOK, Shape, Operating,
       LockWaitCanceled
  <2>4. Counted'
    BY <1>4 DEF TypeOK, Counted, Shape, LockWaitCanceled
  <2> QED BY <2>1, <2>2, <2>3, <2>4 DEF IInv
<1>5. ASSUME NEW h \in holds[s], BackOut(s, h) PROVE IInv'
  <2>1. LocksType' /\ Balance'
    BY <1>0, <1>5, GiveBackKeepsBalance DEF BackOut
  <2>2. TypeOK'
    BY <1>5, <2>1, ResolvedKey, DeviceAssumption DEF TypeOK, LocksType, Labels,
       BackOut, GiveBack
  <2>3. \A t \in Sessions : Shape(t)'
    BY <1>5, ResolvedKey, DeviceAssumption DEF TypeOK, Shape, Operating, BackOut,
       GiveBack
  <2>4. Counted'
    BY <1>5 DEF TypeOK, Counted, Shape, BackOut, GiveBack
  <2> QED BY <2>1, <2>2, <2>3, <2>4 DEF IInv
<1>6. ASSUME BackOutUnpin(s) PROVE IInv'
  <2>1. LocksType' /\ Balance'
    BY <1>0, <1>6, LocksKeepBalance DEF BackOutUnpin
  <2>2. TypeOK'
    BY <1>6, <2>1, ResolvedKey, DeviceAssumption DEF TypeOK, LocksType, Labels,
       BackOutUnpin, PinLess, Gone
  <2>3. \A t \in Sessions : Shape(t)'
    BY <1>6, ResolvedKey, DeviceAssumption DEF TypeOK, Shape, Operating,
       BackOutUnpin, PinLess, Gone
  <2>4. Counted'
    BY <1>6 DEF TypeOK, Counted, Shape, BackOutUnpin, PinLess, Gone
  <2> QED BY <2>1, <2>2, <2>3, <2>4 DEF IInv
<1>7. ASSUME LocksHeld(s) PROVE IInv'
  <2>1. LocksType' /\ Balance'
    BY <1>0, <1>7, LocksKeepBalance DEF LocksHeld
  <2>2. TypeOK'
    BY <1>7, <2>1, ResolvedKey, DeviceAssumption DEF TypeOK, LocksType, Labels,
       LocksHeld, EagerKeys, Hold
  <2>3. \A t \in Sessions : Shape(t)'
    BY <1>7, ResolvedKey, DeviceAssumption DEF TypeOK, Shape, Operating,
       LocksHeld, EagerKeys, Hold
  <2>4. Counted'
    BY <1>7 DEF TypeOK, Counted, Shape, LocksHeld, EagerKeys, Hold
  <2> QED BY <2>1, <2>2, <2>3, <2>4 DEF IInv
<1> QED BY <1>1, <1>2, <1>3, <1>4, <1>5, <1>6, <1>7 DEF Starting

\* The ops of the plan.
LEMMA RunningKeepsInv ==
  ASSUME IInv, NEW s \in Sessions, Running(s)
  PROVE  IInv'
<1> USE DEF IInv, At, Goto, locks, registry, session
<1>0. LocksType
  BY TypeGivesLocks
<1>1. ASSUME NEW r \in needed[s], BeginOp(s, r) PROVE IInv'
  <2>1. LocksType' /\ Balance'
    BY <1>0, <1>1, LocksKeepBalance DEF BeginOp
  <2>now. PICK k \in Resolved(r) : GotKey(s, k)
    BY <1>1 DEF BeginOp
  <2>key. r \in Refs /\ k \in Keys
    BY <1>1, ResolvedKey DEF BeginOp, At, TypeOK, Shape
  <2>own. /\ pc' \in [Sessions -> Labels]
          /\ cur' \in [Sessions -> Keys \cup Refs \cup {0}]
          /\ pinned' \in [Sessions -> SUBSET Keys]
          /\ touched' \in [Sessions -> SUBSET Keys]
          /\ pins' \in [Keys -> Nat]
    <3>1. pc' \in [Sessions -> Labels] /\ cur' \in [Sessions -> Keys \cup Refs \cup {0}]
      BY <2>now, <2>key DEF GotKey, Goto, TypeOK, Labels
    <3>2. pinned' \in [Sessions -> SUBSET Keys] /\ touched' \in [Sessions -> SUBSET Keys]
      BY <2>now, <2>key DEF GotKey, TypeOK
    <3>3. pins' \in [Keys -> Nat]
      BY <2>now, <2>key DEF GotKey, PinMore, TypeOK
    <3> QED BY <3>1, <3>2, <3>3
  <2>2. TypeOK'
    <3>1. /\ ops' \in [Sessions -> 0 .. MaxOps]
          /\ UNCHANGED <<attached, flaps, specs, cached, refs, quarantined,
                         needed, todo, eager, locked, released, canceled>>
      BY <1>1, DeviceAssumption DEF TypeOK, BeginOp
    <3> QED BY <2>1, <2>own, <3>1 DEF TypeOK, LocksType
  <2>3. \A t \in Sessions : Shape(t)'
    <3>1. Shape(s)'
      BY <1>1, <2>now, <2>key DEF TypeOK, Shape, Operating, BeginOp, GotKey,
         PinMore
    <3>2. ASSUME NEW t \in Sessions, t # s PROVE Shape(t)'
      BY <1>1, <3>2, <2>now, <2>key DEF TypeOK, Shape, Operating, BeginOp, GotKey,
         PinMore
    <3> QED BY <3>1, <3>2
  <2>4. Counted'
    BY <1>1 DEF TypeOK, Counted, Shape, BeginOp, GotKey, PinMore
  <2> QED BY <2>1, <2>2, <2>3, <2>4 DEF IInv
<1>2. ASSUME NEW r \in needed[s], BeginOpReprobe(s, r) PROVE IInv'
  <2>1. LocksType' /\ Balance'
    BY <1>0, <1>2, LocksKeepBalance DEF BeginOpReprobe
  <2>now. r \in Refs
    BY <1>2 DEF TypeOK
  <2>key. /\ specs' \subseteq Keys /\ cached' \subseteq Keys
          /\ UNCHANGED <<pins, refs, quarantined>>
    BY <1>2 DEF BeginOpReprobe, Rescan, TypeOK
  <2>own. /\ pc' \in [Sessions -> Labels]
          /\ cur' \in [Sessions -> Keys \cup Refs \cup {0}]
    BY <1>2, <2>now DEF BeginOpReprobe, Goto, TypeOK, Labels
  <2>2. TypeOK'
    BY <1>2, <2>1, <2>key, <2>own, DeviceAssumption DEF TypeOK, LocksType,
       BeginOpReprobe
  <2>3. \A t \in Sessions : Shape(t)'
    BY <1>2, ResolvedKey, DeviceAssumption DEF TypeOK, Shape, Operating,
       BeginOpReprobe, Rescan, Evicted
  <2>4. Counted'
    BY <1>2 DEF TypeOK, Counted, Shape, BeginOpReprobe, Rescan, Evicted
  <2> QED BY <2>1, <2>2, <2>3, <2>4 DEF IInv
<1>3. ASSUME Relook(s) PROVE IInv'
  <2>1. LocksType' /\ Balance'
    BY <1>0, <1>3, LocksKeepBalance DEF Relook
  <2>now. PICK k \in Resolved(cur[s]) : GotKey(s, k)
    BY <1>3 DEF Relook
  <2>key. cur[s] \in Refs /\ k \in Keys
    BY <1>3, ResolvedKey DEF Relook, At, TypeOK, Shape
  <2>own. /\ pc' \in [Sessions -> Labels]
          /\ cur' \in [Sessions -> Keys \cup Refs \cup {0}]
          /\ pinned' \in [Sessions -> SUBSET Keys]
          /\ touched' \in [Sessions -> SUBSET Keys]
          /\ pins' \in [Keys -> Nat]
    <3>1. pc' \in [Sessions -> Labels] /\ cur' \in [Sessions -> Keys \cup Refs \cup {0}]
      BY <2>now, <2>key DEF GotKey, Goto, TypeOK, Labels
    <3>2. pinned' \in [Sessions -> SUBSET Keys] /\ touched' \in [Sessions -> SUBSET Keys]
      BY <2>now, <2>key DEF GotKey, TypeOK
    <3>3. pins' \in [Keys -> Nat]
      BY <2>now, <2>key DEF GotKey, PinMore, TypeOK
    <3> QED BY <3>1, <3>2, <3>3
  <2>2. TypeOK'
    <3>1. /\ ops' \in [Sessions -> 0 .. MaxOps]
          /\ UNCHANGED <<attached, flaps, specs, cached, refs, quarantined,
                         needed, todo, eager, locked, released, canceled>>
      BY <1>3, DeviceAssumption DEF TypeOK, Relook
    <3> QED BY <2>1, <2>own, <3>1 DEF TypeOK, LocksType
  <2>3. \A t \in Sessions : Shape(t)'
    <3>1. Shape(s)'
      <4>1. /\ pc[s] = "relook" /\ UNCHANGED <<holds, eager, locked>> /\ cur'[s] = k
            /\ IF k \in locked[s] THEN pc'[s] = "acquire" ELSE pc'[s] = "wait"
        BY <1>3, <2>now DEF TypeOK, Relook, GotKey, At, Goto
      <4> QED BY <2>key, <4>1 DEF Shape, Operating
    <3>2. ASSUME NEW t \in Sessions, t # s PROVE Shape(t)'
      BY <1>3, <3>2, <2>now, <2>key DEF TypeOK, Shape, Operating, Relook, GotKey,
         PinMore
    <3> QED BY <3>1, <3>2
  <2>4. Counted'
    BY <1>3 DEF TypeOK, Counted, Shape, Relook, GotKey, PinMore
  <2> QED BY <2>1, <2>2, <2>3, <2>4 DEF IInv
<1>4. ASSUME OpMisses(s) PROVE IInv'
  <2>1. LocksType' /\ Balance'
    BY <1>0, <1>4, LocksKeepBalance DEF OpMisses, OpEnds
  <2>2. TypeOK'
    BY <1>4, <2>1, ResolvedKey, DeviceAssumption DEF TypeOK, LocksType, Labels,
       OpMisses, OpEnds
  <2>3. \A t \in Sessions : Shape(t)'
    BY <1>4, ResolvedKey, DeviceAssumption DEF TypeOK, Shape, Operating, OpMisses,
       OpEnds
  <2>4. Counted'
    BY <1>4 DEF TypeOK, Counted, Shape, OpMisses, OpEnds
  <2> QED BY <2>1, <2>2, <2>3, <2>4 DEF IInv
<1>5. ASSUME LockLate(s) PROVE IInv'
  <2>now. OpHold("late", cur[s]) \in Hold \ holds[s] /\ Take(s, OpHold("late",
     cur[s]))
    BY <1>5 DEF LockLate, TypeOK, Shape, Operating, OpHold, Hold, Opened, HoldsOf,
       At
  <2>1. LocksType' /\ Balance'
    BY <1>0, <2>now, TakeKeepsBalance
  <2>2. TypeOK'
    BY <1>5, <2>1, ResolvedKey, DeviceAssumption DEF TypeOK, LocksType, Labels,
       LockLate, Take, OpHold
  <2>3. \A t \in Sessions : Shape(t)'
    <3>1. Shape(s)'
      <4>1. /\ holds'[s] = holds[s] \cup {OpHold("late", cur[s])}
            /\ locked'[s] = locked[s] \cup {cur[s]}
            /\ pc[s] = "wait" /\ pc'[s] = "acquire"
            /\ UNCHANGED <<cur, eager>>
        BY <1>5 DEF LockLate, Take, TypeOK, At, Goto
      <4>2. OpHold("late", cur[s]).why = "late" /\ OpHold("late", cur[s]).key =
         cur[s]
        BY DEF OpHold
      <4> QED BY <4>1, <4>2 DEF Shape, Operating
    <3>2. ASSUME NEW t \in Sessions, t # s PROVE Shape(t)'
      BY <1>5, <3>2 DEF TypeOK, Shape, Operating, LockLate, Take, OpHold
    <3> QED BY <3>1, <3>2
  <2>4. Counted'
    BY <1>5 DEF TypeOK, Counted, Shape, LockLate, Take, OpHold
  <2> QED BY <2>1, <2>2, <2>3, <2>4 DEF IInv
<1>6. ASSUME LateWaitCanceled(s) PROVE IInv'
  <2>1. LocksType' /\ Balance'
    BY <1>0, <1>6, LocksKeepBalance DEF LateWaitCanceled, OpEnds
  <2>2. TypeOK'
    BY <1>6, <2>1, ResolvedKey, DeviceAssumption DEF TypeOK, LocksType, Labels,
       LateWaitCanceled, OpEnds
  <2>3. \A t \in Sessions : Shape(t)'
    BY <1>6, ResolvedKey, DeviceAssumption DEF TypeOK, Shape, Operating,
       LateWaitCanceled, OpEnds
  <2>4. Counted'
    BY <1>6 DEF TypeOK, Counted, Shape, LateWaitCanceled, OpEnds
  <2> QED BY <2>1, <2>2, <2>3, <2>4 DEF IInv
<1>7. ASSUME NEW verb \in {"open", "op"}, OpOnOpenKey(s, verb) PROVE IInv'
  <2>1. LocksType' /\ Balance'
    BY <1>0, <1>7, LocksKeepBalance DEF OpOnOpenKey, OpEnds
  <2>2. TypeOK'
    BY <1>7, <2>1, ResolvedKey, DeviceAssumption DEF TypeOK, LocksType, Labels,
       OpOnOpenKey, OpEnds
  <2>3. \A t \in Sessions : Shape(t)'
    <3>1. Shape(s)'
      BY <1>7 DEF TypeOK, Shape, Operating, OpOnOpenKey, OpEnds
    <3>2. ASSUME NEW t \in Sessions, t # s PROVE Shape(t)'
      BY <1>7, <3>2 DEF TypeOK, Shape, Operating, OpOnOpenKey, OpEnds
    <3> QED BY <3>1, <3>2
  <2>4. Counted'
    BY <1>7 DEF TypeOK, Counted, Shape, OpOnOpenKey, OpEnds
  <2> QED BY <2>1, <2>2, <2>3, <2>4 DEF IInv
<1>8. ASSUME CloseVerb(s) PROVE IInv'
  <2>1. LocksType' /\ Balance'
    <3>1. CASE OpHold("open", cur[s]) \in holds[s]
      BY <1>0, <1>8, <3>1, GiveBackKeepsBalance DEF CloseVerb, Exit, Opened,
         HoldsOf, OpHold
    <3>2. CASE OpHold("open", cur[s]) \notin holds[s]
      BY <1>0, <1>8, <3>2, LocksKeepBalance DEF CloseVerb, Opened, HoldsOf,
         OpHold, TypeOK, Hold
    <3> QED BY <3>1, <3>2
  <2>now. refs' \in [Keys -> Nat] /\ Counted'
    <3>1. CASE OpHold("open", cur[s]) \in holds[s]
      <4>1. Exit(s, OpHold("open", cur[s])) /\ OpHold("open", cur[s]).why \in
         {"open", "op"}
        BY <1>8, <3>1 DEF CloseVerb, Opened, HoldsOf, OpHold
      <4> QED BY <3>1, <4>1, ExitKeepsCount
    <3>2. CASE OpHold("open", cur[s]) \notin holds[s]
      <4>1. UNCHANGED <<cached, refs, locks>>
        BY <1>8, <3>2 DEF CloseVerb, Opened, HoldsOf, OpHold, TypeOK, Hold
      <4> QED BY <4>1 DEF TypeOK, Counted
    <3> QED BY <3>1, <3>2
  <2>2. TypeOK'
    <3>1. cached' = cached
      BY <1>8 DEF CloseVerb, Exit
    <3> QED BY <1>8, <2>now, <2>1, <3>1 DEF TypeOK, LocksType, Labels, CloseVerb,
       OpEnds, OpHold
  <2>3. \A t \in Sessions : Shape(t)'
    BY <1>8, ResolvedKey, DeviceAssumption DEF TypeOK, Shape, Operating,
       CloseVerb, Exit, OpEnds, GiveBack, OpHold
  <2> QED BY <2>now, <2>1, <2>2, <2>3 DEF IInv
<1>9. ASSUME AcquireRefused(s) PROVE IInv'
  <2>1. LocksType' /\ Balance'
    BY <1>0, <1>9, LocksKeepBalance DEF AcquireRefused, OpEnds
  <2>2. TypeOK'
    BY <1>9, <2>1, ResolvedKey, DeviceAssumption DEF TypeOK, LocksType, Labels,
       AcquireRefused, OpEnds
  <2>3. \A t \in Sessions : Shape(t)'
    BY <1>9, ResolvedKey, DeviceAssumption DEF TypeOK, Shape, Operating,
       AcquireRefused, OpEnds
  <2>4. Counted'
    BY <1>9 DEF TypeOK, Counted, Shape, AcquireRefused, OpEnds
  <2> QED BY <2>1, <2>2, <2>3, <2>4 DEF IInv
<1>10. ASSUME NEW verb \in {"open", "op"}, Acquire(s, verb) PROVE IInv'
  <2>now. OpHold(verb, cur[s]) \in Hold \ holds[s] /\ Take(s, OpHold(verb,
     cur[s]))
    BY <1>10 DEF Acquire, TypeOK, Shape, Operating, OpHold, Hold, Opened, HoldsOf,
       At
  <2>1. LocksType' /\ Balance'
    BY <1>0, <2>now, TakeKeepsBalance
  <2>2. TypeOK'
    <3>1. /\ refs \in [Keys -> Nat] /\ cached \subseteq Keys /\ pc \in [Sessions -> Labels]
          /\ cur \in [Sessions -> Keys \cup Refs \cup {0}]
      BY DEF TypeOK
    <3>2. /\ refs' = refs \/ (cur[s] \in cached /\ refs' = [refs EXCEPT ![cur[s]] = @ + 1])
          /\ \E l \in {"run", "use", "opening"} : pc' = [pc EXCEPT ![s] = l]
          /\ cur' = cur \/ cur' = [cur EXCEPT ![s] = 0]
      BY <1>10 DEF Acquire, HandleReady, Goto
    <3>3. refs' \in [Keys -> Nat]
      BY <3>1, <3>2
    <3>4. pc' \in [Sessions -> Labels]
      BY <3>1, <3>2 DEF Labels
    <3>5. cur' \in [Sessions -> Keys \cup Refs \cup {0}]
      BY <3>1, <3>2
    <3> QED BY <1>10, <2>1, <3>3, <3>4, <3>5 DEF TypeOK, LocksType, Acquire
  <2>3. \A t \in Sessions : Shape(t)'
    BY <1>10, ResolvedKey, DeviceAssumption DEF TypeOK, Shape, Operating, Acquire,
       Take, HandleReady, OpHold, Opened, HoldsOf
  <2>4. Counted'
    BY <1>10 DEF TypeOK, Counted, Shape, Acquire, Take, HandleReady, OpHold,
       Opened, HoldsOf
  <2> QED BY <2>1, <2>2, <2>3, <2>4 DEF IInv
<1>11. ASSUME NEW h \in holds[s], Opens(s, h) PROVE IInv'
  <2>1. LocksType' /\ Balance'
    BY <1>0, <1>11, LocksKeepBalance DEF Opens
  <2>now. cur[s] \in Keys
    BY <1>11, HoldKey DEF Opens, TypeOK
  <2>2. TypeOK'
    <3>1. /\ cached' \subseteq Keys /\ refs' \in [Keys -> Nat]
          /\ pc' \in [Sessions -> Labels]
          /\ cur' \in [Sessions -> Keys \cup Refs \cup {0}]
      BY <1>11, <2>now DEF TypeOK, Labels, Opens, HandleReady, Goto
    <3> QED BY <1>11, <2>1, <3>1 DEF TypeOK, LocksType, Opens
  <2>3. \A t \in Sessions : Shape(t)'
    BY <1>11, ResolvedKey, DeviceAssumption DEF TypeOK, Shape, Operating, Opens,
       HandleReady, HoldsOf
  <2>4. Counted'
    BY <1>11 DEF TypeOK, Counted, Shape, Opens, HandleReady, HoldsOf
  <2> QED BY <2>1, <2>2, <2>3, <2>4 DEF IInv
<1>12. ASSUME NEW h \in holds[s], NEW hung \in BOOLEAN, OpenFails(s, h, hung)
   PROVE IInv'
  <2>1. LocksType' /\ Balance'
    BY <1>0, <1>12, GiveBackKeepsBalance DEF OpenFails
  <2>now. cur[s] \in Keys
    BY <1>12, HoldKey DEF OpenFails, TypeOK
  <2>2. TypeOK'
    <3>1. /\ quarantined' \subseteq Keys
          /\ pc' \in [Sessions -> Labels]
          /\ cur' \in [Sessions -> Keys \cup Refs \cup {0}]
      BY <1>12, <2>now DEF TypeOK, Labels, OpenFails, OpEnds, Goto
    <3> QED BY <1>12, <2>1, <3>1 DEF TypeOK, LocksType, OpenFails, OpEnds
  <2>3. \A t \in Sessions : Shape(t)'
    <3>1. Shape(s)'
      <4>0. Shape(s)
        OBVIOUS
      <4>1. /\ pc'[s] = "run" /\ UNCHANGED <<locked, eager>>
            /\ pc[s] \in {"opening", "use"}
            /\ holds'[s] \subseteq holds[s]
            /\ \A g \in holds[s] \ holds'[s] : g.why \in {"open", "op"}
        BY <1>12 DEF OpenFails, OpEnds, GiveBack, HoldsOf, TypeOK, At, Goto, locks
      <4>2. ASSUME NEW g \in holds'[s], g.why = "op" PROVE FALSE
        <5>1. g \in Hold /\ g \in holds[s] /\ g.key = cur[s]
          BY <4>0, <4>1, <4>2 DEF Shape, TypeOK
        <5>2. g = OpHold("op", cur[s])
          BY <5>1, <4>2 DEF Hold, OpHold
        <5>3. h \in Hold /\ h.key = cur[s] /\ h.why \in {"open", "op"} /\ h \notin
           holds'[s]
          BY <1>12 DEF OpenFails, HoldsOf, GiveBack, TypeOK
        <5>4. h.why = "op" => h = g
          BY <5>1, <5>2, <5>3 DEF Hold, OpHold
        <5> QED BY <5>1, <5>3, <5>4, <4>0, <4>2 DEF Shape
      <4> QED BY <4>0, <4>1, <4>2 DEF Shape, Operating
    <3>2. ASSUME NEW t \in Sessions, t # s PROVE Shape(t)'
      BY <1>12, <3>2, <2>now DEF TypeOK, Shape, Operating, OpenFails, OpEnds,
         GiveBack, HoldsOf
    <3> QED BY <3>1, <3>2
  <2>4. Counted'
    BY <1>12 DEF TypeOK, Counted, Shape, OpenFails, OpEnds, GiveBack, HoldsOf
  <2> QED BY <2>1, <2>2, <2>3, <2>4 DEF IInv
<1>13. ASSUME UseEnds(s) PROVE IInv'
  <2>1. LocksType' /\ Balance'
    <3>1. CASE OpHold("op", cur[s]) \in holds[s]
      BY <1>0, <1>13, <3>1, GiveBackKeepsBalance DEF UseEnds, Exit, Opened,
         HoldsOf, OpHold
    <3>2. CASE OpHold("op", cur[s]) \notin holds[s]
      BY <1>0, <1>13, <3>2, LocksKeepBalance DEF UseEnds, Opened, HoldsOf, OpHold,
         TypeOK, Hold
    <3> QED BY <3>1, <3>2
  <2>now. refs' \in [Keys -> Nat] /\ Counted'
    <3>1. CASE OpHold("op", cur[s]) \in holds[s]
      <4>1. Exit(s, OpHold("op", cur[s])) /\ OpHold("op", cur[s]).why \in {"open",
         "op"}
        BY <1>13, <3>1 DEF UseEnds, Opened, HoldsOf, OpHold
      <4> QED BY <3>1, <4>1, ExitKeepsCount
    <3>2. CASE OpHold("op", cur[s]) \notin holds[s]
      <4>1. UNCHANGED <<cached, refs, locks>>
        BY <1>13, <3>2 DEF UseEnds, Opened, HoldsOf, OpHold, TypeOK, Hold
      <4> QED BY <4>1 DEF TypeOK, Counted
    <3> QED BY <3>1, <3>2
  <2>2. TypeOK'
    <3>1. cached' = cached
      BY <1>13 DEF UseEnds, Exit
    <3> QED BY <1>13, <2>now, <2>1, <3>1 DEF TypeOK, LocksType, Labels, UseEnds,
       OpEnds, OpHold
  <2>3. \A t \in Sessions : Shape(t)'
    <3>1. Shape(s)'
      <4>0. Shape(s)
        OBVIOUS
      <4>1. /\ pc'[s] = "run" /\ UNCHANGED <<locked, eager>>
            /\ pc[s] \in {"opening", "use"}
            /\ holds'[s] \subseteq holds[s]
            /\ \A g \in holds[s] \ holds'[s] : g.why \in {"open", "op"}
        BY <1>13 DEF UseEnds, Exit, OpEnds, GiveBack, OpHold, TypeOK, At, Goto,
           locks
      <4>2. ASSUME NEW g \in holds'[s], g.why = "op" PROVE FALSE
        <5>1. g \in Hold /\ g \in holds[s] /\ g.key = cur[s]
          BY <4>0, <4>1, <4>2 DEF Shape, TypeOK
        <5>2. g = OpHold("op", cur[s])
          BY <5>1, <4>2 DEF Hold, OpHold
        <5> QED BY <1>13, <5>1, <5>2 DEF UseEnds, Exit, GiveBack, TypeOK
      <4> QED BY <4>0, <4>1, <4>2 DEF Shape, Operating
    <3>2. ASSUME NEW t \in Sessions, t # s PROVE Shape(t)'
      BY <1>13, <3>2, <2>now DEF TypeOK, Shape, Operating, UseEnds, Exit, OpEnds,
         GiveBack, OpHold
    <3> QED BY <3>1, <3>2
  <2> QED BY <2>now, <2>1, <2>2, <2>3 DEF IInv
<1> QED BY <1>1, <1>2, <1>3, <1>4, <1>5, <1>6, <1>7, <1>8, <1>9, <1>10, <1>11,
   <1>12, <1>13 DEF Running

\* The finally block.
LEMMA FinishingKeepsInv ==
  ASSUME IInv, NEW s \in Sessions, Finishing(s)
  PROVE  IInv'
<1> USE DEF IInv, At, Goto, locks, registry, session
<1>0. LocksType
  BY TypeGivesLocks
<1>1. ASSUME RunEnds(s) PROVE IInv'
  <2>1. LocksType' /\ Balance'
    BY <1>0, <1>1, LocksKeepBalance DEF RunEnds
  <2>2. TypeOK'
    BY <1>1, <2>1, ResolvedKey, DeviceAssumption DEF TypeOK, LocksType, Labels,
       RunEnds
  <2>3. \A t \in Sessions : Shape(t)'
    BY <1>1, ResolvedKey, DeviceAssumption DEF TypeOK, Shape, Operating, RunEnds
  <2>4. Counted'
    BY <1>1 DEF TypeOK, Counted, Shape, RunEnds
  <2> QED BY <2>1, <2>2, <2>3, <2>4 DEF IInv
<1>2. ASSUME NEW h \in holds[s], ExitOpened(s, h) PROVE IInv'
  <2>1. LocksType' /\ Balance'
    BY <1>0, <1>2, GiveBackKeepsBalance DEF ExitOpened, Exit
  <2>now. refs' \in [Keys -> Nat] /\ Counted'
    BY <1>2, ExitKeepsCount DEF ExitOpened, HoldsOf
  <2>2. TypeOK'
    <3>1. cached' = cached
      BY <1>2 DEF ExitOpened, Exit
    <3> QED BY <1>2, <2>now, <2>1, <3>1 DEF TypeOK, LocksType, Labels, ExitOpened,
       HoldsOf
  <2>3. \A t \in Sessions : Shape(t)'
    BY <1>2, ResolvedKey, DeviceAssumption DEF TypeOK, Shape, Operating,
       ExitOpened, Exit, GiveBack, HoldsOf
  <2> QED BY <2>now, <2>1, <2>2, <2>3 DEF IInv
<1>3. ASSUME NEW k \in touched[s], CloseTouched(s, k) PROVE IInv'
  <2>1. LocksType' /\ Balance'
    BY <1>0, <1>3, LocksKeepBalance DEF CloseTouched
  <2>2. TypeOK'
    BY <1>3, <2>1, ResolvedKey, DeviceAssumption DEF TypeOK, LocksType, Labels,
       CloseTouched, ReleaseNow
  <2>3. \A t \in Sessions : Shape(t)'
    BY <1>3, ResolvedKey, DeviceAssumption DEF TypeOK, Shape, Operating,
       CloseTouched, ReleaseNow
  <2>4. Counted'
    BY <1>3 DEF TypeOK, Counted, Shape, CloseTouched, ReleaseNow
  <2> QED BY <2>1, <2>2, <2>3, <2>4 DEF IInv
<1>4. ASSUME NEW h \in holds[s], DropTouched(s, h) PROVE IInv'
  <2>1. LocksType' /\ Balance'
    BY <1>0, <1>4, GiveBackKeepsBalance DEF DropTouched
  <2>2. TypeOK'
    BY <1>4, <2>1, ResolvedKey, DeviceAssumption DEF TypeOK, LocksType, Labels,
       DropTouched, GiveBack, HoldsOf
  <2>3. \A t \in Sessions : Shape(t)'
    BY <1>4, ResolvedKey, DeviceAssumption DEF TypeOK, Shape, Operating,
       DropTouched, GiveBack, HoldsOf
  <2>4. Counted'
    BY <1>4 DEF TypeOK, Counted, Shape, DropTouched, GiveBack, HoldsOf
  <2> QED BY <2>1, <2>2, <2>3, <2>4 DEF IInv
<1>5. ASSUME Unpin(s) PROVE IInv'
  <2>1. LocksType' /\ Balance'
    BY <1>0, <1>5, LocksKeepBalance DEF Unpin
  <2>2. TypeOK'
    BY <1>5, <2>1, ResolvedKey, DeviceAssumption DEF TypeOK, LocksType, Labels,
       Unpin, PinLess
  <2>3. \A t \in Sessions : Shape(t)'
    BY <1>5, ResolvedKey, DeviceAssumption DEF TypeOK, Shape, Operating, Unpin,
       PinLess
  <2>4. Counted'
    BY <1>5 DEF TypeOK, Counted, Shape, Unpin, PinLess
  <2> QED BY <2>1, <2>2, <2>3, <2>4 DEF IInv
<1>6. ASSUME NEW h \in holds[s], ReleaseRest(s, h) PROVE IInv'
  <2>1. LocksType' /\ Balance'
    BY <1>0, <1>6, GiveBackKeepsBalance DEF ReleaseRest
  <2>2. TypeOK'
    BY <1>6, <2>1, ResolvedKey, DeviceAssumption DEF TypeOK, LocksType, Labels,
       ReleaseRest, GiveBack, Unreleased, HoldsOf
  <2>3. \A t \in Sessions : Shape(t)'
    BY <1>6, ResolvedKey, DeviceAssumption DEF TypeOK, Shape, Operating,
       ReleaseRest, GiveBack, Unreleased, HoldsOf
  <2>4. Counted'
    BY <1>6 DEF TypeOK, Counted, Shape, ReleaseRest, GiveBack, Unreleased, HoldsOf
  <2> QED BY <2>1, <2>2, <2>3, <2>4 DEF IInv
<1>7. ASSUME SessionEnded(s) PROVE IInv'
  <2>1. LocksType' /\ Balance'
    BY <1>0, <1>7, LocksKeepBalance DEF SessionEnded
  <2>2. TypeOK'
    BY <1>7, <2>1, ResolvedKey, DeviceAssumption DEF TypeOK, LocksType, Labels,
       SessionEnded, Gone
  <2>3. \A t \in Sessions : Shape(t)'
    BY <1>7, ResolvedKey, DeviceAssumption DEF TypeOK, Shape, Operating,
       SessionEnded, Gone
  <2>4. Counted'
    BY <1>7 DEF TypeOK, Counted, Shape, SessionEnded, Gone
  <2> QED BY <2>1, <2>2, <2>3, <2>4 DEF IInv
<1> QED BY <1>1, <1>2, <1>3, <1>4, <1>5, <1>6, <1>7 DEF Finishing

\* A step of any kind.
LEMMA NextKeepsInv == IInv /\ [Next]_vars => IInv'
<1> SUFFICES ASSUME IInv, [Next]_vars PROVE IInv'
  OBVIOUS
<1>1. CASE UNCHANGED vars
  BY <1>1 DEF IInv, TypeOK, Balance, Holding, Shape, Counted, vars, registry,
     locks,
              session
<1>2. CASE AllDone
  BY <1>1, <1>2 DEF AllDone
<1>3. ASSUME NEW k \in Keys, Plug(k) PROVE IInv'
  BY <1>3, PlugKeepsInv
<1>4. ASSUME NEW k \in MarkerKeys, ReleaseMarker(k) PROVE IInv'
  BY <1>4, MarkerKeepsInv
<1>5. CASE Refresh
  BY <1>5, RefreshKeepsInv
<1>6. ASSUME NEW s \in Sessions,
             (\E R \in SUBSET Refs : Start(s, R)) \/ Cancel(s) \/ Watchdog(s)
      PROVE  IInv'
  BY <1>6, OutsideKeepsInv
<1>7. ASSUME NEW s \in Sessions, SessionStep(s) PROVE IInv'
  BY <1>7, StartingKeepsInv, RunningKeepsInv, FinishingKeepsInv DEF SessionStep
<1> QED BY <1>1, <1>2, <1>3, <1>4, <1>5, <1>6, <1>7 DEF Next

\* TypeOK holds in every reachable state, for every bench: no RLock is released
\* more often than it was taken, no handle is counted below zero (session.py
\* 464-734, registry.py 406-522).
THEOREM TypeCorrect == Spec => []TypeOK
<1>1. IInv => TypeOK
  BY DEF IInv
<1> QED BY <1>1, InitInv, NextKeepsInv, PTL DEF Spec

\* JobAtomic holds in every reachable state, for every bench and every plan: a
\* session owns all its devices from its first op to its last (session.py
\* 469-486 and 559-570).
THEOREM JobAtomicity == Spec => []JobAtomic
<1>1. IInv => JobAtomic
  BY DEF IInv, Balance, Shape, JobAtomic, TypeOK
<1> QED BY <1>1, InitInv, NextKeepsInv, PTL DEF Spec

-----------------------------------------------------------------------------
(* The eager locks *)

Early == {"idle", "resolve", "lock"}

\* A session resolves each reference once, to one device, and while it acquires
\* the locks those it has are of references before those it still wants.
Rising(s) ==
    /\ At(s, "idle") => eager[s] = {}
    /\ At(s, "resolve") => \A h \in eager[s] : h.ref \notin todo[s]
    /\ At(s, "lock") => /\ holds[s] \subseteq eager[s]
                       /\ \A g \in holds[s], h \in eager[s] \ holds[s] : g.ref <= h.ref
    /\ \A h \in eager[s] : h.key \in Targets[h.ref]
    /\ \A h, g \in eager[s] : h.ref = g.ref => h = g

\* A step leaves a session where it is, or its eager locks are all acquired.
Same(s)    == /\ pc'[s] = pc[s] /\ holds'[s] = holds[s]
              /\ eager'[s] = eager[s] /\ todo'[s] = todo[s]
Settled(s) == pc'[s] \notin Early /\ eager'[s] \in {eager[s], {}}
Alone(s)   == \A t \in Sessions \ {s} : Same(t)

\* Either keeps the order.
LEMMA StaysRising ==
  ASSUME NEW s, Rising(s), Same(s) \/ Settled(s)
  PROVE  Rising(s)'
<1>1. CASE Same(s)
  BY <1>1 DEF Same, Rising, At
<1>2. CASE Settled(s)
  BY <1>2 DEF Settled, Rising, At, Early
<1> QED BY <1>1, <1>2

\* A reference resolves to at most one device, one it can mean.
LEMMA ResolvesToOne ==
  ASSUME TypeOK, NEW r \in Refs
  PROVE  Resolved(r) \subseteq Targets[r] /\ \A j, k \in Resolved(r) : j = k
<1> DEFINE C == Targets[r] \cap specs
<1>1. IsFiniteSet(Keys) /\ C \in SUBSET Keys /\ C \ AnyKeys \in SUBSET Keys
  BY DeviceAssumption DEF TypeOK
<1>2. IsFiniteSet(C) /\ IsFiniteSet(C \ AnyKeys)
  BY <1>1, FS_Subset
<1>3. \A D : IsFiniteSet(D) /\ Cardinality(D) = 1 => \A j, k \in D : j = k
  <2> SUFFICES ASSUME NEW D, IsFiniteSet(D), Cardinality(D) = 1 PROVE \A j, k \in D : j = k
    OBVIOUS
  <2>1. PICK x : D = {x}
    BY FS_Singleton
  <2> QED BY <2>1
<1>4. \/ Resolved(r) = C /\ Cardinality(C) = 1
      \/ Resolved(r) = C \ AnyKeys /\ Cardinality(C \ AnyKeys) = 1
      \/ Resolved(r) = {}
  BY DEF Resolved
<1> QED BY <1>2, <1>3, <1>4

\* The steps before the ops.
LEMMA StartingRises ==
  ASSUME IInv, NEW s \in Sessions, Rising(s), Starting(s)
  PROVE  Rising(s)' /\ Alone(s)
<1> USE DEF At, Goto
<1>0. TypeOK /\ Shape(s)
  BY DEF IInv
<1>1. ASSUME NEW r \in todo[s], ResolveEager(s, r) PROVE Rising(s)' /\ Alone(s)
  <2> DEFINE new == {[why |-> "eager", ref |-> r, key |-> k] : k \in Resolved(r)}
  <2>1. r \in Refs /\ pc[s] = "resolve" /\ r \notin todo'[s] /\ todo'[s] \subseteq todo[s]
    BY <1>0, <1>1 DEF ResolveEager, TypeOK
  <2>2. eager'[s] = eager[s] \cup new /\ pc' = pc /\ Alone(s)
    BY <1>0, <1>1 DEF ResolveEager, TypeOK, Alone, Same, locks
  <2>3. /\ \A h \in new : h.ref = r /\ h.key \in Targets[r]
        /\ \A h, g \in new : h = g
    BY <1>0, <2>1, ResolvesToOne
  <2> HIDE DEF new
  <2>4. \A h \in eager[s] : h.ref # r
    BY <1>1, <2>1 DEF Rising
  <2>5. \A h, g \in eager'[s] : h.ref = g.ref => h = g
    BY <2>2, <2>3, <2>4 DEF Rising
  <2>6. \A h \in eager'[s] : h.key \in Targets[h.ref] /\ h.ref \notin todo'[s]
    BY <2>1, <2>2, <2>3 DEF Rising
  <2> QED BY <2>1, <2>2, <2>5, <2>6 DEF Rising
<1>2. CASE PinEager(s)
  <2>1. pc'[s] = "lock" /\ holds'[s] = {} /\ eager'[s] = eager[s] /\ Alone(s)
    BY <1>0, <1>2 DEF PinEager, TypeOK, Shape, Alone, Same, locks
  <2> QED BY <2>1 DEF Rising
<1>3. ASSUME NEW h \in eager[s], LockEager(s, h) PROVE Rising(s)' /\ Alone(s)
  <2>1. /\ pc' = pc /\ eager' = eager /\ Alone(s) /\ pc[s] = "lock"
        /\ holds'[s] = holds[s] \cup {h}
    BY <1>0, <1>3 DEF LockEager, Take, TypeOK, Alone, Same, session
  <2>2. h \in eager[s] \ holds[s] /\ \A g \in eager[s] \ holds[s] : h.ref <= g.ref
    BY <1>3 DEF LockEager
  <2> QED BY <2>1, <2>2 DEF Rising
<1>4. CASE LockWaitCanceled(s) \/ LocksHeld(s)
  <2>1. Settled(s) /\ Alone(s)
    BY <1>0, <1>4 DEF LockWaitCanceled, LocksHeld, TypeOK, Alone, Same, Settled, Early, locks
  <2> QED BY <2>1, StaysRising
<1>5. CASE \/ \E h \in holds[s] : BackOut(s, h)
           \/ BackOutUnpin(s)
  <2>1. Settled(s)
    BY <1>0, <1>5 DEF BackOut, BackOutUnpin, TypeOK, Settled, Gone, Early, session
  <2>2. Alone(s)
    BY <1>0, <1>5 DEF BackOut, BackOutUnpin, GiveBack, TypeOK, Alone, Same, Gone, locks, session
  <2> QED BY <2>1, <2>2, StaysRising
<1> QED BY <1>1, <1>2, <1>3, <1>4, <1>5 DEF Starting

\* An op that knows its key goes on.
LEMMA GotKeyGoesOn ==
  ASSUME TypeOK, NEW s \in Sessions, NEW k, GotKey(s, k), UNCHANGED <<holds, eager, todo>>
  PROVE  Settled(s) /\ Alone(s)
<1>1. pc' \in {[pc EXCEPT ![s] = "acquire"], [pc EXCEPT ![s] = "wait"]}
  BY DEF GotKey, Goto
<1>2. pc'[s] \in {"acquire", "wait"} /\ \A t \in Sessions \ {s} : pc'[t] = pc[t]
  BY <1>1 DEF TypeOK
<1> QED BY <1>2 DEF Settled, Early, Alone, Same

\* The ops,
LEMMA RunningSettles ==
  ASSUME TypeOK, NEW s \in Sessions, Running(s)
  PROVE  Settled(s) /\ Alone(s)
<1> USE DEF At, Goto, TypeOK, Settled, Early, Alone, Same, locks
<1>1. ASSUME NEW r \in needed[s], BeginOp(s, r) \/ BeginOpReprobe(s, r)
      PROVE  Settled(s) /\ Alone(s)
  <2>1. ASSUME NEW k, GotKey(s, k), BeginOp(s, r) PROVE Settled(s) /\ Alone(s)
    <3>1. UNCHANGED <<holds, eager, todo>>
      BY <2>1 DEF BeginOp
    <3> QED BY <2>1, <3>1, GotKeyGoesOn
  <2>2. CASE BeginOpReprobe(s, r)
    BY <2>2 DEF BeginOpReprobe
  <2> QED BY <1>1, <2>1, <2>2 DEF BeginOp
<1>2. CASE OpMisses(s)
  BY <1>2 DEF OpMisses, OpEnds
<1>3. CASE Relook(s)
  <2>1. PICK k : GotKey(s, k)
    BY <1>3 DEF Relook
  <2>2. UNCHANGED <<holds, eager, todo>>
    BY <1>3 DEF Relook
  <2> QED BY <2>1, <2>2, GotKeyGoesOn
<1>4. CASE LockLate(s)
  BY <1>4 DEF LockLate, Take
<1>5. CASE LateWaitCanceled(s) \/ AcquireRefused(s)
  BY <1>5 DEF LateWaitCanceled, AcquireRefused, OpEnds
<1>6. ASSUME NEW verb \in {"open", "op"}, OpOnOpenKey(s, verb) PROVE Settled(s) /\ Alone(s)
  BY <1>6 DEF OpOnOpenKey, OpEnds
<1>7. ASSUME NEW verb \in {"open", "op"}, Acquire(s, verb) PROVE Settled(s) /\ Alone(s)
  BY <1>7 DEF Acquire, HandleReady, Take
<1>8. CASE CloseVerb(s)
  BY <1>8 DEF CloseVerb, OpEnds, Exit, GiveBack
<1>9. ASSUME NEW h \in holds[s], Opens(s, h) PROVE Settled(s) /\ Alone(s)
  BY <1>9 DEF Opens, HandleReady
<1>10. ASSUME NEW h \in holds[s], NEW hung \in BOOLEAN, OpenFails(s, h, hung)
      PROVE  Settled(s) /\ Alone(s)
  BY <1>10 DEF OpenFails, OpEnds, GiveBack
<1>11. CASE UseEnds(s)
  BY <1>11 DEF UseEnds, OpEnds, Exit, GiveBack
<1> QED BY <1>1, <1>2, <1>3, <1>4, <1>5, <1>6, <1>7, <1>8, <1>9, <1>10, <1>11 DEF Running

\* and the end of the session are past them.
LEMMA FinishingSettles ==
  ASSUME TypeOK, NEW s \in Sessions, Finishing(s)
  PROVE  Settled(s) /\ Alone(s)
<1> USE DEF At, Goto, TypeOK, Settled, Early, Alone, Same, locks
<1>1. CASE RunEnds(s)
  BY <1>1 DEF RunEnds
<1>2. ASSUME NEW h \in holds[s], ExitOpened(s, h) PROVE Settled(s) /\ Alone(s)
  BY <1>2 DEF ExitOpened, Exit, GiveBack, session
<1>3. ASSUME NEW k \in touched[s], CloseTouched(s, k) PROVE Settled(s) /\ Alone(s)
  BY <1>3 DEF CloseTouched
<1>4. ASSUME NEW h \in holds[s], DropTouched(s, h) PROVE Settled(s) /\ Alone(s)
  BY <1>4 DEF DropTouched, GiveBack
<1>5. CASE Unpin(s)
  BY <1>5 DEF Unpin
<1>6. ASSUME NEW h \in holds[s], ReleaseRest(s, h) PROVE Settled(s) /\ Alone(s)
  BY <1>6 DEF ReleaseRest, GiveBack, session
<1>7. CASE SessionEnded(s)
  BY <1>7 DEF SessionEnded, Gone
<1> QED BY <1>1, <1>2, <1>3, <1>4, <1>5, <1>6, <1>7 DEF Finishing

\* Every step keeps the order.
LEMMA RisingNext ==
  ASSUME IInv, \A s \in Sessions : Rising(s), [Next]_vars
  PROVE  \A s \in Sessions : Rising(s)'
<1>0. TypeOK
  BY DEF IInv
<1>1. CASE \/ UNCHANGED vars \/ AllDone \/ Refresh
           \/ \E k \in Keys : Plug(k)
           \/ \E k \in MarkerKeys : ReleaseMarker(k)
  <2>1. \A s \in Sessions : Same(s)
    BY <1>1 DEF AllDone, Refresh, Plug, ReleaseMarker, Same, vars, locks, session
  <2> QED BY <2>1, StaysRising
<1>2. ASSUME NEW s \in Sessions, Cancel(s) \/ Watchdog(s) PROVE \A t \in Sessions : Rising(t)'
  <2>1. \A t \in Sessions : Same(t)
    BY <1>2 DEF Cancel, Watchdog, Canceling, Same, locks
  <2> QED BY <2>1, StaysRising
<1>3. ASSUME NEW s \in Sessions, Rising(s)' /\ Alone(s) PROVE \A t \in Sessions : Rising(t)'
  BY <1>3, StaysRising DEF Alone
<1>4. ASSUME NEW s \in Sessions, NEW R \in SUBSET Refs, Start(s, R)
      PROVE  \A t \in Sessions : Rising(t)'
  <2>1. pc'[s] = "resolve" /\ eager'[s] = {} /\ Alone(s)
    BY <1>0, <1>4 DEF Start, Rising, TypeOK, At, Goto, Alone, Same, locks
  <2>2. Rising(s)'
    BY <2>1 DEF Rising, At
  <2> QED BY <1>3, <2>1, <2>2
<1>5. ASSUME NEW s \in Sessions, SessionStep(s) PROVE \A t \in Sessions : Rising(t)'
  <2>1. CASE Starting(s)
    BY <1>3, <2>1, StartingRises
  <2>2. CASE Running(s) \/ Finishing(s)
    BY <1>0, <1>3, <2>2, RunningSettles, FinishingSettles, StaysRising
  <2> QED BY <1>5, <2>1, <2>2 DEF SessionStep
<1> QED BY <1>1, <1>2, <1>4, <1>5 DEF Next

\* A finite set of numbers has a greatest one: the one with fewest above it.
LEMMA GreatestNat ==
  ASSUME NEW T \in SUBSET Nat, IsFiniteSet(T), T # {}
  PROVE  \E n \in T : \A m \in T : m <= n
<1> DEFINE Above(n) == {m \in T : m > n}
           Counts   == {Cardinality(Above(n)) : n \in T}
<1>1. \A n \in T : IsFiniteSet(Above(n)) /\ Cardinality(Above(n)) \in Nat
  BY FS_Subset, FS_CardinalityType
<1>2. Counts \in SUBSET Nat /\ Counts # {}
  BY <1>1
<1>3. PICK c \in Counts : \A b \in Counts : <<b, c>> \notin OpToRel(<, Nat)
  BY <1>2, NatLessThanWellFounded, WFMin, Zenon
<1>4. PICK n \in T : c = Cardinality(Above(n))
  BY <1>3
<1>5. ASSUME NEW m \in T, m > n PROVE FALSE
  <2>1. Above(m) \in SUBSET Above(n) /\ m \in Above(n) /\ m \notin Above(m)
    <3>1. n \in Nat /\ T \subseteq Nat
      OBVIOUS
    <3>2. m > n /\ ~(m > m) /\ \A x \in T : x > m => x > n
      BY <1>5, <3>1
    <3> QED BY <3>2, Zenon
  <2>2. Cardinality(Above(m)) <= c /\ Cardinality(Above(m)) # c
    BY <1>1, <1>4, <2>1, FS_Subset
  <2>3. Cardinality(Above(m)) \in Nat /\ c \in Nat /\ Cardinality(Above(m)) \in Counts
    BY <1>1, <1>4
  <2> HIDE DEF Above, Counts
  <2>4. Cardinality(Above(m)) < c
    BY <2>2, <2>3
  <2>5. <<Cardinality(Above(m)), c>> \in OpToRel(<, Nat)
    BY <2>3, <2>4 DEF OpToRel
  <2> QED BY <1>3, <2>3, <2>5
<1> QED BY <1>5

\* Who waits for a lock whose owner waits, too, waits for a smaller key.
LEMMA WaitsForGreater ==
  ASSUME InOrder, IInv, \A s \in Sessions : Rising(s), NEW t \in Sessions, At(t, "lock"),
         NEW j \in Keys, owner[j] = t, NEW k \in Awaited(t), owner[k] # t
  PROVE  k \in Keys /\ j < k
<1>1. PICK h \in eager[t] \ holds[t] : h.key = k
  BY DEF Awaited
<1>2. PICK g \in holds[t] : g.key = j
  <2>1. depth[j] = Cardinality(Holding(t, j)) /\ depth[j] > 0
    BY DEF IInv, Balance
  <2>2. Holding(t, j) # {}
    BY <2>1, FS_EmptySet
  <2> QED BY <2>2 DEF Holding
<1>3. g \in eager[t] /\ g.ref <= h.ref /\ g.ref # h.ref
  BY <1>1, <1>2 DEF Rising
<1>4. j \in Targets[g.ref] /\ k \in Targets[h.ref]
  BY <1>1, <1>2, <1>3 DEF Rising
<1>5. g.ref \in Refs /\ h.ref \in Refs /\ k \in Keys
  <2>1. g \in Hold /\ h \in Hold /\ g.why = "eager" /\ h.why = "eager"
    BY <1>1, <1>3 DEF IInv, TypeOK, Shape
  <2>2. \A f \in Hold : f.key \in Keys /\ (f.why = "eager" => f.ref \in Refs)
    BY DEF Hold
  <2> QED BY <1>1, <2>1, <2>2
<1>6. g.ref < h.ref
  <2>1. g.ref \in Nat /\ h.ref \in Nat
    BY <1>5, DeviceAssumption
  <2> QED BY <1>3, <2>1
<1>7. j <= k
  BY <1>4, <1>5, <1>6 DEF InOrder
<1> QED BY <1>5, <1>7, DeviceAssumption

\* So in a circle there would be no greatest key anybody waits for.
LEMMA OrderBreaksCircles ==
  ASSUME InOrder, IInv, \A s \in Sessions : Rising(s)
  PROVE  NoCircle
<1> SUFFICES ASSUME NEW S \in SUBSET {s \in Sessions : At(s, "lock")}, S # {},
                    \A s \in S : \E k \in Awaited(s) : owner[k] \in S \ {s}
             PROVE  FALSE
  BY DEF NoCircle
<1> DEFINE T == {k \in Keys : \E s \in S : k \in Awaited(s) /\ owner[k] \in S \ {s}}
<1>1. \A s \in S : \A k \in Awaited(s) : k \in Keys
  BY HoldKey DEF Awaited, IInv, TypeOK
<1>2. T # {}
  BY <1>1
<1>3. T \in SUBSET Nat /\ IsFiniteSet(T)
  BY DeviceAssumption, FS_Subset
<1>4. PICK j \in T : \A k \in T : k <= j
  BY <1>2, <1>3, GreatestNat
<1>5. PICK t \in S : owner[j] = t
  BY <1>4
<1>6. PICK k \in Awaited(t) : owner[k] \in S \ {t}
  BY <1>5
<1>7. k \in T
  BY <1>1, <1>6
<1>8. j < k
  BY <1>4, <1>5, <1>6, WaitsForGreater
<1> QED BY <1>3, <1>4, <1>7, <1>8

\* NoCircle holds in every reachable state of every bench whose references are in
\* the order of its devices: any number of jobs that share any devices get their
\* eager locks without locking one another out (session.py 474-534).
THEOREM SortedLocksNoDeadlock ==
  ASSUME InOrder
  PROVE  Spec => []NoCircle
<1>1. Init => IInv /\ \A s \in Sessions : Rising(s)
  <2>1. Init => \A s \in Sessions : Rising(s)
    BY DEF Init, Rising, At
  <2> QED BY <2>1, InitInv
<1>2. IInv /\ (\A s \in Sessions : Rising(s)) /\ [Next]_vars
        => (IInv /\ \A s \in Sessions : Rising(s))'
  BY NextKeepsInv, RisingNext
<1>3. IInv /\ (\A s \in Sessions : Rising(s)) => NoCircle
  BY OrderBreaksCircles
<1> QED BY <1>1, <1>2, <1>3, PTL DEF Spec
=============================================================================
