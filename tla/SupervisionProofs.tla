------------------------- MODULE SupervisionProofs -------------------------
(***************************************************************************)
(* What Supervision promises for any number of pollers, any limits, and    *)
(* any number of crashes, hangs, kills and signals.                        *)
(***************************************************************************)
EXTENDS Supervision, TLAPS

Outcomes == {"silent", "fast", "late"}

SupRecord == [pc : SupPCs, hb : 0 .. Stale + 1, checked : BOOLEAN, stale : BOOLEAN,
              fast : 0 .. MaxFast - 1, ints : 0 .. 2,
              pend : SUBSET {"int", "term", "hup"}, log : Seq(Outcomes)]
WrkRecord == [st : {"none", "boot", "loop", "cleanup"}, hung : BOOLEAN, pipe : BOOLEAN,
              quiet : 0 .. Stale + 1, young : BOOLEAN, pend : BOOLEAN, rc : ExitCodes]

Types == sup \in [Pollers -> SupRecord] /\ wrk \in [Pollers -> WrkRecord]

\* A process of poller p holds the descriptor of the lock.
Holder(p) == Supervised(p) \/ Alive(p)
OneHolder == \A p, q \in Pollers : Holder(p) /\ Holder(q) => p = q

\* A supervisor that has read the pipe empty counts no longer a silence than
\* its worker has kept.
FairAge(p) ==
    sup[p].pc = "watch" /\ Alive(p) /\ ~wrk[p].pipe => sup[p].hb <= wrk[p].quiet

\* The count of fast failures is that of the last entries of the log.
FastTail(p) ==
    LET n == Len(sup[p].log) IN
    /\ n <= MaxFast /\ sup[p].fast <= n
    /\ \A i \in n - sup[p].fast + 1 .. n : sup[p].log[i] = "fast"

SInv == Types /\ OneHolder /\ \A p \in Pollers : FairAge(p) /\ FastTail(p)

-----------------------------------------------------------------------------
\* The records a poller starts from and ends with.
LEMMA Fresh ==
  /\ \A pc \in SupPCs, log \in Seq(Outcomes) : Supervisor(pc, log) \in SupRecord
  /\ \A st \in {"none", "boot"}, young \in BOOLEAN, rc \in ExitCodes :
         Worker(st, young, rc) \in WrkRecord
  /\ NoSup \in SupRecord /\ NoWorker \in WrkRecord
<1> USE SupervisionAssumption
<1>1. \A pc \in SupPCs, log \in Seq(Outcomes) : Supervisor(pc, log) \in SupRecord
  BY DEF Supervisor, SupRecord, SupPCs
<1>2. \A st \in {"none", "boot"}, young \in BOOLEAN, rc \in ExitCodes :
         Worker(st, young, rc) \in WrkRecord
  BY DEF Worker, WrkRecord, ExitCodes
<1>3. <<>> \in Seq(Outcomes) /\ "off" \in SupPCs /\ "none" \in ExitCodes
  BY DEF SupPCs, ExitCodes
<1> QED BY <1>1, <1>2, <1>3 DEF NoSup, NoWorker

\* A step of poller p alone that makes no process where there was none.
LEMMA OwnStep ==
  ASSUME SInv, NEW p \in Pollers, NEW r \in SupRecord, NEW w \in WrkRecord,
         sup' = [sup EXCEPT ![p] = r], wrk' = [wrk EXCEPT ![p] = w],
         r.pc # "off" \/ w.st # "none" => Holder(p),
         r.pc = "watch" /\ w.st # "none" /\ ~w.pipe => r.hb <= w.quiet,
         \/ r.log = sup[p].log /\ r.fast = sup[p].fast
         \/ r.log = <<>> /\ r.fast = 0
  PROVE  SInv'
<1> USE DEF SInv, Types
<1>1. Types'
  OBVIOUS
<1>2. /\ sup'[p] = r /\ wrk'[p] = w
      /\ \A q \in Pollers \ {p} : sup'[q] = sup[q] /\ wrk'[q] = wrk[q]
  OBVIOUS
<1>3. OneHolder'
  BY <1>2 DEF OneHolder, Holder, Supervised, Alive
<1>4. \A q \in Pollers : FairAge(q)'
  BY <1>2 DEF FairAge, Alive
<1>5. \A q \in Pollers : FastTail(q)'
  <2>1. ASSUME NEW q \in Pollers, q # p PROVE FastTail(q)'
    BY <1>2, <2>1 DEF FastTail
  <2>2. CASE r.log = sup[p].log /\ r.fast = sup[p].fast
    BY <1>2, <2>2 DEF FastTail
  <2>3. CASE r.log = <<>> /\ r.fast = 0
    BY <1>2, <2>3, SupervisionAssumption DEF FastTail
  <2> QED BY <2>1, <2>2, <2>3
<1> QED BY <1>1, <1>3, <1>4, <1>5

\* One more outcome in the log of poller p.
LEMMA Logged ==
  ASSUME SInv, NEW p \in Pollers, sup[p].pc = "judge"
  PROVE  LET log == LastFew(Append(sup[p].log, Outcome(p))) IN
         /\ log \in Seq(Outcomes) /\ log # <<>> /\ Len(log) <= MaxFast
         /\ FastFails(p) \in 0 .. MaxFast /\ FastFails(p) <= Len(log)
         /\ \A i \in Len(log) - FastFails(p) + 1 .. Len(log) : log[i] = "fast"
<1> DEFINE old == sup[p].log
           all == Append(old, Outcome(p))
           log == LastFew(all)
<1>1. /\ old \in Seq(Outcomes) /\ Len(old) \in Nat /\ Len(old) <= MaxFast
      /\ sup[p].fast \in 0 .. MaxFast - 1 /\ sup[p].fast <= Len(old)
      /\ \A i \in Len(old) - sup[p].fast + 1 .. Len(old) : old[i] = "fast"
  BY DEF SInv, Types, SupRecord, FastTail
<1>2. Outcome(p) \in Outcomes
  BY DEF Outcome, Outcomes
<1>3. /\ all \in Seq(Outcomes) /\ Len(all) = Len(old) + 1
      /\ all[Len(old) + 1] = Outcome(p)
      /\ \A i \in 1 .. Len(old) : all[i] = old[i]
  BY <1>1, <1>2
<1>4. MaxFast \in Nat /\ MaxFast > 0
  BY SupervisionAssumption
<1>5. /\ FastFails(p) \in 0 .. MaxFast
      /\ \/ FastFails(p) = 0
         \/ FastFails(p) = sup[p].fast + 1 /\ Outcome(p) = "fast"
  BY <1>1, <1>4 DEF FastFails
<1> HIDE DEF old, all
<1>6. \A i \in Len(all) - FastFails(p) + 1 .. Len(all) : all[i] = "fast"
  <2>1. CASE FastFails(p) = 0
    BY <1>1, <1>3, <2>1
  <2>2. CASE FastFails(p) = sup[p].fast + 1 /\ Outcome(p) = "fast"
    <3> SUFFICES ASSUME NEW i \in Len(all) - FastFails(p) + 1 .. Len(all)
                 PROVE  all[i] = "fast"
      OBVIOUS
    <3>1. i \in Len(old) - sup[p].fast + 1 .. Len(old) \/ i = Len(old) + 1
      BY <1>1, <1>3, <2>2
    <3>2. i \in 1 .. Len(old) + 1
      BY <1>1, <1>3, <2>2, <3>1
    <3> QED BY <1>1, <1>3, <2>2, <3>1, <3>2
  <2> QED BY <1>5, <2>1, <2>2
<1>7. CASE Len(all) <= MaxFast
  <2>1. log = all
    BY <1>1, <1>3, <1>4, <1>7 DEF LastFew
  <2>2. log # <<>>
    BY <2>1, <1>1, <1>3
  <2>3. /\ log \in Seq(Outcomes) /\ Len(log) <= MaxFast /\ FastFails(p) <= Len(log)
        /\ \A i \in Len(log) - FastFails(p) + 1 .. Len(log) : log[i] = "fast"
    BY <2>1, <1>1, <1>3, <1>5, <1>6, <1>7
  <2> QED BY <2>2, <2>3, <1>5 DEF old, all
<1>8. CASE Len(all) > MaxFast
  <2>1. log = Tail(all) /\ Len(all) = MaxFast + 1
    BY <1>1, <1>3, <1>4, <1>8 DEF LastFew
  <2>2. /\ log \in Seq(Outcomes) /\ Len(log) = MaxFast
        /\ \A i \in 1 .. MaxFast : log[i] = all[i + 1]
    BY <2>1, <1>3, <1>4
  <2>3. \A i \in Len(log) - FastFails(p) + 1 .. Len(log) : log[i] = "fast"
    BY <2>1, <2>2, <1>4, <1>5, <1>6
  <2> QED BY <2>2, <2>3, <1>4, <1>5 DEF old, all
<1> QED BY <1>1, <1>3, <1>4, <1>7, <1>8

-----------------------------------------------------------------------------
\* The initial state.
LEMMA InitSup == Init => SInv
<1> SUFFICES ASSUME Init PROVE SInv
  OBVIOUS
<1>1. Types
  BY Fresh DEF Init, Types
<1>2. \A p \in Pollers : ~Holder(p) /\ FairAge(p)
  BY DEF Init, Holder, Supervised, Alive, FairAge, NoSup, NoWorker, Supervisor, Worker
<1>3. \A p \in Pollers : FastTail(p)
  BY SupervisionAssumption DEF Init, FastTail, NoSup, Supervisor
<1> QED BY <1>1, <1>2, <1>3 DEF SInv, OneHolder

\* The judgement of an exit.
LEMMA JudgeKeepsInv ==
  ASSUME SInv, NEW p \in Pollers, Judge(p)
  PROVE  SInv'
<1> USE DEF Set
<1> DEFINE log == LastFew(Append(sup[p].log, Outcome(p)))
           stop == wrk[p].rc \in Final \/ FastFails(p) >= MaxFast
           r == IF stop THEN Supervisor("off", log)
                ELSE [sup[p] EXCEPT !.pc = "cooldown", !.fast = FastFails(p), !.log = log]
<1>0. /\ sup[p] \in SupRecord /\ sup[p].pc = "judge"
      /\ sup \in [Pollers -> SupRecord] /\ wrk \in [Pollers -> WrkRecord]
  BY DEF SInv, Types, Judge
<1>1. /\ log \in Seq(Outcomes) /\ Len(log) \in Nat /\ Len(log) <= MaxFast
      /\ FastFails(p) \in 0 .. MaxFast /\ FastFails(p) <= Len(log)
      /\ \A i \in Len(log) - FastFails(p) + 1 .. Len(log) : log[i] = "fast"
  BY <1>0, Logged
<1> HIDE DEF log
<1>2. sup' = [sup EXCEPT ![p] = r] /\ wrk' = wrk /\ Holder(p)
  BY <1>0 DEF Judge, log, Holder, Supervised
<1>3. /\ r \in SupRecord /\ r.log = log /\ r.fast \in {0, FastFails(p)}
      /\ r.pc \in {"off", "cooldown"}
  <2>1. CASE stop
    <3>1. r = Supervisor("off", log) /\ "off" \in SupPCs
      BY <2>1 DEF SupPCs
    <3> QED BY <1>1, <3>1, Fresh DEF Supervisor
  <2>2. CASE ~stop
    <3>1. FastFails(p) \in 0 .. MaxFast - 1
      BY <1>1, <2>2, SupervisionAssumption
    <3>2. r = [sup[p] EXCEPT !.pc = "cooldown", !.fast = FastFails(p), !.log = log]
      BY <2>2
    <3> HIDE DEF r, stop
    <3> QED BY <1>0, <1>1, <3>1, <3>2 DEF SupRecord, SupPCs
  <2> QED BY <2>1, <2>2
<1> HIDE DEF r
<1>4. /\ Types' /\ sup'[p] = r /\ \A q \in Pollers \ {p} : sup'[q] = sup[q]
  BY <1>0, <1>2, <1>3 DEF Types
<1>5. OneHolder'
  BY <1>2, <1>4 DEF SInv, OneHolder, Holder, Supervised, Alive
<1>6. FairAge(p)' /\ FastTail(p)'
  BY <1>1, <1>3, <1>4, SupervisionAssumption DEF FairAge, FastTail
<1>7. ASSUME NEW q \in Pollers \ {p} PROVE FairAge(q)' /\ FastTail(q)'
  BY <1>2, <1>4 DEF SInv, FairAge, FastTail, Alive
<1> QED BY <1>4, <1>5, <1>6, <1>7 DEF SInv

\* Signals on their way through the supervisor of poller p.
LEMMA SignalsKeepInv ==
  ASSUME SInv, NEW p \in Pollers,
         \/ ForwardInt(p) \/ ForwardTerm(p) \/ ForwardHup(p)
         \/ \E s \in {"int", "term", "hup"} : Signal(p, s)
  PROVE  SInv'
<1>0. /\ sup[p] \in SupRecord /\ wrk[p] \in WrkRecord
      /\ sup \in [Pollers -> SupRecord] /\ wrk \in [Pollers -> WrkRecord]
  BY DEF SInv, Types
<1>1. \E r \in SupRecord : /\ sup' = [sup EXCEPT ![p] = r]
                           /\ r.pc = sup[p].pc /\ r.hb = sup[p].hb
                           /\ r.log = sup[p].log /\ r.fast = sup[p].fast
  <2>1. CASE ForwardInt(p)
    <3> DEFINE n == IF sup[p].ints < 2 THEN sup[p].ints + 1 ELSE sup[p].ints
               c == sup[p].pend \ {"int"}
               r == [sup[p] EXCEPT !.pend = c, !.ints = n]
    <3>1. sup' = [sup EXCEPT ![p] = r]
      BY <2>1 DEF ForwardInt
    <3>2. n \in 0 .. 2 /\ c \subseteq {"int", "term", "hup"}
      BY <1>0 DEF SupRecord
    <3> HIDE DEF n, c
    <3>3. /\ r \in SupRecord /\ r.pc = sup[p].pc /\ r.hb = sup[p].hb
          /\ r.log = sup[p].log /\ r.fast = sup[p].fast
      BY <1>0, <3>2 DEF SupRecord
    <3> HIDE DEF r
    <3> QED BY <3>1, <3>3
  <2>2. ASSUME NEW c, sup' = [sup EXCEPT ![p].pend = c], c \subseteq {"int", "term", "hup"}
        PROVE  \E r \in SupRecord : /\ sup' = [sup EXCEPT ![p] = r]
                                    /\ r.pc = sup[p].pc /\ r.hb = sup[p].hb
                                    /\ r.log = sup[p].log /\ r.fast = sup[p].fast
    <3> DEFINE r == [sup[p] EXCEPT !.pend = c]
    <3>1. sup' = [sup EXCEPT ![p] = r]
      BY <2>2
    <3>2. /\ r \in SupRecord /\ r.pc = sup[p].pc /\ r.hb = sup[p].hb
          /\ r.log = sup[p].log /\ r.fast = sup[p].fast
      BY <1>0, <2>2 DEF SupRecord
    <3> HIDE DEF r
    <3> QED BY <3>1, <3>2
  <2>p. sup[p].pend \subseteq {"int", "term", "hup"}
    BY <1>0 DEF SupRecord
  <2>3. CASE ForwardTerm(p)
    <3>1. sup' = [sup EXCEPT ![p].pend = sup[p].pend \ {"term"}]
      BY <2>3 DEF ForwardTerm
    <3> QED BY <2>2, <2>p, <3>1
  <2>4. CASE ForwardHup(p)
    <3>1. sup' = [sup EXCEPT ![p].pend = sup[p].pend \ {"hup"}]
      BY <2>4 DEF ForwardHup
    <3> QED BY <2>2, <2>p, <3>1
  <2>5. ASSUME NEW s \in {"int", "term", "hup"}, Signal(p, s)
        PROVE  \E r \in SupRecord : /\ sup' = [sup EXCEPT ![p] = r]
                                    /\ r.pc = sup[p].pc /\ r.hb = sup[p].hb
                                    /\ r.log = sup[p].log /\ r.fast = sup[p].fast
    <3>1. sup' = [sup EXCEPT ![p].pend = sup[p].pend \cup {s}]
      BY <2>5 DEF Signal
    <3> QED BY <2>2, <2>p, <3>1
  <2> QED BY <2>1, <2>3, <2>4, <2>5
<1>2. \E w \in WrkRecord : /\ wrk' = [wrk EXCEPT ![p] = w]
                           /\ \/ w.st = "none"
                              \/ /\ w.st = wrk[p].st /\ w.pipe = wrk[p].pipe
                                 /\ w.quiet = wrk[p].quiet
  <2>1. \/ wrk' = wrk
        \/ wrk' = [wrk EXCEPT ![p] = [wrk[p] EXCEPT !.pend = TRUE]]
        \/ \E rc \in ExitCodes : wrk' = [wrk EXCEPT ![p] = Worker("none", wrk[p].young, rc)]
    BY DEF ForwardInt, ForwardTerm, ForwardHup, Signal, Ends, Put, ExitCodes
  <2>2. CASE wrk' = wrk
    BY <1>0, <2>2
  <2>3. CASE wrk' = [wrk EXCEPT ![p] = [wrk[p] EXCEPT !.pend = TRUE]]
    <3>1. [wrk[p] EXCEPT !.pend = TRUE] \in WrkRecord
      BY <1>0 DEF WrkRecord
    <3> QED BY <1>0, <2>3, <3>1 DEF WrkRecord
  <2>4. ASSUME NEW rc \in ExitCodes,
               wrk' = [wrk EXCEPT ![p] = Worker("none", wrk[p].young, rc)]
        PROVE  \E w \in WrkRecord : wrk' = [wrk EXCEPT ![p] = w] /\ w.st = "none"
    <3>1. Worker("none", wrk[p].young, rc) \in WrkRecord
      BY <1>0, Fresh DEF WrkRecord
    <3> QED BY <2>4, <3>1 DEF Worker
  <2> QED BY <2>1, <2>2, <2>3, <2>4
<1>3. PICK r \in SupRecord : /\ sup' = [sup EXCEPT ![p] = r]
                             /\ r.pc = sup[p].pc /\ r.hb = sup[p].hb
                             /\ r.log = sup[p].log /\ r.fast = sup[p].fast
  BY <1>1
<1>4. PICK w \in WrkRecord : /\ wrk' = [wrk EXCEPT ![p] = w]
                             /\ \/ w.st = "none"
                                \/ /\ w.st = wrk[p].st /\ w.pipe = wrk[p].pipe
                                   /\ w.quiet = wrk[p].quiet
  BY <1>2
<1>5. /\ r.pc # "off" \/ w.st # "none" => Holder(p)
      /\ r.pc = "watch" /\ w.st # "none" /\ ~w.pipe => r.hb <= w.quiet
  BY <1>3, <1>4 DEF SInv, FairAge, Holder, Supervised, Alive
<1> QED BY <1>3, <1>4, <1>5, OwnStep

\* The supervisor of poller p.
LEMMA SupervisorKeepsInv ==
  ASSUME SInv, NEW p \in Pollers,
         \/ Launch(p) \/ SupStep(p) \/ SpawnFails(p) \/ KillSupervisor(p)
         \/ ForwardInt(p) \/ ForwardTerm(p) \/ ForwardHup(p)
         \/ \E s \in {"int", "term", "hup"} : Signal(p, s)
  PROVE  SInv'
<1> USE DEF Set, Put
<1>0. /\ sup[p] \in SupRecord /\ wrk[p] \in WrkRecord
      /\ sup \in [Pollers -> SupRecord] /\ wrk \in [Pollers -> WrkRecord]
  BY DEF SInv, Types
<1>1. CASE Launch(p)
  <2> DEFINE r == Supervisor("spawn", <<>>)
  <2>0. "spawn" \in SupPCs /\ <<>> \in Seq(Outcomes)
    BY DEF SupPCs
  <2>1. r \in SupRecord /\ r.pc = "spawn" /\ r.log = <<>> /\ r.fast = 0
    BY <2>0, Fresh DEF Supervisor
  <2>2. \A q \in Pollers : ~Holder(q)
    BY <1>1 DEF Launch, Locked, Holder
  <2>3. sup' = [sup EXCEPT ![p] = r] /\ wrk' = [wrk EXCEPT ![p] = NoWorker]
    BY <1>1 DEF Launch
  <2>4. Types' /\ sup'[p] = r /\ wrk'[p] = NoWorker
        /\ \A q \in Pollers \ {p} : sup'[q] = sup[q] /\ wrk'[q] = wrk[q]
    BY <1>0, <2>1, <2>3, Fresh DEF Types
  <2>5. OneHolder'
    BY <2>2, <2>4 DEF OneHolder, Holder, Supervised, Alive
  <2>6. \A q \in Pollers : FairAge(q)' /\ FastTail(q)'
    <3>1. FairAge(p)' /\ FastTail(p)'
      BY <2>1, <2>4, SupervisionAssumption DEF FairAge, FastTail
    <3>2. ASSUME NEW q \in Pollers \ {p} PROVE FairAge(q)' /\ FastTail(q)'
      BY <2>4 DEF SInv, FairAge, FastTail, Alive
    <3> QED BY <3>1, <3>2
  <2> QED BY <2>4, <2>5, <2>6 DEF SInv
<1>2. CASE Spawn(p)
  <2> DEFINE r == [sup[p] EXCEPT !.pc = "watch", !.hb = 0, !.checked = FALSE, !.stale = FALSE]
             w == Worker("boot", TRUE, "none")
  <2>z. 0 \in 0 .. Stale + 1
    BY SupervisionAssumption
  <2>1. /\ r \in SupRecord /\ r.log = sup[p].log /\ r.fast = sup[p].fast /\ r.hb = 0
    BY <1>0, <2>z DEF SupRecord, SupPCs
  <2>0. w \in WrkRecord /\ w.quiet = 0
    BY Fresh DEF Worker, ExitCodes
  <2>2. /\ sup' = [sup EXCEPT ![p] = r] /\ wrk' = [wrk EXCEPT ![p] = w] /\ Holder(p)
    BY <1>2 DEF Spawn, Holder, Supervised
  <2> HIDE DEF r, w
  <2>3. r.hb <= w.quiet
    BY <2>0, <2>1
  <2> QED BY <2>0, <2>1, <2>2, <2>3, OwnStep
<1>3. CASE Check(p)
  <2> DEFINE age == IF wrk[p].pipe THEN 0 ELSE sup[p].hb
             st  == age > Stale
             pc  == IF age > Stale THEN "dump" ELSE "watch"
             r == [sup[p] EXCEPT !.hb = age, !.checked = TRUE, !.stale = st, !.pc = pc]
             w == [wrk[p] EXCEPT !.pipe = FALSE]
  <2>1. sup' = [sup EXCEPT ![p] = r] /\ wrk' = [wrk EXCEPT ![p] = w] /\ Holder(p)
    BY <1>3 DEF Check, Holder
  <2>a. /\ sup[p].hb \in 0 .. Stale + 1 /\ wrk[p].quiet \in 0 .. Stale + 1
        /\ Stale \in Nat
    BY <1>0, SupervisionAssumption DEF SupRecord, WrkRecord
  <2>b. ~wrk[p].pipe => sup[p].hb <= wrk[p].quiet
    BY <1>3 DEF Check, SInv, FairAge
  <2>2. /\ age \in 0 .. Stale + 1 /\ age <= wrk[p].quiet
        /\ st \in BOOLEAN /\ pc \in {"dump", "watch"}
    BY <2>a, <2>b
  <2> HIDE DEF age, st, pc
  <2>3. /\ r \in SupRecord /\ r.log = sup[p].log /\ r.fast = sup[p].fast
        /\ r.hb = age
    BY <1>0, <2>2 DEF SupRecord, SupPCs
  <2>4. w \in WrkRecord /\ w.quiet = wrk[p].quiet
    BY <1>0 DEF WrkRecord
  <2> HIDE DEF r, w
  <2> QED BY <2>1, <2>2, <2>3, <2>4, OwnStep
<1>4. CASE ChildExited(p)
  <2> DEFINE r == [sup[p] EXCEPT !.pc = "judge"]
  <2>1. /\ r \in SupRecord /\ r.log = sup[p].log /\ r.fast = sup[p].fast
        /\ r.pc = "judge"
    BY <1>0 DEF SupRecord, SupPCs
  <2>2. sup' = [sup EXCEPT ![p] = r] /\ wrk' = [wrk EXCEPT ![p] = wrk[p]] /\ Holder(p)
    BY <1>0, <1>4 DEF ChildExited, Holder, Supervised
  <2> HIDE DEF r
  <2> QED BY <1>0, <2>1, <2>2, OwnStep
<1>5. CASE KillStale(p)
  <2> DEFINE r == [sup[p] EXCEPT !.pc = "judge"]
             w == IF Alive(p) THEN Worker("none", wrk[p].young, "killed") ELSE wrk[p]
  <2>1. /\ r \in SupRecord /\ r.log = sup[p].log /\ r.fast = sup[p].fast
        /\ r.pc = "judge"
    BY <1>0 DEF SupRecord, SupPCs
  <2>w. w \in WrkRecord
    BY <1>0, Fresh DEF WrkRecord, ExitCodes
  <2>2. sup' = [sup EXCEPT ![p] = r] /\ wrk' = [wrk EXCEPT ![p] = w] /\ Holder(p)
    BY <1>5 DEF KillStale, Holder, Supervised
  <2> HIDE DEF r, w
  <2> QED BY <2>1, <2>w, <2>2, OwnStep
<1>6. CASE Judge(p)
  BY <1>6, JudgeKeepsInv
<1>7. CASE Respawn(p)
  <2> DEFINE r == [sup[p] EXCEPT !.pc = "spawn"]
  <2>1. /\ r \in SupRecord /\ r.log = sup[p].log /\ r.fast = sup[p].fast
        /\ r.pc = "spawn"
    BY <1>0 DEF SupRecord, SupPCs
  <2>2. sup' = [sup EXCEPT ![p] = r] /\ wrk' = [wrk EXCEPT ![p] = wrk[p]] /\ Holder(p)
    BY <1>0, <1>7 DEF Respawn, Holder, Supervised
  <2> HIDE DEF r
  <2> QED BY <1>0, <2>1, <2>2, OwnStep
<1>8. CASE SpawnFails(p)
  <2>1. /\ sup' = [sup EXCEPT ![p] = NoSup] /\ wrk' = [wrk EXCEPT ![p] = wrk[p]]
        /\ Holder(p)
    BY <1>0, <1>8 DEF SpawnFails, Holder, Supervised
  <2>2. NoSup.pc = "off" /\ NoSup.log = <<>> /\ NoSup.fast = 0
    BY DEF NoSup, Supervisor
  <2> QED BY <1>0, <2>1, <2>2, Fresh, OwnStep
<1>9. CASE KillSupervisor(p)
  <2> DEFINE w == IF Alive(p) THEN [wrk[p] EXCEPT !.pipe = FALSE] ELSE NoWorker
  <2>1. w \in WrkRecord
    BY <1>0, Fresh DEF WrkRecord
  <2>2. sup' = [sup EXCEPT ![p] = NoSup] /\ wrk' = [wrk EXCEPT ![p] = w] /\ Holder(p)
    BY <1>9 DEF KillSupervisor, Holder
  <2>3. NoSup.pc = "off" /\ NoSup.log = <<>> /\ NoSup.fast = 0
    BY DEF NoSup, Supervisor
  <2> HIDE DEF w
  <2> QED BY <2>1, <2>2, <2>3, Fresh, OwnStep
<1>10. CASE ForwardInt(p) \/ ForwardTerm(p) \/ ForwardHup(p)
            \/ \E s \in {"int", "term", "hup"} : Signal(p, s)
  BY <1>10, SignalsKeepInv
<1> QED BY <1>1, <1>2, <1>3, <1>4, <1>5, <1>6, <1>7, <1>8, <1>9, <1>10 DEF SupStep

\* The worker of poller p, and a Ctrl-C in its terminal.
LEMMA WorkerKeepsInv ==
  ASSUME SInv, NEW p \in Pollers,
         WorkerStep(p) \/ Beat(p) \/ Hang(p) \/ Crash(p) \/ CtrlC(p)
  PROVE  SInv'
<1> USE DEF Put
<1>0. /\ sup[p] \in SupRecord /\ wrk[p] \in WrkRecord
      /\ sup \in [Pollers -> SupRecord] /\ wrk \in [Pollers -> WrkRecord]
  BY DEF SInv, Types
<1>1. CASE CtrlC(p)
  <2> DEFINE r == [sup[p] EXCEPT !.pend = IF Supervised(p) THEN sup[p].pend \cup {"int"}
                                          ELSE sup[p].pend]
             w == [wrk[p] EXCEPT !.pend = Alive(p)]
  <2>1. sup' = [sup EXCEPT ![p] = r] /\ wrk' = [wrk EXCEPT ![p] = w]
    BY <1>0, <1>1 DEF CtrlC, SupRecord, WrkRecord
  <2>2. r \in SupRecord /\ w \in WrkRecord
    BY <1>0 DEF SupRecord, WrkRecord, Alive
  <2>3. /\ r.pc = sup[p].pc /\ r.hb = sup[p].hb
        /\ r.log = sup[p].log /\ r.fast = sup[p].fast
        /\ w.st = wrk[p].st /\ w.pipe = wrk[p].pipe /\ w.quiet = wrk[p].quiet
    BY <1>0 DEF SupRecord, WrkRecord
  <2> HIDE DEF r, w
  <2>4. r.pc = "watch" /\ w.st # "none" /\ ~w.pipe => r.hb <= w.quiet
    BY <2>3 DEF SInv, FairAge, Alive
  <2>5. Holder(p)
    BY <1>1 DEF CtrlC, Holder
  <2> QED BY <2>1, <2>2, <2>3, <2>4, <2>5, OwnStep
<1>2. ASSUME NEW w \in WrkRecord, sup' = sup, wrk' = [wrk EXCEPT ![p] = w], Alive(p),
             \/ w.st = "none" \/ w.pipe = Supervised(p)
             \/ w.pipe = wrk[p].pipe /\ w.quiet = wrk[p].quiet
      PROVE  SInv'
  <2>1. sup' = [sup EXCEPT ![p] = sup[p]]
    BY <1>0, <1>2
  <2>2. sup[p].pc = "watch" /\ w.st # "none" /\ ~w.pipe => sup[p].hb <= w.quiet
    BY <1>2 DEF SInv, FairAge, Supervised
  <2> QED BY <1>0, <1>2, <2>1, <2>2, OwnStep DEF Holder
<1>3. CASE Beat(p) \/ BootDone(p)
  <2>1. PICK st \in {"boot", "loop"} :
           /\ wrk' = [wrk EXCEPT ![p] = [wrk[p] EXCEPT !.st = st, !.pipe = Supervised(p), !.quiet = 0]]
           /\ sup' = sup /\ Alive(p)
    <3>1. CASE Beat(p)
      <4>1. [wrk[p] EXCEPT !.pipe = Supervised(p), !.quiet = 0]
              = [wrk[p] EXCEPT !.st = wrk[p].st, !.pipe = Supervised(p), !.quiet = 0]
        BY <1>0 DEF WrkRecord
      <4> QED BY <3>1, <4>1 DEF Beat, Alive
    <3>2. CASE BootDone(p)
      BY <3>2 DEF BootDone, Alive
    <3> QED BY <1>3, <3>1, <3>2
  <2> DEFINE w == [wrk[p] EXCEPT !.st = st, !.pipe = Supervised(p), !.quiet = 0]
  <2>b. Supervised(p) \in BOOLEAN /\ 0 \in 0 .. Stale + 1
    BY SupervisionAssumption DEF Supervised
  <2>2. w \in WrkRecord /\ w.pipe = Supervised(p)
    BY <1>0, <2>b DEF WrkRecord
  <2> QED BY <1>2, <2>1, <2>2
<1>4. CASE Hang(p)
  <2> DEFINE w == [wrk[p] EXCEPT !.hung = TRUE]
  <2>1. w \in WrkRecord /\ w.pipe = wrk[p].pipe /\ w.quiet = wrk[p].quiet
    BY <1>0 DEF WrkRecord
  <2> QED BY <1>2, <1>4, <2>1 DEF Hang
<1>5. ASSUME NEW rc \in ExitCodes, Ends(p, rc), Alive(p), sup' = sup PROVE SInv'
  <2> DEFINE w == Worker("none", wrk[p].young, rc)
  <2>1. w \in WrkRecord /\ w.st = "none"
    BY <1>0, Fresh DEF WrkRecord, Worker
  <2> QED BY <1>2, <1>5, <2>1 DEF Ends
<1>6. CASE Crash(p) \/ CleanupDone(p)
  BY <1>5, <1>6 DEF Crash, CleanupDone, Alive, ExitCodes
<1>7. CASE HandleInt(p)
  <2>0. Alive(p)
    BY <1>7 DEF HandleInt, Alive
  <2>1. CASE wrk[p].st = "loop"
    <3> DEFINE w == [wrk[p] EXCEPT !.st = "cleanup", !.pend = FALSE]
    <3>1. w \in WrkRecord /\ w.pipe = wrk[p].pipe /\ w.quiet = wrk[p].quiet
      BY <1>0 DEF WrkRecord
    <3> QED BY <1>2, <1>7, <2>0, <2>1, <3>1 DEF HandleInt
  <2>2. CASE wrk[p].st # "loop"
    BY <1>5, <1>7, <2>0, <2>2 DEF HandleInt, ExitCodes
  <2> QED BY <2>1, <2>2
<1> QED BY <1>1, <1>3, <1>4, <1>6, <1>7 DEF WorkerStep

\* watchdog.py, and a tick.
LEMMA ClockKeepsInv ==
  ASSUME SInv, Pkill \/ Tick
  PROVE  SInv'
<1>0. /\ sup \in [Pollers -> SupRecord] /\ wrk \in [Pollers -> WrkRecord]
  BY DEF SInv, Types
<1>1. CASE Pkill
  <2>1. Types' /\ \A p \in Pollers : sup'[p] = NoSup /\ wrk'[p] = NoWorker
    BY <1>1, Fresh DEF Pkill, Types
  <2>2. \A p \in Pollers : ~Holder(p)' /\ FairAge(p)'
    BY <2>1 DEF Holder, Supervised, Alive, FairAge, NoSup, NoWorker, Supervisor,
       Worker
  <2>3. \A p \in Pollers : FastTail(p)'
    BY <2>1, SupervisionAssumption DEF FastTail, NoSup, Supervisor
  <2> QED BY <2>1, <2>2, <2>3 DEF SInv, OneHolder
<1>2. CASE Tick
  <2> DEFINE S(p) == [sup[p] EXCEPT !.checked = FALSE,
                        !.hb = IF sup[p].pc = "watch" /\ sup[p].hb <= Stale
                               THEN sup[p].hb + 1 ELSE sup[p].hb]
             W(p) == [wrk[p] EXCEPT
                        !.quiet = IF Alive(p) /\ wrk[p].quiet <= Stale
                                  THEN wrk[p].quiet + 1 ELSE wrk[p].quiet,
                        !.young = FALSE]
  <2>1. sup' = [p \in Pollers |-> S(p)] /\ wrk' = [p \in Pollers |-> W(p)]
    BY <1>2 DEF Tick
  <2>2. ASSUME NEW p \in Pollers
        PROVE  /\ S(p) \in SupRecord /\ S(p).pc = sup[p].pc
               /\ S(p).log = sup[p].log /\ S(p).fast = sup[p].fast
               /\ S(p).hb = IF sup[p].pc = "watch" /\ sup[p].hb <= Stale
                            THEN sup[p].hb + 1 ELSE sup[p].hb
    <3>1. sup[p] \in SupRecord
      BY <1>0
    <3> DEFINE n == IF sup[p].pc = "watch" /\ sup[p].hb <= Stale
                    THEN sup[p].hb + 1 ELSE sup[p].hb
    <3>2. n \in 0 .. Stale + 1
      BY <3>1, SupervisionAssumption DEF SupRecord
    <3> HIDE DEF n
    <3>3. LET s == [sup[p] EXCEPT !.checked = FALSE, !.hb = n]
          IN  s \in SupRecord /\ s.pc = sup[p].pc /\ s.hb = n
              /\ s.log = sup[p].log /\ s.fast = sup[p].fast
      BY <3>1, <3>2 DEF SupRecord
    <3> QED BY <3>3 DEF n
  <2>3. ASSUME NEW p \in Pollers
        PROVE  /\ W(p) \in WrkRecord /\ W(p).st = wrk[p].st /\ W(p).pipe = wrk[p].pipe
               /\ W(p).quiet = IF Alive(p) /\ wrk[p].quiet <= Stale
                               THEN wrk[p].quiet + 1 ELSE wrk[p].quiet
    <3>1. wrk[p] \in WrkRecord
      BY <1>0
    <3> DEFINE n == IF Alive(p) /\ wrk[p].quiet <= Stale
                    THEN wrk[p].quiet + 1 ELSE wrk[p].quiet
    <3>2. n \in 0 .. Stale + 1
      BY <3>1, SupervisionAssumption DEF WrkRecord
    <3> HIDE DEF n
    <3>3. LET w == [wrk[p] EXCEPT !.quiet = n, !.young = FALSE]
          IN  /\ w \in WrkRecord /\ w.st = wrk[p].st /\ w.pipe = wrk[p].pipe
              /\ w.quiet = n
      BY <3>1, <3>2 DEF WrkRecord
    <3> QED BY <3>3 DEF n
  <2> HIDE DEF S, W
  <2>4. Types' /\ \A p \in Pollers : sup'[p] = S(p) /\ wrk'[p] = W(p)
    BY <2>1, <2>2, <2>3 DEF Types
  <2>5. OneHolder'
    BY <2>2, <2>3, <2>4 DEF SInv, OneHolder, Holder, Supervised, Alive
  <2>6. ASSUME NEW p \in Pollers PROVE FairAge(p)'
    <3>1. /\ sup[p].hb \in 0 .. Stale + 1 /\ wrk[p].quiet \in 0 .. Stale + 1
          /\ Stale \in Nat
      BY <1>0, SupervisionAssumption DEF SupRecord, WrkRecord
    <3> QED BY <2>2, <2>3, <2>4, <3>1 DEF SInv, FairAge, Alive
  <2>7. ASSUME NEW p \in Pollers PROVE FastTail(p)'
    BY <2>2, <2>4 DEF SInv, FastTail
  <2> QED BY <2>4, <2>5, <2>6, <2>7 DEF SInv
<1> QED BY <1>1, <1>2

\* A step of any kind.
LEMMA NextKeepsSup == SInv /\ [Next]_vars => SInv'
<1> SUFFICES ASSUME SInv, [Next]_vars PROVE SInv'
  OBVIOUS
<1>1. CASE UNCHANGED vars
  BY <1>1 DEF SInv, Types, OneHolder, Holder, Supervised, Alive, FairAge, FastTail,
     vars
<1>2. CASE Next
  BY <1>2, SupervisorKeepsInv, WorkerKeepsInv, ClockKeepsInv DEF Next
<1> QED BY <1>1, <1>2

\* The steps that take a supervisor out of its watch and out of its loop.
LEMMA PcChanges ==
  ASSUME SInv, [Next]_vars, NEW p \in Pollers
  PROVE  \/ sup'[p].pc = sup[p].pc
         \/ sup'[p] \in {NoSup, Supervisor("spawn", <<>>)}
         \/ Spawn(p) \/ Check(p) \/ ChildExited(p) \/ KillStale(p) \/ Judge(p)
         \/ Respawn(p)
<1>0. sup \in [Pollers -> SupRecord]
  BY DEF SInv, Types
<1>1. CASE UNCHANGED vars
  BY <1>1 DEF vars
<1>2. CASE Pkill \/ Tick
  <2>1. CASE Pkill
    BY <2>1 DEF Pkill
  <2>2. CASE Tick
    <3>1. sup'[p].pc = [sup[p] EXCEPT !.checked = FALSE,
                          !.hb = IF sup[p].pc = "watch" /\ sup[p].hb <= Stale
                                 THEN sup[p].hb + 1 ELSE sup[p].hb].pc
      BY <2>2 DEF Tick
    <3>2. sup[p] \in SupRecord
      BY <1>0
    <3> QED BY <3>1, <3>2 DEF SupRecord
  <2> QED BY <1>2, <2>1, <2>2
<1>3. ASSUME NEW q \in Pollers, SupStep(q) PROVE q = p \/ sup'[p] = sup[p]
  BY <1>0, <1>3 DEF SupStep, Spawn, Check, ChildExited, KillStale, Judge, Respawn, Set
<1>4. ASSUME NEW q \in Pollers, Launch(q) \/ SpawnFails(q) \/ KillSupervisor(q)
      PROVE  sup'[p] = sup[p] \/ sup'[p] \in {NoSup, Supervisor("spawn", <<>>)}
  BY <1>0, <1>4 DEF Launch, SpawnFails, KillSupervisor, Set
<1>5. ASSUME NEW q \in Pollers,
             \/ ForwardInt(q) \/ ForwardTerm(q) \/ ForwardHup(q) \/ CtrlC(q)
             \/ \E s \in {"int", "term", "hup"} : Signal(q, s)
      PROVE  sup'[p].pc = sup[p].pc
  <2>1. CASE q # p
    BY <1>0, <1>5, <2>1 DEF ForwardInt, ForwardTerm, ForwardHup, CtrlC, Signal
  <2>2. CASE q = p /\ ForwardInt(q)
    BY <1>0, <2>2 DEF ForwardInt, SupRecord
  <2>3. CASE q = p /\ ~ForwardInt(q)
    BY <1>0, <1>5, <2>3 DEF ForwardTerm, ForwardHup, CtrlC, Signal, SupRecord
  <2> QED BY <2>1, <2>2, <2>3
<1>6. ASSUME NEW q \in Pollers, WorkerStep(q) \/ Beat(q) \/ Hang(q) \/ Crash(q)
      PROVE  UNCHANGED sup
  BY <1>6 DEF WorkerStep, BootDone, HandleInt, CleanupDone, Beat, Hang, Crash
<1> QED BY <1>1, <1>2, <1>3, <1>4, <1>5, <1>6 DEF Next, SupStep

\* Only a check finds a worker silent.
LEMMA DumpOnlyFromCheck ==
  ASSUME SInv, [Next]_vars, NEW p \in Pollers, sup[p].pc = "watch", sup'[p].pc = "dump"
  PROVE  Check(p)
<1>0. sup \in [Pollers -> SupRecord] /\ sup[p] \in SupRecord
  BY DEF SInv, Types
<1>1. sup'[p] \notin {NoSup, Supervisor("spawn", <<>>)}
  BY DEF NoSup, Supervisor
<1>2. ~ChildExited(p)
  BY <1>0 DEF ChildExited, Set, SupRecord
<1>3. ~Spawn(p) /\ ~KillStale(p) /\ ~Judge(p) /\ ~Respawn(p)
  BY DEF Spawn, KillStale, Judge, Respawn
<1> QED BY <1>1, <1>2, <1>3, PcChanges

\* The judgement of an exit, and no other step, ends a supervisor that has a log
\* to show for it.
LEMMA OffOnlyFromJudge ==
  ASSUME SInv, [Next]_vars, NEW p \in Pollers, sup[p].pc # "off", sup'[p].pc = "off",
         sup'[p].log # <<>>
  PROVE  Judge(p)
<1>0. sup \in [Pollers -> SupRecord] /\ sup[p] \in SupRecord
  BY DEF SInv, Types
<1>1. sup'[p] \notin {NoSup, Supervisor("spawn", <<>>)}
  BY DEF NoSup, Supervisor
<1>2. ASSUME NEW r, sup' = [sup EXCEPT ![p] = r], r.pc # "off" PROVE FALSE
  BY <1>0, <1>2
<1>3. ~Spawn(p)
  <2> DEFINE r == [sup[p] EXCEPT !.pc = "watch", !.hb = 0, !.checked = FALSE, !.stale = FALSE]
  <2>1. r.pc = "watch" /\ (Spawn(p) => sup' = [sup EXCEPT ![p] = r])
    BY <1>0 DEF Spawn, Set, SupRecord
  <2> HIDE DEF r
  <2> QED BY <1>2, <2>1
<1>4. ASSUME NEW pc \in {"judge", "spawn"}, sup' = [sup EXCEPT ![p] = [sup[p] EXCEPT !.pc = pc]]
      PROVE  FALSE
  <2>1. [sup[p] EXCEPT !.pc = pc].pc = pc
    BY <1>0 DEF SupRecord
  <2> QED BY <1>2, <1>4, <2>1
<1>5. ~ChildExited(p) /\ ~KillStale(p) /\ ~Respawn(p)
  BY <1>4 DEF ChildExited, KillStale, Respawn, Set
<1>6. ~Check(p)
  <2> DEFINE age == IF wrk[p].pipe THEN 0 ELSE sup[p].hb
             st  == age > Stale
             pc  == IF age > Stale THEN "dump" ELSE "watch"
             r == [sup[p] EXCEPT !.hb = age, !.checked = TRUE, !.stale = st, !.pc = pc]
  <2>1. Check(p) => sup' = [sup EXCEPT ![p] = r]
    BY DEF Check, Set
  <2>2. pc \in {"dump", "watch"}
    OBVIOUS
  <2> HIDE DEF age, st, pc
  <2>3. r.pc = pc
    BY <1>0 DEF SupRecord
  <2> HIDE DEF r
  <2> QED BY <1>2, <2>1, <2>2, <2>3
<1> QED BY <1>1, <1>3, <1>5, <1>6, PcChanges

-----------------------------------------------------------------------------
\* The file, the script and the account of the troubles.
Rest ==
    /\ file \in 0 .. Stale + 1 /\ script \in {"off", "asleep", "due"}
    /\ budget \in [faults : 0 .. Troubles, presses : 0 .. Troubles]

\* A step spends nothing, or one trouble of those that are left.
LEMMA Spending ==
  ASSUME Rest,
         budget' = budget \/ \E k \in {"faults", "presses"} : Spend(k)
  PROVE  budget' \in [faults : 0 .. Troubles, presses : 0 .. Troubles]
<1>1. CASE budget' = budget
  BY <1>1 DEF Rest
<1>2. ASSUME NEW k \in {"faults", "presses"}, Spend(k)
      PROVE  budget' \in [faults : 0 .. Troubles, presses : 0 .. Troubles]
  <2>1. /\ budget.faults \in Nat /\ budget.presses \in Nat /\ Troubles \in Nat
        /\ budget.faults + budget.presses < Troubles
        /\ budget' = [budget EXCEPT ![k] = budget[k] + 1]
    BY <1>2, SupervisionAssumption DEF Spend, Rest
  <2> QED BY <2>1 DEF Rest
<1> QED BY <1>1, <1>2

\* Every step keeps Rest.
LEMMA NextKeepsRest == Rest /\ [Next]_vars => Rest'
<1> SUFFICES ASSUME Rest, [Next]_vars PROVE Rest'
  OBVIOUS
<1>1. CASE UNCHANGED vars
  BY <1>1 DEF Rest, vars
<1>2. CASE Tick
  <2>1. /\ file' = IF file <= Stale THEN file + 1 ELSE file
        /\ script' \in {"due", script} /\ budget' = budget
    BY <1>2 DEF Tick
  <2> QED BY <2>1, SupervisionAssumption DEF Rest
<1>3. CASE Pkill
  BY <1>3 DEF Rest, Pkill
<1>4. ASSUME NEW p \in Pollers, Beat(p) \/ BootDone(p) PROVE Rest'
  BY <1>4, SupervisionAssumption DEF Rest, Beat, BootDone
<1>5. ASSUME NEW p \in Pollers,
             Launch(p) \/ SupStep(p) \/ HandleInt(p) \/ CleanupDone(p)
             \/ ForwardInt(p) \/ ForwardTerm(p) \/ ForwardHup(p)
      PROVE  Rest'
  <2>1. UNCHANGED <<file, script, budget>>
    BY <1>5 DEF Launch, SupStep, HandleInt, CleanupDone, ForwardInt, ForwardTerm,
       ForwardHup, Spawn, Check, ChildExited, KillStale, Judge, Respawn
  <2> QED BY <2>1 DEF Rest
<1>6. ASSUME NEW p \in Pollers,
             \/ SpawnFails(p) \/ Hang(p) \/ Crash(p) \/ KillSupervisor(p) \/ CtrlC(p)
             \/ \E s \in {"int", "term", "hup"} : Signal(p, s)
      PROVE  Rest'
  <2>1. UNCHANGED <<file, script>> /\ \E k \in {"faults", "presses"} : Spend(k)
    BY <1>6 DEF SpawnFails, Hang, Crash, KillSupervisor, CtrlC, Signal
  <2> QED BY <2>1, Spending DEF Rest
<1> QED BY <1>1, <1>2, <1>3, <1>4, <1>5, <1>6 DEF Next, WorkerStep

\* A log of the length that FastTail allows is one of those TypeOK lists.
LEMMA LogShape ==
  ASSUME SInv, NEW p \in Pollers
  PROVE  sup[p].log \in UNION {[1 .. k -> {"silent", "fast", "late"}] : k \in 0 .. MaxFast}
<1>1. sup[p].log \in Seq({"silent", "fast", "late"}) /\ Len(sup[p].log) <= MaxFast
  BY DEF SInv, Types, SupRecord, Outcomes, FastTail
<1>2. Len(sup[p].log) \in 0 .. MaxFast
  BY <1>1, SupervisionAssumption
<1>3. sup[p].log \in [1 .. Len(sup[p].log) -> {"silent", "fast", "late"}]
  BY <1>1
<1> QED BY <1>2, <1>3

\* TypeOK holds in every reachable state: the count of fast failures stays below
\* SUPERVISOR_MAX_FAST_FAILS, and no age is counted past its limit (poller.py
\* 1423-1624).
THEOREM SupTypeCorrect == Spec => []TypeOK
<1>1. SInv /\ Rest => TypeOK
  <2> SUFFICES ASSUME SInv, Rest PROVE TypeOK
    OBVIOUS
  <2>1. sup \in [Pollers -> SupRecord] /\ wrk \in [Pollers -> WrkRecord]
    BY DEF SInv, Types
  <2>2. ASSUME NEW p \in Pollers
        PROVE  sup[p] \in [pc : SupPCs, hb : 0 .. Stale + 1, checked : BOOLEAN,
                            stale : BOOLEAN, fast : 0 .. MaxFast - 1, ints : 0 .. 2,
                            pend : SUBSET {"int", "term", "hup"},
                            log : UNION {[1 .. k -> {"silent", "fast", "late"}] : k \in 0 .. MaxFast}]
    <3> DEFINE Logs == UNION {[1 .. k -> {"silent", "fast", "late"}] : k \in 0 .. MaxFast}
    <3>1. sup[p].log \in Logs
      BY LogShape
    <3>2. sup[p] \in SupRecord
      BY <2>1
    <3> HIDE DEF Logs
    <3>3. sup[p] \in [pc : SupPCs, hb : 0 .. Stale + 1, checked : BOOLEAN,
                      stale : BOOLEAN, fast : 0 .. MaxFast - 1, ints : 0 .. 2,
                      pend : SUBSET {"int", "term", "hup"}, log : Logs]
      BY <3>1, <3>2 DEF SupRecord
    <3> QED BY <3>3 DEF Logs
  <2> QED BY <2>1, <2>2 DEF Rest, WrkRecord, TypeOK
<1>2. Init => Rest
  BY SupervisionAssumption DEF Init, Rest
<1> QED BY <1>1, <1>2, InitSup, NextKeepsSup, NextKeepsRest, PTL DEF Spec

-----------------------------------------------------------------------------
\* OneWorker holds in every reachable state, for any number of pollers: the lock
\* that the worker inherits keeps a second worker away from the state directory
\* (poller.py 1423-1624, _supervise and _acquire_poller_lock).
THEOREM WorkersApart == Spec => []OneWorker
<1>1. SInv => OneWorker
  BY DEF SInv, OneHolder, Holder, OneWorker
<1> QED BY <1>1, InitSup, NextKeepsSup, PTL DEF Spec

\* OnlySilentKilled holds of every behaviour, for every limit: what the
\* supervisor takes for the age of the last heartbeat is never more than the
\* silence of the worker it watches (poller.py, the inner loop of _supervise).
THEOREM SilenceIsReal == Spec => OnlySilentKilled
<1>1. SInv /\ [Next]_vars =>
        [\A p \in Pollers :
            sup[p].pc = "watch" /\ sup'[p].pc = "dump" => wrk[p].quiet >= Stale]_vars
  <2> SUFFICES ASSUME SInv, [Next]_vars, NEW p \in Pollers,
                      sup[p].pc = "watch", sup'[p].pc = "dump"
               PROVE  wrk[p].quiet >= Stale
    OBVIOUS
  <2>0. /\ sup \in [Pollers -> SupRecord] /\ wrk \in [Pollers -> WrkRecord]
        /\ sup[p].hb \in Nat /\ wrk[p].quiet \in Nat /\ Stale \in Nat
    BY SupervisionAssumption DEF SInv, Types, SupRecord, WrkRecord
  <2>1. Check(p)
    BY <2>0, DumpOnlyFromCheck
  <2>2. ~wrk[p].pipe /\ sup[p].hb > Stale /\ Alive(p)
    BY <2>0, <2>1, SupervisionAssumption DEF Check, Set, SupRecord
  <2> QED BY <2>0, <2>2 DEF SInv, FairAge
<1> QED BY <1>1, InitSup, NextKeepsSup, PTL DEF Spec, OnlySilentKilled

\* GivesUpOnFastFails holds of every behaviour, for every SUPERVISOR_MAX_FAST_FAILS:
\* it takes that many fast failures in a row, and none of them a worker killed for
\* its silence (poller.py, the end of _supervise).
THEOREM GivesUpLate == Spec => GivesUpOnFastFails
<1>1. SInv /\ [Next]_vars =>
        [\A p \in Pollers :
            sup'[p].pc = "off" /\ sup'[p].log # <<>> /\ wrk[p].rc \notin Final
              => sup[p].pc = "off" \/ sup'[p].log = [i \in 1 .. MaxFast |-> "fast"]]_vars
  <2> SUFFICES ASSUME SInv, [Next]_vars, NEW p \in Pollers, sup[p].pc # "off",
                      sup'[p].pc = "off", sup'[p].log # <<>>, wrk[p].rc \notin Final
               PROVE  sup'[p].log = [i \in 1 .. MaxFast |-> "fast"]
    OBVIOUS
  <2>1. Judge(p)
    BY OffOnlyFromJudge
  <2> DEFINE log == LastFew(Append(sup[p].log, Outcome(p)))
  <2>2. /\ log \in Seq(Outcomes) /\ Len(log) <= MaxFast
        /\ FastFails(p) \in 0 .. MaxFast /\ FastFails(p) <= Len(log)
        /\ \A i \in Len(log) - FastFails(p) + 1 .. Len(log) : log[i] = "fast"
    BY <2>1, Logged DEF Judge
  <2>3. FastFails(p) >= MaxFast /\ sup'[p].log = log
    <3>1. sup \in [Pollers -> SupRecord] /\ sup[p] \in SupRecord
      BY DEF SInv, Types
    <3>2. CASE wrk[p].rc \in Final \/ FastFails(p) >= MaxFast
      <4>1. sup'[p] = Supervisor("off", log)
        BY <2>1, <3>1, <3>2 DEF Judge, Set
      <4> QED BY <3>2, <4>1 DEF Supervisor
    <3>3. CASE ~(wrk[p].rc \in Final \/ FastFails(p) >= MaxFast)
      <4>1. sup'[p] = [sup[p] EXCEPT !.pc = "cooldown", !.fast = FastFails(p), !.log = log]
        BY <2>1, <3>1, <3>3 DEF Judge, Set, LastFew
      <4>2. sup'[p].pc = "cooldown"
        BY <3>1, <4>1 DEF SupRecord
      <4> QED BY <4>2
    <3> QED BY <3>2, <3>3
  <2> HIDE DEF log
  <2>4. Len(log) = MaxFast /\ MaxFast \in Nat /\ \A i \in 1 .. MaxFast : log[i] = "fast"
    BY <2>2, <2>3, SupervisionAssumption
  <2>5. log = [i \in 1 .. Len(log) |-> log[i]]
    BY <2>2
  <2> QED BY <2>3, <2>4, <2>5
<1> QED BY <1>1, InitSup, NextKeepsSup, PTL DEF Spec, GivesUpOnFastFails
=============================================================================
