---------------------------- MODULE HotplugProofs ----------------------------
(***************************************************************************)
(* Proofs about Hotplug, for every set of outputs and of goroutines and    *)
(* for any number of hot-plugs and calls.                                  *)
(***************************************************************************)
EXTENDS Hotplug, TLAPS

\* Every variable keeps its type, and the event goroutine has something to report
\* exactly while it is not idle.
THEOREM TypeCorrect == Spec => []TypeOK
<1>1. Init => TypeOK
  <2> SUFFICES ASSUME Init PROVE TypeOK
    OBVIOUS
  <2> USE ConstantsAssumption DEF ConstantsAssumption, Init
  <2>1. srv \in Screen /\ lit \in SUBSET Output
    BY DEF Screen
  <2>2. evq \in Seq(Event)
    OBVIOUS
  <2>3. pc \in [Thread -> Pc]
    BY DEF Pc
  <2>4. /\ snap \in [Thread -> SUBSET Output]
        /\ todo \in [Thread -> SUBSET Output]
        /\ info \in [Thread -> SUBSET Info]
    OBVIOUS
  <2>5. calls \in 0 .. MaxCall
    OBVIOUS
  <2> QED
    BY <2>1, <2>2, <2>3, <2>4, <2>5 DEF TypeOK
<1>2. TypeOK /\ [Next]_vars => TypeOK'
  <2> SUFFICES ASSUME TypeOK, [Next]_vars PROVE TypeOK'
    OBVIOUS
  <2> USE ConstantsAssumption DEF ConstantsAssumption, TypeOK, With, Goto, Pc, Applying
  <2>1. ASSUME NEW o \in Output, Plug(o) PROVE TypeOK'
    BY <2>1 DEF Plug, Screen, Event, event, locks, mgr, local, hist
  <2>2. ASSUME NEW o \in Output, HandleCrtcEvent(o) PROVE TypeOK'
    BY <2>2 DEF HandleCrtcEvent, server, locks, mgr, local, hist
  <2>3. CASE HandleEvent
    <3>1. Head(evq) \in Event /\ evq' \in Seq(Event)
      BY <2>3 DEF HandleEvent
    <3>2. CacheAfter(Head(evq)) \in Screen
      BY <3>1 DEF CacheAfter, Screen, Event
    <3>3. /\ evTodo' \in SUBSET Output /\ evPc' \in {"idle", "diff", "ids"}
          /\ evPc' = "diff" => evTodo' # {}
          /\ evPc' = "idle" => evTodo' = {}
      BY <2>3 DEF HandleEvent
    <3> QED
      BY <2>3, <3>1, <3>2, <3>3 DEF HandleEvent, locks, mgr, local, hist
  <2>4. ASSUME NEW o \in Output, ReportChanged(o) PROVE TypeOK'
    BY <2>4 DEF ReportChanged, server, locks, local, hist
  <2>5. CASE ReportIds
    BY <2>5 DEF ReportIds, UpdateMonitorsId, server, locks, local, hist
  <2>6. ASSUME NEW t \in Thread, TimerFire(t) PROVE TypeOK'
    BY <2>6 DEF TimerFire, server, event, locks, local, hist
  <2>7. ASSUME NEW t \in Thread, Call(t) PROVE TypeOK'
    BY <2>7 DEF Call, server, mgr, event, locks, local, hist
  <2>8. ASSUME NEW t \in Thread, TakeSnapshot(t) PROVE TypeOK'
    BY <2>8 DEF TakeSnapshot, server, mgr, event
  <2>9. ASSUME NEW t \in Thread, LockApply(t) PROVE TypeOK'
    BY <2>9 DEF LockApply, server, mgr, event, local, hist
  <2>10. ASSUME NEW t \in Thread, DisableCrtcs(t) PROVE TypeOK'
    BY <2>10 DEF DisableCrtcs, server, mgr, event, locks, local, hist
  <2>11. ASSUME NEW t \in Thread, FailApply(t) PROVE TypeOK'
    BY <2>11 DEF FailApply, server, mgr, event, locks, local, hist
  <2>12. ASSUME NEW t \in Thread, SetCrtcs(t) PROVE TypeOK'
    BY <2>12 DEF SetCrtcs, Screen, server, mgr, event, locks, local, hist
  <2>13. ASSUME NEW t \in Thread, EndWait(t) PROVE TypeOK'
    BY <2>13 DEF EndWait, server, mgr, event, locks, hist
  <2>14. ASSUME NEW t \in Thread, GetInfo(t) PROVE TypeOK'
    BY <2>14 DEF GetInfo, Info, server, mgr, event, locks, hist
  <2>15. ASSUME NEW t \in Thread, RefreshMonitor(t) PROVE TypeOK'
    BY <2>15 DEF RefreshMonitor, Old, Info, server, event, locks
  <2>16. ASSUME NEW t \in Thread, RefreshIds(t) PROVE TypeOK'
    BY <2>16 DEF RefreshIds, UpdateMonitorsId, server, event, locks, local, hist
  <2>17. ASSUME NEW t \in Thread, Finish(t) PROVE TypeOK'
    BY <2>17 DEF Finish, server, mgr, event, hist
  <2>18. CASE UNCHANGED vars
    BY <2>18 DEF vars, server, mgr, event, locks, local, hist
  <2> QED
    BY <2>1, <2>2, <2>3, <2>4, <2>5, <2>6, <2>7, <2>8, <2>9, <2>10, <2>11,
       <2>12, <2>13, <2>14, <2>15, <2>16, <2>17, <2>18
       DEF Next, EventStep, ApplyStep
<1> QED
  BY <1>1, <1>2, PTL DEF Spec

-----------------------------------------------------------------------------
\* What ApplyExclusive rests on: whoever is inside mm.apply holds applyMu.
HoldsApplyMu == \A t \in Thread : pc[t] \in Applying => applyMu = t

\* ApplyExclusive, strengthened to be inductive.
ExclusiveInv ==
    /\ HoldsApplyMu
    /\ \A t \in Thread : pc[t] \in Grabbed => ~cbEnabled

\* A step that leaves every goroutine where it is, and the mutex and the flag of
\* the callbacks as they are, keeps the strengthened invariant.
LEMMA ExclusiveStutter ==
    ASSUME ExclusiveInv, UNCHANGED <<pc, applyMu, cbEnabled>>
    PROVE  ExclusiveInv'
BY DEF ExclusiveInv, HoldsApplyMu, Applying, Grabbed

\* Only one goroutine is inside mm.apply and no callback is delivered between its
\* grab and the end of its wait, whatever the number of goroutines.
THEOREM Exclusion == Spec => []ApplyExclusive
<1>1. Init => ExclusiveInv
  BY DEF Init, ExclusiveInv, HoldsApplyMu, Applying, Grabbed
<1>2. TypeOK /\ ExclusiveInv /\ [Next]_vars => ExclusiveInv'
  <2> SUFFICES ASSUME TypeOK, ExclusiveInv, [Next]_vars PROVE ExclusiveInv'
    OBVIOUS
  <2>0. pc \in [Thread -> Pc] /\ NoThread \notin Thread
    BY ConstantsAssumption DEF ConstantsAssumption, TypeOK
  <2> USE <2>0 DEF Goto
  <2>1. ASSUME NEW o \in Output, Plug(o) PROVE ExclusiveInv'
    BY <2>1, ExclusiveStutter DEF Plug, locks
  <2>2. ASSUME NEW o \in Output, HandleCrtcEvent(o) PROVE ExclusiveInv'
    BY <2>2, ExclusiveStutter DEF HandleCrtcEvent, locks
  <2>3. CASE HandleEvent
    BY <2>3, ExclusiveStutter DEF HandleEvent, locks
  <2>4. ASSUME NEW o \in Output, ReportChanged(o) PROVE ExclusiveInv'
    BY <2>4, ExclusiveStutter DEF ReportChanged, locks
  <2>5. CASE ReportIds
    BY <2>5, ExclusiveStutter DEF ReportIds, locks
  <2>6. ASSUME NEW t \in Thread, TimerFire(t) PROVE ExclusiveInv'
    BY <2>6 DEF TimerFire, locks, ExclusiveInv, HoldsApplyMu, Applying, Grabbed
  <2>7. ASSUME NEW t \in Thread, Call(t) PROVE ExclusiveInv'
    BY <2>7 DEF Call, locks, ExclusiveInv, HoldsApplyMu, Applying, Grabbed
  <2>8. ASSUME NEW t \in Thread, TakeSnapshot(t) PROVE ExclusiveInv'
    BY <2>8 DEF TakeSnapshot, ExclusiveInv, HoldsApplyMu, Applying, Grabbed
  <2>9. ASSUME NEW t \in Thread, LockApply(t) PROVE ExclusiveInv'
    BY <2>9 DEF LockApply, ExclusiveInv, HoldsApplyMu, Applying, Grabbed
  <2>10. ASSUME NEW t \in Thread, DisableCrtcs(t) PROVE ExclusiveInv'
    BY <2>10 DEF DisableCrtcs, locks, ExclusiveInv, HoldsApplyMu, Applying, Grabbed
  <2>11. ASSUME NEW t \in Thread, FailApply(t) PROVE ExclusiveInv'
    BY <2>11 DEF FailApply, locks, ExclusiveInv, HoldsApplyMu, Applying, Grabbed
  <2>12. ASSUME NEW t \in Thread, SetCrtcs(t) PROVE ExclusiveInv'
    BY <2>12 DEF SetCrtcs, locks, ExclusiveInv, HoldsApplyMu, Applying, Grabbed
  <2>13. ASSUME NEW t \in Thread, EndWait(t) PROVE ExclusiveInv'
    BY <2>13 DEF EndWait, locks, ExclusiveInv, HoldsApplyMu, Applying, Grabbed
  <2>14. ASSUME NEW t \in Thread, GetInfo(t) PROVE ExclusiveInv'
    BY <2>14 DEF GetInfo, locks, ExclusiveInv, HoldsApplyMu, Applying, Grabbed
  <2>15. ASSUME NEW t \in Thread, RefreshMonitor(t) PROVE ExclusiveInv'
    BY <2>15 DEF RefreshMonitor, locks, ExclusiveInv, HoldsApplyMu, Applying, Grabbed
  <2>16. ASSUME NEW t \in Thread, RefreshIds(t) PROVE ExclusiveInv'
    BY <2>16 DEF RefreshIds, locks, ExclusiveInv, HoldsApplyMu, Applying, Grabbed
  <2>17. ASSUME NEW t \in Thread, Finish(t) PROVE ExclusiveInv'
    BY <2>17 DEF Finish, ExclusiveInv, HoldsApplyMu, Applying, Grabbed
  <2>18. CASE UNCHANGED vars
    BY <2>18, ExclusiveStutter DEF vars, locks
  <2> QED
    BY <2>1, <2>2, <2>3, <2>4, <2>5, <2>6, <2>7, <2>8, <2>9, <2>10, <2>11,
       <2>12, <2>13, <2>14, <2>15, <2>16, <2>17, <2>18
       DEF Next, EventStep, ApplyStep
<1>3. ExclusiveInv => ApplyExclusive
  BY DEF ExclusiveInv, HoldsApplyMu, ApplyExclusive
<1> QED
  BY <1>1, <1>2, <1>3, TypeCorrect, PTL DEF Spec

-----------------------------------------------------------------------------
\* Whichever way mm.apply is left, the callbacks it stopped work again: only the
\* end of the wait and the failure leave the grabbed part, and both enable them.
THEOREM Reenabling == Spec => CallbacksReenabled
<1> DEFINE Leaves == /\ \E t \in Thread : pc[t] \in Grabbed
                     /\ ~(\E t \in Thread : pc'[t] \in Grabbed)
<1>1. TypeOK /\ [Next]_vars => (Leaves => cbEnabled')
  <2> SUFFICES ASSUME TypeOK, [Next]_vars, Leaves PROVE cbEnabled'
    OBVIOUS
  <2> USE DEF TypeOK, Goto
  <2>1. PICK u \in Thread : pc[u] \in Grabbed
    OBVIOUS
  <2>2. pc'[u] \notin Grabbed
    OBVIOUS
  <2>3. pc'[u] # pc[u] /\ pc' # pc
    BY <2>1, <2>2
  <2>4. CASE \E o \in Output : Plug(o) \/ HandleCrtcEvent(o)
    BY <2>3, <2>4 DEF Plug, HandleCrtcEvent
  <2>5. CASE EventStep
    BY <2>3, <2>5 DEF EventStep, HandleEvent, ReportChanged, ReportIds
  <2>6. ASSUME NEW t \in Thread, TimerFire(t) \/ Call(t) PROVE FALSE
    BY <2>1, <2>3, <2>6 DEF TimerFire, Call, Grabbed
  <2>7. ASSUME NEW t \in Thread, FailApply(t) \/ EndWait(t) PROVE cbEnabled'
    BY <2>7 DEF FailApply, EndWait
  <2>8. ASSUME NEW t \in Thread, DisableCrtcs(t) \/ SetCrtcs(t) PROVE FALSE
    BY <2>2, <2>3, <2>8 DEF DisableCrtcs, SetCrtcs, Grabbed
  <2>9. ASSUME NEW t \in Thread,
               TakeSnapshot(t) \/ LockApply(t) \/ GetInfo(t) \/ RefreshMonitor(t)
                 \/ RefreshIds(t) \/ Finish(t)
        PROVE FALSE
    BY <2>1, <2>3, <2>9
       DEF TakeSnapshot, LockApply, GetInfo, RefreshMonitor, RefreshIds, Finish, Grabbed
  <2>10. CASE UNCHANGED vars
    BY <2>3, <2>10 DEF vars
  <2> QED
    BY <2>4, <2>5, <2>6, <2>7, <2>8, <2>9, <2>10 DEF Next, ApplyStep
<1>2. TypeOK /\ [Next]_vars =>
        [(\E t \in Thread : pc[t] \in Grabbed) /\ ~(\E t \in Thread : pc'[t] \in Grabbed)
           => cbEnabled']_vars
  BY <1>1
<1> QED
  BY <1>2, TypeCorrect, PTL DEF Spec, CallbacksReenabled

-----------------------------------------------------------------------------
\* A goroutine holds at most one MonitorInfo, and only while it uses it.
InfoInv ==
    \A t \in Thread : /\ pc[t] # "update" => info[t] = {}
                     /\ \A i, j \in info[t] : i = j

LEMMA InfoInvariant == Spec => []InfoInv
<1>1. Init => InfoInv
  BY DEF Init, InfoInv
<1>2. TypeOK /\ InfoInv /\ [Next]_vars => InfoInv'
  <2> SUFFICES ASSUME TypeOK, InfoInv, [Next]_vars PROVE InfoInv'
    OBVIOUS
  <2> USE DEF TypeOK, Goto, InfoInv
  <2>1. CASE UNCHANGED <<pc, info>>
    BY <2>1
  <2>2. ASSUME NEW t \in Thread, NEW to \in Pc, to # "update", pc[t] # "update",
               pc' = [pc EXCEPT ![t] = to], info' = info
        PROVE InfoInv'
    BY <2>2
  <2>3. ASSUME NEW t \in Thread, TimerFire(t) \/ Call(t) PROVE InfoInv'
    BY <2>2, <2>3 DEF TimerFire, Call, local, Pc
  <2>4. ASSUME NEW t \in Thread, TakeSnapshot(t) PROVE InfoInv'
    BY <2>2, <2>4 DEF TakeSnapshot, Pc
  <2>5. ASSUME NEW t \in Thread, LockApply(t) \/ DisableCrtcs(t) \/ FailApply(t) PROVE InfoInv'
    BY <2>2, <2>5 DEF LockApply, DisableCrtcs, FailApply, local, Pc, Applying
  <2>6. ASSUME NEW t \in Thread, SetCrtcs(t) \/ EndWait(t) PROVE InfoInv'
    BY <2>2, <2>6 DEF SetCrtcs, EndWait, local, Pc, Applying
  <2>7. ASSUME NEW t \in Thread, RefreshIds(t) \/ Finish(t) PROVE InfoInv'
    BY <2>2, <2>7 DEF RefreshIds, Finish, local, Pc, Applying
  <2>8. ASSUME NEW t \in Thread, GetInfo(t) PROVE InfoInv'
    BY <2>8 DEF GetInfo
  <2>9. ASSUME NEW t \in Thread, RefreshMonitor(t) PROVE InfoInv'
    BY <2>9 DEF RefreshMonitor
  <2>10. CASE \E o \in Output : Plug(o) \/ HandleCrtcEvent(o)
    BY <2>1, <2>10 DEF Plug, HandleCrtcEvent, local
  <2>11. CASE EventStep
    BY <2>1, <2>11 DEF EventStep, HandleEvent, ReportChanged, ReportIds, local
  <2>12. CASE UNCHANGED vars
    BY <2>1, <2>12 DEF vars, local
  <2> QED
    BY <2>3, <2>4, <2>5, <2>6, <2>7, <2>8, <2>9, <2>10, <2>11, <2>12 DEF Next, ApplyStep
<1> QED
  BY <1>1, <1>2, TypeCorrect, PTL DEF Spec

\* The ways out of OnlyKnownLosses for output o.
KnownLoss(o) ==
    \/ NeverApplied
    \/ \E t \in Thread : \/ pc[t] = "disable" /\ pc'[t] = "finish"
                         \/ [out |-> o, conn |-> o \notin cache.conn] \in info[t]

\* A step that neither touches the cache and the monitors nor takes a report away
\* loses nothing.
LEMMA CoverageKept ==
    ASSUME NEW o \in Output, Covered(o), UNCHANGED <<cache, mon, evTodo, todo, info>>,
           \A t \in Thread : pc[t] \in Grabbed => pc'[t] \in Grabbed
    PROVE  Covered(o)'
BY DEF Covered

\* A hot-plug is lost to the Manager in the three known ways only, for any number
\* of goroutines, outputs and hot-plugs.
THEOREM KnownLossesOnly == Spec => OnlyKnownLosses
<1>1. TypeOK /\ InfoInv /\ [Next]_vars =>
        \A o \in Output : Covered(o) /\ ~Covered(o)' => KnownLoss(o)
  <2> SUFFICES ASSUME TypeOK, InfoInv, [Next]_vars,
                      NEW o \in Output, Covered(o), ~KnownLoss(o)
               PROVE  Covered(o)'
    OBVIOUS
  <2> USE DEF TypeOK, Goto
  <2>1. ASSUME NEW p \in Output, Plug(p) PROVE Covered(o)'
    BY <2>1, CoverageKept DEF Plug, mgr, event, local
  <2>2. ASSUME NEW p \in Output, HandleCrtcEvent(p) PROVE Covered(o)'
    BY <2>2 DEF HandleCrtcEvent, mgr, local, Covered
  <2>3. CASE HandleEvent
    <3>1. CASE (o \in cache.conn) # (o \in cache'.conn)
      BY <2>3, <3>1 DEF HandleEvent, Covered
    <3>2. CASE (o \in cache.conn) = (o \in cache'.conn)
      BY <2>3, <3>2 DEF HandleEvent, Covered, mgr, local
    <3> QED
      BY <3>1, <3>2
  <2>4. ASSUME NEW p \in Output, ReportChanged(p) PROVE Covered(o)'
    <3>1. CASE cbEnabled
      BY <2>4, <3>1 DEF ReportChanged, With, Covered, local
    <3>2. CASE ~cbEnabled
      <4>1. PICK t \in Thread : pc[t] \in Grabbed
        BY <3>2 DEF KnownLoss, NeverApplied
      <4> QED
        BY <2>4, <4>1 DEF ReportChanged, Covered
    <3> QED
      BY <3>1, <3>2
  <2>5. CASE ReportIds
    BY <2>5, CoverageKept DEF ReportIds, local
  <2>6. ASSUME NEW t \in Thread, TimerFire(t) \/ Call(t) PROVE Covered(o)'
    BY <2>6, CoverageKept DEF TimerFire, Call, Grabbed, mgr, event, local
  <2>7. ASSUME NEW t \in Thread, TakeSnapshot(t) PROVE Covered(o)'
    BY <2>7, CoverageKept DEF TakeSnapshot, Grabbed, mgr, event
  <2>8. ASSUME NEW t \in Thread, LockApply(t) PROVE Covered(o)'
    BY <2>8, CoverageKept DEF LockApply, Grabbed, mgr, event, local
  <2>9. ASSUME NEW t \in Thread, DisableCrtcs(t) \/ SetCrtcs(t) PROVE Covered(o)'
    BY <2>9, CoverageKept DEF DisableCrtcs, SetCrtcs, Grabbed, mgr, event, local
  <2>10. ASSUME NEW t \in Thread, FailApply(t) PROVE Covered(o)'
    BY <2>10 DEF FailApply, KnownLoss
  <2>11. ASSUME NEW t \in Thread, EndWait(t) PROVE Covered(o)'
    BY <2>11 DEF EndWait, Covered
  <2>12. ASSUME NEW t \in Thread, GetInfo(t) PROVE Covered(o)'
    BY <2>12 DEF GetInfo, Covered, InfoInv, Grabbed, mgr, event
  <2>13. ASSUME NEW t \in Thread, RefreshMonitor(t) PROVE Covered(o)'
    BY <2>13 DEF RefreshMonitor, With, Covered, InfoInv, KnownLoss, Grabbed, event, Info
  <2>14. ASSUME NEW t \in Thread, RefreshIds(t) PROVE Covered(o)'
    BY <2>14, CoverageKept DEF RefreshIds, Grabbed, event, local
  <2>15. ASSUME NEW t \in Thread, Finish(t) PROVE Covered(o)'
    BY <2>15, CoverageKept DEF Finish, Grabbed, mgr, event
  <2>16. CASE UNCHANGED vars
    BY <2>16, CoverageKept DEF vars, mgr, event, local
  <2> QED
    BY <2>1, <2>2, <2>3, <2>4, <2>5, <2>6, <2>7, <2>8, <2>9, <2>10, <2>11,
       <2>12, <2>13, <2>14, <2>15, <2>16 DEF Next, EventStep, ApplyStep
<1>2. TypeOK /\ InfoInv /\ [Next]_vars =>
        [\A o \in Output : Covered(o) /\ ~Covered(o)' =>
            \/ NeverApplied
            \/ \E t \in Thread : \/ pc[t] = "disable" /\ pc'[t] = "finish"
                                 \/ [out |-> o, conn |-> o \notin cache.conn] \in info[t]
        ]_vars
  BY <1>1 DEF KnownLoss
<1> QED
  BY <1>2, TypeCorrect, InfoInvariant, PTL DEF Spec, OnlyKnownLosses

-----------------------------------------------------------------------------
(* The cache of xMonitorManager.                                           *)

\* The event at place i of the queue tells about the output o ...
About(i, o) == evq[i].kind = "output" /\ evq[i].out = o
\* ... or makes the event goroutine read the resources again for sure.
Rereads(i) == evq[i].kind = "screen" /\ evq[i].ts # srv.ts

\* As long as the cache is not of the present timestamp, an event with that
\* timestamp is still to come.  After that what the cache has wrong about an output
\* is put right by an event in the queue: by the latest one about the output, which
\* tells the truth, or by the resources that an older screen event makes it read.
CacheInv ==
    /\ cache.ts <= srv.ts
    /\ \A i \in 1 .. Len(evq) : evq[i].kind = "screen" => evq[i].ts <= srv.ts
    /\ cache.ts # srv.ts => \E i \in 1 .. Len(evq) : evq[i].kind = "screen" /\ evq[i].ts = srv.ts
    /\ \A o \in Output, i \in 1 .. Len(evq) :
         About(i, o) => evq[i].conn = (o \in srv.conn) \/ \E j \in i + 1 .. Len(evq) : About(j, o)
    /\ cache.ts = srv.ts =>
         \A o \in Output : \/ o \in cache.conn <=> o \in srv.conn
                           \/ \E i \in 1 .. Len(evq) : About(i, o) \/ Rereads(i)

\* Who touches the cache, the server's state or the queue.
LEMMA CacheFrame ==
    ASSUME [Next]_vars
    PROVE  (\E o \in Output : Plug(o)) \/ HandleEvent \/ UNCHANGED <<server, cache>>
<1>1. CASE \E o \in Output : HandleCrtcEvent(o)
  BY <1>1 DEF HandleCrtcEvent
<1>2. CASE EventStep
  BY <1>2 DEF EventStep, ReportChanged, ReportIds
<1>3. CASE \E t \in Thread : TimerFire(t) \/ Call(t)
  BY <1>3 DEF TimerFire, Call
<1>4. ASSUME NEW t \in Thread, ApplyStep(t) PROVE UNCHANGED <<server, cache>>
  BY <1>4 DEF ApplyStep, TakeSnapshot, LockApply, DisableCrtcs, FailApply, SetCrtcs, EndWait, GetInfo,
              RefreshMonitor, RefreshIds, Finish
<1>5. CASE UNCHANGED vars
  BY <1>5 DEF vars
<1> QED
  BY <1>1, <1>2, <1>3, <1>4, <1>5 DEF Next

\* What is left of the queue after its first event.
LEMMA TailPlaces ==
    ASSUME TypeOK, evq # <<>>, evq' = Tail(evq)
    PROVE  /\ Len(evq) \in Nat \ {0} /\ Len(evq') = Len(evq) - 1
           /\ Head(evq) = evq[1] /\ evq[1] \in Event
           /\ \A i \in 1 .. Len(evq') : evq'[i] = evq[i + 1]
           /\ \A i \in 2 .. Len(evq) : i - 1 \in 1 .. Len(evq') /\ evq'[i - 1] = evq[i]
BY DEF TypeOK

\* The two events of a hot-plug are the last of the queue.
LEMMA PlugPlaces ==
    ASSUME TypeOK, NEW o \in Output, Plug(o)
    PROVE  LET n == Len(evq) IN
           /\ n \in Nat /\ Len(evq') = n + 2
           /\ \A i \in 1 .. n : evq'[i] = evq[i]
           /\ evq'[n + 1] = [kind |-> "screen", ts |-> srv'.ts]
           /\ evq'[n + 2] = [kind |-> "output", out |-> o, conn |-> o \in srv'.conn]
           /\ srv'.ts = srv.ts + 1
           /\ \A p \in Output \ {o} : p \in srv'.conn <=> p \in srv.conn
<1> DEFINE e == [kind |-> "screen", ts |-> srv'.ts]
           f == [kind |-> "output", out |-> o, conn |-> o \in srv'.conn]
<1>1. srv'.ts = srv.ts + 1 /\ srv'.conn = With(srv.conn, o, o \notin srv.conn)
  BY DEF Plug
<1>2. srv'.ts \in Nat
  BY <1>1, ConstantsAssumption DEF TypeOK, Screen
<1>3. e \in Event /\ f \in Event
  BY <1>2 DEF Event
<1>4. evq' = evq \o <<e, f>>
  BY DEF Plug
<1> HIDE DEF e, f
<1>5. /\ Len(evq) \in Nat /\ Len(evq') = Len(evq) + 2
      /\ \A i \in 1 .. Len(evq) : evq'[i] = evq[i]
      /\ evq'[Len(evq) + 1] = e /\ evq'[Len(evq) + 2] = f
  BY <1>3, <1>4 DEF TypeOK
<1>6. \A p \in Output \ {o} : p \in srv'.conn <=> p \in srv.conn
  BY <1>1 DEF With
<1> QED
  BY <1>1, <1>5, <1>6 DEF e, f

LEMMA PlugCache ==
    ASSUME TypeOK, CacheInv, NEW o \in Output, Plug(o)
    PROVE  CacheInv'
<1>n. PICK n \in Nat : n = Len(evq)
  BY PlugPlaces
<1>a. /\ Len(evq') = n + 2
      /\ \A i \in 1 .. n : evq'[i] = evq[i]
      /\ evq'[n + 1] = [kind |-> "screen", ts |-> srv'.ts]
      /\ evq'[n + 2] = [kind |-> "output", out |-> o, conn |-> o \in srv'.conn]
      /\ srv'.ts = srv.ts + 1
      /\ \A p \in Output \ {o} : p \in srv'.conn <=> p \in srv.conn
  BY <1>n, PlugPlaces
<1>b. /\ evq'[n + 1].kind = "screen" /\ evq'[n + 1].ts = srv'.ts
      /\ evq'[n + 2].kind = "output" /\ evq'[n + 2].out = o /\ evq'[n + 2].conn = (o \in srv'.conn)
  BY <1>a
<1>c. srv.ts \in Nat /\ cache.ts \in Nat /\ cache' = cache
  BY DEF Plug, TypeOK, Screen
<1>1. cache'.ts <= srv'.ts /\ cache'.ts # srv'.ts
  BY <1>a, <1>c DEF CacheInv
<1>2. ASSUME NEW i \in 1 .. Len(evq'), evq'[i].kind = "screen" PROVE evq'[i].ts <= srv'.ts
  <2>1. CASE i \in 1 .. n
    <3>1. i \in 1 .. Len(evq) /\ evq[i] \in Event /\ evq'[i] = evq[i]
      BY <1>a, <1>n, <2>1 DEF TypeOK
    <3>2. evq[i].ts <= srv.ts /\ evq[i].ts \in Nat
      BY <1>2, <3>1 DEF CacheInv, Event
    <3> QED
      BY <1>a, <1>b, <1>c, <3>1, <3>2
  <2>2. CASE i = n + 1 \/ i = n + 2
    BY <1>a, <1>b, <1>c, <1>2, <2>2
  <2> QED
    BY <1>a, <1>b, <1>c, <2>1, <2>2
<1>3. \E i \in 1 .. Len(evq') : evq'[i].kind = "screen" /\ evq'[i].ts = srv'.ts
  <2>1. n + 1 \in 1 .. Len(evq')
    BY <1>a
  <2> QED
    BY <1>a, <1>b, <1>c, <2>1
<1>4. ASSUME NEW p \in Output, NEW i \in 1 .. Len(evq'), About(i, p)'
      PROVE  evq'[i].conn = (p \in srv'.conn) \/ \E j \in i + 1 .. Len(evq') : About(j, p)'
  <2>1. CASE i = n + 1 \/ i = n + 2
    BY <1>a, <1>b, <1>c, <1>4, <2>1 DEF About
  <2>2. CASE i \in 1 .. n /\ p = o
    <3>1. n + 2 \in i + 1 .. Len(evq') /\ About(n + 2, p)'
      BY <1>a, <1>b, <1>c, <2>2 DEF About
    <3> QED
      BY <3>1
  <2>3. CASE i \in 1 .. n /\ p # o
    <3>1. evq'[i] = evq[i] /\ About(i, p) /\ i \in 1 .. Len(evq)
      BY <1>a, <1>b, <1>c, <1>4, <2>3, <1>n DEF About
    <3>2. CASE evq[i].conn = (p \in srv.conn)
      BY <1>a, <1>b, <1>c, <2>3, <3>1, <3>2
    <3>3. ASSUME NEW j \in i + 1 .. Len(evq), About(j, p)
          PROVE  \E k \in i + 1 .. Len(evq') : About(k, p)'
      <4>1. j \in i + 1 .. Len(evq') /\ j \in 1 .. n
        BY <1>a, <1>n
      <4> QED
        BY <1>a, <1>b, <1>c, <3>3, <4>1 DEF About
    <3> QED
      BY <3>1, <3>2, <3>3 DEF CacheInv
  <2> QED
    BY <1>a, <1>b, <1>c, <2>1, <2>2, <2>3
<1> QED
  BY <1>1, <1>2, <1>3, <1>4 DEF CacheInv

\* An output event that does not tell the truth is followed by another one, a screen
\* event that is not read is followed by one that is.
LEMMA HandleCache ==
    ASSUME TypeOK, CacheInv, HandleEvent
    PROVE  CacheInv'
<1>0. evq # <<>> /\ evq' = Tail(evq) /\ cache' = CacheAfter(Head(evq)) /\ srv' = srv
  BY DEF HandleEvent
<1>1. /\ Len(evq) \in Nat \ {0} /\ Len(evq') = Len(evq) - 1 /\ evq[1] \in Event
      /\ \A i \in 1 .. Len(evq') : evq'[i] = evq[i + 1]
      /\ \A i \in 2 .. Len(evq) : i - 1 \in 1 .. Len(evq') /\ evq'[i - 1] = evq[i]
      /\ cache' = CacheAfter(evq[1])
  BY <1>0, TailPlaces
<1>2. srv \in Screen /\ cache \in Screen /\ srv.ts \in Nat /\ cache.ts \in Nat
  BY DEF TypeOK, Screen
<1>3. /\ evq[1].kind = "output" => cache' = [cache EXCEPT !.conn = With(@, evq[1].out, evq[1].conn)]
      /\ evq[1].kind = "screen" => cache' = IF evq[1].ts # cache.ts THEN srv ELSE cache
      /\ evq[1].kind \in {"output", "screen"}
  BY <1>1 DEF CacheAfter, Event
<1>4. cache'.ts \in {cache.ts, srv.ts} /\ cache'.ts <= srv'.ts
  BY <1>0, <1>2, <1>3 DEF CacheInv, Screen
<1>5. ASSUME NEW i \in 1 .. Len(evq'), evq'[i].kind = "screen" PROVE evq'[i].ts <= srv'.ts
  BY <1>0, <1>1, <1>5 DEF CacheInv
<1>6. ASSUME cache'.ts # srv'.ts
      PROVE  \E i \in 1 .. Len(evq') : evq'[i].kind = "screen" /\ evq'[i].ts = srv'.ts
  <2>1. cache'.ts = cache.ts /\ cache.ts # srv.ts
    BY <1>0, <1>4, <1>6
  <2>2. PICK i \in 1 .. Len(evq) : evq[i].kind = "screen" /\ evq[i].ts = srv.ts
    BY <2>1 DEF CacheInv
  <2>3. i # 1
    BY <1>0, <1>3, <1>6, <2>1, <2>2
  <2>4. i \in 2 .. Len(evq)
    BY <1>1, <2>3
  <2> QED
    BY <1>0, <1>1, <2>2, <2>4
<1>7. ASSUME NEW o \in Output, NEW i \in 1 .. Len(evq'), About(i, o)'
      PROVE  evq'[i].conn = (o \in srv'.conn) \/ \E j \in i + 1 .. Len(evq') : About(j, o)'
  <2>1. i + 1 \in 1 .. Len(evq) /\ evq'[i] = evq[i + 1] /\ About(i + 1, o)
    BY <1>1, <1>7 DEF About
  <2>2. CASE evq[i + 1].conn = (o \in srv.conn)
    BY <1>0, <2>1, <2>2
  <2>3. ASSUME NEW j \in i + 2 .. Len(evq), About(j, o)
        PROVE  \E k \in i + 1 .. Len(evq') : About(k, o)'
    <3>1. j - 1 \in i + 1 .. Len(evq') /\ evq'[j - 1] = evq[j]
      BY <1>1
    <3> QED
      BY <2>3, <3>1 DEF About
  <2>4. evq[i + 1].conn = (o \in srv.conn) \/ \E j \in (i + 1) + 1 .. Len(evq) : About(j, o)
    BY <2>1 DEF CacheInv
  <2>5. (i + 1) + 1 = i + 2
    OBVIOUS
  <2> QED
    BY <2>2, <2>3, <2>4, <2>5
<1>8. ASSUME cache'.ts = srv'.ts, NEW o \in Output
      PROVE  \/ o \in cache'.conn <=> o \in srv'.conn
             \/ \E i \in 1 .. Len(evq') : About(i, o)' \/ Rereads(i)'
  <2>1. ASSUME NEW i \in 2 .. Len(evq), About(i, o) \/ Rereads(i)
        PROVE  \E k \in 1 .. Len(evq') : About(k, o)' \/ Rereads(k)'
    <3>1. i - 1 \in 1 .. Len(evq') /\ evq'[i - 1] = evq[i]
      BY <1>1
    <3> QED
      BY <1>0, <2>1, <3>1 DEF About, Rereads
  <2>2. CASE cache' = srv
    BY <1>0, <2>2
  <2>3. CASE cache' # srv /\ About(1, o)
    <3>1. cache'.conn = With(cache.conn, o, evq[1].conn)
      BY <1>2, <1>3, <2>3 DEF About, Screen
    <3>2. CASE evq[1].conn = (o \in srv.conn)
      BY <1>0, <3>1, <3>2 DEF With
    <3>3. CASE \E j \in 2 .. Len(evq) : About(j, o)
      BY <2>1, <3>3
    <3>4. 1 \in 1 .. Len(evq) /\ 1 + 1 = 2
      BY <1>1
    <3> QED
      BY <2>3, <3>2, <3>3, <3>4 DEF CacheInv
  <2>4. CASE cache' # srv /\ ~About(1, o)
    <3>1. (o \in cache'.conn <=> o \in cache.conn) /\ cache'.ts = cache.ts
      BY <1>2, <1>3, <2>4 DEF About, With, Screen
    <3>2. ~Rereads(1)
      BY <1>0, <1>3, <1>8, <2>4, <3>1 DEF Rereads
    <3>3. \/ o \in cache.conn <=> o \in srv.conn
          \/ \E i \in 1 .. Len(evq) : About(i, o) \/ Rereads(i)
      BY <1>0, <1>8, <3>1 DEF CacheInv
    <3>4. ASSUME NEW i \in 1 .. Len(evq), About(i, o) \/ Rereads(i) PROVE i \in 2 .. Len(evq)
      BY <1>1, <2>4, <3>2, <3>4
    <3> QED
      BY <1>0, <2>1, <3>1, <3>3, <3>4
  <2> QED
    BY <2>2, <2>3, <2>4
<1> QED
  BY <1>4, <1>5, <1>6, <1>7, <1>8 DEF CacheInv

\* Once the events are handled the cache is the server's state, however many
\* hot-plugs came while the older ones were handled: HandleScreenChanged reads the
\* state of now, HandleEvent then sets the outputs back to what they were, and no
\* screen event reads again if its timestamp is the one already read.
THEOREM CacheCatchesUp == Spec => []CacheCurrent
<1>1. Init => CacheInv
  <2> SUFFICES ASSUME Init PROVE CacheInv
    OBVIOUS
  <2>1. cache = srv /\ srv.ts = 0 /\ Len(evq) = 0
    BY DEF Init
  <2> QED
    BY <2>1 DEF CacheInv
<1>2. TypeOK /\ CacheInv /\ [Next]_vars => CacheInv'
  <2> SUFFICES ASSUME TypeOK, CacheInv, [Next]_vars PROVE CacheInv'
    OBVIOUS
  <2>1. CASE UNCHANGED <<server, cache>>
    BY <2>1 DEF CacheInv, About, Rereads, server
  <2> QED
    BY <2>1, CacheFrame, PlugCache, HandleCache
<1>3. TypeOK /\ CacheInv => CacheCurrent
  <2> SUFFICES ASSUME TypeOK, CacheInv, evq = <<>> PROVE cache = srv
    BY DEF CacheCurrent
  <2>1. 1 .. Len(evq) = {}
    OBVIOUS
  <2>2. cache.ts = srv.ts
    BY <2>1 DEF CacheInv
  <2>3. \A o \in Output : o \in cache.conn <=> o \in srv.conn
    BY <2>1, <2>2 DEF CacheInv
  <2>4. cache \in Screen /\ srv \in Screen
    BY DEF TypeOK
  <2>5. cache.conn = srv.conn
    BY <2>3, <2>4 DEF Screen
  <2> QED
    BY <2>2, <2>4, <2>5 DEF Screen
<1> QED
  BY <1>1, <1>2, <1>3, TypeCorrect, PTL DEF Spec

-----------------------------------------------------------------------------
(* What is to be applied.                                                  *)

\* The latest copy was made for the present monitorsId, or another one is due.
CopyDue ==
    \/ timer
    \/ \E t \in Thread : pc[t] \in {"fired", "called"}
    \/ tried.id = monitorsId

\* monitorsId is that of the monitors, or somebody is about to compare the two.
IdsDue ==
    \/ mon = {}
    \/ mon = monitorsId
    \/ evPc = "ids"
    \/ \E t \in Thread : pc[t] = "ids"

\* The goroutine that compares may leave.
LEMMA IdsCompared ==
    ASSUME UpdateMonitorsId
    PROVE  /\ mon = {} \/ mon = monitorsId'
           /\ timer => timer'
           /\ monitorsId' # monitorsId => timer'
BY DEF UpdateMonitorsId

\* A goroutine t that goes on leaves the others where they are.
LEMMA OthersStay ==
    ASSUME TypeOK, NEW t \in Thread, NEW to, pc' = [pc EXCEPT ![t] = to]
    PROVE  pc'[t] = to /\ \A u \in Thread \ {t} : pc'[u] = pc[u]
BY DEF TypeOK

LEMMA DueStep ==
    ASSUME TypeOK, CopyDue, IdsDue, [Next]_vars
    PROVE  CopyDue' /\ IdsDue'
<1> USE DEF Goto
<1>1. CASE UNCHANGED <<mgr, evPc, pc, tried>>
  BY <1>1 DEF CopyDue, IdsDue, mgr
<1>2. CASE \E o \in Output : Plug(o)
  BY <1>1, <1>2 DEF Plug, event, hist
<1>3. CASE HandleEvent \/ \E o \in Output : HandleCrtcEvent(o)
  <2>1. UNCHANGED <<mgr, pc, tried>> /\ evPc = "idle"
    BY <1>3 DEF HandleEvent, HandleCrtcEvent, hist
  <2> QED
    BY <2>1 DEF CopyDue, IdsDue, mgr
<1>4. CASE \E o \in Output : ReportChanged(o)
  <2>1. UNCHANGED <<monitorsId, timer, pc, tried>> /\ evPc = "diff" /\ (evPc' = "ids" \/ mon' = mon)
    BY <1>4 DEF ReportChanged, hist
  <2> QED
    BY <2>1 DEF CopyDue, IdsDue
<1>5. CASE ReportIds
  <2>1. UNCHANGED <<mon, pc, tried>> /\ UpdateMonitorsId
    BY <1>5 DEF ReportIds, hist
  <2> QED
    BY <2>1, IdsCompared DEF CopyDue, IdsDue
<1>6. ASSUME NEW t \in Thread, TimerFire(t) \/ Call(t) PROVE CopyDue' /\ IdsDue'
  <2>1. PICK to \in {"fired", "called"} : pc' = [pc EXCEPT ![t] = to]
    BY <1>6 DEF TimerFire, Call
  <2>2. pc[t] = "idle" /\ UNCHANGED <<mon, monitorsId, evPc, tried>>
    BY <1>6 DEF TimerFire, Call, event, mgr, hist
  <2>3. CopyDue'
    BY <2>1, OthersStay DEF CopyDue
  <2>4. IdsDue'
    BY <2>1, <2>2, OthersStay DEF IdsDue
  <2> QED
    BY <2>3, <2>4
<1>7. ASSUME NEW t \in Thread, TakeSnapshot(t) PROVE CopyDue' /\ IdsDue'
  <2>1. PICK to \in Pc : pc' = [pc EXCEPT ![t] = to]
    BY <1>7 DEF TakeSnapshot, Pc
  <2>2. tried'.id = monitorsId /\ UNCHANGED <<mon, monitorsId, timer, evPc>> /\ pc[t] # "ids"
    BY <1>7 DEF TakeSnapshot, mgr, event
  <2> QED
    BY <2>1, <2>2, OthersStay DEF CopyDue, IdsDue
<1>8. ASSUME NEW t \in Thread,
             LockApply(t) \/ DisableCrtcs(t) \/ FailApply(t) \/ SetCrtcs(t) \/ EndWait(t) \/ GetInfo(t) \/ Finish(t)
      PROVE CopyDue' /\ IdsDue'
  <2>1. PICK to : pc' = [pc EXCEPT ![t] = to]
    BY <1>8 DEF LockApply, DisableCrtcs, FailApply, SetCrtcs, EndWait, GetInfo, Finish
  <2>2. UNCHANGED <<mgr, evPc, tried>> /\ pc[t] \notin {"fired", "called", "ids"}
    BY <1>8 DEF LockApply, DisableCrtcs, FailApply, SetCrtcs, EndWait, GetInfo, Finish, event, hist
  <2> QED
    BY <2>1, <2>2, OthersStay DEF CopyDue, IdsDue, mgr
<1>9. ASSUME NEW t \in Thread, RefreshMonitor(t) PROVE CopyDue' /\ IdsDue'
  <2>1. pc' = [pc EXCEPT ![t] = "ids"] /\ pc[t] = "update" /\ UNCHANGED <<monitorsId, timer, tried>>
    BY <1>9 DEF RefreshMonitor
  <2> QED
    BY <2>1, OthersStay DEF CopyDue, IdsDue
<1>10. ASSUME NEW t \in Thread, RefreshIds(t) PROVE CopyDue' /\ IdsDue'
  <2>1. PICK to : pc' = [pc EXCEPT ![t] = to]
    BY <1>10 DEF RefreshIds
  <2>2. UNCHANGED <<mon, tried>> /\ UpdateMonitorsId /\ pc[t] = "ids"
    BY <1>10 DEF RefreshIds, hist
  <2> QED
    BY <2>1, <2>2, OthersStay, IdsCompared DEF CopyDue, IdsDue
<1>11. CASE UNCHANGED vars
  BY <1>1, <1>11 DEF vars, event, hist
<1> QED
  BY <1>2, <1>3, <1>4, <1>5, <1>6, <1>7, <1>8, <1>9, <1>10, <1>11 DEF Next, EventStep, ApplyStep

\* No application is lost: the latest configuration tried is the one for the
\* monitors the Manager knows, or another one is due, whatever the number of
\* hot-plugs and whoever applies, unless the latest copy was made while the
\* monitors and monitorsId differed.
THEOREM ApplicationDue == Spec => []NoApplyLost
<1>1. Init => CopyDue /\ IdsDue
  BY ConstantsAssumption DEF Init, CopyDue, IdsDue
<1>2. TypeOK /\ (CopyDue /\ IdsDue) /\ [Next]_vars => (CopyDue /\ IdsDue)'
  BY DueStep
<1>3. CopyDue /\ IdsDue => NoApplyLost
  BY DEF CopyDue, IdsDue, NoApplyLost, ApplyDue
<1> QED
  BY <1>1, <1>2, <1>3, TypeCorrect, PTL DEF Spec

==============================================================================
