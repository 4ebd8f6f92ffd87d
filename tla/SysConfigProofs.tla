--------------------------- MODULE SysConfigProofs ---------------------------
(***************************************************************************)
(* Proofs about SysConfig, for every set of sessions and of workers and    *)
(* for any number of writes and of changes of the active session.          *)
(***************************************************************************)
EXTENDS SysConfig, TLAPS

\* What a session has got from the daemon and not taken over yet.
Held(s) == parked[s] \cup new[s]

\* No version is ahead of the clock, and one with the daemon's number that was got
\* from it is the daemon's; number 0 is that of the empty configuration.
StampInv ==
    /\ store.at <= clock
    /\ store.at = 0 => store.cfg = Empty
    /\ \A s \in Session : mem[s].at <= clock
    /\ \A s \in Session : \A v \in Held(s) : /\ v.at <= store.at
                                             /\ v.at = store.at => v = store
    /\ StampIdentifies

\* All values of the configuration c are of the first n writes.
Made(c, n) == \A k \in Section : c[k] <= n

\* No value is newer than the last write.
MadeInv ==
    /\ Made(store.cfg, writes)
    /\ \A s \in Session : Made(mem[s].cfg, writes)
    /\ \A g \in Session \X Worker : Made(copy[g], writes)
    /\ \A s \in Session : \A v \in Held(s) : Made(v.cfg, writes)

\* The configuration of a session that is based on the latest version has no older
\* value than that, unless a worker reverted one.
NotOlder ==
    \A s \in Session : mem[s].at = store.at /\ ~reverted[s]
        => \A k \in Section : mem[s].cfg[k] >= store.cfg[k]

\* A session that does not listen gets no version; one that is active has put
\* none aside, and one that handles a version has no other.
HeldInv ==
    \A s \in Session :
        /\ life[s] # "on" => /\ hpc[s] = "idle" /\ parked[s] = {}
                             /\ \A i \in 1 .. Len(queue[s]) : queue[s][i].kind = "active"
        /\ active[s] => parked[s] = {}
        /\ hpc[s] \in {"idle", "get"} => new[s] = {}
        /\ hpc[s] \in {"compare", "set"} => parked[s] = {}

\* The signal of the latest version is still to be handled.
Sent(s) == \E i \in 1 .. Len(queue[s]) : queue[s][i].kind = "updated" /\ queue[s][i].at = store.at

\* UpToDate in every state: a session that listens has the latest version, or it is
\* on its way, unless a call failed.
Coming(s) ==
    \/ Sent(s)
    \/ hpc[s] = "get"
    \/ hpc[s] \in {"compare", "set"} /\ new[s] = {store}
    \/ hpc[s] = "idle" /\ (mem[s].at = store.at \/ parked[s] = {store})

OnItsWay == \A s \in Session : life[s] = "on" /\ ~lost[s] => Coming(s)

\* A job applies the section k.
Covers(j, k) == k \in Given(j.what) \cup Current(j.what)

\* The section k is in force and the worker g is about to write it down.
Unwritten(g, k) ==
    \/ pc[g] = "screen" /\ k \in Screen
    \/ pc[g] = "fill" /\ k = "fill"

\* AppliedWhatChanged in every state: unless something was disturbed, workers and
\* jobs exclude one another, the latter have the present configuration, and what
\* is not in force has a job, or is what a worker is about to write.
Orderly(s) ==
    /\ \A v, w \in Worker : pc[<<s, v>>] # "idle" /\ pc[<<s, w>>] # "idle" => v = w
    /\ jobs[s] # {} => ~Working(s)
    /\ hpc[s] = "set" => \A v \in new[s] : diff[s] = {k \in Section : v.cfg[k] # mem[s].cfg[k]}
    /\ \A j \in jobs[s] : j.cfg = mem[s].cfg
    /\ \A k \in Visible :
        \/ shown[s][k] = mem[s].cfg[k]
        \/ \E j \in jobs[s] : Covers(j, k)
        \/ \E w \in Worker : Unwritten(<<s, w>>, k)
    /\ \A w \in Worker, k \in Section :
        Unwritten(<<s, w>>, k) => copy[<<s, w>>][k] = shown[s][k]

AppliedAt(s) ==
    /\ life[s] = "off" => ~Working(s) /\ jobs[s] = {} /\ hpc[s] = "idle"
    /\ life[s] # "off" /\ ~disturbed[s] => Orderly(s)

AppliedInv == \A s \in Session : AppliedAt(s)

\* A session holds one version at a time.
OneVersion == \A s \in Session : \A u, v \in Held(s) : u = v

-----------------------------------------------------------------------------
(* Types.                                                                  *)

LEMMA EmptyType == Empty \in Config
  BY DEF Empty, Config

\* A changed section leaves a configuration a configuration.
LEMMA ChangeType ==
  ASSUME NEW c \in Config, NEW k \in Section, NEW n \in Nat
  PROVE  [c EXCEPT ![k] = n] \in Config
  BY DEF Config

\* A save keeps the types of what it touches.
LEMMA SaveType ==
  ASSUME TypeOK, NEW s \in Session, NEW c \in Config, SaveAs(s, c)
  PROVE  /\ clock' \in Nat
         /\ mem' \in [Session -> Version]
         /\ store' \in Version
         /\ queue' \in [Session -> Seq(Signal)]
         /\ lost' \in [Session -> BOOLEAN]
<1> USE DEF TypeOK
<1>1. clock' \in Nat
  BY DEF SaveAs
<1>2. [cfg |-> c, at |-> clock'] \in Version
  BY <1>1 DEF Version
<1>3. mem' \in [Session -> Version]
  BY <1>2 DEF SaveAs
<1>4. store' \in Version
  BY <1>3 DEF SaveAs
<1>5. queue' \in [Session -> Seq(Signal)]
  <2>1. [kind |-> "updated", at |-> clock'] \in Signal
    BY <1>1 DEF Signal
  <2>2. \A t \in Session : Append(queue[t], [kind |-> "updated", at |-> clock']) \in Seq(Signal)
    BY <2>1
  <2>3. CASE queue' = [t \in Session |->
                         IF life[t] = "on" THEN Append(queue[t], [kind |-> "updated", at |-> clock'])
                                           ELSE queue[t]]
    BY <2>2, <2>3
  <2> QED
    BY <2>3 DEF SaveAs
<1>6. lost' \in [Session -> BOOLEAN]
  BY DEF SaveAs
<1> QED
  BY <1>1, <1>3, <1>4, <1>5, <1>6

\* So does a change, which is counted.
LEMMA ChangedType ==
  ASSUME TypeOK, NEW s \in Session, NEW k \in Section, Change(s, k)
  PROVE  writes' \in 0 .. MaxWrite /\ writes' \in Nat /\ shown' \in [Session -> Config]
<1>1. writes' \in 0 .. MaxWrite /\ writes' \in Nat
  BY ConstantsAssumption DEF ConstantsAssumption, TypeOK, Change
<1>2. shown[s] \in Config
  BY DEF TypeOK
<1>3. [shown[s] EXCEPT ![k] = writes'] \in Config
  BY <1>1, <1>2, ChangeType
<1>4. shown' = [shown EXCEPT ![s] = [shown[s] EXCEPT ![k] = writes']]
  BY DEF Change
<1> QED
  BY <1>1, <1>3, <1>4 DEF TypeOK

LEMMA GotoType ==
  ASSUME TypeOK, NEW g, NEW from, NEW to \in {"idle", "screen", "fill", "save"}, Goto(g, from, to)
  PROVE  pc' \in [Session \X Worker -> {"idle", "screen", "fill", "save"}]
  BY DEF TypeOK, Goto

LEMMA AtType ==
  ASSUME TypeOK, NEW s, NEW from, NEW to \in {"idle", "get", "compare", "set"}, At(s, from, to)
  PROVE  hpc' \in [Session -> {"idle", "get", "compare", "set"}]
  BY DEF TypeOK, At

\* Every variable keeps its type.
LEMMA TypeStep == TypeOK /\ [Next]_vars => TypeOK'
<1> SUFFICES ASSUME TypeOK, [Next]_vars PROVE TypeOK'
  OBVIOUS
<1> USE DEF daemon, logind, session, handler, worker
<1>1. ASSUME NEW x \in Session \cup {Nobody}, SwitchTo(x) PROVE TypeOK'
  <2>1. switches' \in 0 .. MaxSwitch
    BY <1>1, ConstantsAssumption DEF ConstantsAssumption, SwitchTo, TypeOK
  <2>2. \A s \in Session : [kind |-> "active", on |-> s = x] \in Signal
    BY DEF Signal
  <2>3. \A s \in Session : Send(s, [kind |-> "active", on |-> s = x]) \in Seq(Signal)
    BY <2>2 DEF Send, TypeOK
  <2>4. queue' \in [Session -> Seq(Signal)]
    BY <1>1, <2>3 DEF SwitchTo, TypeOK
  <2> QED
    BY <1>1, <2>1, <2>4 DEF SwitchTo, TypeOK
<1>2. ASSUME NEW s \in Session, Load(s) PROVE TypeOK'
  <2>1. [cfg |-> Empty, at |-> 0] \in Version
    BY EmptyType DEF Version
  <2>2. mem' \in [Session -> Version] /\ lost' \in [Session -> BOOLEAN]
    <3>1. CASE mem' = [mem EXCEPT ![s] = store] /\ lost' = lost
      BY <3>1 DEF TypeOK
    <3>2. CASE /\ mem' = [mem EXCEPT ![s] = [cfg |-> Empty, at |-> 0]]
               /\ lost' = [lost EXCEPT ![s] = TRUE]
      BY <2>1, <3>2 DEF TypeOK
    <3> QED
      BY <1>2, <3>1, <3>2 DEF Load
  <2>3. shown' \in [Session -> Config]
    BY <1>2, <2>2 DEF Load, TypeOK, Version
  <2> QED
    BY <1>2, <2>2, <2>3 DEF Load, TypeOK
<1>3. ASSUME NEW s \in Session, Listen(s) PROVE TypeOK'
  BY <1>3 DEF Listen, TypeOK
<1>4. ASSUME NEW s \in Session, NEW k \in Section, SaveLocked(s, k) PROVE TypeOK'
  <2>1. writes' \in 0 .. MaxWrite /\ writes' \in Nat /\ shown' \in [Session -> Config]
    BY <1>4, ChangedType DEF SaveLocked
  <2>2. [mem[s].cfg EXCEPT ![k] = writes'] \in Config
    BY <2>1, ChangeType DEF TypeOK, Version
  <2>3. disturbed' \in [Session -> BOOLEAN]
    BY <1>4 DEF SaveLocked, TypeOK, Handling
  <2> QED
    BY <1>4, <2>1, <2>2, <2>3, SaveType DEF SaveLocked, TypeOK
<1>5. ASSUME NEW s \in Session, NEW w \in Worker, NEW k \in Screen, CopyScreen(s, w, k)
      PROVE  TypeOK'
  <2>1. writes' \in 0 .. MaxWrite /\ writes' \in Nat /\ shown' \in [Session -> Config]
    BY <1>5, ChangedType DEF CopyScreen, Section
  <2>2. GetSysScreenConfig(s) \in Config
    BY DEF GetSysScreenConfig, Config, TypeOK, Version
  <2>3. [GetSysScreenConfig(s) EXCEPT ![k] = writes'] \in Config
    BY <2>1, <2>2, ChangeType DEF Section
  <2>4. copy' \in [Session \X Worker -> Config]
    BY <1>5, <2>3 DEF CopyScreen, TypeOK
  <2>5. disturbed' \in [Session -> BOOLEAN]
    BY <1>5 DEF CopyScreen, Disturb, TypeOK, Handling, Working
  <2> QED
    BY <1>5, <2>1, <2>4, <2>5, GotoType DEF CopyScreen, TypeOK
<1>6. ASSUME NEW s \in Session, NEW w \in Worker, SetScreen(s, w) PROVE TypeOK'
  <2> DEFINE c == [k \in Section |-> IF k \in Screen THEN copy[<<s, w>>][k] ELSE mem[s].cfg[k]]
  <2>1. c \in Config
    BY DEF TypeOK, Config, Version
  <2>2. mem' \in [Session -> Version]
    BY <1>6, <2>1 DEF SetScreen, TypeOK, Version
  <2>3. copy' \in [Session \X Worker -> Config]
    BY <1>6, EmptyType DEF SetScreen, TypeOK
  <2>4. reverted' \in [Session -> BOOLEAN] /\ disturbed' \in [Session -> BOOLEAN]
    BY <1>6 DEF SetScreen, TypeOK, Handling
  <2> QED
    BY <1>6, <2>2, <2>3, <2>4, GotoType DEF SetScreen, TypeOK
<1>7. ASSUME NEW s \in Session, NEW w \in Worker, Save(s, w) PROVE TypeOK'
  <2>1. mem[s].cfg \in Config
    BY DEF TypeOK, Version
  <2> QED
    BY <1>7, <2>1, SaveType, GotoType DEF Save, TypeOK
<1>8. ASSUME NEW s \in Session, NEW w \in Worker, RecordConnected(s, w) PROVE TypeOK'
  <2>1. writes' \in 0 .. MaxWrite /\ writes' \in Nat /\ shown' \in [Session -> Config]
    BY <1>8, ChangedType DEF RecordConnected, Section
  <2>2. [mem[s].cfg EXCEPT !["cache"] = writes'] \in Config
    BY <2>1, ChangeType DEF TypeOK, Version, Section
  <2>3. mem' \in [Session -> Version]
    BY <1>8, <2>2 DEF RecordConnected, TypeOK, Version
  <2>4. disturbed' \in [Session -> BOOLEAN]
    BY <1>8 DEF RecordConnected, Disturb, TypeOK, Handling, Working
  <2> QED
    BY <1>8, <2>1, <2>3, <2>4, GotoType DEF RecordConnected, TypeOK
<1>9. ASSUME NEW s \in Session, NEW w \in Worker, SetFill(s, w) PROVE TypeOK'
  <2>1. writes' \in 0 .. MaxWrite /\ shown' \in [Session -> Config]
    <3>1. CASE Change(s, "fill")
      BY <3>1, ChangedType DEF Section
    <3>2. CASE ~Change(s, "fill")
      <4>1. shown' = [shown EXCEPT ![s] = [shown[s] EXCEPT !["fill"] = mem[s].cfg["fill"]]]
        BY <1>9, <3>2 DEF SetFill
      <4>2. shown[s] \in Config /\ mem[s].cfg \in Config
        BY DEF TypeOK, Version
      <4>3. [shown[s] EXCEPT !["fill"] = mem[s].cfg["fill"]] \in Config
        BY <4>2, ChangeType DEF Section, Config
      <4>4. writes' \in 0 .. MaxWrite
        BY <1>9, <3>2, ConstantsAssumption DEF ConstantsAssumption, SetFill, TypeOK
      <4> QED
        BY <4>1, <4>3, <4>4 DEF TypeOK
    <3> QED
      BY <3>1, <3>2
  <2>2. [Empty EXCEPT !["fill"] = shown'[s]["fill"]] \in Config
    BY <2>1, EmptyType, ChangeType DEF Config, Section
  <2>3. copy' \in [Session \X Worker -> Config]
    BY <1>9, <2>2 DEF SetFill, TypeOK
  <2>4. disturbed' \in [Session -> BOOLEAN]
    BY <1>9 DEF SetFill, Disturb, TypeOK, Handling, Working
  <2> QED
    BY <1>9, <2>1, <2>3, <2>4, GotoType DEF SetFill, TypeOK
<1>10. ASSUME NEW s \in Session, NEW w \in Worker, SaveFill(s, w) PROVE TypeOK'
  <2> DEFINE v == copy[<<s, w>>]["fill"]
  <2>1. [mem[s].cfg EXCEPT !["fill"] = v] \in Config
    BY ChangeType DEF TypeOK, Version, Config, Section
  <2>2. copy' \in [Session \X Worker -> Config]
    BY <1>10, EmptyType DEF SaveFill, TypeOK
  <2>3. reverted' \in [Session -> BOOLEAN] /\ disturbed' \in [Session -> BOOLEAN]
    BY <1>10 DEF SaveFill, TypeOK, Handling
  <2> QED
    BY <1>10, <2>1, <2>2, <2>3, SaveType, GotoType DEF SaveFill, TypeOK
<1>11. ASSUME NEW s \in Session, ReceiveUpdated(s) PROVE TypeOK'
  <2>1. queue' \in [Session -> Seq(Signal)]
    BY <1>11 DEF ReceiveUpdated, TypeOK
  <2> QED
    BY <1>11, <2>1, AtType DEF ReceiveUpdated, TypeOK
<1>12. ASSUME NEW s \in Session, ReceiveActive(s) PROVE TypeOK'
  <2>1. queue' \in [Session -> Seq(Signal)]
    BY <1>12 DEF ReceiveActive, TypeOK
  <2>2. Head(queue[s]) \in Signal /\ Head(queue[s]).kind = "active"
    BY <1>12 DEF ReceiveActive, TypeOK
  <2>3. active' \in [Session -> BOOLEAN]
    BY <1>12, <2>2 DEF ReceiveActive, TypeOK, Signal
  <2>4. hpc' \in [Session -> {"idle", "get", "compare", "set"}]
    BY <1>12, AtType DEF ReceiveActive
  <2>5. lost' \in [Session -> BOOLEAN]
    BY <1>12 DEF ReceiveActive, TypeOK
  <2>6. new' \in [Session -> SUBSET Version] /\ parked' \in [Session -> SUBSET Version]
    <3>1. /\ new' = new \/ new' = [new EXCEPT ![s] = parked[s]]
          /\ parked' = parked \/ parked' = [parked EXCEPT ![s] = {}]
      BY <1>12 DEF ReceiveActive
    <3>2. /\ new \in [Session -> SUBSET Version] /\ parked \in [Session -> SUBSET Version]
          /\ parked[s] \in SUBSET Version /\ {} \in SUBSET Version
      BY DEF TypeOK
    <3> QED
      BY <3>1, <3>2
  <2> QED
    BY <1>12, <2>1, <2>3, <2>4, <2>5, <2>6 DEF ReceiveActive, TypeOK
<1>13. ASSUME NEW s \in Session, Fetch(s) PROVE TypeOK'
  <2>1. hpc' \in [Session -> {"idle", "get", "compare", "set"}]
    BY <1>13, AtType DEF Fetch
  <2>2. {store} \in SUBSET Version
    BY DEF TypeOK
  <2>3. new' \in [Session -> SUBSET Version]
    BY <1>13, <2>2 DEF Fetch, TypeOK
  <2>4. parked' \in [Session -> SUBSET Version]
    BY <1>13, <2>2 DEF Fetch, TypeOK
  <2>5. lost' \in [Session -> BOOLEAN]
    BY <1>13 DEF Fetch, TypeOK
  <2> QED
    BY <1>13, <2>1, <2>3, <2>4, <2>5 DEF Fetch, TypeOK
<1>14. ASSUME NEW s \in Session, Compare(s) PROVE TypeOK'
  <2>1. hpc' \in [Session -> {"idle", "get", "compare", "set"}]
    BY <1>14, AtType DEF Compare
  <2>2. diff' \in [Session -> SUBSET Section]
    BY <1>14 DEF Compare, TypeOK
  <2> QED
    BY <1>14, <2>1, <2>2 DEF Compare, TypeOK
<1>15. ASSUME NEW s \in Session, SetCfg(s) PROVE TypeOK'
  <2>1. PICK v \in new[s] :
          /\ mem' = [mem EXCEPT ![s] = v]
          /\ jobs' = [jobs EXCEPT ![s] =
               @ \cup {[what |-> w, cfg |-> v.cfg] : w \in {x \in What : Due(x, diff[s])}}]
          /\ lost' = [lost EXCEPT ![s] = @ /\ v.at # store.at]
    BY <1>15 DEF SetCfg
  <2>2. v \in Version /\ v.cfg \in Config
    BY DEF TypeOK, Version
  <2>3. mem' \in [Session -> Version]
    BY <2>1, <2>2 DEF TypeOK
  <2>4. {[what |-> w, cfg |-> v.cfg] : w \in {x \in What : Due(x, diff[s])}} \subseteq Job
    BY <2>2 DEF Job
  <2>5. jobs' \in [Session -> SUBSET Job]
    BY <2>1, <2>4 DEF TypeOK
  <2>6. lost' \in [Session -> BOOLEAN] /\ disturbed' \in [Session -> BOOLEAN]
    BY <1>15, <2>1 DEF SetCfg, TypeOK, Working
  <2> QED
    BY <1>15, <2>3, <2>5, <2>6, AtType DEF SetCfg, TypeOK
<1>16. ASSUME NEW s \in Session, NEW j \in jobs[s], RunJob(s, j) PROVE TypeOK'
  <2>1. j.cfg \in Config /\ mem[s].cfg \in Config /\ shown[s] \in Config
    BY DEF TypeOK, Job, Version
  <2>2. [k \in Section |-> IF k \in Given(j.what) THEN j.cfg[k]
                           ELSE IF k \in Current(j.what) THEN mem[s].cfg[k] ELSE shown[s][k]] \in Config
    BY <2>1 DEF Config
  <2>3. shown' \in [Session -> Config] /\ disturbed' \in [Session -> BOOLEAN]
    BY <1>16, <2>2 DEF RunJob, TypeOK
  <2> QED
    BY <1>16, <2>3 DEF RunJob, TypeOK
<1>17. CASE UNCHANGED vars
  BY <1>17 DEF vars, TypeOK
<1> QED
  BY <1>1, <1>2, <1>3, <1>4, <1>5, <1>6, <1>7, <1>8, <1>9, <1>10, <1>11, <1>12, <1>13,
     <1>14, <1>15, <1>16, <1>17
     DEF Next, Handle, Begin, Proceed, Section

\* Every variable has its type in every state.
THEOREM TypeCorrect == Spec => []TypeOK
<1>1. Init => TypeOK
  BY ConstantsAssumption, EmptyType DEF ConstantsAssumption, Init, TypeOK, Version
<1> QED
  BY <1>1, TypeStep, PTL DEF Spec

-----------------------------------------------------------------------------
(* UpdateAt stands for the contents.                                       *)

\* What leaves the versions alone, and ends no change that is ahead of its
\* number, keeps the invariant.
LEMMA StampFrame ==
  ASSUME StampInv, UNCHANGED <<store, clock, mem, parked, new>>,
         \A s \in Session, w \in Worker : pc[<<s, w>>] = "save" => pc'[<<s, w>>] = "save"
  PROVE  StampInv'
  BY DEF StampInv, StampIdentifies, Held

\* A save makes a version with a number that no other has.
LEMMA StampSave ==
  ASSUME TypeOK, StampInv, NEW s \in Session, NEW c \in Config, SaveAs(s, c),
         UNCHANGED <<parked, new>>,
         \A t \in Session \ {s}, w \in Worker : pc[<<t, w>>] = "save" => pc'[<<t, w>>] = "save"
  PROVE  StampInv'
<1>1. clock \in Nat /\ clock' = clock + 1
  BY DEF SaveAs, TypeOK
<1>2. /\ mem'[s] = [cfg |-> c, at |-> clock']
      /\ \A t \in Session \ {s} : mem'[t] = mem[t]
  BY DEF SaveAs, TypeOK
<1>3. store' = store \/ store' = mem'[s]
  BY DEF SaveAs
<1>4. store.at \in Nat /\ \A t \in Session : mem[t].at \in Nat
  BY DEF TypeOK, Version
<1>5. \A t \in Session : Held(t)' = Held(t) /\ \A v \in Held(t) : v.at \in Nat
  BY DEF TypeOK, Version, Held
<1>6. store'.at <= clock' /\ (store'.at = 0 => store'.cfg = Empty)
  BY <1>1, <1>2, <1>3, <1>4 DEF StampInv
<1>7. \A t \in Session : mem'[t].at <= clock'
  BY <1>1, <1>2, <1>4 DEF StampInv
<1>8. \A t \in Session : \A v \in Held(t)' : v.at <= store'.at /\ (v.at = store'.at => v = store')
  BY <1>1, <1>2, <1>3, <1>4, <1>5 DEF StampInv
<1>9. StampIdentifies'
  <2> SUFFICES ASSUME NEW t \in Session, mem'[t].at = store'.at,
                      \A w \in Worker : pc'[<<t, w>>] # "save"
               PROVE  mem'[t].cfg = store'.cfg
    BY DEF StampIdentifies
  <2>1. CASE t = s
    BY <2>1, <1>1, <1>2, <1>3, <1>4 DEF StampInv
  <2>2. CASE t # s
    BY <2>2, <1>1, <1>2, <1>3, <1>4 DEF StampInv, StampIdentifies
  <2> QED
    BY <2>1, <2>2
<1> QED
  BY <1>6, <1>7, <1>8, <1>9 DEF StampInv

\* A session that becomes active handles the version put aside.
LEMMA ReceiveHolds ==
  ASSUME TypeOK, NEW s \in Session, ReceiveActive(s)
  PROVE  \A t \in Session : Held(t)' \subseteq Held(t)
<1>1. CASE active'[s] /\ parked[s] # {}
  <2>1. /\ new' = [new EXCEPT ![s] = parked[s]]
        /\ parked' = [parked EXCEPT ![s] = {}]
    BY <1>1 DEF ReceiveActive
  <2> QED
    BY <2>1 DEF TypeOK, Held
<1>2. CASE ~(active'[s] /\ parked[s] # {})
  BY <1>2 DEF ReceiveActive, Held
<1> QED
  BY <1>1, <1>2

LEMMA StampStep == TypeOK /\ StampInv /\ [Next]_vars => StampInv'
<1> SUFFICES ASSUME TypeOK, StampInv, [Next]_vars PROVE StampInv'
  OBVIOUS
<1> USE DEF daemon, logind, session, handler, worker
<1>1. ASSUME NEW x \in Session \cup {Nobody}, SwitchTo(x) PROVE StampInv'
  BY <1>1, StampFrame DEF SwitchTo
<1>2. ASSUME NEW s \in Session, Load(s) PROVE StampInv'
  <2>1. mem'[s] = store \/ mem'[s] = [cfg |-> Empty, at |-> 0]
    BY <1>2 DEF Load, TypeOK
  <2>2. \A t \in Session \ {s} : mem'[t] = mem[t]
    BY <1>2 DEF Load, TypeOK
  <2>3. store.at \in Nat /\ clock \in Nat
    BY DEF TypeOK, Version
  <2>4. UNCHANGED <<store, clock, parked, new, pc>>
    BY <1>2 DEF Load
  <2>5. \A t \in Session : mem'[t].at <= clock
    BY <2>1, <2>2, <2>3 DEF StampInv
  <2>6. StampIdentifies'
    BY <2>1, <2>2, <2>4 DEF StampInv, StampIdentifies
  <2> QED
    BY <2>4, <2>5, <2>6 DEF StampInv, Held
<1>3. ASSUME NEW s \in Session, Listen(s) PROVE StampInv'
  BY <1>3, StampFrame DEF Listen
<1>4. ASSUME NEW s \in Session, NEW k \in Section, SaveLocked(s, k) PROVE StampInv'
  <2>1. [mem[s].cfg EXCEPT ![k] = writes'] \in Config
    BY <1>4, ChangedType, ChangeType DEF SaveLocked, TypeOK, Version
  <2> QED
    BY <1>4, <2>1, StampSave DEF SaveLocked
<1>5. ASSUME NEW s \in Session, NEW w \in Worker, NEW k \in Screen, CopyScreen(s, w, k)
      PROVE  StampInv'
  BY <1>5, StampFrame DEF CopyScreen, Goto, TypeOK
<1>6. ASSUME NEW s \in Session, NEW w \in Worker, SetScreen(s, w) PROVE StampInv'
  <2>1. mem'[s].at = mem[s].at /\ \A t \in Session \ {s} : mem'[t] = mem[t]
    BY <1>6 DEF SetScreen, TypeOK, Version
  <2>2. UNCHANGED <<store, clock, parked, new>>
    BY <1>6 DEF SetScreen
  <2>3. /\ pc'[<<s, w>>] = "save"
        /\ \A t \in Session \ {s}, v \in Worker : pc'[<<t, v>>] = pc[<<t, v>>]
    BY <1>6 DEF SetScreen, Goto, TypeOK
  <2> QED
    BY <2>1, <2>2, <2>3 DEF StampInv, StampIdentifies, Held
<1>7. ASSUME NEW s \in Session, NEW w \in Worker, Save(s, w) PROVE StampInv'
  <2>1. mem[s].cfg \in Config
    BY DEF TypeOK, Version
  <2>2. \A t \in Session \ {s}, v \in Worker : pc'[<<t, v>>] = pc[<<t, v>>]
    BY <1>7 DEF Save, Goto, TypeOK
  <2> QED
    BY <1>7, <2>1, <2>2, StampSave DEF Save
<1>8. ASSUME NEW s \in Session, NEW w \in Worker, RecordConnected(s, w) PROVE StampInv'
  <2>1. mem'[s].at = mem[s].at /\ \A t \in Session \ {s} : mem'[t] = mem[t]
    BY <1>8 DEF RecordConnected, TypeOK, Version
  <2>2. UNCHANGED <<store, clock, parked, new>>
    BY <1>8 DEF RecordConnected
  <2>3. /\ pc'[<<s, w>>] = "save"
        /\ \A t \in Session \ {s}, v \in Worker : pc'[<<t, v>>] = pc[<<t, v>>]
    BY <1>8 DEF RecordConnected, Goto, TypeOK
  <2> QED
    BY <2>1, <2>2, <2>3 DEF StampInv, StampIdentifies, Held
<1>9. ASSUME NEW s \in Session, NEW w \in Worker, SetFill(s, w) PROVE StampInv'
  BY <1>9, StampFrame DEF SetFill, Goto, TypeOK
<1>10. ASSUME NEW s \in Session, NEW w \in Worker, SaveFill(s, w) PROVE StampInv'
  <2>1. [mem[s].cfg EXCEPT !["fill"] = copy[<<s, w>>]["fill"]] \in Config
    BY ChangeType DEF TypeOK, Version, Config, Section
  <2>2. \A t \in Session \ {s}, v \in Worker : pc'[<<t, v>>] = pc[<<t, v>>]
    BY <1>10 DEF SaveFill, Goto, TypeOK
  <2> QED
    BY <1>10, <2>1, <2>2, StampSave DEF SaveFill
<1>11. ASSUME NEW s \in Session, ReceiveUpdated(s) PROVE StampInv'
  BY <1>11, StampFrame DEF ReceiveUpdated
<1>12. ASSUME NEW s \in Session, ReceiveActive(s) PROVE StampInv'
  <2>1. UNCHANGED <<store, clock, mem, pc>>
    BY <1>12 DEF ReceiveActive
  <2>2. \A t \in Session : Held(t)' \subseteq Held(t)
    BY <1>12, ReceiveHolds
  <2> QED
    BY <2>1, <2>2 DEF StampInv, StampIdentifies
<1>13. ASSUME NEW s \in Session, Fetch(s) PROVE StampInv'
  <2>1. UNCHANGED <<store, clock, mem, pc>>
    BY <1>13 DEF Fetch
  <2>2. \A t \in Session : Held(t)' \subseteq Held(t) \cup {store}
    BY <1>13 DEF Fetch, TypeOK, Held
  <2>3. store.at \in Nat
    BY DEF TypeOK, Version
  <2> QED
    BY <2>1, <2>2, <2>3 DEF StampInv, StampIdentifies
<1>14. ASSUME NEW s \in Session, Compare(s) PROVE StampInv'
  BY <1>14, StampFrame DEF Compare
<1>15. ASSUME NEW s \in Session, SetCfg(s) PROVE StampInv'
  <2>1. PICK v \in new[s] : mem' = [mem EXCEPT ![s] = v]
    BY <1>15 DEF SetCfg
  <2>2. UNCHANGED <<store, clock, parked, pc>> /\ new' = [new EXCEPT ![s] = {}]
    BY <1>15 DEF SetCfg
  <2>3. v.at <= store.at /\ (v.at = store.at => v = store)
    BY DEF StampInv, Held
  <2>4. v.at \in Nat /\ store.at \in Nat /\ clock \in Nat
    BY DEF TypeOK, Version
  <2>5. mem'[s] = v /\ \A t \in Session \ {s} : mem'[t] = mem[t]
    BY <2>1 DEF TypeOK
  <2>6. \A t \in Session : Held(t)' \subseteq Held(t)
    BY <2>2 DEF Held, TypeOK
  <2>7. \A t \in Session : mem'[t].at <= clock
    BY <2>3, <2>4, <2>5 DEF StampInv
  <2>8. StampIdentifies'
    BY <2>2, <2>3, <2>5 DEF StampInv, StampIdentifies
  <2> QED
    BY <2>2, <2>6, <2>7, <2>8 DEF StampInv
<1>16. ASSUME NEW s \in Session, NEW j \in jobs[s], RunJob(s, j) PROVE StampInv'
  BY <1>16, StampFrame DEF RunJob
<1>17. CASE UNCHANGED vars
  BY <1>17, StampFrame DEF vars
<1> QED
  BY <1>1, <1>2, <1>3, <1>4, <1>5, <1>6, <1>7, <1>8, <1>9, <1>10, <1>11, <1>12, <1>13,
     <1>14, <1>15, <1>16, <1>17
     DEF Next, Handle, Begin, Proceed, Section

\* Two versions with the same number are the same.
LEMMA StampCorrect == Spec => []StampInv
<1>1. Init => StampInv
  BY DEF Init, StampInv, StampIdentifies, Held
<1> QED
  BY <1>1, TypeCorrect, StampStep, PTL DEF Spec

\* A session whose UpdateAt is the daemon's, and that has changed nothing since it was
\* saved, has the daemon's configuration: handleSysConfigUpdated may ignore it.
THEOREM StampSafe == Spec => []StampIdentifies
<1>1. StampInv => StampIdentifies
  BY DEF StampInv
<1> QED
  BY <1>1, StampCorrect, PTL

-----------------------------------------------------------------------------
(* What a session holds.                                                   *)

LEMMA HeldFrame ==
  ASSUME HeldInv, UNCHANGED <<session, handler, queue>>
  PROVE  HeldInv'
  BY DEF HeldInv, session, handler

\* A save is signalled to those only who listen.
LEMMA HeldSave ==
  ASSUME HeldInv, NEW s \in Session, NEW c, SaveAs(s, c), UNCHANGED <<session, handler>>
  PROVE  HeldInv'
<1>1. \A t \in Session : life[t] # "on" => queue'[t] = queue[t]
  BY DEF SaveAs
<1> QED
  BY <1>1 DEF HeldInv, session, handler

LEMMA HeldStep == TypeOK /\ HeldInv /\ [Next]_vars => HeldInv'
<1> SUFFICES ASSUME TypeOK, HeldInv, [Next]_vars PROVE HeldInv'
  OBVIOUS
<1>1. ASSUME NEW x \in Session \cup {Nobody}, SwitchTo(x) PROVE HeldInv'
  <2>1. UNCHANGED <<session, handler>>
    BY <1>1 DEF SwitchTo
  <2> SUFFICES ASSUME NEW t \in Session, life[t] # "on", NEW i \in 1 .. Len(queue'[t])
               PROVE  queue'[t][i].kind = "active"
    BY <2>1 DEF HeldInv, session, handler
  <2>2. \/ queue'[t] = queue[t]
        \/ queue'[t] = Append(queue[t], [kind |-> "active", on |-> t = x])
    BY <1>1 DEF SwitchTo, Send
  <2>3. queue[t] \in Seq(Signal) /\ [kind |-> "active", on |-> t = x] \in Signal
    BY DEF TypeOK, Signal
  <2>4. \A n \in 1 .. Len(queue[t]) : queue[t][n].kind = "active"
    BY DEF HeldInv
  <2> QED
    BY <2>2, <2>3, <2>4
<1>2. ASSUME NEW s \in Session, Load(s) PROVE HeldInv'
  BY <1>2 DEF Load, HeldInv, TypeOK, handler
<1>3. ASSUME NEW s \in Session, Listen(s) PROVE HeldInv'
  BY <1>3 DEF Listen, HeldInv, TypeOK, handler
<1>4. ASSUME NEW s \in Session, NEW k \in Section, SaveLocked(s, k) PROVE HeldInv'
  BY <1>4, HeldSave DEF SaveLocked
<1>5. ASSUME NEW s \in Session, NEW w \in Worker, NEW k \in Screen, CopyScreen(s, w, k)
      PROVE  HeldInv'
  BY <1>5, HeldFrame DEF CopyScreen
<1>6. ASSUME NEW s \in Session, NEW w \in Worker, SetScreen(s, w) PROVE HeldInv'
  BY <1>6, HeldFrame DEF SetScreen
<1>7. ASSUME NEW s \in Session, NEW w \in Worker, Save(s, w) PROVE HeldInv'
  BY <1>7, HeldSave DEF Save
<1>8. ASSUME NEW s \in Session, NEW w \in Worker, RecordConnected(s, w) PROVE HeldInv'
  BY <1>8, HeldFrame DEF RecordConnected
<1>9. ASSUME NEW s \in Session, NEW w \in Worker, SetFill(s, w) PROVE HeldInv'
  BY <1>9, HeldFrame DEF SetFill
<1>10. ASSUME NEW s \in Session, NEW w \in Worker, SaveFill(s, w) PROVE HeldInv'
  BY <1>10, HeldSave DEF SaveFill
<1>11. ASSUME NEW s \in Session, ReceiveUpdated(s) PROVE HeldInv'
  <2>1. queue[s] \in Seq(Signal) /\ queue[s] # <<>> /\ Head(queue[s]).kind = "updated"
    BY <1>11 DEF ReceiveUpdated, TypeOK
  <2>2. Head(queue[s]) = queue[s][1] /\ 1 \in 1 .. Len(queue[s])
    BY <2>1
  <2>3. life[s] = "on"
    BY <2>1, <2>2 DEF HeldInv
  <2> QED
    BY <1>11, <2>3 DEF ReceiveUpdated, At, HeldInv, TypeOK, session
<1>12. ASSUME NEW s \in Session, ReceiveActive(s) PROVE HeldInv'
  <2>1. queue[s] \in Seq(Signal) /\ queue[s] # <<>>
    BY <1>12 DEF ReceiveActive, TypeOK
  <2>2. queue'[s] = Tail(queue[s]) /\ \A t \in Session \ {s} : queue'[t] = queue[t]
    BY <1>12 DEF ReceiveActive, TypeOK
  <2>3. life[s] # "on" => \A i \in 1 .. Len(queue'[s]) : queue'[s][i].kind = "active"
    BY <2>1, <2>2 DEF HeldInv
  <2>4. CASE active'[s] /\ parked[s] # {}
    <3>1. /\ new' = [new EXCEPT ![s] = parked[s]]
          /\ parked' = [parked EXCEPT ![s] = {}]
          /\ hpc' = [hpc EXCEPT ![s] = "compare"]
      BY <1>12, <2>4 DEF ReceiveActive, At
    <3>2. life' = life /\ life[s] = "on" /\ \A t \in Session \ {s} : active'[t] = active[t]
      BY <1>12, <2>4 DEF ReceiveActive, HeldInv, TypeOK
    <3> QED
      BY <2>2, <3>1, <3>2 DEF HeldInv, TypeOK
  <2>5. CASE ~(active'[s] /\ parked[s] # {})
    <3>1. UNCHANGED <<new, parked, life>> /\ hpc[s] = "idle" /\ hpc' = [hpc EXCEPT ![s] = "idle"]
      BY <1>12, <2>5 DEF ReceiveActive, At
    <3>2. \A t \in Session \ {s} : active'[t] = active[t]
      BY <1>12 DEF ReceiveActive, TypeOK
    <3>3. /\ life'[s] # "on" => hpc'[s] = "idle" /\ parked'[s] = {}
          /\ active'[s] => parked'[s] = {}
          /\ hpc'[s] = "idle" /\ new'[s] = {}
      BY <2>5, <3>1 DEF HeldInv, TypeOK
    <3>4. \A t \in Session \ {s} : hpc'[t] = hpc[t]
      BY <3>1 DEF TypeOK
    <3> SUFFICES ASSUME NEW t \in Session
                 PROVE  /\ life'[t] # "on" => /\ hpc'[t] = "idle" /\ parked'[t] = {}
                                              /\ \A i \in 1 .. Len(queue'[t]) : queue'[t][i].kind = "active"
                        /\ active'[t] => parked'[t] = {}
                        /\ hpc'[t] \in {"idle", "get"} => new'[t] = {}
                        /\ hpc'[t] \in {"compare", "set"} => parked'[t] = {}
      BY DEF HeldInv
    <3>5. CASE t = s
      BY <2>3, <3>1, <3>3, <3>5
    <3>6. CASE t # s
      BY <2>2, <3>1, <3>2, <3>4, <3>6 DEF HeldInv
    <3> QED
      BY <3>5, <3>6
  <2> QED
    BY <2>4, <2>5
<1>13. ASSUME NEW s \in Session, Fetch(s) PROVE HeldInv'
  <2>1. life[s] = "on" /\ new[s] = {}
    BY <1>13 DEF Fetch, At, HeldInv
  <2>2. CASE active[s] /\ At(s, "get", "compare") /\ new' = [new EXCEPT ![s] = {store}]
             /\ UNCHANGED parked
    BY <1>13, <2>1, <2>2 DEF Fetch, At, HeldInv, TypeOK
  <2>3. CASE ~active[s] /\ At(s, "get", "idle") /\ parked' = [parked EXCEPT ![s] = {store}]
             /\ UNCHANGED new
    BY <1>13, <2>1, <2>3 DEF Fetch, At, HeldInv, TypeOK
  <2>4. CASE At(s, "get", "idle") /\ UNCHANGED <<new, parked>>
    BY <1>13, <2>1, <2>4 DEF Fetch, At, HeldInv, TypeOK
  <2> QED
    BY <1>13, <2>2, <2>3, <2>4 DEF Fetch
<1>14. ASSUME NEW s \in Session, Compare(s) PROVE HeldInv'
  BY <1>14 DEF Compare, At, HeldInv, TypeOK, session
<1>15. ASSUME NEW s \in Session, SetCfg(s) PROVE HeldInv'
  BY <1>15 DEF SetCfg, At, HeldInv, TypeOK, session
<1>16. ASSUME NEW s \in Session, NEW j \in jobs[s], RunJob(s, j) PROVE HeldInv'
  BY <1>16, HeldFrame DEF RunJob
<1>17. CASE UNCHANGED vars
  BY <1>17, HeldFrame DEF vars
<1> QED
  BY <1>1, <1>2, <1>3, <1>4, <1>5, <1>6, <1>7, <1>8, <1>9, <1>10, <1>11, <1>12, <1>13,
     <1>14, <1>15, <1>16, <1>17
     DEF Next, Handle, Begin, Proceed, Section

LEMMA HeldCorrect == Spec => []HeldInv
<1>1. Init => HeldInv
  <2> SUFFICES ASSUME Init, NEW s \in Session
               PROVE  /\ hpc[s] = "idle" /\ parked[s] = {} /\ new[s] = {}
                      /\ \A i \in 1 .. Len(queue[s]) : queue[s][i].kind = "active"
    BY DEF HeldInv
  <2>1. queue[s] = <<>>
    BY DEF Init
  <2> QED
    BY <2>1 DEF Init
<1> QED
  BY <1>1, TypeCorrect, HeldStep, PTL DEF Spec

-----------------------------------------------------------------------------
(* SysConfig implements SharedConfig.                                      *)

\* What the sessions hold, as SharedConfig sees it.
HeldBar == [s \in Session |-> parked[s] \cup new[s]]

\* A save publishes a version.
LEMMA SavePublishes ==
  ASSUME TypeOK, NEW s \in Session, NEW c \in Config, SaveAs(s, c), UNCHANGED <<parked, new>>
  PROVE  Shared!Publish(s)
<1>1. clock' = clock + 1 /\ mem' = [mem EXCEPT ![s] = [cfg |-> c, at |-> clock']]
  BY DEF SaveAs
<1>2. mem'[s] = [cfg |-> c, at |-> clock']
  BY <1>1 DEF TypeOK
<1>3. store' \in {store, mem'[s]}
  BY DEF SaveAs
<1>4. mem'[s] \in [cfg : Config, at : {clock'}]
  BY <1>2
<1>5. mem' = [mem EXCEPT ![s] = mem'[s]]
  BY <1>1, <1>2
<1>6. HeldBar' = HeldBar
  BY DEF HeldBar
<1> QED
  BY <1>1, <1>3, <1>4, <1>5, <1>6 DEF Shared!Publish, Shared!Rewrite, HeldBar

\* A change that is not saved yet is an edit of the session's copy.
LEMMA ChangeEdits ==
  ASSUME TypeOK, NEW s \in Session, NEW c \in Config, mem' = [mem EXCEPT ![s].cfg = c],
         UNCHANGED <<store, clock, parked, new>>
  PROVE  Shared!Edit(s)
<1>1. mem'[s] = [cfg |-> c, at |-> mem[s].at]
  BY DEF TypeOK, Version
<1>2. mem' = [mem EXCEPT ![s] = mem'[s]]
  BY DEF TypeOK
<1> QED
  BY <1>1, <1>2 DEF Shared!Edit, Shared!Rewrite

\* Every step of the sessions is one that SharedConfig allows, or none to it.
LEMMA SharedStep ==
  ASSUME TypeOK, HeldInv, [Next]_vars
  PROVE  [Shared!Next]_(Shared!vars)
<1> USE DEF daemon, logind, session, handler, worker
<1>0. ASSUME UNCHANGED <<store, mem, parked, new, clock>> PROVE UNCHANGED Shared!vars
  BY <1>0 DEF Shared!vars
<1>1. ASSUME NEW x \in Session \cup {Nobody}, SwitchTo(x) PROVE UNCHANGED Shared!vars
  BY <1>0, <1>1 DEF SwitchTo
<1>2. ASSUME NEW s \in Session, Load(s) PROVE Shared!Join(s)
  BY <1>2 DEF Load, Shared!Join
<1>3. ASSUME NEW s \in Session, Listen(s) PROVE UNCHANGED Shared!vars
  BY <1>0, <1>3 DEF Listen
<1>4. ASSUME NEW s \in Session, NEW k \in Section, SaveLocked(s, k) PROVE Shared!Publish(s)
  <2>1. [mem[s].cfg EXCEPT ![k] = writes'] \in Config
    BY <1>4, ChangedType, ChangeType DEF SaveLocked, TypeOK, Version
  <2> QED
    BY <1>4, <2>1, SavePublishes DEF SaveLocked
<1>5. ASSUME NEW s \in Session, NEW w \in Worker, NEW k \in Screen, CopyScreen(s, w, k)
      PROVE  UNCHANGED Shared!vars
  BY <1>0, <1>5 DEF CopyScreen
<1>6. ASSUME NEW s \in Session, NEW w \in Worker, SetScreen(s, w) PROVE Shared!Edit(s)
  <2> DEFINE c == [k \in Section |-> IF k \in Screen THEN copy[<<s, w>>][k] ELSE mem[s].cfg[k]]
  <2>1. c \in Config
    BY DEF TypeOK, Config, Version
  <2> QED
    BY <1>6, <2>1, ChangeEdits DEF SetScreen
<1>7. ASSUME NEW s \in Session, NEW w \in Worker, Save(s, w) PROVE Shared!Publish(s)
  <2>1. mem[s].cfg \in Config
    BY DEF TypeOK, Version
  <2> QED
    BY <1>7, <2>1, SavePublishes DEF Save
<1>8. ASSUME NEW s \in Session, NEW w \in Worker, RecordConnected(s, w) PROVE Shared!Edit(s)
  <2> DEFINE c == [mem[s].cfg EXCEPT !["cache"] = writes']
  <2>1. c \in Config
    BY <1>8, ChangedType, ChangeType DEF RecordConnected, TypeOK, Version, Section
  <2>2. mem' = [mem EXCEPT ![s].cfg = c]
    BY <1>8 DEF RecordConnected
  <2> QED
    BY <1>8, <2>1, <2>2, ChangeEdits DEF RecordConnected
<1>9. ASSUME NEW s \in Session, NEW w \in Worker, SetFill(s, w) PROVE UNCHANGED Shared!vars
  BY <1>0, <1>9 DEF SetFill
<1>10. ASSUME NEW s \in Session, NEW w \in Worker, SaveFill(s, w) PROVE Shared!Publish(s)
  <2>1. [mem[s].cfg EXCEPT !["fill"] = copy[<<s, w>>]["fill"]] \in Config
    BY ChangeType DEF TypeOK, Version, Config, Section
  <2> QED
    BY <1>10, <2>1, SavePublishes DEF SaveFill
<1>11. ASSUME NEW s \in Session, ReceiveUpdated(s) PROVE UNCHANGED Shared!vars
  BY <1>0, <1>11 DEF ReceiveUpdated
<1>12. ASSUME NEW s \in Session, ReceiveActive(s) PROVE UNCHANGED Shared!vars
  <2>1. UNCHANGED <<store, mem, clock>>
    BY <1>12 DEF ReceiveActive
  <2>2. new[s] = {}
    BY <1>12 DEF ReceiveActive, At, HeldInv
  <2>3. \A t \in Session : parked'[t] \cup new'[t] = parked[t] \cup new[t]
    <3>1. CASE active'[s] /\ parked[s] # {}
      <4>1. /\ new' = [new EXCEPT ![s] = parked[s]]
            /\ parked' = [parked EXCEPT ![s] = {}]
        BY <1>12, <3>1 DEF ReceiveActive
      <4> QED
        BY <2>2, <4>1 DEF TypeOK
    <3>2. CASE ~(active'[s] /\ parked[s] # {})
      BY <1>12, <3>2 DEF ReceiveActive
    <3> QED
      BY <3>1, <3>2
  <2> QED
    BY <2>1, <2>3 DEF Shared!vars
<1>13. ASSUME NEW s \in Session, Fetch(s) PROVE Shared!Read(s) \/ UNCHANGED Shared!vars
  <2>1. UNCHANGED <<store, mem, clock>> /\ new[s] = {}
    BY <1>13 DEF Fetch, At, HeldInv
  <2>2. CASE active[s] /\ new' = [new EXCEPT ![s] = {store}] /\ UNCHANGED parked
    <3>1. parked[s] = {}
      BY <2>2 DEF HeldInv
    <3>2. HeldBar' = [HeldBar EXCEPT ![s] = {store}]
      BY <2>2, <3>1 DEF HeldBar, TypeOK
    <3> QED
      BY <2>1, <3>2 DEF Shared!Read, HeldBar
  <2>3. CASE parked' = [parked EXCEPT ![s] = {store}] /\ UNCHANGED new
    <3>1. HeldBar' = [HeldBar EXCEPT ![s] = {store}]
      BY <2>1, <2>3 DEF HeldBar, TypeOK
    <3> QED
      BY <2>1, <3>1 DEF Shared!Read, HeldBar
  <2>4. CASE UNCHANGED <<new, parked>>
    BY <1>0, <2>1, <2>4
  <2> QED
    BY <1>13, <2>2, <2>3, <2>4 DEF Fetch
<1>14. ASSUME NEW s \in Session, Compare(s) PROVE UNCHANGED Shared!vars
  BY <1>0, <1>14 DEF Compare
<1>15. ASSUME NEW s \in Session, SetCfg(s) PROVE Shared!TakeOver(s)
  <2>1. PICK v \in new[s] : mem' = [mem EXCEPT ![s] = v]
    BY <1>15 DEF SetCfg
  <2>2. UNCHANGED <<store, clock, parked>> /\ new' = [new EXCEPT ![s] = {}]
    BY <1>15 DEF SetCfg
  <2>3. parked[s] = {}
    BY <1>15 DEF SetCfg, At, HeldInv
  <2>4. HeldBar' = [HeldBar EXCEPT ![s] = {}]
    BY <2>2, <2>3 DEF HeldBar, TypeOK
  <2>5. v \in HeldBar[s]
    BY <2>1 DEF HeldBar
  <2> QED
    BY <2>1, <2>2, <2>4, <2>5 DEF Shared!TakeOver, HeldBar
<1>16. ASSUME NEW s \in Session, NEW j \in jobs[s], RunJob(s, j) PROVE UNCHANGED Shared!vars
  BY <1>0, <1>16 DEF RunJob
<1>17. CASE UNCHANGED vars
  BY <1>0, <1>17 DEF vars
<1> QED
  BY <1>1, <1>2, <1>3, <1>4, <1>5, <1>6, <1>7, <1>8, <1>9, <1>10, <1>11, <1>12, <1>13,
     <1>14, <1>15, <1>16, <1>17
     DEF Next, Handle, Begin, Proceed, Section, Shared!Next

\* The sessions' managers use the daemon as a register of whole versions: what one
\* takes over somebody published, and nobody sees what was not published.
THEOREM Implements == Spec => ImplementsSharedConfig
<1>1. Init => Shared!Init
  BY DEF Init, Shared!Init
<1>2. TypeOK /\ HeldInv /\ [Next]_vars => [Shared!Next]_(Shared!vars)
  BY SharedStep
<1> QED
  BY <1>1, <1>2, TypeCorrect, HeldCorrect, PTL DEF Spec, ImplementsSharedConfig, Shared!Spec

-----------------------------------------------------------------------------
(* No old value is saved.                                                  *)

LEMMA MadeEmpty ==
  ASSUME NEW n \in Nat PROVE Made(Empty, n)
  BY DEF Made, Empty

\* A new value is of a write of its own.
LEMMA MadeChange ==
  ASSUME NEW c \in Config, NEW m \in Nat, NEW n \in Nat, m <= n, Made(c, m),
         NEW k \in Section, NEW v \in Nat, v <= n
  PROVE  Made([c EXCEPT ![k] = v], n)
  BY DEF Made, Config

\* What a step takes over, or makes of values that were written, keeps MadeInv.
LEMMA MadeKept ==
  ASSUME TypeOK, MadeInv, writes' \in Nat, writes <= writes',
         store' = store \/ Made(store'.cfg, writes'),
         \A s \in Session : mem'[s].cfg = mem[s].cfg \/ Made(mem'[s].cfg, writes'),
         \A g \in Session \X Worker : copy'[g] = copy[g] \/ Made(copy'[g], writes'),
         \A s \in Session : \A v \in Held(s)' : v \in Held(s) \/ v = store
  PROVE  MadeInv'
<1>1. writes \in Nat
  BY ConstantsAssumption DEF ConstantsAssumption, TypeOK
<1>2. ASSUME NEW c \in Config, Made(c, writes) PROVE Made(c, writes')
  BY <1>1, <1>2 DEF Made, Config
<1>3. Made(store'.cfg, writes') /\ Made(store.cfg, writes')
  BY <1>2 DEF MadeInv, TypeOK, Version
<1>4. \A s \in Session : Made(mem'[s].cfg, writes')
  BY <1>2 DEF MadeInv, TypeOK, Version
<1>5. \A g \in Session \X Worker : Made(copy'[g], writes')
  BY <1>2 DEF MadeInv, TypeOK
<1>6. \A s \in Session : \A v \in Held(s) : v.cfg \in Config
  BY DEF Held, TypeOK, Version
<1>7. \A s \in Session : \A v \in Held(s)' : Made(v.cfg, writes')
  BY <1>2, <1>3, <1>6 DEF MadeInv
<1> QED
  BY <1>3, <1>4, <1>5, <1>7 DEF MadeInv

LEMMA MadeSave ==
  ASSUME TypeOK, MadeInv, writes' \in Nat, writes <= writes',
         NEW s \in Session, NEW c \in Config, SaveAs(s, c), Made(c, writes'),
         \A g \in Session \X Worker : copy'[g] = copy[g] \/ Made(copy'[g], writes'),
         UNCHANGED <<parked, new>>
  PROVE  MadeInv'
<1>1. mem'[s].cfg = c /\ \A t \in Session \ {s} : mem'[t] = mem[t]
  BY DEF SaveAs, TypeOK
<1>2. store' = store \/ store'.cfg = c
  BY <1>1 DEF SaveAs
<1>3. \A t \in Session : Held(t)' = Held(t)
  BY DEF Held
<1> QED
  BY <1>1, <1>2, <1>3, MadeKept

\* The number of writes grows.
LEMMA WritesGrow ==
  ASSUME TypeOK, NEW s, NEW k, Change(s, k)
  PROVE  writes \in Nat /\ writes' \in Nat /\ writes <= writes'
  BY ConstantsAssumption DEF ConstantsAssumption, TypeOK, Change

LEMMA MadeStep == TypeOK /\ MadeInv /\ [Next]_vars => MadeInv'
<1> SUFFICES ASSUME TypeOK, MadeInv, [Next]_vars PROVE MadeInv'
  OBVIOUS
<1> USE DEF daemon, logind, session, handler, worker
<1>0. writes \in Nat
  BY ConstantsAssumption DEF ConstantsAssumption, TypeOK
<1>c. /\ \A s \in Session : mem[s].cfg \in Config
      /\ \A g \in Session \X Worker : copy[g] \in Config
  BY DEF TypeOK, Version
<1>1. ASSUME NEW x \in Session \cup {Nobody}, SwitchTo(x) PROVE MadeInv'
  BY <1>0, <1>1, MadeKept DEF SwitchTo, Held
<1>2. ASSUME NEW s \in Session, Load(s) PROVE MadeInv'
  <2>1. mem'[s] = store \/ mem'[s].cfg = Empty
    BY <1>2 DEF Load, TypeOK
  <2>2. \A t \in Session \ {s} : mem'[t] = mem[t]
    BY <1>2 DEF Load, TypeOK
  <2>3. Made(mem'[s].cfg, writes)
    BY <1>0, <2>1, MadeEmpty DEF MadeInv
  <2> QED
    BY <1>0, <1>2, <2>2, <2>3, MadeKept DEF Load, Held
<1>3. ASSUME NEW s \in Session, Listen(s) PROVE MadeInv'
  BY <1>0, <1>3, MadeKept DEF Listen, Held
<1>4. ASSUME NEW s \in Session, NEW k \in Section, SaveLocked(s, k) PROVE MadeInv'
  <2>1. writes' \in Nat /\ writes <= writes'
    BY <1>4, WritesGrow DEF SaveLocked
  <2>2. Made([mem[s].cfg EXCEPT ![k] = writes'], writes')
    BY <1>0, <1>c, <2>1, MadeChange DEF MadeInv
  <2>3. [mem[s].cfg EXCEPT ![k] = writes'] \in Config
    BY <1>c, <2>1, ChangeType
  <2> QED
    BY <1>4, <2>1, <2>2, <2>3, MadeSave DEF SaveLocked
<1>5. ASSUME NEW s \in Session, NEW w \in Worker, NEW k \in Screen, CopyScreen(s, w, k)
      PROVE  MadeInv'
  <2>1. writes' \in Nat /\ writes <= writes'
    BY <1>5, WritesGrow DEF CopyScreen
  <2>2. GetSysScreenConfig(s) \in Config /\ Made(GetSysScreenConfig(s), writes)
    BY <1>0, <1>c DEF GetSysScreenConfig, Made, MadeInv, Config
  <2>3. Made([GetSysScreenConfig(s) EXCEPT ![k] = writes'], writes')
    <3>1. k \in Section
      BY DEF Section
    <3> QED
      BY <1>0, <2>1, <2>2, <3>1, MadeChange
  <2>4. \A g \in Session \X Worker : copy'[g] = copy[g] \/ Made(copy'[g], writes')
    BY <1>5, <2>3 DEF CopyScreen, TypeOK
  <2> QED
    BY <1>5, <2>1, <2>4, MadeKept DEF CopyScreen, Held
<1>6. ASSUME NEW s \in Session, NEW w \in Worker, SetScreen(s, w) PROVE MadeInv'
  <2> DEFINE c == [k \in Section |-> IF k \in Screen THEN copy[<<s, w>>][k] ELSE mem[s].cfg[k]]
  <2>1. Made(c, writes)
    BY DEF Made, MadeInv
  <2>2. mem'[s].cfg = c /\ \A t \in Session \ {s} : mem'[t] = mem[t]
    BY <1>6 DEF SetScreen, TypeOK, Version
  <2>3. /\ UNCHANGED <<store, writes>>
        /\ \A t \in Session : Held(t)' = Held(t)
    BY <1>6 DEF SetScreen, Held
  <2>4. \A t \in Session : mem'[t].cfg = mem[t].cfg \/ Made(mem'[t].cfg, writes')
    BY <2>1, <2>2, <2>3
  <2>5. \A g \in Session \X Worker : copy'[g] = copy[g] \/ Made(copy'[g], writes)
    BY <1>0, <1>6, MadeEmpty DEF SetScreen, TypeOK
  <2> QED
    BY <1>0, <2>3, <2>4, <2>5, MadeKept
<1>7. ASSUME NEW s \in Session, NEW w \in Worker, Save(s, w) PROVE MadeInv'
  <2>1. Made(mem[s].cfg, writes)
    BY DEF MadeInv
  <2> QED
    BY <1>0, <1>c, <1>7, <2>1, MadeSave DEF Save
<1>8. ASSUME NEW s \in Session, NEW w \in Worker, RecordConnected(s, w) PROVE MadeInv'
  <2>1. writes' \in Nat /\ writes <= writes'
    BY <1>8, WritesGrow DEF RecordConnected
  <2>2. Made([mem[s].cfg EXCEPT !["cache"] = writes'], writes')
    BY <1>0, <1>c, <2>1, MadeChange DEF MadeInv, Section
  <2>3. /\ mem'[s].cfg = [mem[s].cfg EXCEPT !["cache"] = writes']
        /\ \A t \in Session \ {s} : mem'[t] = mem[t]
    BY <1>8 DEF RecordConnected, TypeOK, Version
  <2> QED
    BY <1>8, <2>1, <2>2, <2>3, MadeKept DEF RecordConnected, Held
<1>9. ASSUME NEW s \in Session, NEW w \in Worker, SetFill(s, w) PROVE MadeInv'
  <2>1. writes' \in Nat /\ writes <= writes'
    BY <1>0, <1>9, WritesGrow DEF SetFill
  <2>2. shown'[s]["fill"] \in Nat /\ shown'[s]["fill"] <= writes'
    <3>1. shown[s] \in Config /\ "fill" \in Section
      BY DEF TypeOK, Section
    <3>2. shown'[s]["fill"] \in {writes', mem[s].cfg["fill"]}
      BY <1>9, <3>1 DEF SetFill, Change, TypeOK, Config
    <3>3. mem[s].cfg["fill"] \in Nat /\ mem[s].cfg["fill"] <= writes
      BY <1>c, <3>1 DEF Config, MadeInv, Made
    <3> QED
      BY <1>0, <2>1, <3>2, <3>3
  <2>3. Made([Empty EXCEPT !["fill"] = shown'[s]["fill"]], writes')
    BY <2>1, <2>2, EmptyType, MadeEmpty, MadeChange DEF Section
  <2>4. \A g \in Session \X Worker : copy'[g] = copy[g] \/ Made(copy'[g], writes')
    BY <1>9, <2>3 DEF SetFill, TypeOK
  <2> QED
    BY <1>9, <2>1, <2>4, MadeKept DEF SetFill, Held
<1>10. ASSUME NEW s \in Session, NEW w \in Worker, SaveFill(s, w) PROVE MadeInv'
  <2> DEFINE v == copy[<<s, w>>]["fill"]
  <2>1. v \in Nat /\ v <= writes
    BY <1>c DEF Config, MadeInv, Made, Section
  <2>2. [mem[s].cfg EXCEPT !["fill"] = v] \in Config
    BY <1>c, <2>1, ChangeType DEF Section
  <2>3. Made([mem[s].cfg EXCEPT !["fill"] = v], writes)
    BY <1>0, <1>c, <2>1, MadeChange DEF MadeInv, Section
  <2>4. \A g \in Session \X Worker : copy'[g] = copy[g] \/ Made(copy'[g], writes)
    BY <1>0, <1>10, MadeEmpty DEF SaveFill, TypeOK
  <2> QED
    BY <1>0, <1>10, <2>2, <2>3, <2>4, MadeSave DEF SaveFill
<1>11. ASSUME NEW s \in Session, ReceiveUpdated(s) PROVE MadeInv'
  BY <1>0, <1>11, MadeKept DEF ReceiveUpdated, Held
<1>12. ASSUME NEW s \in Session, ReceiveActive(s) PROVE MadeInv'
  <2>1. \A t \in Session : Held(t)' \subseteq Held(t)
    BY <1>12, ReceiveHolds
  <2> QED
    BY <1>0, <1>12, <2>1, MadeKept DEF ReceiveActive
<1>13. ASSUME NEW s \in Session, Fetch(s) PROVE MadeInv'
  <2>1. \A t \in Session : Held(t)' \subseteq Held(t) \cup {store}
    BY <1>13 DEF Fetch, TypeOK, Held
  <2> QED
    BY <1>0, <1>13, <2>1, MadeKept DEF Fetch
<1>14. ASSUME NEW s \in Session, Compare(s) PROVE MadeInv'
  BY <1>0, <1>14, MadeKept DEF Compare, Held
<1>15. ASSUME NEW s \in Session, SetCfg(s) PROVE MadeInv'
  <2>1. PICK v \in new[s] : mem' = [mem EXCEPT ![s] = v]
    BY <1>15 DEF SetCfg
  <2>2. mem'[s] = v /\ \A t \in Session \ {s} : mem'[t] = mem[t]
    BY <2>1 DEF TypeOK
  <2>3. Made(v.cfg, writes)
    BY DEF MadeInv, Held
  <2>4. \A t \in Session : Held(t)' \subseteq Held(t)
    BY <1>15 DEF SetCfg, Held, TypeOK
  <2> QED
    BY <1>0, <1>15, <2>2, <2>3, <2>4, MadeKept DEF SetCfg
<1>16. ASSUME NEW s \in Session, NEW j \in jobs[s], RunJob(s, j) PROVE MadeInv'
  BY <1>0, <1>16, MadeKept DEF RunJob, Held
<1>17. CASE UNCHANGED vars
  BY <1>0, <1>17, MadeKept DEF vars, Held
<1> QED
  BY <1>1, <1>2, <1>3, <1>4, <1>5, <1>6, <1>7, <1>8, <1>9, <1>10, <1>11, <1>12, <1>13,
     <1>14, <1>15, <1>16, <1>17
     DEF Next, Handle, Begin, Proceed, Section

\* Both invariants of the values hold in every state.
LEMMA MadeCorrect == Spec => []MadeInv
<1>1. Init => MadeInv
  <2> SUFFICES ASSUME Init PROVE MadeInv
    OBVIOUS
  <2>1. Made(Empty, writes) /\ store.cfg = Empty
    BY MadeEmpty DEF Init
  <2> QED
    BY <2>1 DEF Init, MadeInv, Held
<1> QED
  BY <1>1, TypeCorrect, MadeStep, PTL DEF Spec

\* The values of configurations are numbers.
LEMMA ValueTypes ==
  ASSUME TypeOK
  PROVE  \A k \in Section : /\ store.cfg[k] \in Nat
                            /\ \A s \in Session : mem[s].cfg \in Config /\ mem[s].cfg[k] \in Nat
<1>1. store.cfg \in Config /\ \A s \in Session : mem[s].cfg \in Config
  BY DEF TypeOK, Version
<1>2. \A c \in Config : \A k \in Section : c[k] \in Nat
  BY DEF Config
<1> QED
  BY <1>1, <1>2

\* What changes no version keeps NotOlder, and so does a change of a
\* configuration to a newer one, or one that counts as reverted.
LEMMA NotOlderKept ==
  ASSUME TypeOK, TypeOK', NotOlder, UNCHANGED store,
         \A s \in Session : /\ mem'[s].at = mem[s].at
                            /\ reverted[s] => reverted'[s]
                            /\ \/ mem'[s].cfg = mem[s].cfg
                               \/ reverted'[s]
                               \/ \A k \in Section : mem'[s].cfg[k] >= mem[s].cfg[k]
  PROVE  NotOlder'
<1> SUFFICES ASSUME NEW s \in Session, mem'[s].at = store'.at, ~reverted'[s], NEW k \in Section
             PROVE  mem'[s].cfg[k] >= store'.cfg[k]
  BY DEF NotOlder
<1>1. mem[s].cfg[k] >= store.cfg[k] /\ mem'[s].cfg[k] >= mem[s].cfg[k]
  <2>1. mem[s].cfg[k] \in Nat
    BY DEF TypeOK, Version, Config
  <2> QED
    BY <2>1 DEF NotOlder
<1>2. mem[s].cfg[k] \in Nat /\ store.cfg[k] \in Nat
  BY ValueTypes
<1>3. mem'[s] \in Version
  BY DEF TypeOK
<1>4. mem'[s].cfg[k] \in Nat
  BY <1>3 DEF Version, Config
<1> QED
  BY <1>1, <1>2, <1>4

\* A save of what is no older than the session's configuration, or counts as
\* reverted, keeps it, and publishes no older value.
LEMMA NotOlderSave ==
  ASSUME TypeOK, TypeOK', StampInv, NotOlder, NEW s \in Session, NEW c \in Config, SaveAs(s, c),
         \A t \in Session : reverted[t] => reverted'[t],
         reverted'[s] \/ \A k \in Section : c[k] >= mem[s].cfg[k]
  PROVE  /\ NotOlder'
         /\ \A t \in Session : store' # store /\ mem'[t].at = store'.at
              => \/ mem[t].at # store.at
                 \/ reverted'[t]
                 \/ \A k \in Section : store'.cfg[k] >= store.cfg[k]
<1>1. /\ mem'[s] = [cfg |-> c, at |-> clock + 1]
      /\ \A t \in Session \ {s} : mem'[t] = mem[t]
  BY DEF SaveAs, TypeOK
<1>2. store' = store \/ store' = mem'[s]
  BY DEF SaveAs
<1>3. clock \in Nat /\ store.at \in Nat /\ \A t \in Session : mem[t].at \in Nat
  BY DEF TypeOK, Version
<1>4. store.at <= clock /\ \A t \in Session : mem[t].at <= clock
  BY DEF StampInv
<1>5. \A k \in Section : /\ c[k] \in Nat /\ store.cfg[k] \in Nat
                         /\ \A t \in Session : mem[t].cfg[k] \in Nat
  BY DEF TypeOK, Version, Config
<1>6. CASE store' = store
  <2>1. mem'[s].at # store'.at
    BY <1>1, <1>3, <1>4, <1>6
  <2>2. NotOlder'
    BY <1>1, <1>6, <2>1 DEF NotOlder
  <2> QED
    BY <1>6, <2>2
<1>7. CASE store' = mem'[s]
  <2>1. \A t \in Session \ {s} : mem'[t].at # store'.at
    BY <1>1, <1>3, <1>4, <1>7
  <2>2. store'.cfg = c
    BY <1>1, <1>7
  <2>3. NotOlder'
    BY <1>1, <1>5, <1>7, <2>1, <2>2 DEF NotOlder
  <2>4. ASSUME mem[s].at = store.at, ~reverted'[s], NEW k \in Section
        PROVE  store'.cfg[k] >= store.cfg[k]
    <3>1. mem[s].cfg[k] >= store.cfg[k] /\ c[k] >= mem[s].cfg[k]
      BY <2>4 DEF NotOlder
    <3> QED
      BY <1>5, <2>2, <3>1
  <2> QED
    BY <2>1, <2>3, <2>4
<1> QED
  BY <1>2, <1>6, <1>7

\* The steps, of both the invariant and the property of a step it is for.
NoOlder ==
    \A s \in Session : store' # store /\ mem'[s].at = store'.at
        => \/ mem[s].at # store.at
           \/ reverted'[s]
           \/ \A k \in Section : store'.cfg[k] >= store.cfg[k]

LEMMA NotOlderStep ==
  ASSUME TypeOK, TypeOK', StampInv, MadeInv, NotOlder, [Next]_vars
  PROVE  NotOlder' /\ NoOlder
<1> USE DEF daemon, logind, session, handler, worker
<1>0. /\ writes \in Nat
      /\ \A s \in Session : mem[s].cfg \in Config /\ \A k \in Section : mem[s].cfg[k] \in Nat
  <2>1. writes \in Nat
    BY ConstantsAssumption DEF ConstantsAssumption, TypeOK
  <2> QED
    BY <2>1, ValueTypes DEF TypeOK, Version
<1>1. ASSUME NEW x \in Session \cup {Nobody}, SwitchTo(x) PROVE NotOlder' /\ NoOlder
  BY <1>1 DEF SwitchTo, NotOlder, NoOlder
<1>2. ASSUME NEW s \in Session, Load(s) PROVE NotOlder' /\ NoOlder
  <2>1. UNCHANGED <<store, reverted>>
    BY <1>2 DEF Load
  <2>2. mem'[s] = store \/ mem'[s] = [cfg |-> Empty, at |-> 0]
    BY <1>2 DEF Load, TypeOK
  <2>3. \A t \in Session \ {s} : mem'[t] = mem[t]
    BY <1>2 DEF Load, TypeOK
  <2>4. mem'[s].at = store.at => mem'[s].cfg = store.cfg
    BY <2>2 DEF StampInv
  <2>5. \A k \in Section : store.cfg[k] \in Nat
    BY DEF TypeOK, Version, Config
  <2> QED
    BY <2>1, <2>3, <2>4, <2>5 DEF NotOlder, NoOlder
<1>3. ASSUME NEW s \in Session, Listen(s) PROVE NotOlder' /\ NoOlder
  BY <1>3 DEF Listen, NotOlder, NoOlder
<1>4. ASSUME NEW s \in Session, NEW k \in Section, SaveLocked(s, k) PROVE NotOlder' /\ NoOlder
  <2> DEFINE c == [mem[s].cfg EXCEPT ![k] = writes']
  <2>1. writes' \in Nat /\ writes <= writes'
    BY <1>4, WritesGrow DEF SaveLocked
  <2>2. c \in Config
    BY <1>0, <2>1, ChangeType
  <2>3. \A x \in Section : c[x] >= mem[s].cfg[x]
    <3>1. mem[s].cfg[k] <= writes
      BY DEF MadeInv, Made
    <3> QED
      BY <1>0, <2>1, <3>1 DEF Config
  <2>4. SaveAs(s, c) /\ UNCHANGED reverted
    BY <1>4 DEF SaveLocked
  <2> HIDE DEF c
  <2> QED
    BY <2>2, <2>3, <2>4, NotOlderSave DEF NoOlder
<1>5. ASSUME NEW s \in Session, NEW w \in Worker, NEW k \in Screen, CopyScreen(s, w, k)
      PROVE  NotOlder' /\ NoOlder
  BY <1>5 DEF CopyScreen, NotOlder, NoOlder
<1>6. ASSUME NEW s \in Session, NEW w \in Worker, SetScreen(s, w) PROVE NotOlder' /\ NoOlder
  <2> DEFINE c == [k \in Section |-> IF k \in Screen THEN copy[<<s, w>>][k] ELSE mem[s].cfg[k]]
  <2>1. UNCHANGED store
    BY <1>6 DEF SetScreen
  <2>2. /\ mem'[s].cfg = c /\ mem'[s].at = mem[s].at
        /\ \A t \in Session \ {s} : mem'[t] = mem[t]
    <3>1. mem' = [mem EXCEPT ![s].cfg = c]
      BY <1>6 DEF SetScreen
    <3>2. mem \in [Session -> Version]
      BY DEF TypeOK
    <3> HIDE DEF c
    <3> QED
      BY <3>1, <3>2 DEF Version
  <2>3. /\ reverted'[s] = (reverted[s] \/ \E k \in Screen : c[k] < mem[s].cfg[k])
        /\ \A t \in Session \ {s} : reverted'[t] = reverted[t]
    <3>1. reverted' = [reverted EXCEPT ![s] = @ \/ \E k \in Screen : c[k] < mem[s].cfg[k]]
      BY <1>6 DEF SetScreen
    <3>2. DOMAIN reverted = Session
      BY DEF TypeOK
    <3> QED
      BY <3>1, <3>2
  <2>4. reverted'[s] \/ \A k \in Section : c[k] >= mem[s].cfg[k]
    <3> SUFFICES ASSUME ~reverted'[s], NEW k \in Section PROVE c[k] >= mem[s].cfg[k]
      OBVIOUS
    <3>1. CASE k \in Screen
      <4>1. ~(c[k] < mem[s].cfg[k])
        BY <2>3, <3>1
      <4>2. c[k] \in Nat
        BY <3>1 DEF TypeOK, Config
      <4> QED
        BY <1>0, <4>1, <4>2
    <3>2. CASE k \notin Screen
      BY <1>0, <3>2
    <3> QED
      BY <3>1, <3>2
  <2> HIDE DEF c
  <2>5. NotOlder'
    BY <2>1, <2>2, <2>3, <2>4, NotOlderKept
  <2> QED
    BY <2>1, <2>5 DEF NoOlder
<1>7. ASSUME NEW s \in Session, NEW w \in Worker, Save(s, w) PROVE NotOlder' /\ NoOlder
  <2>1. \A k \in Section : mem[s].cfg[k] >= mem[s].cfg[k]
    BY <1>0
  <2> QED
    BY <1>0, <1>7, <2>1, NotOlderSave DEF Save, NoOlder
<1>8. ASSUME NEW s \in Session, NEW w \in Worker, RecordConnected(s, w) PROVE NotOlder' /\ NoOlder
  <2>1. writes' \in Nat /\ writes <= writes'
    BY <1>8, WritesGrow DEF RecordConnected
  <2>2. UNCHANGED <<store, reverted>>
    BY <1>8 DEF RecordConnected
  <2>3. /\ mem'[s].cfg = [mem[s].cfg EXCEPT !["cache"] = writes'] /\ mem'[s].at = mem[s].at
        /\ \A t \in Session \ {s} : mem'[t] = mem[t]
    BY <1>8 DEF RecordConnected, TypeOK, Version
  <2>4. \A k \in Section : mem'[s].cfg[k] >= mem[s].cfg[k]
    <3>1. "cache" \in Section /\ mem[s].cfg["cache"] <= writes
      BY DEF MadeInv, Made, Section
    <3> QED
      BY <1>0, <2>1, <2>3, <3>1 DEF Config
  <2>5. NotOlder'
    BY <2>2, <2>3, <2>4, NotOlderKept
  <2> QED
    BY <2>2, <2>5 DEF NoOlder
<1>9. ASSUME NEW s \in Session, NEW w \in Worker, SetFill(s, w) PROVE NotOlder' /\ NoOlder
  BY <1>9 DEF SetFill, NotOlder, NoOlder
<1>10. ASSUME NEW s \in Session, NEW w \in Worker, SaveFill(s, w) PROVE NotOlder' /\ NoOlder
  <2> DEFINE v == copy[<<s, w>>]["fill"]
             c == [mem[s].cfg EXCEPT !["fill"] = v]
  <2>1. "fill" \in Section /\ v \in Nat
    BY DEF TypeOK, Config, Section
  <2>2. c \in Config
    BY <1>0, <2>1, ChangeType
  <2>3. /\ reverted'[s] = (reverted[s] \/ v < mem[s].cfg["fill"])
        /\ \A t \in Session \ {s} : reverted'[t] = reverted[t]
    BY <1>10 DEF SaveFill, TypeOK
  <2>4. reverted'[s] \/ \A k \in Section : c[k] >= mem[s].cfg[k]
    <3>1. CASE v < mem[s].cfg["fill"]
      BY <2>3, <3>1
    <3>2. CASE ~(v < mem[s].cfg["fill"])
      BY <1>0, <2>1, <3>2 DEF Config
    <3> QED
      BY <3>1, <3>2
  <2>5. SaveAs(s, c)
    BY <1>10 DEF SaveFill
  <2> HIDE DEF c, v
  <2> QED
    BY <2>2, <2>3, <2>4, <2>5, NotOlderSave DEF NoOlder
<1>11. ASSUME NEW s \in Session, ReceiveUpdated(s) PROVE NotOlder' /\ NoOlder
  BY <1>11 DEF ReceiveUpdated, NotOlder, NoOlder
<1>12. ASSUME NEW s \in Session, ReceiveActive(s) PROVE NotOlder' /\ NoOlder
  BY <1>12 DEF ReceiveActive, NotOlder, NoOlder
<1>13. ASSUME NEW s \in Session, Fetch(s) PROVE NotOlder' /\ NoOlder
  BY <1>13 DEF Fetch, NotOlder, NoOlder
<1>14. ASSUME NEW s \in Session, Compare(s) PROVE NotOlder' /\ NoOlder
  BY <1>14 DEF Compare, NotOlder, NoOlder
<1>15. ASSUME NEW s \in Session, SetCfg(s) PROVE NotOlder' /\ NoOlder
  <2>1. PICK v \in new[s] : mem' = [mem EXCEPT ![s] = v]
    BY <1>15 DEF SetCfg
  <2>2. UNCHANGED <<store, reverted>>
    BY <1>15 DEF SetCfg
  <2>3. mem'[s] = v /\ \A t \in Session \ {s} : mem'[t] = mem[t]
    BY <2>1 DEF TypeOK
  <2>4. v.at = store.at => v = store
    BY DEF StampInv, Held
  <2>5. \A k \in Section : store.cfg[k] \in Nat
    BY DEF TypeOK, Version, Config
  <2> QED
    BY <2>2, <2>3, <2>4, <2>5 DEF NotOlder, NoOlder
<1>16. ASSUME NEW s \in Session, NEW j \in jobs[s], RunJob(s, j) PROVE NotOlder' /\ NoOlder
  BY <1>16 DEF RunJob, NotOlder, NoOlder
<1>17. CASE UNCHANGED vars
  BY <1>17 DEF vars, NotOlder, NoOlder
<1> QED
  BY <1>1, <1>2, <1>3, <1>4, <1>5, <1>6, <1>7, <1>8, <1>9, <1>10, <1>11, <1>12, <1>13,
     <1>14, <1>15, <1>16, <1>17
     DEF Next, Handle, Begin, Proceed, Section

\* A save brings back no older value of a section, as long as the session is based
\* on the latest version and its workers reverted nothing.
THEOREM NoOldValue == Spec => NoOldValueSaved
<1>1. Init => NotOlder
  BY DEF Init, NotOlder, Empty
<1>2. TypeOK /\ TypeOK' /\ StampInv /\ MadeInv /\ NotOlder /\ [Next]_vars => NotOlder' /\ NoOlder
  BY NotOlderStep
<1>3. NoOlder => [\A s \in Session : store' # store /\ mem'[s].at = store'.at
                    => \/ mem[s].at # store.at
                       \/ reverted'[s]
                       \/ \A k \in Section : store'.cfg[k] >= store.cfg[k]]_vars
  BY DEF NoOlder
<1> QED
  BY <1>1, <1>2, <1>3, TypeCorrect, StampCorrect, MadeCorrect, PTL DEF Spec, NoOldValueSaved

-----------------------------------------------------------------------------
(* The latest version arrives.                                             *)

\* A signal remains in the queue when another is appended, and when one that is
\* not it is taken from the front.
LEMMA SentAppend ==
  ASSUME TypeOK, NEW s \in Session, NEW m \in Signal, Sent(s), store' = store,
         queue'[s] = Append(queue[s], m)
  PROVE  Sent(s)'
<1>1. queue[s] \in Seq(Signal)
  BY DEF TypeOK
<1>2. PICK i \in 1 .. Len(queue[s]) : queue[s][i].kind = "updated" /\ queue[s][i].at = store.at
  BY DEF Sent
<1>3. i \in 1 .. Len(queue'[s]) /\ queue'[s][i] = queue[s][i]
  BY <1>1
<1> QED
  BY <1>2, <1>3 DEF Sent

LEMMA SentTail ==
  ASSUME TypeOK, NEW s \in Session, queue[s] # <<>>, Sent(s), store' = store,
         queue'[s] = Tail(queue[s]),
         Head(queue[s]).kind = "active" \/ Head(queue[s]).at # store.at
  PROVE  Sent(s)'
<1>1. queue[s] \in Seq(Signal)
  BY DEF TypeOK
<1>2. PICK i \in 1 .. Len(queue[s]) : queue[s][i].kind = "updated" /\ queue[s][i].at = store.at
  BY DEF Sent
<1>3. i # 1
  BY <1>1, <1>2
<1>4. i - 1 \in 1 .. Len(queue'[s]) /\ queue'[s][i - 1] = queue[s][i]
  BY <1>1, <1>3
<1> QED
  BY <1>2, <1>4 DEF Sent

LEMMA WayFrame ==
  ASSUME OnItsWay, UNCHANGED <<store, life, queue, hpc, new, parked, lost>>,
         \A s \in Session : mem'[s].at = mem[s].at
  PROVE  OnItsWay'
  BY DEF OnItsWay, Coming, Sent

\* A save that succeeds is signalled to every session that listens.
LEMMA WaySave ==
  ASSUME TypeOK, OnItsWay, NEW s \in Session, NEW c \in Config, SaveAs(s, c),
         UNCHANGED <<session, handler>>
  PROVE  OnItsWay'
<1> SUFFICES ASSUME NEW t \in Session, life'[t] = "on", ~lost'[t] PROVE Coming(t)'
  BY DEF OnItsWay
<1> DEFINE m == [kind |-> "updated", at |-> clock']
<1>1. \/ store' = mem'[s] /\ queue'[t] = Append(queue[t], m)
      \/ UNCHANGED <<store, queue>> /\ lost' = [lost EXCEPT ![s] = TRUE]
  BY DEF SaveAs, session
<1>2. CASE store' = mem'[s] /\ queue'[t] = Append(queue[t], m)
  <2>1. queue[t] \in Seq(Signal) /\ m \in Signal
    BY DEF TypeOK, Signal, SaveAs
  <2>2. Len(queue[t]) + 1 \in 1 .. Len(queue'[t]) /\ queue'[t][Len(queue[t]) + 1] = m
    BY <1>2, <2>1
  <2>3. store'.at = clock'
    BY <1>2 DEF SaveAs, TypeOK
  <2>4. Sent(t)'
    BY <2>2, <2>3 DEF Sent
  <2> QED
    BY <2>4 DEF Coming
<1>3. CASE UNCHANGED <<store, queue>> /\ lost' = [lost EXCEPT ![s] = TRUE]
  <2>1. t # s /\ ~lost[t]
    BY <1>3 DEF TypeOK
  <2>2. mem'[t] = mem[t]
    BY <2>1 DEF SaveAs, TypeOK
  <2> QED
    BY <1>3, <2>1, <2>2 DEF OnItsWay, Coming, Sent, session, handler
<1> QED
  BY <1>1, <1>2, <1>3

LEMMA WayStep ==
  ASSUME TypeOK, StampInv, HeldInv, OnItsWay, [Next]_vars
  PROVE  OnItsWay'
<1>1. ASSUME NEW x \in Session \cup {Nobody}, SwitchTo(x) PROVE OnItsWay'
  <2> SUFFICES ASSUME NEW t \in Session, life[t] = "on", ~lost[t] PROVE Coming(t)'
    BY <1>1 DEF OnItsWay, SwitchTo, session
  <2>1. UNCHANGED <<store, hpc, new, parked, mem>> /\ Coming(t)
    BY <1>1 DEF SwitchTo, session, handler, daemon, OnItsWay
  <2>2. [kind |-> "active", on |-> t = x] \in Signal
    BY DEF Signal
  <2>3. \/ queue'[t] = queue[t]
        \/ queue'[t] = Append(queue[t], [kind |-> "active", on |-> t = x])
    BY <1>1 DEF SwitchTo, Send
  <2>4. Sent(t) => Sent(t)'
    BY <2>1, <2>2, <2>3, SentAppend DEF Sent
  <2> QED
    BY <2>1, <2>4 DEF Coming
<1>2. ASSUME NEW s \in Session, Load(s) PROVE OnItsWay'
  <2> SUFFICES ASSUME NEW t \in Session, life'[t] = "on", ~lost'[t] PROVE Coming(t)'
    BY DEF OnItsWay
  <2>1. t # s
    BY <1>2 DEF Load, TypeOK
  <2>2. life'[t] = life[t] /\ lost'[t] = lost[t] /\ mem'[t] = mem[t]
    BY <1>2, <2>1 DEF Load, TypeOK
  <2> QED
    BY <1>2, <2>2 DEF Load, OnItsWay, Coming, Sent, daemon, handler
<1>3. ASSUME NEW s \in Session, Listen(s) PROVE OnItsWay'
  <2> SUFFICES ASSUME NEW t \in Session, life'[t] = "on", ~lost'[t] PROVE Coming(t)'
    BY DEF OnItsWay
  <2>1. UNCHANGED <<store, mem, queue, hpc, new, parked>>
    BY <1>3 DEF Listen, daemon, handler
  <2>2. CASE t = s
    <3>1. hpc[t] = "idle"
      BY <1>3, <2>2 DEF Listen, HeldInv
    <3>2. mem[t].at = store.at
      BY <1>3, <2>2 DEF Listen, TypeOK
    <3> QED
      BY <2>1, <3>1, <3>2 DEF Coming
  <2>3. CASE t # s
    <3>1. life[t] = "on" /\ ~lost[t]
      BY <1>3, <2>3 DEF Listen, TypeOK
    <3> QED
      BY <2>1, <3>1 DEF OnItsWay, Coming, Sent
  <2> QED
    BY <2>2, <2>3
<1>4. ASSUME NEW s \in Session, NEW k \in Section, SaveLocked(s, k) PROVE OnItsWay'
  <2>1. [mem[s].cfg EXCEPT ![k] = writes'] \in Config
    BY <1>4, ChangedType, ChangeType DEF SaveLocked, TypeOK, Version
  <2> QED
    BY <1>4, <2>1, WaySave DEF SaveLocked
<1>5. ASSUME NEW s \in Session, NEW w \in Worker, NEW k \in Screen, CopyScreen(s, w, k)
      PROVE  OnItsWay'
  BY <1>5, WayFrame DEF CopyScreen, daemon, session, handler
<1>6. ASSUME NEW s \in Session, NEW w \in Worker, SetScreen(s, w) PROVE OnItsWay'
  <2>1. \A t \in Session : mem'[t].at = mem[t].at
    BY <1>6 DEF SetScreen, TypeOK, Version
  <2> QED
    BY <1>6, <2>1, WayFrame DEF SetScreen, daemon, session, handler
<1>7. ASSUME NEW s \in Session, NEW w \in Worker, Save(s, w) PROVE OnItsWay'
  <2>1. mem[s].cfg \in Config
    BY DEF TypeOK, Version
  <2> QED
    BY <1>7, <2>1, WaySave DEF Save
<1>8. ASSUME NEW s \in Session, NEW w \in Worker, RecordConnected(s, w) PROVE OnItsWay'
  <2>1. \A t \in Session : mem'[t].at = mem[t].at
    BY <1>8 DEF RecordConnected, TypeOK, Version
  <2> QED
    BY <1>8, <2>1, WayFrame DEF RecordConnected, daemon, session, handler
<1>9. ASSUME NEW s \in Session, NEW w \in Worker, SetFill(s, w) PROVE OnItsWay'
  BY <1>9, WayFrame DEF SetFill, daemon, session, handler
<1>10. ASSUME NEW s \in Session, NEW w \in Worker, SaveFill(s, w) PROVE OnItsWay'
  <2>1. [mem[s].cfg EXCEPT !["fill"] = copy[<<s, w>>]["fill"]] \in Config
    BY ChangeType DEF TypeOK, Version, Config, Section
  <2> QED
    BY <1>10, <2>1, WaySave DEF SaveFill
<1>11. ASSUME NEW s \in Session, ReceiveUpdated(s) PROVE OnItsWay'
  <2> SUFFICES ASSUME NEW t \in Session, life[t] = "on", ~lost[t] PROVE Coming(t)'
    BY <1>11 DEF OnItsWay, ReceiveUpdated, session
  <2>1. UNCHANGED <<store, mem, new, parked>>
    BY <1>11 DEF ReceiveUpdated, daemon, session
  <2>2. CASE t = s
    <3>1. /\ hpc[s] = "idle" /\ queue[s] # <<>> /\ queue'[s] = Tail(queue[s])
          /\ hpc'[s] = IF Head(queue[s]).at = mem[s].at THEN "idle" ELSE "get"
      BY <1>11 DEF ReceiveUpdated, At, TypeOK
    <3>2. CASE hpc'[s] = "get"
      BY <2>2, <3>2 DEF Coming
    <3>3. CASE hpc'[s] = "idle" /\ Head(queue[s]).at = mem[s].at
      <4>1. Sent(s) => Sent(s)' \/ mem[s].at = store.at
        BY <2>1, <3>1, <3>3, SentTail
      <4>2. Coming(s)
        BY <2>2 DEF OnItsWay
      <4> QED
        BY <2>1, <2>2, <3>1, <3>3, <4>1, <4>2 DEF Coming
    <3> QED
      BY <3>1, <3>2, <3>3
  <2>3. CASE t # s
    <3>1. hpc'[t] = hpc[t] /\ queue'[t] = queue[t]
      BY <1>11, <2>3 DEF ReceiveUpdated, At, TypeOK
    <3> QED
      BY <2>1, <3>1 DEF OnItsWay, Coming, Sent
  <2> QED
    BY <2>2, <2>3
<1>12. ASSUME NEW s \in Session, ReceiveActive(s) PROVE OnItsWay'
  <2> SUFFICES ASSUME NEW t \in Session, life[t] = "on", ~lost'[t] PROVE Coming(t)'
    BY <1>12 DEF OnItsWay, ReceiveActive
  <2>1. UNCHANGED <<store, mem>>
    BY <1>12 DEF ReceiveActive, daemon
  <2>2. CASE t = s
    <3>1. /\ hpc[s] = "idle" /\ queue[s] # <<>> /\ queue'[s] = Tail(queue[s])
          /\ Head(queue[s]).kind = "active"
      BY <1>12 DEF ReceiveActive, At, TypeOK
    <3>2. Sent(s) => Sent(s)'
      BY <2>1, <3>1, SentTail
    <3>3. CASE active'[s] /\ parked[s] # {}
      <4>1. /\ hpc'[s] = "compare" /\ new'[s] = parked[s]
            /\ ~lost[s] /\ \A v \in parked[s] : ~(v.at < mem[s].at)
        BY <1>12, <2>2, <3>3 DEF ReceiveActive, At, TypeOK
      <4>2. \A v \in parked[s] : v.at <= store.at /\ (v.at = store.at => v = store)
        BY DEF StampInv, Held
      <4>3. \A v \in parked[s] : v.at \in Nat /\ store.at \in Nat
        BY DEF TypeOK, Version
      <4>4. Coming(s)
        BY <2>2, <4>1 DEF OnItsWay
      <4>5. CASE mem[s].at = store.at
        <5>1. \A v \in parked[s] : v = store
          BY <4>1, <4>2, <4>3, <4>5
        <5>2. new'[s] = {store}
          BY <3>3, <4>1, <5>1
        <5> QED
          BY <2>1, <2>2, <4>1, <5>2 DEF Coming
      <4>6. CASE parked[s] = {store}
        BY <2>1, <2>2, <4>1, <4>6 DEF Coming
      <4> QED
        BY <2>2, <3>1, <3>2, <4>4, <4>5, <4>6 DEF Coming
    <3>4. CASE ~(active'[s] /\ parked[s] # {})
      <4>1. hpc'[s] = "idle" /\ parked' = parked /\ ~lost[s]
        BY <1>12, <2>2, <3>4 DEF ReceiveActive, At, TypeOK
      <4>2. Coming(s)
        BY <2>2, <4>1 DEF OnItsWay
      <4> QED
        BY <2>1, <2>2, <3>1, <3>2, <4>1, <4>2 DEF Coming
    <3> QED
      BY <3>3, <3>4
  <2>3. CASE t # s
    <3>1. /\ hpc'[t] = hpc[t] /\ queue'[t] = queue[t] /\ lost'[t] = lost[t]
          /\ new'[t] = new[t] /\ parked'[t] = parked[t]
      BY <1>12, <2>3 DEF ReceiveActive, At, TypeOK
    <3> QED
      BY <2>1, <3>1 DEF OnItsWay, Coming, Sent
  <2> QED
    BY <2>2, <2>3
<1>13. ASSUME NEW s \in Session, Fetch(s) PROVE OnItsWay'
  <2> SUFFICES ASSUME NEW t \in Session, life[t] = "on", ~lost'[t] PROVE Coming(t)'
    BY <1>13 DEF OnItsWay, Fetch
  <2>1. UNCHANGED <<store, mem, queue>>
    BY <1>13 DEF Fetch, daemon
  <2>2. CASE t = s
    <3>1. \/ hpc'[s] = "compare" /\ new'[s] = {store}
          \/ hpc'[s] = "idle" /\ parked'[s] = {store}
          \/ lost'[s]
      BY <1>13 DEF Fetch, At, TypeOK
    <3> QED
      BY <2>1, <2>2, <3>1 DEF Coming
  <2>3. CASE t # s
    <3>1. /\ hpc'[t] = hpc[t] /\ lost'[t] = lost[t]
          /\ new'[t] = new[t] /\ parked'[t] = parked[t]
      BY <1>13, <2>3 DEF Fetch, At, TypeOK
    <3> QED
      BY <2>1, <3>1 DEF OnItsWay, Coming, Sent
  <2> QED
    BY <2>2, <2>3
<1>14. ASSUME NEW s \in Session, Compare(s) PROVE OnItsWay'
  <2> SUFFICES ASSUME NEW t \in Session, life[t] = "on", ~lost[t] PROVE Coming(t)'
    BY <1>14 DEF OnItsWay, Compare, session
  <2>1. UNCHANGED <<store, mem, queue, new, parked>>
    BY <1>14 DEF Compare, daemon, session
  <2>2. hpc'[t] = hpc[t] \/ (hpc[t] = "compare" /\ hpc'[t] = "set")
    BY <1>14 DEF Compare, At, TypeOK
  <2> QED
    BY <2>1, <2>2 DEF OnItsWay, Coming, Sent
<1>15. ASSUME NEW s \in Session, SetCfg(s) PROVE OnItsWay'
  <2> SUFFICES ASSUME NEW t \in Session, life[t] = "on", ~lost'[t] PROVE Coming(t)'
    BY <1>15 DEF OnItsWay, SetCfg, session
  <2>1. UNCHANGED <<store, queue, parked>>
    BY <1>15 DEF SetCfg, daemon, session
  <2>2. CASE t = s
    <3>1. PICK v \in new[s] : mem' = [mem EXCEPT ![s] = v]
                              /\ lost' = [lost EXCEPT ![s] = @ /\ v.at # store.at]
      BY <1>15 DEF SetCfg
    <3>2. mem'[s] = v /\ hpc[s] = "set" /\ hpc'[s] = "idle"
      BY <1>15, <3>1 DEF SetCfg, At, TypeOK
    <3>3. ~lost[s] \/ v.at = store.at
      BY <2>2, <3>1 DEF TypeOK
    <3>4. CASE v.at = store.at
      BY <2>1, <2>2, <3>2, <3>4 DEF Coming
    <3>5. CASE ~lost[s]
      <4>1. Coming(s)
        BY <2>2, <3>5 DEF OnItsWay
      <4>2. Sent(s) \/ v = store
        BY <3>1, <3>2, <4>1 DEF Coming
      <4>3. Sent(s) => Sent(s)'
        BY <2>1 DEF Sent
      <4> QED
        BY <2>1, <2>2, <3>2, <4>2, <4>3 DEF Coming
    <3> QED
      BY <3>3, <3>4, <3>5
  <2>3. CASE t # s
    <3>1. /\ hpc'[t] = hpc[t] /\ lost'[t] = lost[t]
          /\ new'[t] = new[t] /\ mem'[t] = mem[t]
      BY <1>15, <2>3 DEF SetCfg, At, TypeOK
    <3> QED
      BY <2>1, <3>1 DEF OnItsWay, Coming, Sent
  <2> QED
    BY <2>2, <2>3
<1>16. ASSUME NEW s \in Session, NEW j \in jobs[s], RunJob(s, j) PROVE OnItsWay'
  BY <1>16, WayFrame DEF RunJob, daemon, session, handler
<1>17. CASE UNCHANGED vars
  BY <1>17, WayFrame DEF vars, daemon, session, handler
<1> QED
  BY <1>1, <1>2, <1>3, <1>4, <1>5, <1>6, <1>7, <1>8, <1>9, <1>10, <1>11, <1>12, <1>13,
     <1>14, <1>15, <1>16, <1>17
     DEF Next, Handle, Begin, Proceed, Section

\* An active session at rest has the latest version, however the saves, the signals
\* and the changes of the active session fall together.
THEOREM LatestArrives == Spec => []UpToDate
<1>1. Init => OnItsWay
  BY DEF Init, OnItsWay
<1>2. TypeOK /\ StampInv /\ HeldInv /\ OnItsWay /\ [Next]_vars => OnItsWay'
  BY WayStep
<1>3. HeldInv /\ OnItsWay => UpToDate
  <2> SUFFICES ASSUME HeldInv, OnItsWay, NEW s \in Session, life[s] = "on", active[s],
                      queue[s] = <<>>, hpc[s] = "idle", ~lost[s]
               PROVE  mem[s].at = store.at
    BY DEF UpToDate
  <2>1. ~Sent(s)
    BY DEF Sent
  <2>2. parked[s] = {}
    BY DEF HeldInv
  <2> QED
    BY <2>1, <2>2 DEF OnItsWay, Coming
<1> QED
  BY <1>1, <1>2, <1>3, TypeCorrect, StampCorrect, HeldCorrect, PTL DEF Spec

-----------------------------------------------------------------------------
(* What changed is applied.                                                *)

\* SharedConfig lets a session hold one version only, and so does SysConfig.
LEMMA OneVersionStep ==
  ASSUME TypeOK, HeldInv, OneVersion, [Next]_vars
  PROVE  OneVersion'
<1>1. [Shared!Next]_(Shared!vars)
  BY SharedStep
<1>2. \A s \in Session : HeldBar[s] = Held(s) /\ HeldBar'[s] = Held(s)'
  BY DEF HeldBar, Held
<1>3. ASSUME NEW s \in Session, Shared!Read(s) PROVE OneVersion'
  <2>1. HeldBar' = [HeldBar EXCEPT ![s] = {store}]
    BY <1>3 DEF Shared!Read, HeldBar
  <2>2. \A t \in Session : Held(t)' = {store} \/ Held(t)' = Held(t)
    BY <1>2, <2>1 DEF HeldBar
  <2> QED
    BY <2>2 DEF OneVersion
<1>4. ASSUME NEW s \in Session, Shared!TakeOver(s) PROVE OneVersion'
  <2>1. HeldBar' = [HeldBar EXCEPT ![s] = {}]
    BY <1>4 DEF Shared!TakeOver, HeldBar
  <2>2. \A t \in Session : Held(t)' = {} \/ Held(t)' = Held(t)
    BY <1>2, <2>1 DEF HeldBar
  <2> QED
    BY <2>2 DEF OneVersion
<1>5. ASSUME HeldBar' = HeldBar PROVE OneVersion'
  BY <1>2, <1>5 DEF OneVersion
<1> QED
  BY <1>1, <1>3, <1>4, <1>5
     DEF Shared!Next, Shared!Join, Shared!Edit, Shared!Publish, Shared!vars, HeldBar

LEMMA OneVersionCorrect == Spec => []OneVersion
<1>1. Init => OneVersion
  BY DEF Init, OneVersion, Held
<1>2. TypeOK /\ HeldInv /\ OneVersion /\ [Next]_vars => OneVersion'
  BY OneVersionStep
<1> QED
  BY <1>1, <1>2, TypeCorrect, HeldCorrect, PTL DEF Spec

\* handleSysConfigUpdated starts a job for every section that changed.
LEMMA DueCovers ==
  ASSUME NEW d, NEW k \in Visible, k \in d
  PROVE  \E w \in What : Due(w, d) /\ k \in Given(w) \cup Current(w)
<1>1. k \in {"mode", "scale", "fill", "geometry", "brightness"}
  BY DEF Visible, Section, Screen
<1>2. CASE k = "scale"
  BY <1>2 DEF What, Due, Given
<1>3. CASE "mode" \in d /\ k # "scale"
  BY <1>1, <1>3 DEF What, Due, Given, Current, Screen
<1>4. CASE "mode" \notin d /\ "geometry" \in d /\ k # "scale"
  BY <1>1, <1>4 DEF What, Due, Given, Current, Screen
<1>5. CASE "mode" \notin d /\ "geometry" \notin d /\ k = "brightness"
  BY <1>5 DEF What, Due, Given, OnlyBrNotEq
<1>6. CASE "mode" \notin d /\ "geometry" \notin d /\ k = "fill"
  BY <1>6 DEF What, Due, Given
<1> QED
  BY <1>1, <1>2, <1>3, <1>4, <1>5, <1>6

\* What concerns neither the workers nor the jobs of a session.
LEMMA AppliedKept ==
  ASSUME NEW s \in Session, AppliedAt(s),
         life'[s] = "off" <=> life[s] = "off",
         disturbed'[s] = disturbed[s], jobs'[s] = jobs[s], shown'[s] = shown[s],
         mem'[s].cfg = mem[s].cfg,
         \A w \in Worker : pc'[<<s, w>>] = pc[<<s, w>>] /\ copy'[<<s, w>>] = copy[<<s, w>>],
         hpc'[s] = "set" => hpc[s] = "set" /\ new'[s] = new[s] /\ diff'[s] = diff[s],
         life[s] = "off" => hpc'[s] = "idle"
  PROVE  AppliedAt(s)'
<1>1. Working(s)' = Working(s)
  BY DEF Working
<1>2. \A w \in Worker, k \in Section : Unwritten(<<s, w>>, k)' = Unwritten(<<s, w>>, k)
  BY DEF Unwritten
<1>3. CASE life[s] = "off"
  BY <1>1, <1>3 DEF AppliedAt
<1>4. CASE life[s] # "off" /\ ~disturbed[s]
  <2>1. Orderly(s)
    BY <1>4 DEF AppliedAt
  <2>2. Orderly(s)'
    BY <1>1, <1>2, <2>1 DEF Orderly, Covers, Visible
  <2> QED
    BY <1>4, <2>2 DEF AppliedAt
<1> QED
  BY <1>3, <1>4 DEF AppliedAt

\* A session without workers and jobs has its configuration in force.
LEMMA AtRestApplied ==
  ASSUME NEW s \in Session, Orderly(s), ~Working(s), jobs[s] = {}
  PROVE  /\ \A w \in Worker : pc[<<s, w>>] = "idle"
         /\ \A k \in Visible : shown[s][k] = mem[s].cfg[k]
<1>1. \A w \in Worker : pc[<<s, w>>] = "idle"
  BY DEF Working
<1> QED
  BY <1>1 DEF Orderly, Unwritten

\* A worker begins: nobody else of the session is at work.  What it changes first
\* is in force before it is written.
LEMMA BeginApplied ==
  ASSUME TypeOK, NEW s \in Session, NEW w \in Worker, AppliedAt(s), life[s] # "off",
         pc' = [pc EXCEPT ![<<s, w>>] = pc'[<<s, w>>]], pc'[<<s, w>>] # "idle",
         UNCHANGED <<life, jobs, hpc, new, diff>>, Disturb(s),
         \A k \in Visible : \/ shown'[s][k] = shown[s][k] /\ mem'[s].cfg[k] = mem[s].cfg[k]
                            \/ Unwritten(<<s, w>>, k)',
         \A k \in Section : Unwritten(<<s, w>>, k)' =>
             \/ copy'[<<s, w>>][k] = shown'[s][k]
             \/ k \in Visible /\ copy'[<<s, w>>][k] = mem[s].cfg[k] /\ shown'[s][k] = shown[s][k]
  PROVE  AppliedAt(s)'
<1> SUFFICES ASSUME ~disturbed'[s] PROVE Orderly(s)'
  BY DEF AppliedAt
<1>1. ~disturbed[s] /\ ~Handling(s) /\ ~Working(s)
  BY DEF Disturb, TypeOK
<1>2. jobs[s] = {} /\ hpc[s] # "set" /\ Orderly(s)
  BY <1>1 DEF Handling, AppliedAt
<1>3. /\ \A v \in Worker : pc[<<s, v>>] = "idle"
      /\ \A k \in Visible : shown[s][k] = mem[s].cfg[k]
  BY <1>1, <1>2, AtRestApplied
<1>4. \A v \in Worker : v # w => pc'[<<s, v>>] = "idle"
  BY <1>3 DEF TypeOK
<1>5. \A v \in Worker, k \in Section : Unwritten(<<s, v>>, k)' => v = w
  BY <1>4 DEF Unwritten
<1>6. \A k \in Visible : shown'[s][k] = mem'[s].cfg[k] \/ Unwritten(<<s, w>>, k)'
  BY <1>3
<1>7. \A v \in Worker, k \in Section : Unwritten(<<s, v>>, k)' => copy'[<<s, v>>][k] = shown'[s][k]
  BY <1>3, <1>5
<1>8. \A u, v \in Worker : pc'[<<s, u>>] # "idle" /\ pc'[<<s, v>>] # "idle" => u = v
  BY <1>4
<1> QED
  BY <1>2, <1>6, <1>7, <1>8 DEF Orderly

\* A worker writes down what it has put into force.
LEMMA WriteApplied ==
  ASSUME TypeOK, NEW s \in Session, NEW w \in Worker, AppliedAt(s), pc[<<s, w>>] # "idle",
         pc' = [pc EXCEPT ![<<s, w>>] = pc'[<<s, w>>]], pc'[<<s, w>>] \in {"idle", "save"},
         UNCHANGED <<life, jobs, hpc, new, diff, shown>>,
         disturbed' = [disturbed EXCEPT ![s] = @ \/ Handling(s)],
         \A k \in Section : mem'[s].cfg[k] = IF Unwritten(<<s, w>>, k) THEN copy[<<s, w>>][k]
                                             ELSE mem[s].cfg[k]
  PROVE  AppliedAt(s)'
<1>1. life[s] # "off"
  BY DEF AppliedAt, Working
<1> SUFFICES ASSUME ~disturbed'[s] PROVE Orderly(s)'
  BY <1>1 DEF AppliedAt
<1>2. ~disturbed[s] /\ ~Handling(s)
  BY DEF TypeOK
<1>3. jobs[s] = {} /\ hpc[s] # "set" /\ Orderly(s)
  BY <1>1, <1>2 DEF Handling, AppliedAt
<1>4. \A v \in Worker : v # w => pc[<<s, v>>] = "idle" /\ pc'[<<s, v>>] = "idle"
  BY <1>3 DEF Orderly, TypeOK
<1>5. \A v \in Worker, k \in Section : ~Unwritten(<<s, v>>, k)'
  BY <1>4 DEF Unwritten
<1>6. \A v \in Worker, k \in Section : Unwritten(<<s, v>>, k) => v = w
  BY <1>4 DEF Unwritten
<1>7. ASSUME NEW k \in Visible PROVE shown'[s][k] = mem'[s].cfg[k]
  <2>1. k \in Section
    BY DEF Visible
  <2>2. CASE Unwritten(<<s, w>>, k)
    BY <1>3, <2>1, <2>2 DEF Orderly
  <2>3. CASE ~Unwritten(<<s, w>>, k)
    <3>1. shown[s][k] = mem[s].cfg[k]
      BY <1>3, <1>6, <2>1, <2>3 DEF Orderly
    <3> QED
      BY <2>1, <2>3, <3>1
  <2> QED
    BY <2>2, <2>3
<1>8. \A u, v \in Worker : pc'[<<s, u>>] # "idle" /\ pc'[<<s, v>>] # "idle" => u = v
  BY <1>4
<1> QED
  BY <1>3, <1>5, <1>7, <1>8 DEF Orderly

LEMMA AppliedStep ==
  ASSUME TypeOK, HeldInv, OneVersion, AppliedInv, [Next]_vars
  PROVE  AppliedInv'
<1> USE DEF daemon, logind, session, handler, worker
<1>0. \A s \in Session : AppliedAt(s)
  BY DEF AppliedInv
<1> SUFFICES ASSUME NEW t \in Session PROVE AppliedAt(t)'
  BY DEF AppliedInv
<1>1. ASSUME NEW x \in Session \cup {Nobody}, SwitchTo(x) PROVE AppliedAt(t)'
  <2>1. life[t] = "off" => hpc[t] = "idle"
    BY DEF HeldInv
  <2> QED
    BY <1>0, <1>1, <2>1, AppliedKept DEF SwitchTo
<1>2. ASSUME NEW s \in Session, Load(s) PROVE AppliedAt(t)'
  <2>1. CASE t = s
    <3>1. ~Working(s) /\ jobs[s] = {} /\ hpc[s] = "idle"
      BY <1>0, <1>2 DEF Load, AppliedAt
    <3>2. UNCHANGED <<pc, jobs, hpc>> /\ shown'[s] = mem'[s].cfg /\ life'[s] # "off"
      BY <1>2 DEF Load, TypeOK
    <3>3. \A w \in Worker : pc'[<<s, w>>] = "idle"
      BY <3>1, <3>2 DEF Working
    <3>4. Orderly(s)'
      BY <3>1, <3>2, <3>3 DEF Orderly, Unwritten
    <3> QED
      BY <2>1, <3>2, <3>4 DEF AppliedAt
  <2>2. CASE t # s
    <3>1. life'[t] = life[t] /\ mem'[t] = mem[t] /\ shown'[t] = shown[t]
      BY <1>2, <2>2 DEF Load, TypeOK
    <3>2. UNCHANGED <<pc, copy, jobs, hpc, new, diff, disturbed>>
      BY <1>2 DEF Load
    <3>3. life[t] = "off" => hpc[t] = "idle"
      BY DEF HeldInv
    <3> QED
      BY <1>0, <3>1, <3>2, <3>3, AppliedKept
  <2> QED
    BY <2>1, <2>2
<1>3. ASSUME NEW s \in Session, Listen(s) PROVE AppliedAt(t)'
  <2>1. life'[t] = "off" <=> life[t] = "off"
    BY <1>3 DEF Listen, TypeOK
  <2>2. life[t] = "off" => hpc[t] = "idle"
    BY DEF HeldInv
  <2> QED
    BY <1>0, <1>3, <2>1, <2>2, AppliedKept DEF Listen
<1>4. ASSUME NEW s \in Session, NEW k \in {"mode", "scale", "cache"}, SaveLocked(s, k)
      PROVE  AppliedAt(t)'
  <2>1. UNCHANGED <<life, pc, copy, jobs, hpc, new, diff>>
    BY <1>4 DEF SaveLocked
  <2>2. CASE t = s
    <3> SUFFICES ASSUME ~disturbed'[s] PROVE Orderly(s)'
      BY <1>4, <2>1, <2>2 DEF AppliedAt, SaveLocked, Change
    <3>1. ~disturbed[s] /\ ~Handling(s) /\ life[s] # "off"
      BY <1>4 DEF SaveLocked, Change, TypeOK
    <3>2. jobs[s] = {} /\ hpc[s] # "set" /\ Orderly(s)
      BY <1>0, <3>1 DEF Handling, AppliedAt
    <3>3. \A w \in Worker, x \in Section : Unwritten(<<s, w>>, x)' = Unwritten(<<s, w>>, x)
      BY <2>1 DEF Unwritten
    <3>4. \A w \in Worker, x \in Section : Unwritten(<<s, w>>, x) => x # k
      BY DEF Unwritten, Screen
    <3>5. k \in Section
      BY DEF Section
    <3>6. mem[s].cfg \in Config /\ shown[s] \in Config
      BY DEF TypeOK, Version
    <3>7. shown'[s] = [shown[s] EXCEPT ![k] = writes']
      BY <1>4 DEF SaveLocked, Change, TypeOK
    <3>8. mem'[s].cfg = [mem[s].cfg EXCEPT ![k] = writes']
      BY <1>4 DEF SaveLocked, SaveAs, TypeOK
    <3>9. \A x \in Section : IF x = k THEN shown'[s][x] = mem'[s].cfg[x]
                             ELSE shown'[s][x] = shown[s][x] /\ mem'[s].cfg[x] = mem[s].cfg[x]
      BY <3>5, <3>6, <3>7, <3>8 DEF Config
    <3>10. \A x \in Visible : \/ shown'[s][x] = mem'[s].cfg[x]
                              \/ \E w \in Worker : Unwritten(<<s, w>>, x)'
      BY <3>2, <3>3, <3>9 DEF Orderly, Visible
    <3>11. \A w \in Worker, x \in Section : Unwritten(<<s, w>>, x)' => copy'[<<s, w>>][x] = shown'[s][x]
      BY <2>1, <3>2, <3>3, <3>4, <3>9 DEF Orderly
    <3>12. \A u, v \in Worker : pc'[<<s, u>>] # "idle" /\ pc'[<<s, v>>] # "idle" => u = v
      BY <2>1, <3>2 DEF Orderly
    <3> QED
      BY <2>1, <3>2, <3>10, <3>11, <3>12 DEF Orderly
  <2>3. CASE t # s
    <3>1. disturbed'[t] = disturbed[t] /\ shown'[t] = shown[t] /\ mem'[t] = mem[t]
      BY <1>4, <2>3 DEF SaveLocked, SaveAs, Change, TypeOK
    <3>2. life[t] = "off" => hpc[t] = "idle"
      BY DEF HeldInv
    <3> QED
      BY <1>0, <2>1, <3>1, <3>2, AppliedKept
  <2> QED
    BY <2>2, <2>3
<1>5. ASSUME NEW s \in Session, NEW w \in Worker, Begin(s, w) \/ Proceed(s, w), t # s
      PROVE  AppliedAt(t)'
  <2>1. UNCHANGED <<life, jobs, hpc, new, diff>>
    BY <1>5 DEF Begin, Proceed, CopyScreen, RecordConnected, SetFill, SetScreen, Save, SaveFill
  <2>2. \A v \in Worker : <<t, v>> # <<s, w>>
    BY <1>5
  <2>3. disturbed'[t] = disturbed[t]
    <3>1. UNCHANGED disturbed \/ Disturb(s) \/ disturbed' = [disturbed EXCEPT ![s] = @ \/ Handling(s)]
      BY <1>5 DEF Begin, Proceed, CopyScreen, RecordConnected, SetFill, SetScreen, Save, SaveFill
    <3>2. DOMAIN disturbed = Session
      BY DEF TypeOK
    <3> QED
      BY <1>5, <3>1, <3>2 DEF Disturb
  <2>4. shown'[t] = shown[t]
    BY <1>5 DEF Begin, Proceed, CopyScreen, RecordConnected, SetFill, SetScreen, Save, SaveFill,
                Change, TypeOK
  <2>5. mem'[t] = mem[t]
    BY <1>5 DEF Begin, Proceed, CopyScreen, RecordConnected, SetFill, SetScreen, Save, SaveFill,
                SaveAs, TypeOK
  <2>6. \A v \in Worker : pc'[<<t, v>>] = pc[<<t, v>>]
    <3>1. \E to : pc' = [pc EXCEPT ![<<s, w>>] = to]
      BY <1>5 DEF Begin, Proceed, CopyScreen, RecordConnected, SetFill, SetScreen, Save, SaveFill, Goto
    <3> QED
      BY <2>2, <3>1 DEF TypeOK
  <2>7. \A v \in Worker : copy'[<<t, v>>] = copy[<<t, v>>]
    <3>1. copy' = copy \/ \E c : copy' = [copy EXCEPT ![<<s, w>>] = c]
      BY <1>5 DEF Begin, Proceed, CopyScreen, RecordConnected, SetFill, SetScreen, Save, SaveFill
    <3> QED
      BY <2>2, <3>1 DEF TypeOK
  <2>8. life[t] = "off" => hpc[t] = "idle"
    BY DEF HeldInv
  <2> QED
    BY <1>0, <2>1, <2>3, <2>4, <2>5, <2>6, <2>7, <2>8, AppliedKept
<1>6. ASSUME NEW w \in Worker, NEW k \in Screen, CopyScreen(t, w, k) PROVE AppliedAt(t)'
  <2>1. /\ k \in Section /\ life[t] # "off" /\ writes' \in Nat
    BY <1>6, ChangedType DEF CopyScreen, Change, Section
  <2>2. /\ pc[<<t, w>>] = "idle" /\ pc' = [pc EXCEPT ![<<t, w>>] = "screen"]
        /\ pc'[<<t, w>>] = "screen"
    BY <1>6 DEF CopyScreen, Goto, TypeOK
  <2>3. UNCHANGED <<mem, life, jobs, hpc, new, diff>> /\ Disturb(t)
    BY <1>6 DEF CopyScreen
  <2>4. \A x \in Section : shown'[t][x] = IF x = k THEN writes' ELSE shown[t][x]
    <3>1. shown'[t] = [shown[t] EXCEPT ![k] = writes'] /\ shown[t] \in Config
      BY <1>6 DEF CopyScreen, Change, TypeOK
    <3> QED
      BY <2>1, <3>1 DEF Config
  <2>5. \A x \in Screen : copy'[<<t, w>>][x] = IF x = k THEN writes' ELSE mem[t].cfg[x]
    <3>1. copy'[<<t, w>>] = [GetSysScreenConfig(t) EXCEPT ![k] = writes']
      BY <1>6 DEF CopyScreen, TypeOK
    <3> QED
      BY <2>1, <3>1 DEF GetSysScreenConfig, Section
  <2>6. \A x \in Section : Unwritten(<<t, w>>, x)' <=> x \in Screen
    BY <2>2 DEF Unwritten
  <2>7. Visible \subseteq Section /\ Screen \subseteq Visible
    BY DEF Visible, Section, Screen
  <2>8. \A x \in Visible : \/ shown'[t][x] = shown[t][x] /\ mem'[t].cfg[x] = mem[t].cfg[x]
                           \/ Unwritten(<<t, w>>, x)'
    BY <2>3, <2>4, <2>6, <2>7
  <2>9. \A x \in Section : Unwritten(<<t, w>>, x)' =>
           \/ copy'[<<t, w>>][x] = shown'[t][x]
           \/ x \in Visible /\ copy'[<<t, w>>][x] = mem[t].cfg[x] /\ shown'[t][x] = shown[t][x]
    BY <2>4, <2>5, <2>6, <2>7
  <2> QED
    BY <1>0, <2>1, <2>2, <2>3, <2>8, <2>9, BeginApplied
<1>7. ASSUME NEW w \in Worker, RecordConnected(t, w) PROVE AppliedAt(t)'
  <2>1. life[t] # "off" /\ "cache" \in Section
    BY <1>7 DEF RecordConnected, Change, Section
  <2>2. /\ pc' = [pc EXCEPT ![<<t, w>>] = "save"] /\ pc'[<<t, w>>] = "save"
    BY <1>7 DEF RecordConnected, Goto, TypeOK
  <2>3. UNCHANGED <<life, jobs, hpc, new, diff>> /\ Disturb(t)
    BY <1>7 DEF RecordConnected
  <2>4. \A x \in Section : x # "cache" => shown'[t][x] = shown[t][x]
    <3>1. shown'[t] = [shown[t] EXCEPT !["cache"] = writes'] /\ shown[t] \in Config
      BY <1>7 DEF RecordConnected, Change, TypeOK
    <3> QED
      BY <3>1 DEF Config
  <2>5. \A x \in Section : x # "cache" => mem'[t].cfg[x] = mem[t].cfg[x]
    <3>1. mem'[t].cfg = [mem[t].cfg EXCEPT !["cache"] = writes'] /\ mem[t].cfg \in Config
      BY <1>7 DEF RecordConnected, TypeOK, Version
    <3> QED
      BY <3>1 DEF Config
  <2>6. \A x \in Section : ~Unwritten(<<t, w>>, x)'
    BY <2>2 DEF Unwritten
  <2>7. \A x \in Visible : shown'[t][x] = shown[t][x] /\ mem'[t].cfg[x] = mem[t].cfg[x]
    BY <2>4, <2>5 DEF Visible
  <2> QED
    BY <1>0, <2>1, <2>2, <2>3, <2>6, <2>7, BeginApplied
<1>8. ASSUME NEW w \in Worker, SetFill(t, w) PROVE AppliedAt(t)'
  <2>1. life[t] # "off" /\ "fill" \in Section
    BY <1>8 DEF SetFill, Change, Section
  <2>2. pc' = [pc EXCEPT ![<<t, w>>] = "fill"] /\ pc'[<<t, w>>] = "fill"
    BY <1>8 DEF SetFill, Goto, TypeOK
  <2>3. UNCHANGED <<mem, life, jobs, hpc, new, diff>> /\ Disturb(t)
    BY <1>8 DEF SetFill
  <2>4. \A x \in Section : x # "fill" => shown'[t][x] = shown[t][x]
    <3>1. shown[t] \in Config
      BY DEF TypeOK
    <3>2. \/ shown'[t] = [shown[t] EXCEPT !["fill"] = writes']
          \/ shown'[t] = [shown[t] EXCEPT !["fill"] = mem[t].cfg["fill"]]
      <4>1. \/ shown' = [shown EXCEPT ![t]["fill"] = writes']
            \/ shown' = [shown EXCEPT ![t]["fill"] = mem[t].cfg["fill"]]
        BY <1>8 DEF SetFill, Change
      <4>2. DOMAIN shown = Session
        BY DEF TypeOK
      <4> QED
        BY <4>1, <4>2
    <3> QED
      BY <3>1, <3>2 DEF Config
  <2>5. copy'[<<t, w>>]["fill"] = shown'[t]["fill"]
    <3>1. copy'[<<t, w>>] = [Empty EXCEPT !["fill"] = shown'[t]["fill"]]
      BY <1>8 DEF SetFill, TypeOK
    <3> QED
      BY <2>1, <3>1 DEF Empty
  <2>6. \A x \in Section : Unwritten(<<t, w>>, x)' <=> x = "fill"
    BY <2>2 DEF Unwritten
  <2>7. \A x \in Visible : \/ shown'[t][x] = shown[t][x] /\ mem'[t].cfg[x] = mem[t].cfg[x]
                           \/ Unwritten(<<t, w>>, x)'
    BY <2>3, <2>4, <2>6 DEF Visible
  <2> QED
    BY <1>0, <2>1, <2>2, <2>3, <2>5, <2>6, <2>7, BeginApplied
<1>9. ASSUME NEW w \in Worker, SetScreen(t, w) PROVE AppliedAt(t)'
  <2>1. /\ pc[<<t, w>>] = "screen" /\ pc' = [pc EXCEPT ![<<t, w>>] = "save"]
        /\ pc'[<<t, w>>] = "save"
    BY <1>9 DEF SetScreen, Goto, TypeOK
  <2>2. /\ UNCHANGED <<life, jobs, hpc, new, diff, shown>>
        /\ disturbed' = [disturbed EXCEPT ![t] = @ \/ Handling(t)]
    BY <1>9 DEF SetScreen
  <2>3. mem'[t].cfg = [k \in Section |-> IF k \in Screen THEN copy[<<t, w>>][k] ELSE mem[t].cfg[k]]
    BY <1>9 DEF SetScreen, TypeOK, Version
  <2>4. \A k \in Section : mem'[t].cfg[k] = IF Unwritten(<<t, w>>, k) THEN copy[<<t, w>>][k]
                                             ELSE mem[t].cfg[k]
    BY <2>1, <2>3 DEF Unwritten
  <2> QED
    BY <1>0, <2>1, <2>2, <2>4, WriteApplied
<1>10. ASSUME NEW w \in Worker, SaveFill(t, w) PROVE AppliedAt(t)'
  <2>1. /\ pc[<<t, w>>] = "fill" /\ pc' = [pc EXCEPT ![<<t, w>>] = "idle"]
        /\ pc'[<<t, w>>] = "idle"
    BY <1>10 DEF SaveFill, Goto, TypeOK
  <2>2. /\ UNCHANGED <<life, jobs, hpc, new, diff, shown>>
        /\ disturbed' = [disturbed EXCEPT ![t] = @ \/ Handling(t)]
    BY <1>10 DEF SaveFill
  <2>3. mem'[t].cfg = [mem[t].cfg EXCEPT !["fill"] = copy[<<t, w>>]["fill"]]
    BY <1>10 DEF SaveFill, SaveAs, TypeOK
  <2>4. mem[t].cfg \in Config
    BY DEF TypeOK, Version
  <2>5. \A k \in Section : mem'[t].cfg[k] = IF Unwritten(<<t, w>>, k) THEN copy[<<t, w>>][k]
                                             ELSE mem[t].cfg[k]
    BY <2>1, <2>3, <2>4 DEF Unwritten, Config
  <2> QED
    BY <1>0, <2>1, <2>2, <2>5, WriteApplied
<1>11. ASSUME NEW w \in Worker, Save(t, w) PROVE AppliedAt(t)'
  <2>1. /\ pc[<<t, w>>] = "save" /\ pc' = [pc EXCEPT ![<<t, w>>] = "idle"]
        /\ pc'[<<t, w>>] = "idle"
    BY <1>11 DEF Save, Goto, TypeOK
  <2>2. UNCHANGED <<life, copy, jobs, hpc, new, diff, shown, disturbed>>
    BY <1>11 DEF Save
  <2>3. mem'[t].cfg = mem[t].cfg
    BY <1>11 DEF Save, SaveAs, TypeOK
  <2>4. life[t] # "off"
    BY <1>0, <2>1 DEF AppliedAt, Working
  <2> SUFFICES ASSUME ~disturbed[t], Orderly(t) PROVE Orderly(t)'
    BY <1>0, <2>2, <2>4 DEF AppliedAt
  <2>5. \A v \in Worker : pc'[<<t, v>>] = pc[<<t, v>>] \/ pc'[<<t, v>>] = "idle"
    BY <2>1 DEF TypeOK
  <2>6. Working(t)' => Working(t)
    BY <2>5 DEF Working
  <2>7. \A v \in Worker, k \in Section : Unwritten(<<t, v>>, k)' <=> Unwritten(<<t, v>>, k)
    BY <2>1 DEF Unwritten, TypeOK
  <2> QED
    BY <2>2, <2>3, <2>5, <2>6, <2>7 DEF Orderly, Covers, Visible
<1>12. ASSUME NEW s \in Session, ReceiveUpdated(s) \/ ReceiveActive(s) \/ Fetch(s)
       PROVE  AppliedAt(t)'
  <2>1. UNCHANGED <<life, pc, copy, jobs, shown, mem, disturbed>>
    BY <1>12 DEF ReceiveUpdated, ReceiveActive, Fetch
  <2>2. hpc'[t] = "set" => hpc[t] = "set" /\ new'[t] = new[t] /\ diff'[t] = diff[t]
    <3>1. diff' = diff /\ hpc'[s] # "set"
      BY <1>12 DEF ReceiveUpdated, ReceiveActive, Fetch, At, TypeOK
    <3>2. t # s => hpc'[t] = hpc[t] /\ new'[t] = new[t]
      BY <1>12 DEF ReceiveUpdated, ReceiveActive, Fetch, At, TypeOK
    <3> QED
      BY <3>1, <3>2
  <2>3. life[t] = "off" => hpc'[t] = "idle"
    BY <1>12, HeldStep DEF HeldInv, ReceiveUpdated, ReceiveActive, Fetch
  <2> QED
    BY <1>0, <2>1, <2>2, <2>3, AppliedKept
<1>13. ASSUME NEW s \in Session, Compare(s) PROVE AppliedAt(t)'
  <2>1. UNCHANGED <<life, pc, copy, jobs, shown, mem, disturbed, new>>
    BY <1>13 DEF Compare
  <2>2. CASE t = s
    <3>1. life[s] # "off"
      BY <1>13 DEF Compare, At, HeldInv
    <3> SUFFICES ASSUME ~disturbed[s], Orderly(s) PROVE Orderly(s)'
      BY <1>0, <2>1, <2>2, <3>1 DEF AppliedAt
    <3>2. PICK v \in new[s] : diff' = [diff EXCEPT ![s] = {k \in Section : v.cfg[k] # mem[s].cfg[k]}]
      BY <1>13 DEF Compare
    <3>3. \A u \in new[s] : u = v
      BY DEF OneVersion, Held
    <3>4. \A u \in new'[s] : diff'[s] = {k \in Section : u.cfg[k] # mem'[s].cfg[k]}
      BY <2>1, <3>2, <3>3 DEF TypeOK
    <3>5. Working(s)' = Working(s)
      BY <2>1 DEF Working
    <3>6. \A w \in Worker, k \in Section : Unwritten(<<s, w>>, k)' <=> Unwritten(<<s, w>>, k)
      BY <2>1 DEF Unwritten
    <3> QED
      <4>1. /\ \A x, w \in Worker : pc'[<<s, x>>] # "idle" /\ pc'[<<s, w>>] # "idle" => x = w
            /\ jobs'[s] # {} => ~Working(s)'
            /\ \A j \in jobs'[s] : j.cfg = mem'[s].cfg
        BY <2>1, <3>5 DEF Orderly
      <4>2. \A k \in Visible : \/ shown'[s][k] = mem'[s].cfg[k]
                               \/ \E j \in jobs'[s] : Covers(j, k)
                               \/ \E w \in Worker : Unwritten(<<s, w>>, k)'
        <5>1. \A k \in Visible : k \in Section
          BY DEF Visible
        <5>2. \A k \in Visible : \/ shown[s][k] = mem[s].cfg[k]
                                 \/ \E j \in jobs[s] : Covers(j, k)
                                 \/ \E w \in Worker : Unwritten(<<s, w>>, k)
          BY DEF Orderly
        <5>3. \A k \in Visible, w \in Worker : Unwritten(<<s, w>>, k) => Unwritten(<<s, w>>, k)'
          BY <3>6, <5>1
        <5>4. UNCHANGED <<shown, mem, jobs>>
          BY <2>1
        <5>5. ASSUME NEW k \in Visible
              PROVE  \/ shown'[s][k] = mem'[s].cfg[k]
                     \/ \E j \in jobs'[s] : Covers(j, k)
                     \/ \E w \in Worker : Unwritten(<<s, w>>, k)'
          <6>1. CASE shown[s][k] = mem[s].cfg[k]
            BY <5>4, <6>1
          <6>2. CASE \E j \in jobs[s] : Covers(j, k)
            BY <5>4, <6>2
          <6>3. CASE \E w \in Worker : Unwritten(<<s, w>>, k)
            BY <5>3, <6>3
          <6> QED
            BY <5>2, <6>1, <6>2, <6>3
        <5> QED
          BY <5>5
      <4>3. \A w \in Worker, k \in Section :
                Unwritten(<<s, w>>, k)' => copy'[<<s, w>>][k] = shown'[s][k]
        BY <2>1, <3>6 DEF Orderly
      <4> QED
        BY <3>4, <4>1, <4>2, <4>3 DEF Orderly
  <2>3. CASE t # s
    <3>1. hpc'[t] = hpc[t] /\ diff'[t] = diff[t]
      BY <1>13, <2>3 DEF Compare, At, TypeOK
    <3>2. life[t] = "off" => hpc[t] = "idle"
      BY DEF HeldInv
    <3> QED
      BY <1>0, <2>1, <3>1, <3>2, AppliedKept
  <2> QED
    BY <2>2, <2>3
<1>14. ASSUME NEW s \in Session, SetCfg(s) PROVE AppliedAt(t)'
  <2>1. PICK v \in new[s] :
          /\ mem' = [mem EXCEPT ![s] = v]
          /\ jobs' = [jobs EXCEPT ![s] =
               @ \cup {[what |-> w, cfg |-> v.cfg] : w \in {x \in What : Due(x, diff[s])}}]
    BY <1>14 DEF SetCfg
  <2>2. UNCHANGED <<life, pc, copy, shown>> /\ At(s, "set", "idle")
    BY <1>14 DEF SetCfg
  <2>3. CASE t = s
    <3>1. life[s] # "off"
      BY <2>2 DEF At, HeldInv
    <3> SUFFICES ASSUME ~disturbed'[s] PROVE Orderly(s)'
      BY <2>2, <2>3, <3>1 DEF AppliedAt
    <3>2. ~disturbed[s] /\ jobs[s] = {} /\ ~Working(s)
      BY <1>14 DEF SetCfg, TypeOK, Working
    <3>3. Orderly(s) /\ hpc[s] = "set" /\ hpc'[s] = "idle"
      BY <1>0, <2>2, <3>1, <3>2 DEF AppliedAt, At, TypeOK
    <3>4. /\ \A w \in Worker : pc[<<s, w>>] = "idle"
          /\ \A k \in Visible : shown[s][k] = mem[s].cfg[k]
      BY <3>2, <3>3, AtRestApplied
    <3>5. diff[s] = {k \in Section : v.cfg[k] # mem[s].cfg[k]}
      BY <3>3 DEF Orderly
    <3>6. /\ mem'[s] = v
          /\ jobs'[s] = {[what |-> w, cfg |-> v.cfg] : w \in {x \in What : Due(x, diff[s])}}
      BY <2>1, <3>2 DEF TypeOK
    <3>7. ASSUME NEW k \in Visible
          PROVE  shown'[s][k] = mem'[s].cfg[k] \/ \E j \in jobs'[s] : Covers(j, k)
      <4>1. CASE k \in diff[s]
        <5>1. PICK w \in What : Due(w, diff[s]) /\ k \in Given(w) \cup Current(w)
          BY <4>1, DueCovers
        <5>2. [what |-> w, cfg |-> v.cfg] \in jobs'[s]
          BY <3>6, <5>1
        <5> QED
          BY <5>1, <5>2 DEF Covers
      <4>2. CASE k \notin diff[s]
        BY <2>2, <3>4, <3>5, <3>6, <4>2 DEF Visible
      <4> QED
        BY <4>1, <4>2
    <3>8. \A j \in jobs'[s] : j.cfg = mem'[s].cfg
      BY <3>6
    <3>9. \A w \in Worker : pc'[<<s, w>>] = "idle"
      BY <2>2, <3>4
    <3> QED
      BY <3>3, <3>7, <3>8, <3>9 DEF Orderly, Working, Unwritten
  <2>4. CASE t # s
    <3>1. /\ hpc'[t] = hpc[t] /\ diff'[t] = diff[t] /\ new'[t] = new[t] /\ mem'[t] = mem[t]
          /\ jobs'[t] = jobs[t] /\ disturbed'[t] = disturbed[t]
      BY <1>14, <2>1, <2>4 DEF SetCfg, At, TypeOK
    <3>2. life[t] = "off" => hpc[t] = "idle"
      BY DEF HeldInv
    <3> QED
      BY <1>0, <2>2, <3>1, <3>2, AppliedKept
  <2> QED
    BY <2>3, <2>4
<1>15. ASSUME NEW s \in Session, NEW j \in jobs[s], RunJob(s, j) PROVE AppliedAt(t)'
  <2>1. UNCHANGED <<life, pc, copy, mem, hpc, new, diff>> /\ jobs' = [jobs EXCEPT ![s] = @ \ {j}]
    BY <1>15 DEF RunJob
  <2>2. CASE t = s
    <3>1. life[s] # "off"
      BY <1>0 DEF AppliedAt
    <3> SUFFICES ASSUME ~disturbed'[s] PROVE Orderly(s)'
      BY <2>1, <2>2, <3>1 DEF AppliedAt
    <3>2. /\ shown' = [shown EXCEPT ![s] = [k \in Section |->
                IF k \in Given(j.what) THEN j.cfg[k]
                ELSE IF k \in Current(j.what) THEN mem[s].cfg[k] ELSE @[k]]]
          /\ ~disturbed[s]
      BY <1>15 DEF RunJob, TypeOK
    <3>3. Orderly(s) /\ ~Working(s)
      BY <1>0, <3>1, <3>2 DEF AppliedAt, Orderly
    <3>4. \A w \in Worker : pc[<<s, w>>] = "idle"
      BY <3>3 DEF Working
    <3>5. j.cfg = mem[s].cfg
      BY <3>3 DEF Orderly
    <3>6. \A k \in Section : shown'[s][k] = IF Covers(j, k) THEN mem[s].cfg[k] ELSE shown[s][k]
      BY <3>2, <3>5 DEF Covers, TypeOK
    <3>7. jobs'[s] = jobs[s] \ {j}
      BY <2>1 DEF TypeOK
    <3>8. ASSUME NEW k \in Visible
          PROVE  shown'[s][k] = mem'[s].cfg[k] \/ \E i \in jobs'[s] : Covers(i, k)
      <4>1. k \in Section
        BY DEF Visible
      <4>2. shown[s][k] = mem[s].cfg[k] \/ \E i \in jobs[s] : Covers(i, k)
        BY <3>3, <3>4 DEF Orderly, Unwritten
      <4> QED
        BY <2>1, <3>6, <3>7, <4>1, <4>2
    <3>9. \A w \in Worker : pc'[<<s, w>>] = "idle"
      BY <2>1, <3>4
    <3> QED
      BY <2>1, <3>3, <3>7, <3>8, <3>9 DEF Orderly, Working, Unwritten
  <2>3. CASE t # s
    <3>1. jobs'[t] = jobs[t] /\ disturbed'[t] = disturbed[t] /\ shown'[t] = shown[t]
      BY <1>15, <2>3 DEF RunJob, TypeOK
    <3>2. life[t] = "off" => hpc[t] = "idle"
      BY DEF HeldInv
    <3> QED
      BY <1>0, <2>1, <3>1, <3>2, AppliedKept
  <2> QED
    BY <2>2, <2>3
<1>16. CASE UNCHANGED vars
  <2>1. life[t] = "off" => hpc[t] = "idle"
    BY DEF HeldInv
  <2> QED
    BY <1>0, <1>16, <2>1, AppliedKept DEF vars
<1> QED
  BY <1>1, <1>2, <1>3, <1>4, <1>5, <1>6, <1>7, <1>8, <1>9, <1>10, <1>11, <1>12, <1>13,
     <1>14, <1>15, <1>16
     DEF Next, Handle, Begin, Proceed

\* What changed is applied: at rest, what is in force agrees with the configuration
\* unless changes overlapped or an application failed.
THEOREM ChangesApplied == Spec => []AppliedWhatChanged
<1>1. Init => AppliedInv
  <2> SUFFICES ASSUME Init, NEW s \in Session PROVE AppliedAt(s)
    BY DEF AppliedInv
  <2>1. life[s] = "off" /\ jobs[s] = {} /\ hpc[s] = "idle"
    BY DEF Init
  <2>2. \A w \in Worker : pc[<<s, w>>] = "idle"
    BY DEF Init
  <2> QED
    BY <2>1, <2>2 DEF AppliedAt, Working
<1>2. TypeOK /\ HeldInv /\ OneVersion /\ AppliedInv /\ [Next]_vars => AppliedInv'
  BY AppliedStep
<1>3. AppliedInv => AppliedWhatChanged
  BY AtRestApplied DEF AppliedInv, AppliedAt, AppliedWhatChanged
<1> QED
  BY <1>1, <1>2, <1>3, TypeCorrect, HeldCorrect, OneVersionCorrect, PTL DEF Spec

=============================================================================
