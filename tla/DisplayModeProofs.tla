-------------------------- MODULE DisplayModeProofs --------------------------
(***************************************************************************)
(* Proofs about DisplayMode, for every set of monitors and of goroutines   *)
(* and for any number of hot-plugs and calls.                              *)
(***************************************************************************)
EXTENDS DisplayMode, FiniteSetTheorems, WellFoundedInduction, TLAPS

Pc        == {"idle", "mode", "apply", "publish", "screen", "save", "after"}
Switching == {"switch", "delayed", "auto"}
Active(a) == pc[a] # "idle"

\* What an operation goes on with: to be applied, to be saved, to be finished.
Applying(j) == [j EXCEPT !.screen = screens[j.snap], !.primary = Primary(j), !.build = Configured(j) = None]
Saving(j)   == [NoJob EXCEPT !.op = j.op, !.mode = j.mode, !.snap = j.snap, !.clean = j.clean]
Resting(j)  == [NoJob EXCEPT !.op = j.op, !.mode = j.mode]

-----------------------------------------------------------------------------
(* Types.                                                                  *)

LEMMA NoJobType == NoScreen \in ScreenCfg /\ NoJob \in Job
<1>1. NoScreen \in ScreenCfg
  BY DEF NoScreen, ScreenCfg
<1> QED
  BY <1>1 DEF NoJob, Job, Op, Modes

\* A set of monitors has a smallest one.
LEMMA MinIn ==
  ASSUME NEW S \in SUBSET Monitor, S # {}
  PROVE  Min(S) \in S
<1>1. S \subseteq Nat
  BY ConstantsAssumption
<1> DEFINE R == {ss \in Nat \X Nat : ss[1] < ss[2]}
<1>0. IsWellFoundedOn(R, Nat)
  BY NatLessThanWellFounded DEF OpToRel
<1>2. PICK x \in S : \A y \in S : ~ (<<y, x>> \in R)
  BY <1>0, <1>1, WFMin
<1>3. \A y \in S : ~ (y < x)
  BY <1>1, <1>2
<1>4. \A y \in S : x <= y
  BY <1>1, <1>3
<1> QED
  BY <1>4 DEF Min

LEMMA DefaultIn ==
  ASSUME NEW S \in SUBSET Monitor, S # {}
  PROVE  Default(S) \in S
BY MinIn DEF Default

LEMMA SavingType ==
  ASSUME NEW j \in Job
  PROVE  /\ Saving(j) \in Job
         /\ Saving(j).op = j.op /\ Saving(j).mode = j.mode /\ Saving(j).snap = j.snap
         /\ Saving(j).clean = j.clean
BY NoJobType DEF Saving, NoJob, Job

LEMMA RestingType ==
  ASSUME NEW j \in Job
  PROVE  /\ Resting(j) \in Job
         /\ Resting(j).op = j.op /\ Resting(j).mode = j.mode /\ Resting(j).clean = FALSE
         /\ Resting(Saving(j)) = Resting(j)
BY NoJobType DEF Resting, Saving, NoJob, Job

LEMMA ContinueType ==
  ASSUME TypeOK, NEW a \in Actor, NEW where \in Pc, NEW j \in Job, Continue(a, where, j)
  PROVE  pc' \in [Actor -> Pc] /\ job' \in [Actor -> Job]
<1>1. pc' \in [Actor -> Pc]
  BY DEF TypeOK, Continue, Pc
<1>2. ASSUME NEW b \in Actor
      PROVE  (CASE b = a -> j [] b # a /\ pc[a] = "idle" -> [job[b] EXCEPT !.clean = FALSE]
                [] OTHER -> job[b]) \in Job
  <2>1. job[b] \in Job
    BY DEF TypeOK
  <2>2. [job[b] EXCEPT !.clean = FALSE] \in Job
    BY <2>1 DEF Job
  <2> QED
    BY <2>1, <2>2
<1> QED
  BY <1>1, <1>2 DEF Continue

\* Who goes on changes nobody else's operation, but for "clean" when it begins.
LEMMA ContinueFrame ==
  ASSUME TypeOK, NEW a \in Actor, NEW where, NEW j, Continue(a, where, j)
  PROVE  /\ pc'[a] = where /\ job'[a] = j
         /\ \A b \in Actor \ {a} :
              /\ pc'[b] = pc[b]
              /\ Active(a) => job'[b] = job[b]
              /\ ~Active(a) => job'[b] = [job[b] EXCEPT !.clean = FALSE]
<1>1. pc'[a] = where /\ \A b \in Actor \ {a} : pc'[b] = pc[b]
  BY DEF Continue, TypeOK
<1>2. job'[a] = j
  BY DEF Continue
<1>3. ASSUME NEW b \in Actor \ {a} PROVE job'[b] = IF Active(a) THEN job[b] ELSE [job[b] EXCEPT !.clean = FALSE]
  BY DEF Continue, Active
<1> QED
  BY <1>1, <1>2, <1>3

-----------------------------------------------------------------------------
(* The forms that a step of a goroutine can have.                          *)

LEMMA EndForm ==
  ASSUME NEW a, NEW j, End(a, j)
  PROVE  \/ j.op \in {"delayed", "update"} /\ Continue(a, "after", Resting(j))
         \/ j.op \notin {"delayed", "update"} /\ Continue(a, "idle", NoJob)
BY DEF End, Resting

LEMMA EndFailedForm ==
  ASSUME NEW a, NEW j, EndFailed(a, j)
  PROVE  /\ failed' = failed \cup {Class(j.op)}
         /\ \/ j.op = "delayed" /\ Continue(a, "after", Resting(j))
            \/ j.op # "delayed" /\ Continue(a, "idle", NoJob)
BY EndForm DEF EndFailed

LEMMA ThenForm ==
  ASSUME NEW a, NEW j \in Job, Then(a, j)
  PROVE  \/ j.op \in Switching /\ j.old # j.mode /\ Continue(a, "save", Saving(j))
         \/ /\ j.op \in Switching => j.old = j.mode
            /\ \/ j.op \in {"delayed", "update"} /\ Continue(a, "after", Resting(j))
               \/ j.op \notin {"delayed", "update"} /\ Continue(a, "idle", NoJob)
<1>1. IF j.op \in Switching /\ j.old # j.mode THEN Continue(a, "save", Saving(j)) ELSE End(a, Saving(j))
  BY DEF Then, Switching, Saving
<1>2. CASE j.op \in Switching /\ j.old # j.mode
  BY <1>1, <1>2
<1>3. CASE ~(j.op \in Switching /\ j.old # j.mode)
  <2>1. End(a, Saving(j))
    BY <1>1, <1>3
  <2>2. \/ Saving(j).op \in {"delayed", "update"} /\ Continue(a, "after", Resting(Saving(j)))
        \/ Saving(j).op \notin {"delayed", "update"} /\ Continue(a, "idle", NoJob)
    BY <2>1, EndForm
  <2>3. Saving(j).op = j.op /\ Resting(Saving(j)) = Resting(j)
    BY SavingType, RestingType
  <2>4. j.op \in Switching => j.old = j.mode
    BY <1>3
  <2> QED
    BY <2>2, <2>3, <2>4
<1> QED
  BY <1>2, <1>3

LEMMA ReadForm ==
  ASSUME NEW a, NEW j, Read(a, j)
  PROVE  \/ EndFailed(a, j)
         \/ Kind(j) = "other" /\ j.snap # {} /\ Then(a, j) /\ failed' = failed
         \/ /\ Kind(j) # "other" /\ j.snap # {} /\ ~BadName(j)
            /\ Continue(a, "apply", Applying(j)) /\ failed' = failed
BY DEF Read, Applying

LEMMA KindIn ==
  ASSUME NEW j \in Job
  PROVE  Kind(j) \in Modes \cup {"single"} /\ (Kind(j) # "single" => Kind(j) = j.mode)
BY DEF Kind, Job, Modes

LEMMA PrimaryType ==
  ASSUME TypeOK, NEW j \in Job, j.snap # {}, Kind(j) # "other"
  PROVE  Configured(j) \in Monitor \cup {None} /\ Primary(j) \in Monitor \cup {None}
<1>1. screens[j.snap][Kind(j)] \in Monitor \cup {None} /\ j.name \in Monitor \cup {None}
      /\ j.snap \in SUBSET Monitor
  BY KindIn DEF TypeOK, ScreenCfg, Job, Modes
<1>2. Configured(j) \in Monitor \cup {None}
  BY <1>1 DEF Configured
<1>3. Default(j.snap) \in Monitor
  BY <1>1, DefaultIn
<1> QED
  BY <1>1, <1>2, <1>3 DEF Primary

LEMMA ApplyingType ==
  ASSUME TypeOK, NEW j \in Job, j.snap # {}, Kind(j) # "other"
  PROVE  /\ Applying(j) \in Job
         /\ Applying(j).op = j.op /\ Applying(j).mode = j.mode /\ Applying(j).old = j.old
         /\ Applying(j).snap = j.snap /\ Applying(j).clean = j.clean
         /\ Applying(j).screen = screens[j.snap] /\ Applying(j).primary = Primary(j)
         /\ Applying(j).build = (Configured(j) = None)
         /\ Kind(Applying(j)) = Kind(j)
<1>1. screens[j.snap] \in ScreenCfg /\ Primary(j) \in Monitor \cup {None}
  BY PrimaryType DEF TypeOK, Job
<1>2. /\ Applying(j) \in Job
      /\ Applying(j).op = j.op /\ Applying(j).mode = j.mode /\ Applying(j).old = j.old
      /\ Applying(j).snap = j.snap /\ Applying(j).clean = j.clean
  BY <1>1 DEF Applying, Job
<1>3. /\ Applying(j).screen = screens[j.snap] /\ Applying(j).primary = Primary(j)
      /\ Applying(j).build = (Configured(j) = None)
  BY DEF Applying, Job
<1> QED
  BY <1>2, <1>3 DEF Kind

\* A goroutine a goes on with the job j, or ends it; a delayed switch ends after
\* "after" only.
Goes(a, j) ==
  \E where \in Pc \ {"mode"}, k \in Job :
    /\ Continue(a, where, k)
    /\ where = "idle" => k = NoJob /\ j.op # "delayed"
    /\ where # "idle" => k.op = j.op
    /\ k.clean => j.clean

LEMMA ThenGoes ==
  ASSUME NEW a, NEW j \in Job, Then(a, j)
  PROVE  Goes(a, j)
<1>1. NoJob.clean = FALSE
  BY DEF NoJob
<1>2. CASE Continue(a, "save", Saving(j))
  BY <1>2, SavingType DEF Pc, Goes
<1>3. CASE Continue(a, "after", Resting(j))
  BY <1>3, RestingType DEF Pc, Goes
<1>4. CASE j.op # "delayed" /\ Continue(a, "idle", NoJob)
  BY <1>1, <1>4, NoJobType DEF Pc, Goes
<1> QED
  BY <1>2, <1>3, <1>4, ThenForm

LEMMA EndGoes ==
  ASSUME NEW a, NEW j \in Job, End(a, j) \/ EndFailed(a, j)
  PROVE  Goes(a, j)
<1>1. NoJob.clean = FALSE
  BY DEF NoJob
<1>2. CASE Continue(a, "after", Resting(j))
  BY <1>2, RestingType DEF Pc, Goes
<1>3. CASE j.op # "delayed" /\ Continue(a, "idle", NoJob)
  BY <1>1, <1>3, NoJobType DEF Pc, Goes
<1> QED
  BY <1>2, <1>3, EndForm, EndFailedForm

LEMMA ReadGoes ==
  ASSUME TypeOK, NEW a, NEW j \in Job, Read(a, j)
  PROVE  Goes(a, j)
<1>1. CASE Kind(j) # "other" /\ j.snap # {} /\ Continue(a, "apply", Applying(j))
  BY <1>1, ApplyingType DEF Pc, Goes
<1> QED
  BY <1>1, ReadForm, ThenGoes, EndGoes

\* How the operations begin.
LEMMA SwitchForm ==
  ASSUME TypeOK, NEW c \in Caller, NEW m \in Asked, NEW n \in Monitor \cup {None}, SwitchMode(c, m, n)
  PROVE  /\ pc[c] = "idle" /\ crossed' = (crossed \/ Crosses(c)) /\ calls' \in 0 .. MaxCall
         /\ UNCHANGED <<display, prop, config, shown>>
         /\ \/ /\ One(conn) /\ SetDelay(m, prop, n) /\ Continue(c, "idle", NoJob) /\ failed' = failed
            \/ /\ ~One(conn) /\ delay' = delay
               /\ \E j \in Job : /\ Read(c, j)
                                 /\ j.op = "switch" /\ j.mode = m /\ j.old = prop /\ j.name = n /\ j.snap = conn
                                 /\ n # None => m = "only"
                                 /\ j.clean => ~Crosses(c)
<1> DEFINE k == [NoJob EXCEPT !.op = "switch", !.mode = m, !.old = prop, !.name = n, !.snap = conn]
           j == Clean(c, k)
<1>1. k \in Job
  BY NoJobType, ConstantsAssumption DEF NoJob, Job, Op, Modes, TypeOK
<1>2. j \in Job /\ j.op = "switch" /\ j.mode = m /\ j.old = prop /\ j.name = n /\ j.snap = conn
  BY <1>1 DEF Clean, Job, NoJob
<1>3. j.clean => ~Crosses(c)
  BY <1>1 DEF Clean, Job
<1>4. calls' \in 0 .. MaxCall
  BY ConstantsAssumption DEF SwitchMode, Called, TypeOK
<1>5. m # "only" => n = None
  BY DEF SwitchMode
<1> HIDE DEF k, j
<1>6. ~One(conn) => Read(c, j) /\ delay' = delay
  BY DEF SwitchMode, j, k
<1> QED
  BY <1>2, <1>3, <1>4, <1>5, <1>6 DEF SwitchMode, Called

LEMMA PrimaryForm ==
  ASSUME TypeOK, NEW c \in Caller, NEW n \in Monitor, SetPrimary(c, n)
  PROVE  /\ pc[c] = "idle" /\ crossed' = (crossed \/ Crosses(c)) /\ calls' \in 0 .. MaxCall
         /\ UNCHANGED <<display, prop, config, delay, shown>>
<1>1. calls' \in 0 .. MaxCall
  BY ConstantsAssumption DEF SetPrimary, Called, TypeOK
<1> QED
  BY <1>1 DEF SetPrimary, Called

LEMMA PrimaryOnly ==
  ASSUME TypeOK, NEW c \in Caller, NEW n \in Monitor, SetPrimary(c, n), prop = "only"
  PROVE  \E j \in Job : /\ Read(c, j)
                        /\ j.op = "only" /\ j.mode = "only" /\ j.name = n /\ j.snap = conn
                        /\ j.clean => ~Crosses(c)
<1> DEFINE k == [NoJob EXCEPT !.op = "only", !.mode = "only", !.name = n, !.snap = conn]
           j == Clean(c, k)
<1>1. k \in Job
  BY NoJobType DEF NoJob, Job, Op, Modes, TypeOK
<1>2. j \in Job /\ j.op = "only" /\ j.mode = "only" /\ j.name = n /\ j.snap = conn
  BY <1>1 DEF Clean, Job, NoJob
<1>3. j.clean => ~Crosses(c)
  BY <1>1 DEF Clean, Job
<1> HIDE DEF k, j
<1>4. Read(c, j)
  BY DEF SetPrimary, j, k
<1> QED
  BY <1>2, <1>3, <1>4

LEMMA PrimaryExtend ==
  ASSUME TypeOK, NEW c \in Caller, NEW n \in Monitor, SetPrimary(c, n), prop # "only"
  PROVE  /\ prop = "extend" /\ n \in conn /\ failed' = failed
         /\ \E j \in Job : /\ Continue(c, "publish", j)
                           /\ j.op = "primary" /\ j.mode = "extend" /\ j.snap = conn
                           /\ j.screen = screens[conn] /\ j.primary = n
                           /\ j.build /\ ~j.clean
<1> DEFINE j == [NoJob EXCEPT !.op = "primary", !.mode = "extend", !.snap = conn,
                              !.screen = screens[conn], !.primary = n, !.build = TRUE]
<1>1. screens[conn] \in ScreenCfg
  BY DEF TypeOK
<1>2. /\ j \in Job /\ j.op = "primary" /\ j.mode = "extend" /\ j.snap = conn
      /\ j.screen = screens[conn] /\ j.primary = n /\ j.build /\ ~j.clean
  BY <1>1, NoJobType DEF NoJob, Job, Op, Modes, TypeOK
<1> HIDE DEF j
<1>3. prop = "extend" /\ n \in conn /\ failed' = failed /\ Continue(c, "publish", j)
  BY DEF SetPrimary, j
<1> QED
  BY <1>2, <1>3

LEMMA UpdateForm ==
  ASSUME TypeOK, NEW c \in Caller, NEW m \in Asked, Update(c, m)
  PROVE  /\ pc[c] = "idle" /\ crossed' = (crossed \/ Crosses(c)) /\ calls' \in 0 .. MaxCall
         /\ UNCHANGED <<display, prop, screens, delay, shown>>
         /\ stored' = m /\ m # "other" /\ m \in Modes
         /\ \E j \in Job : /\ Read(c, j)
                           /\ j.op = "update" /\ j.mode = m /\ j.name = None /\ j.snap = conn
                           /\ j.clean = FALSE
<1> DEFINE j == [NoJob EXCEPT !.op = "update", !.mode = m, !.snap = conn]
<1>1. calls' \in 0 .. MaxCall
  BY ConstantsAssumption DEF Update, Called, TypeOK
<1>2. j \in Job /\ j.op = "update" /\ j.mode = m /\ j.name = None /\ j.snap = conn /\ j.clean = FALSE
  BY NoJobType, ConstantsAssumption DEF NoJob, Job, Op, Modes, TypeOK, None
<1>3. m \in Modes
  BY ConstantsAssumption DEF Modes
<1> HIDE DEF j
<1>4. Read(c, j)
  BY DEF Update, j
<1> QED
  BY <1>1, <1>2, <1>3, <1>4 DEF Update, Called

LEMMA TimerForm ==
  ASSUME TypeOK, NEW t \in Timer, TimerFire(t)
  PROVE  /\ armed /\ pc[t] = "idle" /\ crossed' = (crossed \/ Crosses(t))
         /\ armed' = FALSE /\ burst' = FALSE
         /\ UNCHANGED <<conn, plugs, ids, prop, config, delay, shown, calls>>
         /\ \/ /\ Pending /\ Many(conn)
               /\ \E d \in delay, j \in Job :
                    /\ Read(t, j)
                    /\ j.op = "delayed" /\ j.mode = d.mode /\ j.old = d.old /\ j.snap = conn
                    /\ j.name # None => j.mode = "only"
                    /\ j.clean => ~Crosses(t)
            \/ /\ failed' = failed
               /\ \E j \in Job : Continue(t, "mode", j) /\ j.op = "config" /\ j.clean = FALSE
<1>1. CASE Pending /\ Many(conn)
  <2>1. PICK d \in delay :
           Read(t, Clean(t, [NoJob EXCEPT !.op = "delayed", !.mode = d.mode, !.old = d.old,
                                          !.name = IF d.mode = "only" THEN d.name ELSE None, !.snap = conn]))
    BY <1>1 DEF TimerFire
  <2> DEFINE k == [NoJob EXCEPT !.op = "delayed", !.mode = d.mode, !.old = d.old,
                                !.name = IF d.mode = "only" THEN d.name ELSE None, !.snap = conn]
             j == Clean(t, k)
  <2>2. d \in Delay
    BY DEF TypeOK
  <2>3. k \in Job
    <3>1. d.mode \in Modes /\ d.old \in Modes /\ d.name \in Monitor \cup {None}
      BY <2>2 DEF Delay
    <3>2. "delayed" \in Op /\ conn \in SUBSET Monitor /\ None \in Monitor \cup {None}
      BY DEF Op, TypeOK
    <3> QED
      BY <3>1, <3>2, NoJobType DEF Job
  <2>4. /\ j \in Job /\ j.op = "delayed" /\ j.mode = d.mode /\ j.old = d.old /\ j.snap = conn
        /\ j.name # None => j.mode = "only"
    <3>1. k.name # None => k.mode = "only"
      BY DEF NoJob
    <3>2. k.op = "delayed" /\ k.mode = d.mode /\ k.old = d.old /\ k.snap = conn
      BY DEF NoJob
    <3> HIDE DEF k
    <3>3. /\ j \in Job /\ j.op = k.op /\ j.mode = k.mode /\ j.old = k.old /\ j.snap = k.snap
          /\ j.name = k.name
      BY <2>3 DEF Clean, Job
    <3> QED
      BY <3>1, <3>2, <3>3
  <2>5. j.clean => ~Crosses(t)
    BY <2>3 DEF Clean, Job
  <2> HIDE DEF k, j
  <2>6. Read(t, j)
    BY <2>1 DEF j, k
  <2> QED
    BY <1>1, <2>4, <2>5, <2>6 DEF TimerFire
<1>2. CASE ~(Pending /\ Many(conn))
  <2> DEFINE j == [NoJob EXCEPT !.op = "config"]
  <2>1. j \in Job /\ j.op = "config" /\ j.clean = FALSE
    BY NoJobType DEF NoJob, Job, Op
  <2> HIDE DEF j
  <2>2. Continue(t, "mode", j) /\ failed' = failed
    BY <1>2 DEF TimerFire, j
  <2> QED
    BY <2>1, <2>2 DEF TimerFire
<1> QED
  BY <1>1, <1>2

LEMMA ApplyConfigForm ==
  ASSUME TypeOK, NEW a \in Actor, ApplyConfig(a)
  PROVE  /\ pc[a] = "mode" /\ (crossed => crossed')
         /\ UNCHANGED <<display, prop, config, delay, shown, calls>>
         /\ \E j \in Job :
              /\ Read(a, j)
              /\ j.old = prop /\ j.name = None /\ j.snap = conn /\ j.clean = FALSE
              /\ \/ j.op = "config" /\ j.mode = prop
                 \/ /\ j.op = "auto" /\ j.mode = "mirror" /\ prop = "only" /\ Many(conn)
                    /\ Pending => crossed'
<1> DEFINE auto == prop = "only" /\ Cardinality(conn) >= 3
           j == [NoJob EXCEPT !.op = IF auto THEN "auto" ELSE "config",
                              !.mode = IF auto THEN "mirror" ELSE prop, !.old = prop, !.snap = conn]
<1>1. j \in Job /\ j.old = prop /\ j.name = None /\ j.snap = conn /\ j.clean = FALSE
  BY NoJobType DEF NoJob, Job, Op, Modes, TypeOK, None
<1>2. \/ ~auto /\ j.op = "config" /\ j.mode = prop
      \/ auto /\ j.op = "auto" /\ j.mode = "mirror"
  BY DEF NoJob
<1>3. auto => Many(conn)
  <2>1. IsFiniteSet(conn)
    BY ConstantsAssumption, FS_Subset DEF TypeOK
  <2>2. Cardinality(conn) \in Nat
    BY <2>1, FS_CardinalityType
  <2> QED
    BY <2>2 DEF Many
<1> HIDE DEF j
<1>4. Read(a, j) /\ crossed' = (crossed \/ (auto /\ Pending))
  BY DEF ApplyConfig, j
<1> QED
  BY <1>1, <1>2, <1>3, <1>4 DEF ApplyConfig

\* What the others do is the same afterwards, but that it may be no longer clean.
LEMMA OtherJobs ==
  ASSUME TypeOK, NEW a \in Actor, NEW where, NEW j, Continue(a, where, j), NEW b \in Actor \ {a}
  PROVE  /\ pc'[b] = pc[b]
         /\ job'[b].op = job[b].op /\ job'[b].mode = job[b].mode /\ job'[b].old = job[b].old
         /\ job'[b].snap = job[b].snap /\ job'[b].screen = job[b].screen
         /\ job'[b].primary = job[b].primary /\ job'[b].build = job[b].build
         /\ job'[b].clean => job[b].clean /\ Active(a)
         /\ Kind(job[b])' = Kind(job[b])
<1>1. /\ pc'[b] = pc[b]
      /\ \/ job'[b] = job[b] /\ Active(a)
         \/ job'[b] = [job[b] EXCEPT !.clean = FALSE]
  BY ContinueFrame
<1>2. job[b] \in Job
  BY DEF TypeOK
<1>3. /\ job'[b].op = job[b].op /\ job'[b].mode = job[b].mode /\ job'[b].old = job[b].old
      /\ job'[b].snap = job[b].snap /\ job'[b].screen = job[b].screen
      /\ job'[b].primary = job[b].primary /\ job'[b].build = job[b].build
  BY <1>1, <1>2 DEF Job
<1>4. job'[b].clean => job[b].clean /\ Active(a)
  BY <1>1, <1>2 DEF Job
<1> QED
  BY <1>1, <1>3, <1>4 DEF Kind

-----------------------------------------------------------------------------
(* Type correctness.  The monitors that are shown are monitors because the *)
(* primary monitor of a configuration is always one of its set.            *)

OneDelay == delay = {} \/ \E d \in Delay : delay = {d}

\* The values of a configuration of the monitors S.
Fits(c, S) == \A k \in DOMAIN NoScreen : c[k] \in S \cup {None}

ScreensFit == \A S \in SUBSET Monitor : Fits(screens[S], S)

Applied(a) == pc[a] \in {"apply", "publish", "screen"}

JobFits(j) == Kind(j) # "other" /\ j.snap # {} /\ j.primary \in j.snap /\ Fits(j.screen, j.snap)

TypeInv ==
    /\ TypeOK
    /\ OneDelay
    /\ ScreensFit
    /\ \A a \in Actor : Applied(a) => JobFits(job[a])

\* A monitor is named for "only" alone.
Named(j) == j.name # None => Kind(j) = "only"

\* The primary monitor that is read or chosen is one of the connected ones.
LEMMA PrimaryIn ==
  ASSUME TypeOK, ScreensFit, NEW j \in Job, j.snap # {}, Kind(j) # "other", ~BadName(j), Named(j)
  PROVE  /\ Primary(j) \in j.snap
         /\ Configured(j) # None => screens[j.snap][Kind(j)] = Primary(j)
<1>1. j.snap \in SUBSET Monitor /\ None \notin Monitor
  BY ConstantsAssumption DEF Job, None
<1>2. Kind(j) \in DOMAIN NoScreen
  BY KindIn DEF NoScreen, Modes
<1>3. screens[j.snap][Kind(j)] \in j.snap \cup {None}
  BY <1>1, <1>2 DEF ScreensFit, Fits
<1>4. CASE Configured(j) # None
  BY <1>3, <1>4 DEF Configured, Primary
<1>5. CASE Configured(j) = None /\ j.name # None
  <2>1. j.name \in j.snap
    BY <1>5 DEF BadName, Named
  <2> QED
    BY <1>5, <2>1 DEF Primary
<1>6. CASE Configured(j) = None /\ j.name = None
  BY <1>1, <1>6, DefaultIn DEF Primary
<1> QED
  BY <1>4, <1>5, <1>6

LEMMA ApplyingFits ==
  ASSUME TypeOK, ScreensFit, NEW j \in Job, j.snap # {}, Kind(j) # "other", ~BadName(j), Named(j)
  PROVE  JobFits(Applying(j))
<1>1. Primary(j) \in j.snap /\ Fits(screens[j.snap], j.snap)
  BY PrimaryIn DEF ScreensFit, Job
<1> QED
  BY <1>1, ApplyingType DEF JobFits

\* A goroutine goes on with a job that fits.
LEMMA ContinueFits ==
  ASSUME TypeInv, NEW a \in Actor, NEW where \in Pc, NEW j \in Job, Continue(a, where, j),
         where \in {"apply", "publish", "screen"} => JobFits(j)
  PROVE  \A b \in Actor : Applied(b)' => JobFits(job'[b])
<1> SUFFICES ASSUME NEW b \in Actor, Applied(b)' PROVE JobFits(job'[b])
  OBVIOUS
<1>1. CASE b = a
  BY <1>1, ContinueFrame DEF Applied, TypeInv
<1>2. CASE b # a
  <2>1. Applied(b) /\ JobFits(job[b])
    BY <1>2, OtherJobs DEF Applied, TypeInv
  <2>2. /\ job'[b].snap = job[b].snap /\ job'[b].screen = job[b].screen
        /\ job'[b].primary = job[b].primary /\ Kind(job'[b]) = Kind(job[b])
    BY <1>2, OtherJobs DEF TypeInv, Kind
  <2> QED
    BY <2>1, <2>2 DEF JobFits
<1> QED
  BY <1>1, <1>2

\* The same for what ends an application, ...
LEMMA EndFits ==
  ASSUME TypeInv, NEW a \in Actor, NEW j \in Job, Then(a, j) \/ End(a, j) \/ EndFailed(a, j)
  PROVE  /\ pc' \in [Actor -> Pc] /\ job' \in [Actor -> Job]
         /\ \A b \in Actor : Applied(b)' => JobFits(job'[b])
<1>1. PICK where \in Pc \ {"apply", "publish", "screen"}, k \in Job : Continue(a, where, k)
  BY EndForm, EndFailedForm, ThenForm, SavingType, RestingType, NoJobType DEF Pc
<1> QED
  BY <1>1, ContinueType, ContinueFits DEF TypeInv

\* ... and for all that Read may go on with.
LEMMA ReadFits ==
  ASSUME TypeInv, NEW a \in Actor, NEW j \in Job, Named(j), Read(a, j)
  PROVE  /\ pc' \in [Actor -> Pc] /\ job' \in [Actor -> Job]
         /\ \A b \in Actor : Applied(b)' => JobFits(job'[b])
<1>1. CASE Kind(j) # "other" /\ j.snap # {} /\ ~BadName(j) /\ Continue(a, "apply", Applying(j))
  <2>1. Applying(j) \in Job /\ JobFits(Applying(j))
    BY <1>1, ApplyingType, ApplyingFits DEF TypeInv
  <2> QED
    BY <1>1, <2>1, ContinueType, ContinueFits DEF TypeInv, Pc
<1> QED
  BY <1>1, ReadForm, EndFits

LEMMA ShownType ==
  ASSUME TypeInv, NEW a \in Actor, Applied(a)
  PROVE  /\ [shown EXCEPT !.mode = Kind(job[a]),
                          !.on = IF Kind(job[a]) = "only" THEN {job[a].primary} ELSE job[a].snap] \in Shown
         /\ [shown EXCEPT !.primary = job[a].primary] \in Shown
<1>1. /\ job[a] \in Job /\ job[a].primary \in job[a].snap /\ job[a].snap \in SUBSET Monitor
      /\ Kind(job[a]) \in Modes \cup {"single"}
  BY KindIn DEF TypeInv, TypeOK, JobFits, Job
<1>2. shown \in Shown
  BY DEF TypeInv, TypeOK
<1>3. (IF Kind(job[a]) = "only" THEN {job[a].primary} ELSE job[a].snap) \in SUBSET Monitor
  BY <1>1
<1> QED
  BY <1>1, <1>2, <1>3 DEF Shown

LEMMA DelayType ==
  ASSUME TypeInv, NEW mode \in Modes, NEW old \in Modes, NEW name \in Monitor \cup {None},
         SetDelay(mode, old, name)
  PROVE  delay' \subseteq Delay /\ (delay' = {} \/ \E d \in Delay : delay' = {d})
<1>1. [mode |-> mode, old |-> old, name |-> name, fresh |-> TRUE] \in Delay
  BY DEF Delay
<1> QED
  BY <1>1 DEF SetDelay, TypeInv, TypeOK, OneDelay

\* A switch that is put off is one.
LEMMA DelayCount ==
  ASSUME NEW S, S = {} \/ \E d \in Delay : S = {d}
  PROVE  S \subseteq Delay /\ Cardinality(S) <= 1
<1>1. CASE S = {}
  BY <1>1, FS_EmptySet
<1>2. ASSUME NEW d \in Delay, S = {d} PROVE S \subseteq Delay /\ Cardinality(S) <= 1
  BY <1>2, FS_Singleton
<1> QED
  BY <1>1, <1>2

LEMMA ScreenType ==
  ASSUME TypeInv, NEW a \in Actor, Applied(a),
         screens' = [screens EXCEPT ![job[a].snap] = [job[a].screen EXCEPT ![Kind(job[a])] = job[a].primary]]
  PROVE  /\ screens' \in [SUBSET Monitor -> ScreenCfg]
         /\ \A S \in SUBSET Monitor : Fits(screens'[S], S)
<1> DEFINE j == job[a]
           c == [j.screen EXCEPT ![Kind(j)] = j.primary]
<1>1. /\ j \in Job /\ j.primary \in j.snap /\ j.snap \in SUBSET Monitor /\ Fits(j.screen, j.snap)
      /\ j.screen \in ScreenCfg
  BY DEF TypeInv, TypeOK, JobFits, Job
<1>2. c \in ScreenCfg
  BY <1>1 DEF ScreenCfg
<1>3. Fits(c, j.snap)
  BY <1>1 DEF Fits, NoScreen, ScreenCfg
<1> HIDE DEF c
<1>4. screens' = [screens EXCEPT ![j.snap] = c] /\ screens \in [SUBSET Monitor -> ScreenCfg]
  BY DEF c, TypeInv, TypeOK
<1> QED
  BY <1>1, <1>2, <1>3, <1>4 DEF TypeInv, ScreensFit

\* TypeInv of a step, from its parts.
LEMMA TypeParts ==
  ASSUME pc' \in [Actor -> Pc], job' \in [Actor -> Job],
         \A b \in Actor : Applied(b)' => JobFits(job'[b]),
         conn' \subseteq Monitor, plugs' \in 0 .. MaxPlug, ids' \subseteq Monitor, calls' \in 0 .. MaxCall,
         burst' \in BOOLEAN, armed' \in BOOLEAN, crossed' \in BOOLEAN,
         prop' \in Modes, stored' \in Modes, shown' \in Shown,
         failed' \subseteq {"apply", "update", "other"},
         screens' \in [SUBSET Monitor -> ScreenCfg],
         \A S \in SUBSET Monitor : Fits(screens'[S], S),
         delay' = {} \/ \E d \in Delay : delay' = {d}
  PROVE  TypeInv'
<1>1. delay' \subseteq Delay /\ Cardinality(delay') <= 1
  BY DelayCount
<1> QED
  BY <1>1 DEF TypeInv, TypeOK, OneDelay, ScreensFit, JobFits, Fits, Kind, Pc, Applied

\* TypeInv of what a step leaves alone.
LEMMA TypeFrame ==
  ASSUME TypeInv
  PROVE  /\ UNCHANGED display =>
              /\ conn' \subseteq Monitor /\ plugs' \in 0 .. MaxPlug /\ ids' \subseteq Monitor
              /\ burst' \in BOOLEAN /\ armed' \in BOOLEAN
         /\ UNCHANGED prop => prop' \in Modes
         /\ UNCHANGED stored => stored' \in Modes
         /\ UNCHANGED shown => shown' \in Shown
         /\ UNCHANGED calls => calls' \in 0 .. MaxCall
         /\ UNCHANGED crossed => crossed' \in BOOLEAN
         /\ UNCHANGED failed => failed' \subseteq {"apply", "update", "other"}
         /\ UNCHANGED screens => /\ screens' \in [SUBSET Monitor -> ScreenCfg]
                                 /\ \A S \in SUBSET Monitor : Fits(screens'[S], S)
         /\ UNCHANGED delay => delay' = {} \/ \E d \in Delay : delay' = {d}
         /\ UNCHANGED goro => /\ pc' \in [Actor -> Pc] /\ job' \in [Actor -> Job]
                              /\ \A b \in Actor : Applied(b)' => JobFits(job'[b])
<1>1. UNCHANGED goro => \A b \in Actor : Applied(b)' => JobFits(job'[b])
  BY DEF goro, Applied, TypeInv
<1> QED
  BY <1>1 DEF TypeInv, TypeOK, OneDelay, ScreensFit, display, goro, Pc

\* Only known kinds of failures are noted.
LEMMA FailedType ==
  ASSUME TypeInv, NEW a, NEW j, Read(a, j) \/ EndFailed(a, j) \/ failed' = failed
  PROVE  failed' \subseteq {"apply", "update", "other"}
BY ReadForm, EndFailedForm DEF Class, TypeInv, TypeOK

LEMMA BoolType ==
  ASSUME TypeInv, NEW a
  PROVE  (crossed \/ Crosses(a)) \in BOOLEAN
BY DEF Crosses, Busy, Pending, TypeInv, TypeOK

LEMMA TypeInit ==
  ASSUME Init
  PROVE  TypeInv
<1>1. NoScreen \in ScreenCfg /\ NoJob \in Job /\ \A S : Fits(NoScreen, S)
  BY NoJobType DEF NoScreen, Fits
<1>2. conn \subseteq Monitor /\ ids \subseteq Monitor
  BY ConstantsAssumption DEF Init
<1>3. pc \in [Actor -> {"idle", "mode"}]
  BY DEF Init
<1>4. pc \in [Actor -> Pc] /\ \A a \in Actor : ~Applied(a)
  BY <1>3 DEF Pc, Applied
<1>5. shown \in Shown
  BY DEF Init, Shown, None
<1>6. screens \in [SUBSET Monitor -> ScreenCfg] /\ ScreensFit
  BY <1>1 DEF Init, ScreensFit
<1>7. delay \subseteq Delay /\ Cardinality(delay) <= 1 /\ OneDelay
  BY DelayCount DEF Init, OneDelay
<1>8. plugs \in 0 .. MaxPlug /\ calls \in 0 .. MaxCall
  BY ConstantsAssumption DEF Init
<1>9. stored \in Modes /\ prop \in Modes /\ failed \subseteq {"apply", "update", "other"}
      /\ burst \in BOOLEAN /\ armed \in BOOLEAN /\ crossed \in BOOLEAN
  BY DEF Init
<1>10. job \in [Actor -> Job]
  BY <1>1 DEF Init
<1> QED
  BY <1>2, <1>4, <1>5, <1>6, <1>7, <1>8, <1>9, <1>10 DEF TypeInv, TypeOK, Pc

LEMMA SwitchStep ==
  ASSUME TypeInv, NEW c \in Caller, NEW m \in Asked, NEW n \in Monitor \cup {None}, SwitchMode(c, m, n)
  PROVE  TypeInv'
<1>1. /\ crossed' = (crossed \/ Crosses(c)) /\ calls' \in 0 .. MaxCall
      /\ UNCHANGED <<display, prop, config, shown>>
  BY SwitchForm DEF TypeInv
<1>2. c \in Actor /\ m \in Modes /\ prop \in Modes
  BY ConstantsAssumption DEF Actor, Modes, TypeInv, TypeOK
<1>3. CASE SetDelay(m, prop, n) /\ Continue(c, "idle", NoJob) /\ failed' = failed
  <2>1. /\ pc' \in [Actor -> Pc] /\ job' \in [Actor -> Job]
        /\ \A b \in Actor : Applied(b)' => JobFits(job'[b])
    BY <1>2, <1>3, NoJobType, ContinueType, ContinueFits DEF Pc, TypeInv
  <2>2. delay' = {} \/ \E d \in Delay : delay' = {d}
    BY <1>2, <1>3, DelayType
  <2> QED
    BY <1>1, <1>3, <2>1, <2>2, TypeFrame, TypeParts, FailedType, BoolType DEF config
<1>4. ASSUME NEW j \in Job, Read(c, j), Named(j), delay' = delay
      PROVE  TypeInv'
  BY <1>1, <1>2, <1>4, ReadFits, TypeFrame, TypeParts, FailedType, BoolType DEF config
<1>5. ASSUME NEW j \in Job, j.mode = m, j.name = n, j.snap = conn, ~One(conn), n # None => m = "only"
      PROVE  Named(j)
  BY <1>5 DEF Named, Kind
<1> QED
  BY <1>3, <1>4, <1>5, SwitchForm DEF TypeInv

LEMMA PrimaryStep ==
  ASSUME TypeInv, NEW c \in Caller, NEW n \in Monitor, SetPrimary(c, n)
  PROVE  TypeInv'
<1>1. /\ crossed' = (crossed \/ Crosses(c)) /\ calls' \in 0 .. MaxCall
      /\ UNCHANGED <<display, prop, config, delay, shown>>
  BY PrimaryForm DEF TypeInv
<1>0. TypeOK
  BY DEF TypeInv
<1>2. c \in Actor /\ conn \subseteq Monitor
  BY DEF Actor, TypeInv, TypeOK
<1>3. CASE prop = "only"
  <2>1. PICK j \in Job : Read(c, j) /\ j.op = "only" /\ j.mode = "only"
    BY <1>0, <1>3, PrimaryOnly
  <2>2. Named(j)
    BY <2>1 DEF Named, Kind
  <2> QED
    BY <1>1, <1>2, <2>1, <2>2, ReadFits, TypeFrame, TypeParts, FailedType, BoolType DEF config
<1>4. CASE prop # "only"
  <2>1. n \in conn /\ failed' = failed
    BY <1>0, <1>4, PrimaryExtend
  <2>2. PICK j \in Job : /\ Continue(c, "publish", j)
                         /\ j.op = "primary" /\ j.mode = "extend" /\ j.snap = conn
                         /\ j.screen = screens[conn] /\ j.primary = n
    BY <1>0, <1>4, PrimaryExtend
  <2>3. Kind(j) = "extend" /\ j.snap # {} /\ j.primary \in j.snap
    BY <2>1, <2>2 DEF Kind
  <2>4. Fits(j.screen, j.snap)
    BY <1>2, <2>2 DEF TypeInv, ScreensFit
  <2>5. JobFits(j)
    BY <2>3, <2>4 DEF JobFits
  <2>6. /\ pc' \in [Actor -> Pc] /\ job' \in [Actor -> Job]
        /\ \A b \in Actor : Applied(b)' => JobFits(job'[b])
    BY <1>0, <1>2, <2>2, <2>5, ContinueType, ContinueFits DEF Pc
  <2> QED
    BY <1>1, <2>1, <2>6, TypeFrame, TypeParts, FailedType, BoolType DEF config
<1> QED
  BY <1>3, <1>4

LEMMA UpdateStep ==
  ASSUME TypeInv, NEW c \in Caller, NEW m \in Asked, Update(c, m)
  PROVE  TypeInv'
<1>1. /\ crossed' = (crossed \/ Crosses(c)) /\ calls' \in 0 .. MaxCall
      /\ UNCHANGED <<display, prop, screens, delay, shown>>
      /\ stored' \in Modes
  BY UpdateForm DEF TypeInv
<1>2. c \in Actor
  BY DEF Actor
<1>3. PICK j \in Job : Read(c, j) /\ j.name = None
  BY UpdateForm DEF TypeInv
<1>4. Named(j)
  BY <1>3 DEF Named
<1> QED
  BY <1>1, <1>2, <1>3, <1>4, ReadFits, TypeFrame, TypeParts, FailedType, BoolType

LEMMA TimerStep ==
  ASSUME TypeInv, NEW t \in Timer, TimerFire(t)
  PROVE  TypeInv'
<1>1. /\ crossed' = (crossed \/ Crosses(t))
      /\ armed' \in BOOLEAN /\ burst' \in BOOLEAN
      /\ UNCHANGED <<conn, plugs, ids, prop, config, delay, shown, calls>>
  BY TimerForm DEF TypeInv
<1>2. t \in Actor /\ conn' \subseteq Monitor /\ plugs' \in 0 .. MaxPlug /\ ids' \subseteq Monitor
  BY <1>1 DEF Actor, TypeInv, TypeOK
<1>3. ASSUME NEW j \in Job, Read(t, j), Named(j)
      PROVE  TypeInv'
  BY <1>1, <1>2, <1>3, ReadFits, TypeFrame, TypeParts, FailedType, BoolType DEF config
<1>4. ASSUME NEW j \in Job, Continue(t, "mode", j), failed' = failed
      PROVE  TypeInv'
  <2>1. /\ pc' \in [Actor -> Pc] /\ job' \in [Actor -> Job]
        /\ \A b \in Actor : Applied(b)' => JobFits(job'[b])
    BY <1>2, <1>4, ContinueType, ContinueFits DEF Pc, TypeInv
  <2> QED
    BY <1>1, <1>2, <1>4, <2>1, TypeFrame, TypeParts, FailedType, BoolType DEF config
<1>5. ASSUME NEW j \in Job, Many(conn), j.snap = conn, j.name # None => j.mode = "only"
      PROVE  Named(j)
  BY <1>5 DEF Named, Kind, Many, One
<1> QED
  BY <1>3, <1>4, <1>5, TimerForm DEF TypeInv

LEMMA ApplyConfigStep ==
  ASSUME TypeInv, NEW a \in Actor, ApplyConfig(a)
  PROVE  TypeInv'
<1>1. UNCHANGED <<display, prop, config, delay, shown, calls>> /\ crossed' \in BOOLEAN
  BY ApplyConfigForm DEF TypeInv, ApplyConfig, TypeOK, Pending
<1>2. PICK j \in Job : Read(a, j) /\ j.name = None
  BY ApplyConfigForm DEF TypeInv
<1>3. Named(j)
  BY <1>2 DEF Named
<1> QED
  BY <1>1, <1>2, <1>3, ReadFits, TypeFrame, TypeParts, FailedType DEF config

LEMMA ApplyStep ==
  ASSUME TypeInv, NEW a \in Actor, Apply(a) \/ ApplyFails(a)
  PROVE  TypeInv'
<1>1. /\ pc[a] = "apply" /\ Applied(a)
      /\ UNCHANGED <<display, prop, config, calls, crossed>>
  BY DEF Apply, ApplyFails, At, Applied, history
<1>2. job[a] \in Job /\ JobFits(job[a])
  BY <1>1 DEF TypeInv, TypeOK
<1>3. shown' \in Shown
  <2>1. CASE Apply(a)
    BY <1>1, <2>1, ShownType DEF Apply
  <2>2. CASE ApplyFails(a)
    BY <2>2 DEF ApplyFails, TypeInv, TypeOK, Shown
  <2> QED
    BY <2>1, <2>2
<1>4. /\ pc' \in [Actor -> Pc] /\ job' \in [Actor -> Job]
      /\ \A b \in Actor : Applied(b)' => JobFits(job'[b])
  <2>1. CASE Apply(a)
    BY <1>2, <2>1, ContinueType, ContinueFits DEF Apply, Pc, TypeInv
  <2>2. CASE ApplyFails(a)
    BY <1>2, <2>2, EndFits DEF ApplyFails
  <2> QED
    BY <2>1, <2>2
<1>5. failed' \subseteq {"apply", "update", "other"}
  BY FailedType DEF Apply, ApplyFails, history
<1>6. delay' = {} \/ \E d \in Delay : delay' = {d}
  <2>1. job[a].mode \in Modes /\ job[a].old \in Modes /\ job[a].name \in Monitor \cup {None}
    BY <1>2 DEF Job
  <2>2. delay' = delay \/ SetDelay(job[a].mode, job[a].old, job[a].name)
    BY DEF Apply, ApplyFails
  <2> QED
    BY <2>1, <2>2, DelayType DEF TypeInv, OneDelay
<1> QED
  BY <1>1, <1>3, <1>4, <1>5, <1>6, TypeFrame, TypeParts DEF config

LEMMA PublishStep ==
  ASSUME TypeInv, NEW a \in Actor, Publish(a) \/ RefusePrimary(a)
  PROVE  TypeInv'
<1>1. /\ pc[a] = "publish" /\ Applied(a)
      /\ UNCHANGED <<display, config, delay, calls, crossed>>
  BY DEF Publish, RefusePrimary, At, Applied
<1>2. job[a] \in Job /\ JobFits(job[a])
  BY <1>1 DEF TypeInv, TypeOK
<1>3. CASE RefusePrimary(a)
  <2>1. EndFailed(a, job[a]) /\ UNCHANGED <<prop, shown>>
    BY <1>3 DEF RefusePrimary
  <2>2. /\ pc' \in [Actor -> Pc] /\ job' \in [Actor -> Job]
        /\ \A b \in Actor : Applied(b)' => JobFits(job'[b])
    BY <1>2, <2>1, EndFits
  <2> QED
    BY <1>1, <2>1, <2>2, TypeFrame, TypeParts, FailedType DEF config
<1>4. CASE Publish(a)
  <2> DEFINE k == [job[a] EXCEPT !.clean = @ /\ shown'.primary = job[a].primary]
  <2>1. k \in Job /\ JobFits(k)
    BY <1>2 DEF JobFits, Job, Kind
  <2> HIDE DEF k
  <2>2. Continue(a, "screen", k) \/ Then(a, k)
    BY <1>4 DEF Publish, k
  <2>3. /\ pc' \in [Actor -> Pc] /\ job' \in [Actor -> Job]
        /\ \A b \in Actor : Applied(b)' => JobFits(job'[b])
    BY <2>1, <2>2, EndFits, ContinueType, ContinueFits DEF TypeInv, Pc
  <2>4. prop' \in Modes
    BY <1>2, <1>4 DEF Publish, Job, TypeInv, TypeOK
  <2>5. shown' \in Shown /\ failed' \subseteq {"apply", "update", "other"}
    BY <1>1, <1>4, ShownType DEF Publish, Class, TypeInv, TypeOK
  <2> QED
    BY <1>1, <2>3, <2>4, <2>5, TypeFrame, TypeParts DEF config
<1> QED
  BY <1>3, <1>4

LEMMA ScreenStep ==
  ASSUME TypeInv, NEW a \in Actor, SaveScreen(a)
  PROVE  TypeInv'
<1>1. /\ pc[a] = "screen" /\ Applied(a) /\ Then(a, job[a])
      /\ UNCHANGED <<display, prop, stored, delay, shown, calls, history>>
      /\ screens' = [screens EXCEPT ![job[a].snap] = [job[a].screen EXCEPT ![Kind(job[a])] = job[a].primary]]
  BY DEF SaveScreen, At, Applied
<1>2. job[a] \in Job
  BY DEF TypeInv, TypeOK
<1> QED
  BY <1>1, <1>2, EndFits, ScreenType, TypeFrame, TypeParts DEF history

LEMMA SaveStep ==
  ASSUME TypeInv, NEW a \in Actor, SaveMode(a)
  PROVE  TypeInv'
<1>1. /\ End(a, job[a]) /\ stored' = job[a].mode
      /\ UNCHANGED <<display, prop, screens, delay, shown, calls>>
  BY DEF SaveMode
<1>2. job[a] \in Job /\ stored' \in Modes
  BY <1>1 DEF TypeInv, TypeOK, Job
<1>3. crossed' \in BOOLEAN /\ failed' \subseteq {"apply", "update", "other"}
  BY DEF SaveMode, TypeInv, TypeOK
<1> QED
  BY <1>1, <1>2, <1>3, EndFits, TypeFrame, TypeParts

LEMMA FinishStep ==
  ASSUME TypeInv, NEW a \in Actor, Finish(a)
  PROVE  TypeInv'
<1>1. Continue(a, "idle", NoJob) /\ UNCHANGED <<display, config, shown, calls, history>>
  BY DEF Finish
<1>2. prop' \in Modes
  BY DEF Finish, TypeInv, TypeOK, Job
<1>3. delay' = {} \/ \E d \in Delay : delay' = {d}
  BY DEF Finish, TypeInv, OneDelay
<1>4. /\ pc' \in [Actor -> Pc] /\ job' \in [Actor -> Job]
      /\ \A b \in Actor : Applied(b)' => JobFits(job'[b])
  BY <1>1, NoJobType, ContinueType, ContinueFits DEF TypeInv, Pc
<1> QED
  BY <1>1, <1>2, <1>3, <1>4, TypeFrame, TypeParts DEF config, history

LEMMA WorldStep ==
  ASSUME TypeInv, (\E n \in Monitor : Plug(n)) \/ BurstEnds \/ DelayExpires \/ UNCHANGED vars
  PROVE  TypeInv'
<1>1. /\ UNCHANGED <<prop, config, shown, goro, calls, history>>
      /\ conn' \subseteq Monitor /\ plugs' \in 0 .. MaxPlug /\ ids' \subseteq Monitor
      /\ burst' \in BOOLEAN /\ armed' \in BOOLEAN
  <2>1. CASE \E n \in Monitor : Plug(n)
    <3>1. PICK n \in Monitor : Plug(n)
      BY <2>1
    <3>2. conn' \subseteq Monitor
      BY <3>1 DEF Plug, TypeInv, TypeOK
    <3>3. plugs' \in 0 .. MaxPlug
      BY <3>1, ConstantsAssumption DEF Plug, TypeInv, TypeOK
    <3>4. ids' \subseteq Monitor /\ armed' \in BOOLEAN
      BY <3>1, <3>2 DEF Plug, TypeInv, TypeOK
    <3>5. burst' \in BOOLEAN
      BY <3>1 DEF Plug, Many
    <3> QED
      BY <3>1, <3>2, <3>3, <3>4, <3>5 DEF Plug
  <2>2. CASE BurstEnds \/ DelayExpires \/ UNCHANGED vars
    BY <2>2 DEF BurstEnds, DelayExpires, vars, display, TypeInv, TypeOK
  <2> QED
    BY <2>1, <2>2
<1>2. delay' = {} \/ \E d \in Delay : delay' = {d}
  <2>1. CASE delay' = delay
    BY <2>1 DEF TypeInv, OneDelay
  <2>2. ASSUME NEW d \in delay, delay' = {[d EXCEPT !.fresh = FALSE]}
        PROVE  \E e \in Delay : delay' = {e}
    <3>1. d \in Delay
      BY DEF TypeInv, TypeOK
    <3>2. [d EXCEPT !.fresh = FALSE] \in Delay
      BY <3>1 DEF Delay
    <3> QED
      BY <2>2, <3>2
  <2> QED
    BY <2>1, <2>2 DEF Plug, BurstEnds, DelayExpires, vars
<1> QED
  BY <1>1, <1>2, TypeFrame, TypeParts DEF config, history

LEMMA TypeStep ==
  ASSUME TypeInv, [Next]_vars
  PROVE  TypeInv'
<1>1. ASSUME NEW a \in Actor, Step(a) PROVE TypeInv'
  BY <1>1, ApplyConfigStep, ApplyStep, PublishStep, ScreenStep, SaveStep, FinishStep DEF Step
<1>2. CASE Call
  BY <1>2, SwitchStep, PrimaryStep, UpdateStep DEF Call
<1> QED
  BY <1>1, <1>2, TimerStep, WorldStep DEF Next

\* Every state is well formed: the modes, the goroutines' local variables and the
\* delayed switch, of which there is at most one, are of their types; so are the
\* configurations stored for any set of monitors, and what the hardware shows.
THEOREM TypeCorrect == Spec => []TypeOK
<1>1. Init => TypeInv
  BY TypeInit
<1>2. TypeInv /\ [Next]_vars => TypeInv'
  BY TypeStep
<1>3. TypeInv => TypeOK
  BY DEF TypeInv
<1> QED
  BY <1>1, <1>2, <1>3, PTL DEF Spec

-----------------------------------------------------------------------------
(* Who runs alone.  "crossed" notes when two operations overlap and a      *)
(* switch is "clean" while nothing else runs.                              *)

\* What a goroutine does: it begins or goes on.
Acts(a) ==
    \/ a \in Caller /\ \E m \in Asked, n \in Monitor \cup {None} : SwitchMode(a, m, n)
    \/ a \in Caller /\ \E n \in Monitor : SetPrimary(a, n)
    \/ a \in Caller /\ \E m \in Asked : Update(a, m)
    \/ a \in Timer /\ TimerFire(a)
    \/ Step(a)

Worlds == (\E n \in Monitor : Plug(n)) \/ BurstEnds \/ DelayExpires \/ UNCHANGED vars

LEMMA NextForm ==
  ASSUME [Next]_vars
  PROVE  Worlds \/ \E a \in Actor : Acts(a)
BY DEF Next, Call, Acts, Worlds, Actor

\* It goes to a job that is clean only if it was before, or began without crossing;
\* only a clean switch that is saved makes good what overlapped.
Moves(a) ==
  \E where \in Pc, k \in Job :
    /\ Continue(a, where, k)
    /\ where = "idle" => k = NoJob
    /\ k.clean => IF Active(a) THEN job[a].clean ELSE ~Crosses(a)
    /\ ~Active(a) => crossed' = (crossed \/ Crosses(a))
    /\ crossed /\ ~crossed' => pc[a] = "save" /\ job[a].clean

LEMMA GoesMoves ==
  ASSUME NEW a, NEW j \in Job, Goes(a, j),
         j.clean => IF Active(a) THEN job[a].clean ELSE ~Crosses(a),
         ~Active(a) => crossed' = (crossed \/ Crosses(a)),
         crossed /\ ~crossed' => pc[a] = "save" /\ job[a].clean
  PROVE  Moves(a)
BY DEF Goes, Moves

LEMMA ActsMoves ==
  ASSUME TypeInv, NEW a \in Actor, Acts(a)
  PROVE  Moves(a)
<1>0. TypeOK /\ NoJob.clean = FALSE /\ job[a] \in Job
  BY DEF TypeInv, TypeOK, NoJob
<1>1. ASSUME a \in Caller, NEW m \in Asked, NEW n \in Monitor \cup {None}, SwitchMode(a, m, n)
      PROVE  Moves(a)
  <2>1. ~Active(a) /\ crossed' = (crossed \/ Crosses(a))
    BY <1>0, <1>1, SwitchForm DEF Active
  <2>2. CASE Continue(a, "idle", NoJob)
    BY <1>0, <2>1, <2>2, NoJobType DEF Moves, Pc
  <2>3. CASE \E j \in Job : Read(a, j) /\ (j.clean => ~Crosses(a))
    BY <1>0, <2>1, <2>3, ReadGoes, GoesMoves
  <2> QED
    BY <1>0, <1>1, <2>2, <2>3, SwitchForm
<1>2. ASSUME a \in Caller, NEW n \in Monitor, SetPrimary(a, n)
      PROVE  Moves(a)
  <2>1. ~Active(a) /\ crossed' = (crossed \/ Crosses(a))
    BY <1>0, <1>2, PrimaryForm DEF Active
  <2>2. CASE prop = "only"
    <3>1. PICK j \in Job : Read(a, j) /\ (j.clean => ~Crosses(a))
      BY <1>0, <1>2, <2>2, PrimaryOnly
    <3> QED
      BY <1>0, <2>1, <3>1, ReadGoes, GoesMoves
  <2>3. CASE prop # "only"
    <3>1. PICK j \in Job : Continue(a, "publish", j) /\ ~j.clean
      BY <1>0, <1>2, <2>3, PrimaryExtend
    <3> QED
      BY <2>1, <3>1 DEF Moves, Pc
  <2> QED
    BY <2>2, <2>3
<1>3. ASSUME a \in Caller, NEW m \in Asked, Update(a, m)
      PROVE  Moves(a)
  <2>1. ~Active(a) /\ crossed' = (crossed \/ Crosses(a))
    BY <1>0, <1>3, UpdateForm DEF Active
  <2>2. PICK j \in Job : Read(a, j) /\ j.clean = FALSE
    BY <1>0, <1>3, UpdateForm
  <2> QED
    BY <1>0, <2>1, <2>2, ReadGoes, GoesMoves
<1>4. ASSUME a \in Timer, TimerFire(a)
      PROVE  Moves(a)
  <2>1. ~Active(a) /\ crossed' = (crossed \/ Crosses(a))
    BY <1>0, <1>4, TimerForm DEF Active
  <2>2. CASE \E j \in Job : Continue(a, "mode", j) /\ j.clean = FALSE
    BY <2>1, <2>2 DEF Moves, Pc
  <2>3. CASE \E j \in Job : Read(a, j) /\ (j.clean => ~Crosses(a))
    BY <1>0, <2>1, <2>3, ReadGoes, GoesMoves
  <2> QED
    BY <1>0, <1>4, <2>2, <2>3, TimerForm
<1>5. CASE ApplyConfig(a)
  <2>1. Active(a) /\ (crossed => crossed')
    BY <1>0, <1>5, ApplyConfigForm DEF Active
  <2>2. PICK j \in Job : Read(a, j) /\ j.clean = FALSE
    BY <1>0, <1>5, ApplyConfigForm
  <2> QED
    BY <1>0, <2>1, <2>2, ReadGoes, GoesMoves
<1>6. CASE Apply(a) \/ ApplyFails(a) \/ RefusePrimary(a)
  <2>1. Active(a) /\ crossed' = crossed
    BY <1>6 DEF Active, At, Apply, ApplyFails, RefusePrimary, history
  <2>2. Continue(a, "publish", job[a]) \/ EndFailed(a, job[a])
    BY <1>6 DEF Apply, ApplyFails, RefusePrimary
  <2> QED
    BY <1>0, <2>1, <2>2, EndGoes, GoesMoves DEF Moves, Pc
<1>7. CASE Publish(a)
  <2> DEFINE k == [job[a] EXCEPT !.clean = @ /\ shown'.primary = job[a].primary]
  <2>1. Active(a) /\ crossed' = crossed
    BY <1>7 DEF Active, At, Publish
  <2>2. k \in Job /\ (k.clean => job[a].clean)
    BY <1>0 DEF Job
  <2> HIDE DEF k
  <2>3. Continue(a, "screen", k) \/ Then(a, k)
    BY <1>7 DEF Publish, k
  <2> QED
    BY <2>1, <2>2, <2>3, ThenGoes, GoesMoves DEF Moves, Pc
<1>8. CASE SaveScreen(a)
  <2>1. Active(a) /\ crossed' = crossed /\ Then(a, job[a])
    BY <1>8 DEF Active, At, SaveScreen, history
  <2> QED
    BY <1>0, <2>1, ThenGoes, GoesMoves
<1>9. CASE SaveMode(a)
  <2>1. Active(a) /\ pc[a] = "save" /\ End(a, job[a]) /\ (crossed /\ ~crossed' => job[a].clean)
    BY <1>9 DEF Active, At, SaveMode
  <2> QED
    BY <1>0, <2>1, EndGoes, GoesMoves
<1>10. CASE Finish(a)
  <2>1. Active(a) /\ crossed' = crossed /\ Continue(a, "idle", NoJob)
    BY <1>10 DEF Active, At, Finish, history
  <2> QED
    BY <1>0, <2>1, NoJobType DEF Moves, Pc
<1> QED
  BY <1>1, <1>2, <1>3, <1>4, <1>5, <1>6, <1>7, <1>8, <1>9, <1>10 DEF Acts, Step

Alone == ~crossed => \A a, b \in Actor : Active(a) /\ Active(b) => a = b

\* Nobody runs but a, if it does.
Front(a) == \A b \in Actor \ {a} : ~Active(b)

CleanAlone == \A a \in Actor : job[a].clean => Active(a) /\ Front(a)

LEMMA AloneInit ==
  ASSUME Init
  PROVE  Alone /\ CleanAlone /\ Actor # {}
<1>1. PICK t \in Timer : {a \in Actor : pc[a] = "mode"} = {t}
  BY DEF Init
<1>2. \A a \in Actor : Active(a) => a = t
  BY <1>1 DEF Init, Active
<1>3. \A a \in Actor : job[a].clean = FALSE
  BY DEF Init, NoJob
<1> QED
  BY <1>1, <1>2, <1>3 DEF Alone, CleanAlone, Actor

\* Once a goroutine has made a step the others that run have crossed it, and are
\* no longer clean.
LEMMA AloneStep ==
  ASSUME TypeInv, Alone, CleanAlone, NEW a \in Actor, Moves(a)
  PROVE  /\ Front(a)' <=> Front(a)
         /\ \A b \in Actor \ {a} : /\ ~job'[b].clean
                                   /\ Active(b)' => crossed'
         /\ Alone' /\ CleanAlone'
<1>1. PICK where \in Pc, k \in Job :
        /\ Continue(a, where, k)
        /\ where = "idle" => k = NoJob
        /\ k.clean => IF Active(a) THEN job[a].clean ELSE ~Crosses(a)
        /\ ~Active(a) => crossed' = (crossed \/ Crosses(a))
        /\ crossed /\ ~crossed' => pc[a] = "save" /\ job[a].clean
  BY DEF Moves
<1>2. pc'[a] = where /\ job'[a] = k /\ \A b \in Actor \ {a} : pc'[b] = pc[b]
  BY <1>1, ContinueFrame DEF TypeInv
<1>3. Front(a)' <=> Front(a)
  BY <1>2 DEF Front, Active
<1>4. \A b \in Actor \ {a} : ~job'[b].clean
  BY <1>1, OtherJobs DEF CleanAlone, Front, TypeInv
<1>5. ASSUME NEW b \in Actor \ {a}, Active(b)', ~crossed' PROVE FALSE
  <2>1. Active(b)
    BY <1>2, <1>5 DEF Active
  <2>2. CASE Active(a)
    BY <1>1, <1>5, <2>1, <2>2 DEF Alone, CleanAlone, Front
  <2>3. CASE ~Active(a)
    BY <1>1, <1>5, <2>1, <2>3 DEF Crosses, Busy, Active
  <2> QED
    BY <2>2, <2>3
<1>6. Alone'
  BY <1>5 DEF Alone
<1>7. job'[a].clean => Active(a)' /\ Front(a)'
  <2>1. k.clean => Front(a)
    BY <1>1 DEF CleanAlone, Front, Crosses, Busy, Active
  <2>2. k.clean => where # "idle"
    BY <1>1 DEF NoJob
  <2> QED
    BY <1>2, <1>3, <2>1, <2>2 DEF Active
<1> QED
  BY <1>3, <1>4, <1>5, <1>6, <1>7 DEF CleanAlone

-----------------------------------------------------------------------------
(* The mode that is told is the stored one.                                *)

\* What is known of the job j of a goroutine that is at w.
Shaped(w, j) ==
  /\ w \in {"apply", "publish", "screen", "save"} /\ j.op \in Switching => ~One(j.snap)
  /\ w \in {"apply", "publish", "screen"} =>
        /\ j.op = "only" => j.mode = "only"
        /\ j.op = "primary" => j.mode = "extend" /\ j.build /\ w # "apply"
  /\ w = "screen" => j.build
  /\ w = "save" => j.op \in Switching
  /\ w = "after" => j.op \in {"delayed", "update"}
  /\ w = "mode" => j.op # "delayed"
  /\ w # "idle" /\ j.op = "update" => j.mode # "other"

ShapeInv == \A a \in Actor : Shaped(pc[a], job[a])

\* Once told, the mode of a switch is the property.
Told(w, j) ==
  /\ w = "screen" /\ j.op \in Switching => prop = j.mode
  /\ w = "save" => j.mode \in {"other", prop}

\* What j is to store and to tell, if nothing overlapped and nothing failed that matters.
Expects(w, j) ==
  /\ w \in {"idle", "mode"} => prop = stored
  /\ w \in {"apply", "publish"} =>
        IF j.op = "update" THEN stored = j.mode
        ELSE prop = stored /\ prop = (IF j.op \in Switching THEN j.old ELSE j.mode)
  /\ w = "screen" =>
        /\ j.op = "update" => stored = j.mode
        /\ j.op \in Switching => stored = j.old
        /\ j.op \notin Switching \cup {"update"} => prop = stored
  /\ w = "after" => stored = (IF j.op = "update" THEN j.mode ELSE prop)

Quiet == ~crossed /\ failed \cap {"update", "other"} = {}

\* A delayed switch that is pending is not due to be overtaken, and its old mode is
\* the present one.
Awaits(w, j) ==
  /\ w # "idle" /\ Pending => w = "mode" \/ j.op \in {"config", "delayed"}
  /\ w = "idle" \/ j.op # "delayed" => \A d \in delay : d.fresh => d.old = prop

Before(j) == j.clean /\ j.op # "delayed" => ~Pending

Good(a) ==
  /\ ~crossed \/ job[a].clean => Told(pc[a], job[a])
  /\ Before(job[a])
  /\ Quiet => Expects(pc[a], job[a]) /\ Awaits(pc[a], job[a])

ModesInv ==
    /\ Actor # {}
    /\ TypeInv
    /\ Alone
    /\ CleanAlone
    /\ ShapeInv
    /\ \A a \in Actor : Front(a) => Good(a)

\* What a goroutine goes on with is as before if its job was.
LEMMA ThenShaped ==
  ASSUME TypeOK, NEW a \in Actor, NEW j \in Job, j.op \in Switching => ~One(j.snap),
         j.op = "update" => j.mode # "other",
         Then(a, j) \/ End(a, j) \/ EndFailed(a, j)
  PROVE  Shaped(pc'[a], job'[a])
<1>1. CASE j.op \in Switching /\ Continue(a, "save", Saving(j))
  <2>1. pc'[a] = "save" /\ job'[a] = Saving(j)
    BY <1>1, ContinueFrame
  <2>2. Saving(j).op = j.op /\ Saving(j).snap = j.snap /\ Saving(j).mode = j.mode
    BY SavingType
  <2> QED
    BY <1>1, <2>1, <2>2 DEF Shaped
<1>2. CASE j.op \in {"delayed", "update"} /\ Continue(a, "after", Resting(j))
  <2>1. pc'[a] = "after" /\ job'[a] = Resting(j)
    BY <1>2, ContinueFrame
  <2>2. Resting(j).op = j.op /\ Resting(j).mode = j.mode
    BY RestingType
  <2> QED
    BY <1>2, <2>1, <2>2 DEF Shaped
<1>3. CASE Continue(a, "idle", NoJob)
  <2>1. pc'[a] = "idle"
    BY <1>3, ContinueFrame
  <2> QED
    BY <2>1 DEF Shaped
<1> QED
  BY <1>1, <1>2, <1>3, ThenForm, EndForm, EndFailedForm

LEMMA ReadShaped ==
  ASSUME TypeOK, NEW a \in Actor, NEW j \in Job, Read(a, j), j.op \in Switching => ~One(j.snap),
         j.op # "primary", j.op = "only" => j.mode = "only", j.op = "update" => j.mode # "other"
  PROVE  Shaped(pc'[a], job'[a])
<1>1. CASE Kind(j) # "other" /\ j.snap # {} /\ Continue(a, "apply", Applying(j))
  <2>1. pc'[a] = "apply" /\ job'[a] = Applying(j)
    BY <1>1, ContinueFrame
  <2>2. /\ Applying(j).op = j.op /\ Applying(j).snap = j.snap /\ Applying(j).mode = j.mode
    BY <1>1, ApplyingType
  <2> QED
    BY <2>1, <2>2 DEF Shaped
<1> QED
  BY <1>1, ThenShaped, ReadForm

LEMMA ShapeOthers ==
  ASSUME TypeInv, ShapeInv, NEW a \in Actor, Moves(a), Shaped(pc'[a], job'[a])
  PROVE  ShapeInv'
<1>1. PICK where, k : Continue(a, where, k)
  BY DEF Moves
<1> SUFFICES ASSUME NEW b \in Actor \ {a} PROVE Shaped(pc'[b], job'[b])
  BY DEF ShapeInv, Shaped
<1>2. Shaped(pc[b], job[b])
  BY DEF ShapeInv
<1>3. /\ pc'[b] = pc[b]
      /\ job'[b].op = job[b].op /\ job'[b].mode = job[b].mode
      /\ job'[b].snap = job[b].snap /\ job'[b].build = job[b].build
  BY <1>1, OtherJobs DEF TypeInv
<1> QED
  BY <1>2, <1>3 DEF Shaped

LEMMA ShapeStep ==
  ASSUME TypeInv, ShapeInv, NEW a \in Actor, Acts(a)
  PROVE  ShapeInv'
<1>0. TypeOK /\ job[a] \in Job /\ Shaped(pc[a], job[a])
  BY DEF TypeInv, TypeOK, ShapeInv
<1> SUFFICES Shaped(pc'[a], job'[a])
  BY ActsMoves, ShapeOthers
<1>1. ASSUME a \in Caller, NEW m \in Asked, NEW n \in Monitor \cup {None}, SwitchMode(a, m, n)
      PROVE  Shaped(pc'[a], job'[a])
  <2>1. CASE Continue(a, "idle", NoJob)
    BY <1>0, <2>1, ContinueFrame DEF Shaped
  <2>2. CASE \E j \in Job : Read(a, j) /\ j.op = "switch" /\ ~One(j.snap)
    BY <1>0, <2>2, ReadShaped
  <2> QED
    BY <1>0, <1>1, <2>1, <2>2, SwitchForm
<1>2. ASSUME a \in Caller, NEW n \in Monitor, SetPrimary(a, n)
      PROVE  Shaped(pc'[a], job'[a])
  <2>1. CASE prop = "only"
    <3>1. PICK j \in Job : Read(a, j) /\ j.op = "only" /\ j.mode = "only"
      BY <1>0, <1>2, <2>1, PrimaryOnly
    <3> QED
      BY <1>0, <3>1, ReadShaped DEF Switching
  <2>2. CASE prop # "only"
    <3>1. PICK j \in Job : Continue(a, "publish", j) /\ j.op = "primary" /\ j.mode = "extend" /\ j.build
      BY <1>0, <1>2, <2>2, PrimaryExtend
    <3>2. pc'[a] = "publish" /\ job'[a] = j
      BY <1>0, <3>1, ContinueFrame
    <3> QED
      BY <3>1, <3>2 DEF Shaped, Switching
  <2> QED
    BY <2>1, <2>2
<1>3. ASSUME a \in Caller, NEW m \in Asked, Update(a, m)
      PROVE  Shaped(pc'[a], job'[a])
  <2>1. /\ m # "other"
        /\ \E j \in Job : /\ Read(a, j)
                          /\ j.op = "update" /\ j.mode = m /\ j.name = None /\ j.snap = conn
                          /\ j.clean = FALSE
    BY <1>0, <1>3, UpdateForm
  <2>2. PICK j \in Job : Read(a, j) /\ j.op = "update" /\ j.mode = m
    BY <2>1
  <2> QED
    BY <1>0, <2>1, <2>2, ReadShaped DEF Switching
<1>4. ASSUME a \in Timer, TimerFire(a)
      PROVE  Shaped(pc'[a], job'[a])
  <2>1. CASE \E j \in Job : Continue(a, "mode", j) /\ j.op = "config"
    BY <1>0, <2>1, ContinueFrame DEF Shaped
  <2>2. CASE Many(conn) /\ \E j \in Job : Read(a, j) /\ j.op = "delayed" /\ j.snap = conn
    BY <1>0, <2>2, ReadShaped DEF Many, One
  <2> QED
    BY <1>0, <1>4, <2>1, <2>2, TimerForm
<1>5. CASE ApplyConfig(a)
  <2>1. PICK j \in Job : Read(a, j) /\ (j.op = "config" \/ (j.op = "auto" /\ Many(j.snap)))
    BY <1>0, <1>5, ApplyConfigForm
  <2> QED
    BY <1>0, <2>1, ReadShaped DEF Switching, Many, One
<1>6. CASE Apply(a)
  <2>1. pc[a] = "apply" /\ pc'[a] = "publish" /\ job'[a] = job[a]
    BY <1>0, <1>6, ContinueFrame DEF Apply, At
  <2> QED
    BY <1>0, <2>1 DEF Shaped
<1>7. CASE ApplyFails(a) \/ RefusePrimary(a)
  <2>1. pc[a] \in {"apply", "publish"} /\ EndFailed(a, job[a])
    BY <1>7 DEF ApplyFails, RefusePrimary, At
  <2> QED
    BY <1>0, <2>1, ThenShaped DEF Shaped
<1>8. CASE Publish(a)
  <2> DEFINE k == [job[a] EXCEPT !.clean = @ /\ shown'.primary = job[a].primary]
  <2>1. pc[a] = "publish"
    BY <1>8 DEF Publish, At
  <2>2. k \in Job /\ k.op = job[a].op /\ k.mode = job[a].mode /\ k.snap = job[a].snap /\ k.build = job[a].build
    BY <1>0 DEF Job
  <2> HIDE DEF k
  <2>3. (job[a].build /\ Continue(a, "screen", k)) \/ Then(a, k)
    BY <1>8 DEF Publish, k
  <2>4. CASE job[a].build /\ Continue(a, "screen", k)
    <3>1. pc'[a] = "screen" /\ job'[a] = k
      BY <1>0, <2>4, ContinueFrame
    <3> QED
      BY <1>0, <2>1, <2>2, <2>4, <3>1 DEF Shaped
  <2>5. CASE Then(a, k)
    BY <1>0, <2>1, <2>2, <2>5, ThenShaped DEF Shaped
  <2> QED
    BY <2>3, <2>4, <2>5
<1>9. CASE SaveScreen(a) \/ SaveMode(a)
  <2>1. pc[a] \in {"screen", "save"} /\ (Then(a, job[a]) \/ End(a, job[a]))
    BY <1>9 DEF SaveScreen, SaveMode, At
  <2> QED
    BY <1>0, <2>1, ThenShaped DEF Shaped
<1>10. CASE Finish(a)
  <2>1. Continue(a, "idle", NoJob)
    BY <1>10 DEF Finish
  <2> QED
    BY <1>0, <2>1, ContinueFrame DEF Shaped
<1> QED
  BY <1>1, <1>2, <1>3, <1>4, <1>5, <1>6, <1>7, <1>8, <1>9, <1>10 DEF Acts, Step

\* The parts of Good after a goroutine has gone on.
LEMMA GoesAwaits ==
  ASSUME TypeOK, NEW a \in Actor, NEW j \in Job, Goes(a, j)
  PROVE  /\ job'[a].clean => j.clean
         /\ Before(j)' => Before(job[a])'
         /\ /\ Pending' => j.op \in {"config", "delayed"}
            /\ j.op # "delayed" => \A d \in delay' : d.fresh => d.old = prop'
            => Awaits(pc[a], job[a])'
<1>1. PICK where \in Pc \ {"mode"}, k \in Job :
        /\ Continue(a, where, k)
        /\ where = "idle" => k = NoJob /\ j.op # "delayed"
        /\ where # "idle" => k.op = j.op
        /\ k.clean => j.clean
  BY DEF Goes
<1>2. pc'[a] = where /\ job'[a] = k
  BY <1>1, ContinueFrame
<1>3. where = "idle" => k.clean = FALSE
  BY <1>1 DEF NoJob
<1>4. Before(j)' => Before(job[a])'
  BY <1>1, <1>2, <1>3 DEF Before
<1> QED
  BY <1>1, <1>2, <1>4 DEF Awaits

LEMMA EndSettles ==
  ASSUME TypeOK, NEW a \in Actor, NEW j \in Job, End(a, j) \/ EndFailed(a, j)
  PROVE  /\ Told(pc[a], job[a])'
         /\ ~job'[a].clean
         /\ /\ EndFailed(a, j) => j.op # "update"
            /\ stored' = (IF j.op = "update" THEN j.mode ELSE prop')
            => Expects(pc[a], job[a])'
<1>1. CASE j.op \in {"delayed", "update"} /\ Continue(a, "after", Resting(j))
  <2>1. pc'[a] = "after" /\ job'[a] = Resting(j)
    BY <1>1, ContinueFrame
  <2>2. Resting(j).op = j.op /\ Resting(j).mode = j.mode /\ Resting(j).clean = FALSE
    BY RestingType
  <2> QED
    BY <2>1, <2>2 DEF Told, Expects
<1>2. CASE (j.op = "update" => EndFailed(a, j)) /\ Continue(a, "idle", NoJob)
  <2>1. pc'[a] = "idle" /\ job'[a].clean = FALSE
    BY <1>2, ContinueFrame DEF NoJob
  <2> QED
    BY <1>2, <2>1 DEF Told, Expects
<1> QED
  BY <1>1, <1>2, EndForm, EndFailedForm

LEMMA ThenSettles ==
  ASSUME TypeOK, NEW a \in Actor, NEW j \in Job, Then(a, j)
  PROVE  /\ (j.op \in Switching /\ j.old # j.mode => j.mode \in {"other", prop'})
            => Told(pc[a], job[a])'
         /\ \/ j.op \in Switching /\ j.old # j.mode
            \/ stored' = (IF j.op = "update" THEN j.mode ELSE prop')
            => Expects(pc[a], job[a])'
<1>1. CASE j.op \in Switching /\ j.old # j.mode /\ Continue(a, "save", Saving(j))
  <2>1. pc'[a] = "save" /\ job'[a] = Saving(j) /\ Saving(j).mode = j.mode
    BY <1>1, ContinueFrame, SavingType
  <2> QED
    BY <1>1, <2>1 DEF Told, Expects
<1>2. CASE ~(j.op \in Switching /\ j.old # j.mode)
  <2>1. End(a, Saving(j)) /\ Saving(j).op = j.op /\ Saving(j).mode = j.mode /\ Saving(j) \in Job
    BY <1>2, SavingType DEF Then, Switching, Saving
  <2>2. /\ Told(pc[a], job[a])'
        /\ stored' = (IF j.op = "update" THEN j.mode ELSE prop') => Expects(pc[a], job[a])'
    <3>1. \/ j.op \in {"delayed", "update"} /\ Continue(a, "after", Resting(j))
          \/ j.op \notin {"delayed", "update"} /\ Continue(a, "idle", NoJob)
      BY <1>2, ThenForm
    <3>2. CASE j.op \in {"delayed", "update"} /\ Continue(a, "after", Resting(j))
      <4>1. pc'[a] = "after" /\ job'[a] = Resting(j)
        BY <3>2, ContinueFrame
      <4>2. Resting(j).op = j.op /\ Resting(j).mode = j.mode
        BY RestingType
      <4> QED
        BY <4>1, <4>2 DEF Told, Expects
    <3>3. CASE j.op \notin {"delayed", "update"} /\ Continue(a, "idle", NoJob)
      <4>1. pc'[a] = "idle"
        BY <3>3, ContinueFrame
      <4> QED
        BY <3>3, <4>1 DEF Told, Expects
    <3> QED
      BY <3>1, <3>2, <3>3
  <2> QED
    BY <1>2, <2>2
<1> QED
  BY <1>1, <1>2, ThenForm

\* What Read goes on with is good if nothing was under way.
LEMMA ReadGood ==
  ASSUME TypeOK, NEW a \in Actor, NEW j \in Job, Read(a, j), prop' = prop,
         Before(j)',
         Quiet' => /\ IF j.op = "update" THEN stored' = j.mode
                      ELSE prop = stored' /\ prop = (IF j.op \in Switching THEN j.old ELSE j.mode)
                   /\ Pending' => j.op \in {"config", "delayed"}
                   /\ j.op # "delayed" => \A d \in delay' : d.fresh => d.old = prop'
  PROVE  Good(a)'
<1>1. Before(job[a])' /\ (Quiet' => Awaits(pc[a], job[a])')
  BY ReadGoes, GoesAwaits
<1>2. CASE Kind(j) # "other" /\ j.snap # {} /\ Continue(a, "apply", Applying(j))
  <2>1. pc'[a] = "apply" /\ job'[a] = Applying(j)
    BY <1>2, ContinueFrame
  <2>2. Applying(j).op = j.op /\ Applying(j).mode = j.mode /\ Applying(j).old = j.old
    BY <1>2, ApplyingType
  <2>3. Told(pc[a], job[a])' /\ (Quiet' => Expects(pc[a], job[a])')
    BY <2>1, <2>2 DEF Told, Expects
  <2> QED
    BY <1>1, <2>3 DEF Good
<1>3. CASE Kind(j) = "other" /\ Then(a, j)
  <2>1. j.mode = "other"
    BY <1>3, KindIn
  <2>2. Told(pc[a], job[a])' /\ (Quiet' => Expects(pc[a], job[a])')
    BY <1>3, <2>1, ThenSettles
  <2> QED
    BY <1>1, <2>2 DEF Good
<1>4. CASE EndFailed(a, j)
  <2>1. j.op = "update" => ~Quiet'
    BY <1>4, EndFailedForm DEF Class, Quiet
  <2>2. Told(pc[a], job[a])' /\ (Quiet' => Expects(pc[a], job[a])')
    BY <1>4, <2>1, EndSettles
  <2> QED
    BY <1>1, <2>2 DEF Good
<1> QED
  BY <1>2, <1>3, <1>4, ReadForm

LEMMA EndGood ==
  ASSUME TypeOK, NEW a \in Actor, NEW j \in Job, End(a, j) \/ EndFailed(a, j),
         Quiet' => /\ EndFailed(a, j) => j.op # "update"
                   /\ stored' = (IF j.op = "update" THEN j.mode ELSE prop')
                   /\ Pending' => j.op \in {"config", "delayed"}
                   /\ j.op # "delayed" => \A d \in delay' : d.fresh => d.old = prop'
  PROVE  Good(a)'
<1>1. Quiet' => Awaits(pc[a], job[a])'
  BY EndGoes, GoesAwaits
<1>2. Told(pc[a], job[a])' /\ ~job'[a].clean /\ (Quiet' => Expects(pc[a], job[a])')
  BY EndSettles
<1> QED
  BY <1>1, <1>2 DEF Good, Before

LEMMA ThenGood ==
  ASSUME TypeOK, NEW a \in Actor, NEW j \in Job, Then(a, j), Before(j)',
         (~crossed' \/ j.clean) /\ j.op \in Switching /\ j.old # j.mode => j.mode \in {"other", prop'},
         Quiet' => /\ \/ j.op \in Switching /\ j.old # j.mode
                      \/ stored' = (IF j.op = "update" THEN j.mode ELSE prop')
                   /\ Pending' => j.op \in {"config", "delayed"}
                   /\ j.op # "delayed" => \A d \in delay' : d.fresh => d.old = prop'
  PROVE  Good(a)'
<1>1. Before(job[a])' /\ (job'[a].clean => j.clean) /\ (Quiet' => Awaits(pc[a], job[a])')
  BY ThenGoes, GoesAwaits
<1>2. ~crossed' \/ job'[a].clean => Told(pc[a], job[a])'
  BY <1>1, ThenSettles
<1>3. Quiet' => Expects(pc[a], job[a])'
  BY ThenSettles
<1> QED
  BY <1>1, <1>2, <1>3 DEF Good

\* An operation that begins without crossing another begins at rest.
LEMMA BeginsAlone ==
  ASSUME TypeOK, NEW a \in Actor, Front(a) => Good(a), pc[a] = "idle",
         crossed' = (crossed \/ Crosses(a)), failed \subseteq failed'
  PROVE  /\ ~Crosses(a) /\ a \notin Timer => ~Pending
         /\ Quiet' => /\ prop = stored /\ (a \notin Timer => ~Pending)
                      /\ \A d \in delay : d.fresh => d.old = prop
<1>1. ~Crosses(a) => Front(a) /\ (a \notin Timer => ~Pending)
  BY DEF Crosses, Busy, Front, Active
<1>2. Quiet' => Quiet /\ ~Crosses(a)
  BY DEF Quiet
<1>3. Quiet' => Expects(pc[a], job[a]) /\ Awaits(pc[a], job[a])
  BY <1>1, <1>2 DEF Good
<1> QED
  BY <1>1, <1>2, <1>3 DEF Expects, Awaits

\* Failures are only forgotten by a clean switch.
LEMMA ReadFailed ==
  ASSUME NEW a, NEW j, Read(a, j) \/ EndFailed(a, j)
  PROVE  failed \subseteq failed'
BY ReadForm, EndFailedForm

LEMMA SwitchGood ==
  ASSUME TypeInv, NEW c \in Caller, NEW m \in Asked, NEW n \in Monitor \cup {None},
         SwitchMode(c, m, n), Front(c) => Good(c)
  PROVE  Good(c)'
<1>0. TypeOK /\ c \in Actor /\ c \notin Timer
  BY ConstantsAssumption DEF TypeInv, Actor
<1>1. /\ pc[c] = "idle" /\ crossed' = (crossed \/ Crosses(c))
      /\ prop' = prop /\ stored' = stored
  BY <1>0, SwitchForm DEF config
<1>2. CASE SetDelay(m, prop, n) /\ Continue(c, "idle", NoJob) /\ failed' = failed
  <2>1. Quiet' => prop = stored /\ \A d \in delay : d.fresh => d.old = prop
    BY <1>0, <1>1, <1>2, BeginsAlone
  <2>2. pc'[c] = "idle" /\ job'[c].clean = FALSE
    BY <1>0, <1>2, ContinueFrame DEF NoJob
  <2>3. Quiet' => \A d \in delay' : d.fresh => d.old = prop'
    BY <1>1, <1>2, <2>1 DEF SetDelay
  <2> QED
    BY <1>1, <2>1, <2>2, <2>3 DEF Good, Told, Before, Expects, Awaits
<1>3. ASSUME NEW j \in Job, Read(c, j), delay' = delay, j.op = "switch", j.old = prop,
             j.clean => ~Crosses(c)
      PROVE  Good(c)'
  <2>1. /\ ~Crosses(c) => ~Pending
        /\ Quiet' => prop = stored /\ ~Pending /\ \A d \in delay : d.fresh => d.old = prop
    BY <1>0, <1>1, <1>3, ReadFailed, BeginsAlone
  <2>2. Pending' = Pending
    BY <1>3 DEF Pending
  <2>3. Before(j)'
    BY <1>3, <2>1, <2>2 DEF Before
  <2> QED
    BY <1>0, <1>1, <1>3, <2>1, <2>2, <2>3, ReadGood DEF Switching
<1> QED
  BY <1>0, <1>2, <1>3, SwitchForm

LEMMA PrimaryGood ==
  ASSUME TypeInv, NEW c \in Caller, NEW n \in Monitor, SetPrimary(c, n), Front(c) => Good(c)
  PROVE  Good(c)'
<1>0. TypeOK
  BY DEF TypeInv
<1>1. c \in Actor /\ c \notin Timer
  BY ConstantsAssumption DEF Actor
<1>2. /\ pc[c] = "idle" /\ crossed' = (crossed \/ Crosses(c))
      /\ prop' = prop /\ stored' = stored /\ delay' = delay
  BY <1>0, PrimaryForm DEF config
<1>3. Pending' = Pending
  BY <1>2 DEF Pending
<1>4. failed \subseteq failed'
      => /\ ~Crosses(c) => ~Pending
         /\ Quiet' => prop = stored /\ ~Pending /\ \A d \in delay : d.fresh => d.old = prop
  BY <1>0, <1>1, <1>2, BeginsAlone
<1>5. CASE prop = "only"
  <2>1. PICK j \in Job : Read(c, j) /\ j.op = "only" /\ j.mode = "only" /\ (j.clean => ~Crosses(c))
    BY <1>0, <1>5, PrimaryOnly
  <2>2. failed \subseteq failed'
    BY <2>1, ReadFailed
  <2>3. Before(j)'
    BY <1>3, <1>4, <2>1, <2>2 DEF Before
  <2> QED
    BY <1>0, <1>1, <1>2, <1>3, <1>4, <1>5, <2>1, <2>2, <2>3, ReadGood DEF Switching
<1>6. CASE prop # "only"
  <2>1. prop = "extend" /\ failed' = failed
    BY <1>0, <1>6, PrimaryExtend
  <2>2. PICK j \in Job : /\ Continue(c, "publish", j)
                         /\ j.op = "primary" /\ j.mode = "extend" /\ ~j.clean
    BY <1>0, <1>6, PrimaryExtend
  <2>3. pc'[c] = "publish" /\ job'[c] = j
    BY <1>0, <1>1, <2>2, ContinueFrame
  <2>4. Quiet' => Expects("publish", j)' /\ Awaits("publish", j)'
    BY <1>2, <1>3, <1>4, <2>1, <2>2 DEF Expects, Awaits, Switching
  <2> QED
    BY <2>2, <2>3, <2>4 DEF Good, Told, Before
<1> QED
  BY <1>5, <1>6

LEMMA UpdateGood ==
  ASSUME TypeInv, NEW c \in Caller, NEW m \in Asked, Update(c, m), Front(c) => Good(c)
  PROVE  Good(c)'
<1>0. TypeOK
  BY DEF TypeInv
<1>1. c \in Actor /\ c \notin Timer
  BY ConstantsAssumption DEF Actor
<1>2. /\ pc[c] = "idle" /\ crossed' = (crossed \/ Crosses(c))
      /\ prop' = prop /\ stored' = m /\ delay' = delay
  BY <1>0, UpdateForm
<1>3. PICK j \in Job : Read(c, j) /\ j.op = "update" /\ j.mode = m /\ j.clean = FALSE
  BY <1>0, UpdateForm
<1>4. failed \subseteq failed' /\ Pending' = Pending
  BY <1>2, <1>3, ReadFailed DEF Pending
<1>5. Quiet' => ~Pending /\ \A d \in delay : d.fresh => d.old = prop
  BY <1>0, <1>1, <1>2, <1>4, BeginsAlone
<1>6. Before(j)'
  BY <1>3 DEF Before
<1> QED
  BY <1>0, <1>1, <1>2, <1>3, <1>4, <1>5, <1>6, ReadGood

LEMMA TimerGood ==
  ASSUME TypeInv, NEW t \in Timer, TimerFire(t), Front(t) => Good(t)
  PROVE  Good(t)'
<1>0. TypeOK /\ OneDelay
  BY DEF TypeInv
<1>1. t \in Actor
  BY DEF Actor
<1>2. /\ pc[t] = "idle" /\ crossed' = (crossed \/ Crosses(t))
      /\ prop' = prop /\ stored' = stored /\ delay' = delay
  BY <1>0, TimerForm DEF config
<1>3. Pending' = Pending
  BY <1>2 DEF Pending
<1>4. failed \subseteq failed'
      => (Quiet' => prop = stored /\ \A d \in delay : d.fresh => d.old = prop)
  BY <1>0, <1>1, <1>2, BeginsAlone
<1>5. CASE Pending /\ \E d \in delay, j \in Job : Read(t, j) /\ j.op = "delayed" /\ j.old = d.old
  <2>1. PICK d \in delay, j \in Job : Read(t, j) /\ j.op = "delayed" /\ j.old = d.old
    BY <1>5
  <2>2. d.fresh
    BY <1>0, <1>5 DEF OneDelay, Pending
  <2>3. failed \subseteq failed'
    BY <2>1, ReadFailed
  <2>4. Before(j)'
    BY <2>1 DEF Before
  <2> QED
    BY <1>0, <1>1, <1>2, <1>4, <2>1, <2>2, <2>3, <2>4, ReadGood DEF Switching
<1>6. CASE failed' = failed /\ \E j \in Job : Continue(t, "mode", j) /\ j.op = "config" /\ j.clean = FALSE
  <2>1. PICK j \in Job : Continue(t, "mode", j) /\ j.op = "config" /\ j.clean = FALSE
    BY <1>6
  <2>2. pc'[t] = "mode" /\ job'[t] = j
    BY <1>0, <1>1, <2>1, ContinueFrame
  <2>3. Quiet' => Expects("mode", j)' /\ Awaits("mode", j)'
    BY <1>2, <1>4, <1>6, <2>1 DEF Expects, Awaits
  <2> QED
    BY <2>1, <2>2, <2>3 DEF Good, Told, Before
<1> QED
  BY <1>0, <1>5, <1>6, TimerForm

\* A goroutine that goes on was alone if all is quiet afterwards.
LEMMA GoesOnAlone ==
  ASSUME NEW a \in Actor, Good(a), crossed => crossed', failed \subseteq failed', Quiet'
  PROVE  Quiet /\ Expects(pc[a], job[a]) /\ Awaits(pc[a], job[a])
BY DEF Quiet, Good

LEMMA ApplyConfigGood ==
  ASSUME TypeInv, ShapeInv, NEW a \in Actor, ApplyConfig(a), Good(a)
  PROVE  Good(a)'
<1>0. TypeOK /\ Shaped(pc[a], job[a])
  BY DEF TypeInv, ShapeInv
<1>1. /\ pc[a] = "mode" /\ (crossed => crossed')
      /\ prop' = prop /\ stored' = stored /\ delay' = delay
  BY <1>0, ApplyConfigForm DEF config
<1>2. PICK j \in Job :
        /\ Read(a, j) /\ j.old = prop /\ j.clean = FALSE
        /\ \/ j.op = "config" /\ j.mode = prop
           \/ j.op = "auto" /\ (Pending => crossed')
  BY <1>0, ApplyConfigForm
<1>3. failed \subseteq failed' /\ Pending' = Pending
  BY <1>1, <1>2, ReadFailed DEF Pending
<1>4. Quiet' => prop = stored /\ \A d \in delay : d.fresh => d.old = prop
  BY <1>0, <1>1, <1>3, GoesOnAlone DEF Expects, Awaits, Shaped
<1>5. Before(j)'
  BY <1>2 DEF Before
<1>6. Quiet' => ~crossed'
  BY DEF Quiet
<1> QED
  BY <1>0, <1>1, <1>2, <1>3, <1>4, <1>5, <1>6, ReadGood DEF Switching

LEMMA ApplyGood ==
  ASSUME TypeInv, NEW a \in Actor, Apply(a), Good(a)
  PROVE  Good(a)'
<1>1. /\ pc[a] = "apply" /\ Continue(a, "publish", job[a])
      /\ UNCHANGED <<prop, stored, delay, failed, crossed>>
  BY DEF Apply, At, config, history
<1>2. pc'[a] = "publish" /\ job'[a] = job[a]
  BY <1>1, ContinueFrame DEF TypeInv
<1> QED
  BY <1>1, <1>2 DEF Good, Told, Before, Pending, Quiet, Expects, Awaits

LEMMA FailsGood ==
  ASSUME TypeInv, NEW a \in Actor, ApplyFails(a) \/ RefusePrimary(a), Good(a)
  PROVE  Good(a)'
<1> PICK j \in Job : j = job[a]
  BY DEF TypeInv, TypeOK
<1>0. TypeOK
  BY DEF TypeInv
<1>1. /\ pc[a] \in {"apply", "publish"} /\ EndFailed(a, j)
      /\ prop' = prop /\ stored' = stored /\ crossed' = crossed
      /\ \/ delay' = delay
         \/ j.op = "switch" /\ SetDelay(j.mode, j.old, j.name)
  BY DEF ApplyFails, RefusePrimary, At, config
<1>2. ASSUME Quiet'
      PROVE  /\ Expects(pc[a], j) /\ Awaits(pc[a], j)
             /\ j.op # "update"
  <2>1. failed' = failed \cup {Class(j.op)}
    BY <1>1, EndFailedForm
  <2> QED
    BY <1>1, <1>2, <2>1, GoesOnAlone DEF Quiet, Class
<1>3. CASE delay' = delay
  <2>1. Pending' = Pending
    BY <1>3 DEF Pending
  <2>2. Quiet' => /\ stored' = prop'
                  /\ Pending' => j.op \in {"config", "delayed"}
                  /\ j.op # "delayed" => \A d \in delay' : d.fresh => d.old = prop'
    BY <1>1, <1>2, <1>3, <2>1 DEF Expects, Awaits
  <2> QED
    BY <1>0, <1>1, <1>2, <2>2, EndGood
<1>4. CASE j.op = "switch" /\ SetDelay(j.mode, j.old, j.name)
  <2>1. Continue(a, "idle", NoJob)
    BY <1>1, <1>4, EndFailedForm
  <2>2. pc'[a] = "idle" /\ job'[a].clean = FALSE
    BY <1>0, <2>1, ContinueFrame DEF NoJob
  <2>3. Quiet' => stored' = prop' /\ \A d \in delay' : d.fresh => d.old = prop'
    BY <1>1, <1>2, <1>4 DEF Expects, Awaits, SetDelay, Switching
  <2> QED
    BY <2>2, <2>3 DEF Good, Told, Before, Expects, Awaits
<1> QED
  BY <1>1, <1>3, <1>4

LEMMA PublishGood ==
  ASSUME TypeInv, ShapeInv, NEW a \in Actor, Publish(a), Good(a)
  PROVE  Good(a)'
<1> PICK j \in Job : j = job[a]
  BY DEF TypeInv, TypeOK
<1>0. TypeOK /\ Shaped(pc[a], j)
  BY DEF TypeInv, ShapeInv
<1>1. /\ pc[a] = "publish" /\ failed \subseteq failed'
      /\ stored' = stored /\ crossed' = crossed /\ delay' = delay
      /\ prop' = IF j.op = "primary" \/ Kind(j) = "single" THEN prop ELSE j.mode
      /\ (failed' = failed \/ failed' = failed \cup {Class(j.op)})
  BY DEF Publish, At, config
<1>2. PICK k \in Job :
        /\ k.op = j.op /\ k.mode = j.mode /\ k.old = j.old /\ (k.clean => j.clean)
        /\ Continue(a, "screen", k) \/ Then(a, k)
  <2> DEFINE k == [j EXCEPT !.clean = @ /\ shown'.primary = j.primary]
  <2>1. k \in Job /\ k.op = j.op /\ k.mode = j.mode /\ k.old = j.old /\ (k.clean => j.clean)
    BY DEF Job
  <2>2. Continue(a, "screen", k) \/ Then(a, k)
    BY DEF Publish
  <2> HIDE DEF k
  <2> QED
    BY <2>1, <2>2
<1>4. Pending' = Pending
  BY <1>1 DEF Pending
<1>5. Before(k)'
  BY <1>2, <1>4 DEF Good, Before
<1>6. j.op \in Switching => prop' = j.mode
  <2>1. j.op \in Switching => Kind(j) = j.mode /\ j.op # "primary" /\ j.mode # "single"
    BY <1>0, <1>1 DEF Shaped, Kind, Switching, Job, Modes
  <2> QED
    BY <1>1, <2>1
<1>7. ASSUME Quiet'
      PROVE  /\ Expects("publish", j) /\ Awaits("publish", j)
             /\ j.op \notin Switching \cup {"update"} => prop' = prop
  <2>1. Expects("publish", j) /\ Awaits("publish", j)
    BY <1>1, <1>7, GoesOnAlone
  <2> QED
    BY <1>1, <2>1 DEF Expects
<1>8. ASSUME Quiet'
      PROVE  /\ Pending' => k.op \in {"config", "delayed"}
             /\ k.op # "delayed" => \A d \in delay' : d.fresh => d.old = prop'
  <2>1. Pending' => k.op \in {"config", "delayed"}
    BY <1>2, <1>4, <1>7, <1>8 DEF Awaits
  <2>2. k.op = "config" => prop' = prop
    BY <1>2, <1>7, <1>8 DEF Switching
  <2>3. k.op # "delayed" => \A d \in delay' : d.fresh => d.old = prop
    BY <1>1, <1>2, <1>7, <1>8 DEF Awaits
  <2>4. ASSUME NEW d \in delay', d.fresh, k.op # "delayed" PROVE d.old = prop'
    BY <2>1, <2>2, <2>3, <2>4 DEF Pending
  <2> QED
    BY <2>1, <2>4
<1>9. CASE Continue(a, "screen", k)
  <2>1. pc'[a] = "screen" /\ job'[a] = k
    BY <1>0, <1>9, ContinueFrame
  <2>2. Told("screen", k)'
    BY <1>2, <1>6 DEF Told
  <2>3. ASSUME Quiet' PROVE Expects("screen", k)'
    <3>1. Expects("publish", j) /\ (j.op \notin Switching \cup {"update"} => prop' = prop)
      BY <1>7, <2>3
    <3>2. /\ k.op = "update" => stored' = k.mode
          /\ k.op \in Switching => stored' = k.old
          /\ k.op \notin Switching \cup {"update"} => prop' = stored'
      BY <1>1, <1>2, <3>1 DEF Expects, Switching
    <3> QED
      BY <3>2 DEF Expects
  <2>4. Quiet' => Awaits("screen", k)'
    BY <1>8 DEF Awaits
  <2> QED
    BY <1>5, <2>1, <2>2, <2>3, <2>4 DEF Good
<1>10. CASE Then(a, k)
  <2>1. Quiet' => \/ k.op \in Switching /\ k.old # k.mode
                  \/ stored' = (IF k.op = "update" THEN k.mode ELSE prop')
    <3> SUFFICES ASSUME Quiet', ~(k.op \in Switching /\ k.old # k.mode)
                 PROVE  stored' = (IF k.op = "update" THEN k.mode ELSE prop')
      OBVIOUS
    <3> QED
      BY <1>1, <1>2, <1>6, <1>7 DEF Expects
  <2> QED
    BY <1>0, <1>2, <1>5, <1>6, <1>8, <1>10, <2>1, ThenGood
<1> QED
  BY <1>2, <1>9, <1>10

LEMMA ScreenGood ==
  ASSUME TypeInv, NEW a \in Actor, SaveScreen(a), Good(a)
  PROVE  Good(a)'
<1> PICK j \in Job : j = job[a]
  BY DEF TypeInv, TypeOK
<1>0. TypeOK
  BY DEF TypeInv
<1>1. /\ pc[a] = "screen" /\ Then(a, j)
      /\ UNCHANGED <<prop, stored, delay, failed, crossed>>
  BY DEF SaveScreen, At, history
<1>2. Pending' = Pending
  BY <1>1 DEF Pending
<1>3. Before(j)'
  BY <1>2 DEF Good, Before
<1>4. ~crossed' \/ j.clean => Told("screen", j)
  BY <1>1 DEF Good
<1>5. Quiet' => Expects("screen", j) /\ Awaits("screen", j)
  BY <1>1, GoesOnAlone
<1>6. Quiet' => /\ Pending' => j.op \in {"config", "delayed"}
                /\ j.op # "delayed" => \A d \in delay' : d.fresh => d.old = prop'
  BY <1>1, <1>2, <1>5 DEF Awaits
<1>7. Quiet' => \/ j.op \in Switching /\ j.old # j.mode
                \/ stored' = (IF j.op = "update" THEN j.mode ELSE prop')
  BY <1>1, <1>4, <1>5 DEF Expects, Told, Quiet, Switching
<1>8. (~crossed' \/ j.clean) /\ j.op \in Switching => j.mode = prop'
  BY <1>1, <1>4 DEF Told
<1> QED
  BY <1>0, <1>1, <1>3, <1>6, <1>7, <1>8, ThenGood

LEMMA SaveGood ==
  ASSUME TypeInv, ShapeInv, NEW a \in Actor, SaveMode(a), Good(a)
  PROVE  Good(a)'
<1> PICK j \in Job : j = job[a]
  BY DEF TypeInv, TypeOK
<1> DEFINE undisturbed == j.clean /\ j.mode # "other" /\ j.snap = conn
<1>0. TypeOK /\ Shaped(pc[a], j)
  BY DEF TypeInv, ShapeInv
<1>1. /\ pc[a] = "save" /\ End(a, j)
      /\ stored' = j.mode /\ prop' = prop /\ delay' = delay
      /\ failed' = IF undisturbed THEN {} ELSE IF j.mode = "other" THEN failed \cup {"other"} ELSE failed
      /\ crossed' = (crossed /\ ~undisturbed)
  BY DEF SaveMode, At
<1>2. Pending' = Pending
  BY <1>1 DEF Pending
<1>3. j.op \in Switching
  BY <1>0, <1>1 DEF Shaped
<1>4. ASSUME Quiet'
      PROVE  /\ stored' = prop'
             /\ Pending' => j.op \in {"config", "delayed"}
             /\ j.op # "delayed" => \A d \in delay' : d.fresh => d.old = prop'
  <2>1. CASE undisturbed
    <3>1. Told("save", j) /\ (j.op # "delayed" => ~Pending)
      BY <1>1, <2>1 DEF Good, Before
    <3> QED
      BY <1>1, <1>2, <2>1, <3>1 DEF Told, Pending
  <2>2. CASE ~undisturbed
    <3>1. Quiet /\ j.mode # "other"
      BY <1>1, <1>4, <2>2 DEF Quiet
    <3>2. Told("save", j) /\ Awaits("save", j)
      BY <1>1, <3>1 DEF Good, Quiet
    <3> QED
      BY <1>1, <1>2, <3>1, <3>2 DEF Told, Awaits
  <2> QED
    BY <2>1, <2>2
<1>5. ~EndFailed(a, j) \/ j.op # "update"
  BY <1>3 DEF Switching
<1> QED
  BY <1>0, <1>1, <1>3, <1>4, EndGood DEF Switching

LEMMA FinishGood ==
  ASSUME TypeInv, ShapeInv, NEW a \in Actor, Finish(a), Good(a)
  PROVE  Good(a)'
<1> PICK j \in Job : j = job[a]
  BY DEF TypeInv, TypeOK
<1>0. TypeOK /\ Shaped(pc[a], j)
  BY DEF TypeInv, ShapeInv
<1>1. /\ pc[a] = "after" /\ Continue(a, "idle", NoJob)
      /\ UNCHANGED <<stored, failed, crossed>>
      /\ IF j.op = "delayed" THEN delay' = {} /\ prop' = prop ELSE prop' = j.mode /\ delay' = delay
  BY DEF Finish, At, config, history
<1>2. j.op \in {"delayed", "update"}
  BY <1>0, <1>1 DEF Shaped
<1>3. pc'[a] = "idle" /\ job'[a].clean = FALSE
  BY <1>0, <1>1, ContinueFrame DEF NoJob
<1>4. Quiet' => Expects("after", j) /\ Awaits("after", j)
  BY <1>1, GoesOnAlone
<1>5. Quiet' => prop' = stored' /\ \A d \in delay' : d.fresh => d.old = prop'
  BY <1>1, <1>2, <1>4 DEF Expects, Awaits, Pending
<1> QED
  BY <1>3, <1>5 DEF Good, Told, Before, Expects, Awaits

LEMMA WorldGood ==
  ASSUME TypeInv, Worlds, NEW a \in Actor
  PROVE  /\ pc' = pc /\ job' = job /\ crossed' = crossed
         /\ Front(a)' <=> Front(a)
         /\ Good(a) => Good(a)'
<1>1. UNCHANGED <<prop, stored, pc, job, failed, crossed>>
  BY DEF Worlds, Plug, BurstEnds, DelayExpires, vars, config, goro, history
<1>2. \A d \in delay' : d.fresh => d \in delay
  <2>1. CASE delay' = delay
    BY <2>1
  <2>2. ASSUME NEW d \in delay, delay' = {[d EXCEPT !.fresh = FALSE]}
        PROVE  \A e \in delay' : ~e.fresh
    <3>1. d \in Delay
      BY DEF TypeInv, TypeOK
    <3>2. [d EXCEPT !.fresh = FALSE].fresh = FALSE
      BY <3>1 DEF Delay
    <3> QED
      BY <2>2, <3>2
  <2> QED
    BY <2>1, <2>2 DEF Worlds, Plug, BurstEnds, DelayExpires, vars
<1>3. Pending' => Pending
  BY <1>2 DEF Pending
<1>4. Front(a)' <=> Front(a)
  BY <1>1 DEF Front, Active
<1>5. Good(a) => Good(a)'
  <2>1. Told(pc[a], job[a]) => Told(pc[a], job[a])'
    BY <1>1 DEF Told
  <2>2. Before(job[a]) => Before(job[a])'
    BY <1>1, <1>3 DEF Before
  <2>3. Expects(pc[a], job[a]) => Expects(pc[a], job[a])'
    BY <1>1 DEF Expects
  <2>4. Awaits(pc[a], job[a]) => Awaits(pc[a], job[a])'
    BY <1>1, <1>2, <1>3 DEF Awaits
  <2> QED
    BY <1>1, <2>1, <2>2, <2>3, <2>4 DEF Good, Quiet
<1> QED
  BY <1>1, <1>4, <1>5

LEMMA ActsGood ==
  ASSUME TypeInv, ShapeInv, NEW a \in Actor, Acts(a), Good(a)
  PROVE  Good(a)'
BY SwitchGood, PrimaryGood, UpdateGood, TimerGood, ApplyConfigGood, ApplyGood, FailsGood, PublishGood,
   ScreenGood, SaveGood, FinishGood DEF Acts, Step

LEMMA ModesInit ==
  ASSUME Init
  PROVE  ModesInv
<1>1. TypeInv /\ Alone /\ CleanAlone /\ Actor # {}
  BY TypeInit, AloneInit
<1>2. ASSUME NEW a \in Actor PROVE Shaped(pc[a], job[a]) /\ Good(a)
  <2>1. pc[a] \in {"idle", "mode"} /\ job[a] = NoJob
    BY DEF Init
  <2>2. job[a].clean = FALSE /\ job[a].op = "none"
    BY <2>1 DEF NoJob
  <2>3. prop = stored /\ delay = {}
    BY DEF Init
  <2>4. Shaped(pc[a], job[a])
    BY <2>1, <2>2 DEF Shaped
  <2>5. Told(pc[a], job[a]) /\ Before(job[a])
    BY <2>1, <2>2 DEF Told, Before
  <2>6. Expects(pc[a], job[a]) /\ Awaits(pc[a], job[a])
    BY <2>1, <2>3 DEF Expects, Awaits, Pending
  <2> QED
    BY <2>4, <2>5, <2>6 DEF Good
<1> QED
  BY <1>1, <1>2 DEF ModesInv, ShapeInv

\* What is good for the goroutine that made the step is good for those at rest.
LEMMA RestGood ==
  ASSUME ModesInv, NEW a \in Actor, Acts(a), NEW b \in Actor, Front(b)'
  PROVE  Good(b)'
<1>1. /\ Front(a)' <=> Front(a)
      /\ \A c \in Actor \ {a} : ~job'[c].clean /\ (Active(c)' => crossed')
  BY ActsMoves, AloneStep DEF ModesInv
<1>2. Front(a)' => Good(a)'
  BY <1>1, ActsGood DEF ModesInv
<1>3. CASE b = a
  BY <1>2, <1>3
<1>4. CASE b # a /\ Active(b)'
  BY <1>1, <1>4 DEF Good, Before, Quiet
<1>5. CASE b # a /\ ~Active(b)'
  <2>1. pc'[b] = "idle" /\ pc'[a] = "idle" /\ Front(a)'
    BY <1>5 DEF Front, Active
  <2>2. Quiet' => Expects(pc[b], job[b])' /\ Awaits(pc[b], job[b])'
    BY <1>2, <2>1 DEF Good, Expects, Awaits
  <2>3. Told(pc[b], job[b])' /\ Before(job[b])'
    BY <1>1, <1>5, <2>1 DEF Told, Before
  <2> QED
    BY <2>2, <2>3 DEF Good
<1> QED
  BY <1>3, <1>4, <1>5

LEMMA ModesStep ==
  ASSUME ModesInv, [Next]_vars
  PROVE  ModesInv'
<1>1. TypeInv' /\ Actor # {}
  BY TypeStep DEF ModesInv
<1>2. CASE Worlds
  <2>1. \A a \in Actor : (Front(a)' <=> Front(a)) /\ (Good(a) => Good(a)')
    BY <1>2, WorldGood DEF ModesInv
  <2>2. pc' = pc /\ job' = job /\ crossed' = crossed
    BY <1>2, WorldGood DEF ModesInv
  <2>3. Alone' /\ CleanAlone' /\ ShapeInv'
    BY <2>1, <2>2 DEF ModesInv, Alone, CleanAlone, ShapeInv, Active, Front
  <2> QED
    BY <1>1, <2>1, <2>3 DEF ModesInv
<1>3. ASSUME NEW a \in Actor, Acts(a) PROVE ModesInv'
  <2>1. Alone' /\ CleanAlone' /\ ShapeInv'
    BY <1>3, ActsMoves, AloneStep, ShapeStep DEF ModesInv
  <2>2. \A b \in Actor : Front(b)' => Good(b)'
    BY <1>3, RestGood
  <2> QED
    BY <1>1, <2>1, <2>2 DEF ModesInv
<1> QED
  BY <1>2, <1>3, NextForm

LEMMA ModesFollow ==
  ASSUME ModesInv
  PROVE  ModesAgree
<1> SUFFICES ASSUME AllIdle, ~crossed, failed \cap {"update", "other"} = {} PROVE prop = stored
  BY DEF ModesAgree
<1>1. PICK a \in Actor : TRUE
  BY DEF ModesInv
<1>2. Front(a) /\ pc[a] = "idle"
  BY DEF AllIdle, Front, Active
<1>3. Expects(pc[a], job[a])
  BY <1>2 DEF ModesInv, Good, Quiet
<1> QED
  BY <1>2, <1>3 DEF Expects

\* At rest the mode told on D-Bus is the stored one, unless operations overlapped or
\* one that matters failed since the last clean switch.  switchModeAux compares the
\* mode with the one from before the call only: it is right because a clean switch
\* starts from the stored mode, and a delayed one still knows the mode that is stored.
THEOREM ModesAgreeAtRest == Spec => []ModesAgree
<1>1. Init => ModesInv
  BY ModesInit
<1>2. ModesInv /\ [Next]_vars => ModesInv'
  BY ModesStep
<1>3. ModesInv => ModesAgree
  BY ModesFollow
<1> QED
  BY <1>1, <1>2, <1>3, PTL DEF Spec

-----------------------------------------------------------------------------
(* What the hardware shows.                                                *)

\* The monitors S show what is to be shown, with the property p and the stored
\* configurations sc of their screen.
RightOf(S, sh, p, sc) ==
    IF One(S) THEN sh.on = S /\ sh.primary \in S
    ELSE /\ sh.mode = p
         /\ sh.on = (IF p = "only" THEN {sc["only"]} ELSE S)
         /\ sh.primary = sc[p]

Right(S) == RightOf(S, shown, prop, screens[S])

\* The job's copy of the stored configurations is not out of date, nor is its set of
\* monitors.
Copied(w, j) ==
  /\ w \in {"apply", "publish", "screen"} =>
        /\ j.screen = screens[j.snap]
        /\ ~j.build => screens[j.snap][Kind(j)] = j.primary
  /\ w \in {"apply", "publish", "screen", "save"} => armed \/ j.snap = ids

\* What was applied is shown.
Seen(w, j) ==
  /\ w \in {"publish", "screen"} /\ j.op # "primary" =>
        /\ shown.mode = Kind(j)
        /\ shown.on = (IF Kind(j) = "only" THEN {j.primary} ELSE j.snap)
  /\ w = "screen" => shown.primary = j.primary
  /\ w = "screen" /\ j.op # "primary" /\ ~One(j.snap) => prop = j.mode
  /\ w = "save" /\ j.mode # "other" => Right(j.snap)

\* What is shown before anything is applied, while only the primary monitor is set,
\* and after all was.
Stays(w, j) ==
  /\ w = "idle" => ids = {} \/ Right(ids)
  /\ w = "publish" /\ j.op = "primary" => Right(ids) /\ prop = "extend"
  /\ w = "screen" /\ j.op = "primary" =>
        prop = "extend" /\ shown.on = ids /\ (~One(ids) => shown.mode = "extend")
  /\ w = "after" => Right(ids) /\ (j.op = "update" => One(ids) \/ prop = j.mode)

Well == ~crossed /\ failed = {}

Shows(a) ==
  /\ Well \/ job[a].clean => Copied(pc[a], job[a]) /\ Seen(pc[a], job[a])
  /\ Well /\ ~armed => Stays(pc[a], job[a])

IdsInv == conn \in {ids, {}}

PropInv == prop # "other" /\ \A a \in Actor : Applied(a) => job[a].mode # "other"

ShownInv ==
    /\ ModesInv
    /\ IdsInv
    /\ PropInv
    /\ \A a \in Actor : Front(a) => Shows(a)

\* A set of one monitor is that monitor.
LEMMA OneIs ==
  ASSUME NEW S \in SUBSET Monitor, One(S), NEW m \in S
  PROVE  S = {m}
<1>1. IsFiniteSet(S)
  BY ConstantsAssumption, FS_Subset
<1>2. PICK x : S = {x}
  BY <1>1, FS_Singleton DEF One
<1> QED
  BY <1>2

\* A configuration is right once it is applied, told and stored.
LEMMA RightForm ==
  ASSUME NEW j \in Job, j.op # "primary", j.op = "only" => j.mode = "only", j.primary \in j.snap,
         NEW sh, NEW p, NEW sc,
         sh.mode = Kind(j),
         sh.on = (IF Kind(j) = "only" THEN {j.primary} ELSE j.snap),
         sh.primary = j.primary,
         sc[Kind(j)] = j.primary,
         ~One(j.snap) => p = j.mode
  PROVE  RightOf(j.snap, sh, p, sc)
<1>1. CASE One(j.snap)
  <2>1. j.snap = {j.primary}
    BY <1>1, OneIs DEF Job
  <2> QED
    BY <1>1, <2>1 DEF RightOf
<1>2. CASE ~One(j.snap)
  <2>1. Kind(j) = j.mode
    BY <1>2 DEF Kind
  <2> QED
    BY <1>2, <2>1 DEF RightOf
<1> QED
  BY <1>1, <1>2

\* The parts of Shows after a goroutine has gone on.
LEMMA FailShows ==
  ASSUME TypeOK, NEW a \in Actor, NEW j \in Job, EndFailed(a, j)
  PROVE  Shows(a)'
<1>1. ~job'[a].clean
  BY EndSettles
<1>2. ~Well'
  BY EndFailedForm DEF Well
<1> QED
  BY <1>1, <1>2 DEF Shows

LEMMA EndShows ==
  ASSUME TypeOK, NEW a \in Actor, NEW j \in Job, End(a, j),
         Well' /\ ~armed' => Right(ids)' /\ (j.op = "update" => One(ids') \/ prop' = j.mode)
  PROVE  Shows(a)'
<1>1. ~job'[a].clean
  BY EndSettles
<1>2. CASE Continue(a, "after", Resting(j))
  <2>1. pc'[a] = "after" /\ job'[a] = Resting(j)
    BY <1>2, ContinueFrame
  <2>2. Resting(j).op = j.op /\ Resting(j).mode = j.mode
    BY RestingType
  <2> QED
    BY <1>1, <2>1, <2>2 DEF Shows, Copied, Seen, Stays
<1>3. CASE Continue(a, "idle", NoJob)
  <2>1. pc'[a] = "idle"
    BY <1>3, ContinueFrame
  <2> QED
    BY <1>1, <2>1 DEF Shows, Copied, Seen, Stays
<1> QED
  BY <1>2, <1>3, EndForm

LEMMA ThenShows ==
  ASSUME TypeOK, NEW a \in Actor, NEW j \in Job, Then(a, j),
         Well' \/ j.clean => /\ armed' \/ j.snap = ids'
                             /\ j.mode # "other" => Right(j.snap)'
                             /\ j.op = "update" => One(j.snap) \/ prop' = j.mode,
         Well' /\ j.mode = "other" => j.op \in Switching /\ j.old # j.mode
  PROVE  Shows(a)'
<1>1. CASE j.op \in Switching /\ j.old # j.mode /\ Continue(a, "save", Saving(j))
  <2>1. /\ pc'[a] = "save" /\ job'[a] = Saving(j)
        /\ Saving(j).mode = j.mode /\ Saving(j).snap = j.snap /\ Saving(j).clean = j.clean
    BY <1>1, ContinueFrame, SavingType
  <2>2. Well' \/ j.clean => Copied("save", Saving(j))' /\ Seen("save", Saving(j))'
    BY <2>1 DEF Copied, Seen
  <2>3. Stays("save", Saving(j))'
    BY DEF Stays
  <2> QED
    BY <2>1, <2>2, <2>3 DEF Shows
<1>2. CASE j.op \in Switching => j.old = j.mode
  <2>1. Well' /\ ~armed' => /\ Right(ids)'
                            /\ j.op = "update" => One(ids') \/ prop' = j.mode
    <3> SUFFICES ASSUME Well', ~armed' PROVE Right(ids)' /\ (j.op = "update" => One(ids') \/ prop' = j.mode)
      OBVIOUS
    <3>1. j.snap = ids' /\ Right(j.snap)'
      BY <1>2
    <3>2. Right(ids)'
      BY <3>1
    <3> QED
      BY <3>1, <3>2
  <2>2. CASE Continue(a, "after", Resting(j))
    <3>1. pc'[a] = "after" /\ job'[a] = Resting(j)
      BY <2>2, ContinueFrame
    <3>2. Resting(j).op = j.op /\ Resting(j).mode = j.mode /\ Resting(j).clean = FALSE
      BY RestingType
    <3> QED
      BY <2>1, <3>1, <3>2 DEF Shows, Copied, Seen, Stays
  <2>3. CASE Continue(a, "idle", NoJob)
    <3>1. pc'[a] = "idle" /\ job'[a].clean = FALSE
      BY <2>3, ContinueFrame DEF NoJob
    <3> QED
      BY <2>1, <3>1 DEF Shows, Copied, Seen, Stays
  <2> QED
    BY <1>2, <2>2, <2>3, ThenForm
<1> QED
  BY <1>1, <1>2, ThenForm

LEMMA ReadShows ==
  ASSUME TypeInv, NEW a \in Actor, NEW j \in Job, Read(a, j), Named(j),
         screens' = screens,
         j.snap # {} => armed' \/ j.snap = ids',
         j.mode = "other" => j.op \in Switching,
         Well' => j.old # "other" \/ j.mode # "other",
         j.op # "primary"
  PROVE  Shows(a)'
<1>0. TypeOK /\ ScreensFit
  BY DEF TypeInv
<1>1. CASE EndFailed(a, j)
  BY <1>0, <1>1, FailShows
<1>2. CASE Kind(j) = "other" /\ j.snap # {} /\ Then(a, j)
  <2>1. j.mode = "other" /\ j.op \in Switching
    BY <1>2, KindIn
  <2> QED
    BY <1>0, <1>2, <2>1, ThenShows DEF Switching
<1>3. CASE Kind(j) # "other" /\ j.snap # {} /\ ~BadName(j) /\ Continue(a, "apply", Applying(j))
  <2> DEFINE k == Applying(j)
  <2>1. pc'[a] = "apply" /\ job'[a] = k
    BY <1>0, <1>3, ContinueFrame
  <2>2. /\ k.op = j.op /\ k.snap = j.snap /\ k.screen = screens[j.snap] /\ k.primary = Primary(j)
        /\ k.build = (Configured(j) = None) /\ Kind(k) = Kind(j)
    BY <1>0, <1>3, ApplyingType
  <2>3. ~k.build => screens[j.snap][Kind(j)] = Primary(j)
    BY <1>0, <1>3, <2>2, PrimaryIn
  <2>4. PICK r \in Job : r = k
    BY <1>0, <1>3, ApplyingType
  <2> HIDE DEF k
  <2>5. /\ r.op = j.op /\ r.snap = j.snap /\ r.screen = screens[j.snap] /\ Kind(r) = Kind(j)
        /\ ~r.build => screens[j.snap][Kind(j)] = r.primary
    BY <2>2, <2>3, <2>4
  <2>6. Copied("apply", r)'
    BY <1>3, <2>5 DEF Copied
  <2>7. Seen("apply", r)' /\ Stays("apply", r)'
    BY DEF Seen, Stays
  <2> QED
    BY <2>1, <2>4, <2>6, <2>7 DEF Shows
<1> QED
  BY <1>1, <1>2, <1>3, ReadForm

\* Where nothing is applied yet and what is shown stays as it is.
LEMMA StaysShows ==
  ASSUME TypeOK, NEW a \in Actor, NEW where \in {"idle", "mode"}, NEW j \in Job, Continue(a, where, j),
         where = "idle" /\ Well' /\ ~armed' => (ids = {} \/ Right(ids))'
  PROVE  Shows(a)'
<1>1. pc'[a] = where
  BY ContinueFrame
<1> QED
  BY <1>1 DEF Shows, Copied, Seen, Stays

\* An operation that begins without crossing another begins with all right.
LEMMA BeginsRight ==
  ASSUME NEW a \in Actor, Front(a) => Shows(a), pc[a] = "idle",
         crossed' = (crossed \/ Crosses(a)), failed \subseteq failed', armed' = armed
  PROVE  Well' /\ ~armed' => ids = {} \/ Right(ids)
<1>1. ~Crosses(a) => Front(a)
  BY DEF Crosses, Busy, Front, Active
<1>2. Well' => Well /\ ~Crosses(a)
  BY DEF Well
<1> QED
  BY <1>1, <1>2 DEF Shows, Stays

LEMMA WellQuiet == Well' => Quiet'
BY DEF Well, Quiet

LEMMA SwitchShows ==
  ASSUME ShownInv, NEW c \in Caller, NEW m \in Asked, NEW n \in Monitor \cup {None}, SwitchMode(c, m, n)
  PROVE  Shows(c)'
<1>0. TypeOK
  BY DEF ShownInv, ModesInv, TypeInv
<1>1. TypeInv /\ c \in Actor /\ (Front(c) => Shows(c)) /\ IdsInv
  BY DEF ShownInv, ModesInv, Actor
<1>2. /\ pc[c] = "idle" /\ crossed' = (crossed \/ Crosses(c))
      /\ UNCHANGED <<ids, armed, prop, screens, shown>>
  BY <1>0, SwitchForm DEF config, display
<1>3. CASE Continue(c, "idle", NoJob) /\ failed' = failed
  <2>1. Well' /\ ~armed' => ids = {} \/ Right(ids)
    BY <1>1, <1>2, <1>3, BeginsRight
  <2>2. (ids = {} \/ Right(ids)) => (ids = {} \/ Right(ids))'
    BY <1>2 DEF Right
  <2> QED
    BY <1>0, <1>1, <1>3, <2>1, <2>2, NoJobType, StaysShows
<1>4. ASSUME NEW j \in Job, Read(c, j), j.op = "switch", j.old = prop, j.name = n, j.mode = m, j.snap = conn,
             ~One(conn), n # None => m = "only"
      PROVE  Shows(c)'
  <2>1. Named(j)
    BY <1>4 DEF Named, Kind
  <2>2. j.snap # {} => armed' \/ j.snap = ids'
    BY <1>1, <1>2, <1>4 DEF IdsInv
  <2>3. prop # "other"
    BY DEF ShownInv, PropInv
  <2> QED
    BY <1>1, <1>2, <1>4, <2>1, <2>2, <2>3, ReadShows DEF Switching
<1> QED
  BY <1>0, <1>3, <1>4, SwitchForm

LEMMA PrimaryShows ==
  ASSUME ShownInv, NEW c \in Caller, NEW n \in Monitor, SetPrimary(c, n)
  PROVE  Shows(c)'
<1>0. TypeOK
  BY DEF ShownInv, ModesInv, TypeInv
<1>1. TypeInv /\ c \in Actor /\ (Front(c) => Shows(c)) /\ IdsInv
  BY DEF ShownInv, ModesInv, Actor
<1>2. /\ pc[c] = "idle" /\ crossed' = (crossed \/ Crosses(c))
      /\ UNCHANGED <<ids, armed, prop, screens, shown>>
  BY <1>0, PrimaryForm DEF config, display
<1>3. CASE prop = "only"
  <2>1. PICK j \in Job : Read(c, j) /\ j.op = "only" /\ j.mode = "only" /\ j.snap = conn
    BY <1>0, <1>3, PrimaryOnly
  <2>2. Named(j)
    BY <2>1 DEF Named, Kind
  <2>3. j.snap # {} => armed' \/ j.snap = ids'
    BY <1>1, <1>2, <2>1 DEF IdsInv
  <2> QED
    BY <1>1, <1>2, <2>1, <2>2, <2>3, ReadShows
<1>4. CASE prop # "only"
  <2>1. prop = "extend" /\ n \in conn /\ failed' = failed
    BY <1>0, <1>4, PrimaryExtend
  <2>2. PICK j \in Job : /\ Continue(c, "publish", j)
                         /\ j.op = "primary" /\ j.snap = conn /\ j.screen = screens[conn]
                         /\ j.build /\ ~j.clean
    BY <1>0, <1>4, PrimaryExtend
  <2>3. pc'[c] = "publish" /\ job'[c] = j
    BY <1>0, <1>1, <2>2, ContinueFrame
  <2>4. Well' /\ ~armed' => ids = {} \/ Right(ids)
    BY <1>1, <1>2, <2>1, BeginsRight
  <2>5. conn = ids /\ ids # {}
    BY <1>1, <2>1 DEF IdsInv
  <2>6. Right(ids) => Right(ids)'
    BY <1>2 DEF Right
  <2>7. Copied("publish", j)'
    BY <1>2, <2>2, <2>5 DEF Copied
  <2>8. Seen("publish", j)'
    BY <2>2 DEF Seen
  <2>9. Well' /\ ~armed' => Stays("publish", j)'
    BY <1>2, <2>1, <2>4, <2>5, <2>6 DEF Stays
  <2> QED
    BY <2>3, <2>7, <2>8, <2>9 DEF Shows
<1> QED
  BY <1>3, <1>4

LEMMA UpdateShows ==
  ASSUME ShownInv, NEW c \in Caller, NEW m \in Asked, Update(c, m)
  PROVE  Shows(c)'
<1>0. TypeOK
  BY DEF ShownInv, ModesInv, TypeInv
<1>1. TypeInv /\ c \in Actor /\ IdsInv
  BY DEF ShownInv, ModesInv, Actor
<1>2. UNCHANGED <<ids, armed, prop, screens, shown>>
  BY <1>0, UpdateForm DEF display
<1>3. PICK j \in Job : Read(c, j) /\ j.op = "update" /\ j.mode # "other" /\ j.name = None /\ j.snap = conn
  BY <1>0, UpdateForm
<1>4. Named(j)
  BY <1>3 DEF Named
<1>5. j.snap # {} => armed' \/ j.snap = ids'
  BY <1>1, <1>2, <1>3 DEF IdsInv
<1> QED
  BY <1>1, <1>2, <1>3, <1>4, <1>5, ReadShows

LEMMA TimerShows ==
  ASSUME ShownInv, NEW t \in Timer, TimerFire(t)
  PROVE  Shows(t)'
<1>0. TypeOK /\ OneDelay
  BY DEF ShownInv, ModesInv, TypeInv
<1>1. TypeInv /\ t \in Actor /\ IdsInv /\ prop # "other" /\ (Front(t) => Good(t))
  BY DEF ShownInv, ModesInv, PropInv, Actor
<1>2. /\ pc[t] = "idle" /\ crossed' = (crossed \/ Crosses(t))
      /\ UNCHANGED <<ids, prop, screens, shown>>
  BY <1>0, TimerForm DEF config
<1>3. CASE \E j \in Job : Continue(t, "mode", j)
  BY <1>0, <1>1, <1>3, StaysShows
<1>4. CASE /\ Pending /\ Many(conn)
           /\ \E d \in delay, j \in Job :
                    /\ Read(t, j)
                    /\ j.op = "delayed" /\ j.old = d.old /\ j.snap = conn
                    /\ j.name # None => j.mode = "only"
  <2>1. PICK d \in delay, j \in Job :
           /\ Read(t, j)
           /\ j.op = "delayed" /\ j.old = d.old /\ j.snap = conn
           /\ j.name # None => j.mode = "only"
    BY <1>4
  <2>2. d.fresh
    BY <1>0, <1>4 DEF OneDelay, Pending
  <2>3. failed \subseteq failed'
    BY <2>1, ReadFailed
  <2>4. Well' => d.old = prop
    BY <1>0, <1>1, <1>2, <2>2, <2>3, BeginsAlone, WellQuiet
  <2>5. Named(j)
    BY <1>4, <2>1 DEF Named, Kind, Many, One
  <2>6. j.snap # {} => j.snap = ids'
    BY <1>1, <1>2, <2>1 DEF IdsInv
  <2> QED
    BY <1>1, <1>2, <2>1, <2>4, <2>5, <2>6, ReadShows DEF Switching
<1> QED
  BY <1>0, <1>3, <1>4, TimerForm

LEMMA ApplyConfigShows ==
  ASSUME ShownInv, NEW a \in Actor, ApplyConfig(a)
  PROVE  Shows(a)'
<1>0. TypeOK
  BY DEF ShownInv, ModesInv, TypeInv
<1>1. TypeInv /\ IdsInv /\ prop # "other"
  BY DEF ShownInv, ModesInv, PropInv
<1>2. UNCHANGED <<ids, armed, prop, screens, shown>>
  BY <1>0, ApplyConfigForm DEF display, config
<1>3. PICK j \in Job : /\ Read(a, j) /\ j.name = None /\ j.snap = conn
                       /\ \/ j.op = "config" /\ j.mode = prop
                          \/ j.op = "auto" /\ j.mode = "mirror"
  BY <1>0, ApplyConfigForm
<1>4. Named(j)
  BY <1>3 DEF Named
<1>5. j.snap # {} => armed' \/ j.snap = ids'
  BY <1>1, <1>2, <1>3 DEF IdsInv
<1> QED
  BY <1>1, <1>2, <1>3, <1>4, <1>5, ReadShows

LEMMA ApplyShows ==
  ASSUME ShownInv, NEW a \in Actor, Apply(a), Shows(a)
  PROVE  Shows(a)'
<1>0. TypeOK /\ Shaped(pc[a], job[a])
  BY DEF ShownInv, ModesInv, TypeInv, ShapeInv
<1>1. PICK j \in Job : j = job[a]
  BY <1>0 DEF TypeOK
<1>2. /\ pc[a] = "apply" /\ Continue(a, "publish", j)
      /\ shown' = [shown EXCEPT !.mode = Kind(j), !.on = IF Kind(j) = "only" THEN {j.primary} ELSE j.snap]
      /\ UNCHANGED <<ids, armed, screens, failed, crossed>>
  BY <1>1 DEF Apply, At, display, config, history
<1>3. pc'[a] = "publish" /\ job'[a] = j /\ j.op # "primary"
  BY <1>0, <1>1, <1>2, ContinueFrame DEF Shaped
<1>4. Well' \/ j.clean => Copied("publish", j)'
  <2>1. Well' \/ j.clean => Copied("apply", j)
    BY <1>1, <1>2 DEF Shows, Well
  <2> QED
    BY <1>2, <2>1 DEF Copied
<1>5. Seen("publish", j)'
  <2>1. shown'.mode = Kind(j)
    BY <1>0, <1>2 DEF TypeOK, Shown
  <2>2. shown'.on = (IF Kind(j) = "only" THEN {j.primary} ELSE j.snap)
    BY <1>0, <1>2 DEF TypeOK, Shown
  <2> QED
    BY <2>1, <2>2 DEF Seen
<1>6. Stays("publish", j)'
  BY <1>3 DEF Stays
<1> QED
  BY <1>3, <1>4, <1>5, <1>6 DEF Shows

LEMMA FailsShows ==
  ASSUME ShownInv, NEW a \in Actor, ApplyFails(a) \/ RefusePrimary(a)
  PROVE  Shows(a)'
<1>1. TypeOK /\ job[a] \in Job
  BY DEF ShownInv, ModesInv, TypeInv, TypeOK
<1>2. EndFailed(a, job[a])
  BY DEF ApplyFails, RefusePrimary
<1> QED
  BY <1>1, <1>2, FailShows

LEMMA PublishShows ==
  ASSUME ShownInv, NEW a \in Actor, Publish(a), Shows(a)
  PROVE  Shows(a)'
<1>0. TypeOK /\ Shaped(pc[a], job[a])
  BY DEF ShownInv, ModesInv, TypeInv, ShapeInv
<1>1. PICK j \in Job : j = job[a]
  BY <1>0 DEF TypeOK
<1>2. /\ pc[a] = "publish" /\ (Well' => Well)
      /\ UNCHANGED <<ids, armed, screens, crossed>>
      /\ prop' = (IF j.op = "primary" \/ Kind(j) = "single" THEN prop ELSE j.mode)
      /\ shown' = [shown EXCEPT !.primary = j.primary] \/ (shown' = shown /\ ~Well')
  BY <1>1 DEF Publish, At, display, config, Well
<1>3. j.mode # "other" /\ j.primary \in j.snap
  BY <1>1, <1>2 DEF ShownInv, ModesInv, TypeInv, PropInv, Applied, JobFits
<1>4. PICK k \in Job :
        /\ k.op = j.op /\ k.mode = j.mode /\ k.snap = j.snap /\ k.screen = j.screen /\ k.old = j.old
        /\ k.primary = j.primary /\ k.build = j.build
        /\ k.clean => j.clean /\ shown'.primary = j.primary
        /\ (j.build /\ Continue(a, "screen", k)) \/ (~j.build /\ Then(a, k))
  <2> DEFINE k == [j EXCEPT !.clean = @ /\ shown'.primary = j.primary]
  <2>1. /\ k \in Job
        /\ k.op = j.op /\ k.mode = j.mode /\ k.snap = j.snap /\ k.screen = j.screen /\ k.old = j.old
        /\ k.primary = j.primary /\ k.build = j.build
        /\ k.clean => j.clean /\ shown'.primary = j.primary
    BY DEF Job
  <2>2. (j.build /\ Continue(a, "screen", k)) \/ (~j.build /\ Then(a, k))
    BY <1>1 DEF Publish
  <2> HIDE DEF k
  <2> QED
    BY <2>1, <2>2
<1>5. Kind(k) = Kind(j)
  BY <1>4 DEF Kind
<1>6. shown'.mode = shown.mode /\ shown'.on = shown.on
  BY <1>0, <1>2 DEF TypeOK, Shown
<1>7. Well' \/ k.clean => shown'.primary = k.primary
  BY <1>0, <1>2, <1>4 DEF TypeOK, Shown
<1>8. Well' \/ k.clean => Copied("publish", j) /\ Seen("publish", j)
  BY <1>1, <1>2, <1>4 DEF Shows
<1>9. k.op # "primary" /\ ~One(k.snap) => prop' = k.mode
  <2>1. ~One(j.snap) => Kind(j) = j.mode /\ j.mode # "single"
    BY DEF Kind, Job, Modes
  <2> QED
    BY <1>2, <1>4, <2>1
<1>10. CASE j.build /\ Continue(a, "screen", k)
  <2>1. pc'[a] = "screen" /\ job'[a] = k
    BY <1>0, <1>10, ContinueFrame
  <2>2. Well' \/ k.clean => Copied("screen", k)'
    BY <1>2, <1>4, <1>8, <1>10 DEF Copied
  <2>3. Well' \/ k.clean => Seen("screen", k)'
    BY <1>4, <1>5, <1>6, <1>7, <1>8, <1>9 DEF Seen
  <2>4. Well' /\ ~armed' => Stays("screen", k)'
    <3> SUFFICES ASSUME Well', ~armed', j.op = "primary" PROVE Stays("screen", k)'
      BY <1>4 DEF Stays
    <3>1. Right(ids) /\ prop = "extend" /\ prop' = "extend"
      BY <1>1, <1>2 DEF Shows, Stays
    <3>2. shown.on = ids /\ (~One(ids) => shown.mode = "extend")
      BY <3>1 DEF Right, RightOf
    <3> QED
      BY <1>2, <1>6, <3>1, <3>2 DEF Stays
  <2> QED
    BY <2>1, <2>2, <2>3, <2>4 DEF Shows
<1>11. CASE ~j.build /\ Then(a, k)
  <2>1. k.op # "primary" /\ (k.op = "only" => k.mode = "only") /\ (k.op = "update" => k.mode # "other")
    BY <1>0, <1>1, <1>2, <1>4, <1>11 DEF Shaped
  <2>2. Well' \/ k.clean => Right(k.snap)'
    <3> SUFFICES ASSUME Well' \/ k.clean PROVE RightOf(k.snap, shown', prop', screens'[k.snap])
      BY DEF Right
    <3>1. screens'[k.snap][Kind(k)] = k.primary
      BY <1>2, <1>4, <1>5, <1>8, <1>11 DEF Copied
    <3>2. /\ shown'.mode = Kind(k)
          /\ shown'.on = (IF Kind(k) = "only" THEN {k.primary} ELSE k.snap)
      BY <1>4, <1>5, <1>6, <1>8, <2>1 DEF Seen
    <3> QED
      BY <1>3, <1>4, <1>7, <1>9, <2>1, <3>1, <3>2, RightForm
  <2>3. Well' \/ k.clean => armed' \/ k.snap = ids'
    BY <1>2, <1>4, <1>8 DEF Copied
  <2>4. k.op = "update" => One(k.snap) \/ prop' = k.mode
    BY <1>9
  <2> QED
    BY <1>0, <1>3, <1>4, <1>11, <2>2, <2>3, <2>4, ThenShows
<1> QED
  BY <1>4, <1>10, <1>11

LEMMA ScreenShows ==
  ASSUME ShownInv, NEW a \in Actor, SaveScreen(a), Shows(a)
  PROVE  Shows(a)'
<1>0. TypeOK /\ Shaped(pc[a], job[a])
  BY DEF ShownInv, ModesInv, TypeInv, ShapeInv
<1>1. PICK j \in Job : j = job[a]
  BY <1>0 DEF TypeOK
<1>2. /\ pc[a] = "screen" /\ Then(a, j)
      /\ UNCHANGED <<ids, armed, prop, stored, shown, failed, crossed>>
      /\ screens' = [screens EXCEPT ![j.snap] = [j.screen EXCEPT ![Kind(j)] = j.primary]]
  BY <1>1 DEF SaveScreen, At, display, history
<1>3. Kind(j) # "other" /\ j.primary \in j.snap /\ j.mode # "other"
  BY <1>1, <1>2 DEF ShownInv, ModesInv, TypeInv, PropInv, Applied, JobFits
<1>4. screens'[j.snap][Kind(j)] = j.primary
  <2>1. screens'[j.snap] = [j.screen EXCEPT ![Kind(j)] = j.primary]
    BY <1>0, <1>2 DEF TypeOK, Job
  <2>2. Kind(j) \in {"single", "mirror", "extend", "only"}
    BY <1>3, KindIn DEF Modes
  <2> QED
    BY <2>1, <2>2 DEF Job, ScreenCfg
<1>5. Well' \/ j.clean => Copied("screen", j) /\ Seen("screen", j)
  BY <1>1, <1>2 DEF Shows, Well
<1>6. Well' /\ ~armed' => Stays("screen", j)
  BY <1>1, <1>2 DEF Shows, Well
<1>7. j.op = "only" => j.mode = "only"
  BY <1>0, <1>1, <1>2 DEF Shaped
<1>8. Well' \/ j.clean => armed' \/ j.snap = ids'
  BY <1>2, <1>5 DEF Copied
<1>9. j.op = "update" /\ (Well' \/ j.clean) => One(j.snap) \/ prop' = j.mode
  BY <1>2, <1>5 DEF Seen
<1>10. j.op # "primary" /\ (Well' \/ j.clean) => Right(j.snap)'
  <2> SUFFICES ASSUME Well' \/ j.clean, j.op # "primary"
               PROVE  RightOf(j.snap, shown', prop', screens'[j.snap])
    BY DEF Right
  <2>1. /\ shown'.mode = Kind(j)
        /\ shown'.on = (IF Kind(j) = "only" THEN {j.primary} ELSE j.snap)
        /\ shown'.primary = j.primary
        /\ ~One(j.snap) => prop' = j.mode
    BY <1>2, <1>5 DEF Seen
  <2> QED
    BY <1>3, <1>4, <1>7, <2>1, RightForm
<1>11. CASE j.op # "primary"
  BY <1>0, <1>2, <1>3, <1>8, <1>9, <1>10, <1>11, ThenShows
<1>12. CASE j.op = "primary"
  <2>1. j.mode = "extend" /\ Kind(j) = "extend"
    BY <1>0, <1>1, <1>2, <1>12 DEF Shaped, Kind
  <2>2. j.op \notin {"delayed", "update"} /\ Continue(a, "idle", NoJob)
    BY <1>2, <1>12, ThenForm DEF Switching
  <2>3. Well' /\ ~armed' => Right(ids)'
    <3> SUFFICES ASSUME Well', ~armed' PROVE RightOf(ids', shown', prop', screens'[ids'])
      BY DEF Right
    <3>1. j.snap = ids' /\ j.snap = ids
      BY <1>2, <1>8
    <3>2. prop' = "extend" /\ shown'.on = ids' /\ (~One(ids') => shown'.mode = "extend")
      BY <1>2, <1>6, <1>12 DEF Stays
    <3>3. shown'.primary = j.primary
      BY <1>2, <1>5 DEF Seen
    <3> QED
      BY <1>3, <1>4, <2>1, <3>1, <3>2, <3>3 DEF RightOf
  <2> QED
    BY <1>0, <2>2, <2>3, NoJobType, StaysShows
<1> QED
  BY <1>11, <1>12

LEMMA SaveShows ==
  ASSUME ShownInv, NEW a \in Actor, SaveMode(a), Shows(a)
  PROVE  Shows(a)'
<1>0. TypeOK /\ Shaped(pc[a], job[a])
  BY DEF ShownInv, ModesInv, TypeInv, ShapeInv
<1>1. PICK j \in Job : j = job[a]
  BY <1>0 DEF TypeOK
<1>2. /\ pc[a] = "save" /\ End(a, j) /\ UNCHANGED <<ids, armed, prop, screens, shown>>
  BY <1>1 DEF SaveMode, At, display
<1>3. Well' => j.mode # "other" /\ (Well \/ j.clean)
  BY <1>1 DEF SaveMode, Well
<1>4. Well' /\ ~armed' => j.snap = ids /\ Right(j.snap)
  BY <1>1, <1>2, <1>3 DEF Shows, Copied, Seen
<1>5. Well' /\ ~armed' => Right(ids)'
  BY <1>2, <1>4 DEF Right
<1>6. j.op # "update"
  BY <1>0, <1>1, <1>2 DEF Shaped, Switching
<1> QED
  BY <1>0, <1>2, <1>5, <1>6, EndShows

LEMMA FinishShows ==
  ASSUME ShownInv, NEW a \in Actor, Finish(a), Shows(a)
  PROVE  Shows(a)'
<1>0. TypeOK /\ Shaped(pc[a], job[a])
  BY DEF ShownInv, ModesInv, TypeInv, ShapeInv
<1>1. PICK j \in Job : j = job[a]
  BY <1>0 DEF TypeOK
<1>2. /\ pc[a] = "after" /\ Continue(a, "idle", NoJob)
      /\ UNCHANGED <<ids, armed, screens, shown, failed, crossed>>
      /\ prop' = (IF j.op = "delayed" THEN prop ELSE j.mode)
      /\ j.op \in {"delayed", "update"}
  BY <1>0, <1>1 DEF Finish, At, display, config, history, Shaped
<1>3. Well' /\ ~armed' => Right(ids) /\ (j.op = "update" => One(ids) \/ prop = j.mode)
  BY <1>1, <1>2 DEF Shows, Stays, Well
<1>4. Well' /\ ~armed' => Right(ids)'
  BY <1>2, <1>3 DEF Right, RightOf
<1> QED
  BY <1>0, <1>2, <1>4, NoJobType, StaysShows

\* What stays and what holds whoever runs.
LEMMA ReadProp ==
  ASSUME TypeOK, NEW a \in Actor, NEW j \in Job, Read(a, j), j.mode # "other" \/ ~One(j.snap)
  PROVE  Applied(a)' => job'[a].mode # "other"
<1>1. CASE Kind(j) # "other" /\ j.snap # {} /\ Continue(a, "apply", Applying(j))
  <2>1. j.mode # "other"
    BY <1>1 DEF Kind
  <2>2. job'[a] = Applying(j)
    BY <1>1, ContinueFrame
  <2>3. Applying(j).mode = j.mode
    BY <1>1, ApplyingType
  <2> QED
    BY <2>1, <2>2, <2>3
<1>2. CASE Then(a, j) \/ EndFailed(a, j)
  <2>1. \E k : Continue(a, "save", k) \/ Continue(a, "after", k) \/ Continue(a, "idle", k)
    BY <1>2, ThenForm, EndFailedForm
  <2>2. pc'[a] \in {"save", "after", "idle"}
    BY <2>1, ContinueFrame
  <2> QED
    BY <2>2 DEF Applied
<1> QED
  BY <1>1, <1>2, ReadForm

LEMMA EndProp ==
  ASSUME TypeOK, NEW a \in Actor, NEW j \in Job, Then(a, j) \/ End(a, j) \/ EndFailed(a, j)
  PROVE  ~Applied(a)'
<1>1. \E k : Continue(a, "save", k) \/ Continue(a, "after", k) \/ Continue(a, "idle", k)
  BY ThenForm, EndForm, EndFailedForm
<1>2. pc'[a] \in {"save", "after", "idle"}
  BY <1>1, ContinueFrame
<1> QED
  BY <1>2 DEF Applied

LEMMA PropOthers ==
  ASSUME TypeInv, PropInv, NEW a \in Actor, Acts(a), prop' # "other",
         Applied(a)' => job'[a].mode # "other"
  PROVE  PropInv'
<1>1. PICK where, k : Continue(a, where, k)
  BY ActsMoves DEF Moves
<1> SUFFICES ASSUME NEW b \in Actor \ {a}, Applied(b)' PROVE job'[b].mode # "other"
  BY DEF PropInv
<1>2. pc'[b] = pc[b] /\ job'[b].mode = job[b].mode
  BY <1>1, OtherJobs DEF TypeInv
<1> QED
  BY <1>2 DEF PropInv, Applied

LEMMA PropStep ==
  ASSUME TypeInv, ShapeInv, PropInv, NEW a \in Actor, Acts(a)
  PROVE  PropInv'
<1>0. TypeOK /\ job[a] \in Job /\ Shaped(pc[a], job[a]) /\ prop # "other"
  BY DEF TypeInv, TypeOK, ShapeInv, PropInv
<1> SUFFICES prop' # "other" /\ (Applied(a)' => job'[a].mode # "other")
  BY PropOthers
<1> DEFINE Kept == prop' # "other" /\ (Applied(a)' => job'[a].mode # "other")
<1>1. ASSUME a \in Caller, NEW m \in Asked, NEW n \in Monitor \cup {None}, SwitchMode(a, m, n)
      PROVE  Kept
  <2>1. prop' = prop
    BY <1>0, <1>1, SwitchForm
  <2>2. CASE Continue(a, "idle", NoJob)
    BY <1>0, <2>1, <2>2, ContinueFrame DEF Applied
  <2>3. CASE \E j \in Job : Read(a, j) /\ ~One(j.snap)
    BY <1>0, <2>1, <2>3, ReadProp
  <2> QED
    BY <1>0, <1>1, <2>2, <2>3, SwitchForm
<1>2. ASSUME a \in Caller, NEW n \in Monitor, SetPrimary(a, n)
      PROVE  Kept
  <2>1. prop' = prop
    BY <1>0, <1>2, PrimaryForm
  <2>2. CASE prop = "only"
    <3>1. PICK j \in Job : Read(a, j) /\ j.mode = "only"
      BY <1>0, <1>2, <2>2, PrimaryOnly
    <3> QED
      BY <1>0, <2>1, <3>1, ReadProp
  <2>3. CASE prop # "only"
    <3>1. PICK j \in Job : Continue(a, "publish", j) /\ j.mode = "extend"
      BY <1>0, <1>2, <2>3, PrimaryExtend
    <3>2. job'[a] = j
      BY <1>0, <3>1, ContinueFrame
    <3> QED
      BY <1>0, <2>1, <3>1, <3>2
  <2> QED
    BY <2>2, <2>3
<1>3. ASSUME a \in Caller, NEW m \in Asked, Update(a, m)
      PROVE  Kept
  <2>1. prop' = prop
    BY <1>0, <1>3, UpdateForm
  <2>2. /\ m # "other"
        /\ \E j \in Job : /\ Read(a, j)
                          /\ j.op = "update" /\ j.mode = m /\ j.name = None /\ j.snap = conn
                          /\ j.clean = FALSE
    BY <1>0, <1>3, UpdateForm
  <2>3. PICK j \in Job : Read(a, j) /\ j.mode = m
    BY <2>2
  <2> QED
    BY <1>0, <2>1, <2>2, <2>3, ReadProp
<1>4. ASSUME a \in Timer, TimerFire(a)
      PROVE  Kept
  <2>1. prop' = prop
    BY <1>0, <1>4, TimerForm
  <2>2. CASE \E j \in Job : Continue(a, "mode", j)
    BY <1>0, <2>1, <2>2, ContinueFrame DEF Applied
  <2>3. CASE Many(conn) /\ \E j \in Job : Read(a, j) /\ j.snap = conn
    BY <1>0, <2>1, <2>3, ReadProp DEF Many, One
  <2> QED
    BY <1>0, <1>4, <2>2, <2>3, TimerForm
<1>5. CASE ApplyConfig(a)
  <2>1. prop' = prop
    BY <1>0, <1>5, ApplyConfigForm
  <2>2. PICK j \in Job : Read(a, j) /\ (j.mode = prop \/ j.mode = "mirror")
    BY <1>0, <1>5, ApplyConfigForm
  <2> QED
    BY <1>0, <2>1, <2>2, ReadProp
<1>6. CASE Apply(a)
  <2>1. prop' = prop /\ pc[a] = "apply" /\ Continue(a, "publish", job[a])
    BY <1>6 DEF Apply, At
  <2>2. job'[a] = job[a]
    BY <1>0, <2>1, ContinueFrame
  <2> QED
    BY <1>0, <2>1, <2>2 DEF PropInv, Applied
<1>7. CASE ApplyFails(a) \/ RefusePrimary(a)
  <2>1. prop' = prop /\ EndFailed(a, job[a])
    BY <1>7 DEF ApplyFails, RefusePrimary
  <2> QED
    BY <1>0, <2>1, EndProp
<1>8. CASE Publish(a)
  <2> DEFINE k == [job[a] EXCEPT !.clean = @ /\ shown'.primary = job[a].primary]
  <2>1. job[a].mode # "other"
    BY <1>8 DEF Publish, At, PropInv, Applied
  <2>2. prop' # "other"
    BY <1>0, <1>8, <2>1 DEF Publish
  <2>3. k \in Job /\ k.mode = job[a].mode
    BY <1>0 DEF Job
  <2> HIDE DEF k
  <2>4. Continue(a, "screen", k) \/ Then(a, k)
    BY <1>8 DEF Publish, k
  <2>5. CASE Continue(a, "screen", k)
    <3>1. job'[a] = k
      BY <1>0, <2>5, ContinueFrame
    <3> QED
      BY <2>1, <2>2, <2>3, <3>1
  <2> QED
    BY <1>0, <2>2, <2>3, <2>4, <2>5, EndProp
<1>9. CASE SaveScreen(a) \/ SaveMode(a)
  <2>1. prop' = prop /\ (Then(a, job[a]) \/ End(a, job[a]))
    BY <1>9 DEF SaveScreen, SaveMode
  <2> QED
    BY <1>0, <2>1, EndProp
<1>10. CASE Finish(a)
  <2>1. pc'[a] = "idle"
    BY <1>0, <1>10, ContinueFrame DEF Finish
  <2>2. prop' # "other"
    BY <1>0, <1>10 DEF Finish, At, Shaped
  <2> QED
    BY <2>1, <2>2 DEF Applied
<1> QED
  BY <1>1, <1>2, <1>3, <1>4, <1>5, <1>6, <1>7, <1>8, <1>9, <1>10 DEF Acts, Step

\* Whoever steps, what it shows stays shown; those that begin need what is shown at rest.
LEMMA ActsShows ==
  ASSUME ShownInv, NEW a \in Actor, Acts(a), Front(a)
  PROVE  Shows(a)'
<1>1. Shows(a)
  BY DEF ShownInv
<1> QED
  BY <1>1, SwitchShows, PrimaryShows, UpdateShows, TimerShows, ApplyConfigShows, ApplyShows, FailsShows,
     PublishShows, ScreenShows, SaveShows, FinishShows DEF Acts, Step

\* Only a hot-plug changes the monitors, and their identifiers with them.
LEMMA IdsStep ==
  ASSUME TypeOK, IdsInv, [Next]_vars
  PROVE  IdsInv'
<1>1. CASE \E n \in Monitor : Plug(n)
  BY <1>1 DEF Plug, IdsInv
<1>2. CASE BurstEnds \/ DelayExpires \/ UNCHANGED vars
  BY <1>2 DEF BurstEnds, DelayExpires, vars, display, IdsInv
<1>3. ASSUME NEW a \in Actor, Acts(a) PROVE conn' = conn /\ ids' = ids
  <2>1. CASE a \in Caller /\ \E m \in Asked, n \in Monitor \cup {None} : SwitchMode(a, m, n)
    BY <2>1, SwitchForm DEF display
  <2>2. CASE a \in Caller /\ \E n \in Monitor : SetPrimary(a, n)
    BY <2>2, PrimaryForm DEF display
  <2>3. CASE a \in Caller /\ \E m \in Asked : Update(a, m)
    BY <2>3, UpdateForm DEF display
  <2>4. CASE a \in Timer /\ TimerFire(a)
    BY <2>4, TimerForm
  <2>5. CASE ApplyConfig(a)
    BY <2>5, ApplyConfigForm DEF display
  <2>6. CASE Apply(a) \/ ApplyFails(a) \/ Publish(a) \/ RefusePrimary(a)
    BY <2>6 DEF Apply, ApplyFails, Publish, RefusePrimary, display
  <2>7. CASE SaveScreen(a) \/ SaveMode(a) \/ Finish(a)
    BY <2>7 DEF SaveScreen, SaveMode, Finish, display
  <2> QED
    BY <1>3, <2>1, <2>2, <2>3, <2>4, <2>5, <2>6, <2>7 DEF Acts, Step
<1> QED
  BY <1>1, <1>2, <1>3, NextForm DEF Worlds, IdsInv

\* A hot-plug leaves all that is shown alone; other identifiers start the timer.
LEMMA WorldShows ==
  ASSUME TypeInv, Worlds, NEW a \in Actor
  PROVE  /\ Shows(a) => Shows(a)'
         /\ PropInv => PropInv'
<1>1. UNCHANGED <<prop, screens, shown, pc, job, failed, crossed>>
  BY DEF Worlds, Plug, BurstEnds, DelayExpires, vars, config, goro, history
<1>2. armed' = TRUE \/ (ids' = ids /\ armed' = armed)
  BY DEF Worlds, Plug, BurstEnds, DelayExpires, vars, display
<1>3. Copied(pc[a], job[a]) => Copied(pc[a], job[a])'
  BY <1>1, <1>2 DEF Copied
<1>4. Seen(pc[a], job[a]) => Seen(pc[a], job[a])'
  BY <1>1 DEF Seen, Right
<1>5. ~armed' => (Stays(pc[a], job[a]) => Stays(pc[a], job[a])') /\ ~armed
  <2> SUFFICES ASSUME ~armed' PROVE (Stays(pc[a], job[a]) => Stays(pc[a], job[a])') /\ ~armed
    OBVIOUS
  <2>1. ids' = ids /\ armed' = armed
    BY <1>2
  <2>2. Right(ids)' <=> Right(ids)
    BY <1>1, <2>1 DEF Right
  <2>3. Stays(pc[a], job[a]) => Stays(pc[a], job[a])'
    BY <1>1, <2>1, <2>2 DEF Stays
  <2> QED
    BY <2>1, <2>3
<1>6. Shows(a) => Shows(a)'
  BY <1>1, <1>3, <1>4, <1>5 DEF Shows, Well
<1>7. PropInv => PropInv'
  BY <1>1 DEF PropInv, Applied
<1> QED
  BY <1>6, <1>7

LEMMA ShownInit ==
  ASSUME Init
  PROVE  ShownInv
<1>1. ModesInv
  BY ModesInit
<1>2. IdsInv /\ prop # "other"
  BY DEF Init, IdsInv
<1>3. PICK t \in Timer : {a \in Actor : pc[a] = "mode"} = {t}
  BY DEF Init
<1>4. ASSUME NEW a \in Actor
      PROVE  pc[a] \in {"idle", "mode"} /\ ~job[a].clean
  BY DEF Init, NoJob
<1>5. ASSUME NEW a \in Actor, Front(a) PROVE Shows(a)
  <2>1. pc[a] = "mode"
    BY <1>3, <1>5 DEF Front, Active, Actor
  <2>2. Copied(pc[a], job[a]) /\ Seen(pc[a], job[a]) /\ Stays(pc[a], job[a])
    BY <2>1 DEF Copied, Seen, Stays
  <2> QED
    BY <2>2 DEF Shows
<1>6. PropInv
  BY <1>2, <1>4 DEF PropInv, Applied
<1> QED
  BY <1>1, <1>2, <1>5, <1>6 DEF ShownInv

\* What is shown by the goroutine that made the step is shown for those at rest.
LEMMA RestShows ==
  ASSUME ShownInv, NEW a \in Actor, Acts(a), NEW b \in Actor, Front(b)'
  PROVE  Shows(b)'
<1>1. /\ Front(a)' <=> Front(a)
      /\ \A c \in Actor \ {a} : ~job'[c].clean /\ (Active(c)' => crossed')
  BY ActsMoves, AloneStep DEF ShownInv, ModesInv
<1>2. Front(a)' => Shows(a)'
  BY <1>1, ActsShows
<1>3. CASE b = a
  BY <1>2, <1>3
<1>4. CASE b # a /\ Active(b)'
  BY <1>1, <1>4 DEF Shows, Well
<1>5. CASE b # a /\ ~Active(b)'
  <2>1. pc'[b] = "idle" /\ pc'[a] = "idle" /\ Front(a)'
    BY <1>5 DEF Front, Active
  <2>2. Well' /\ ~armed' => Stays(pc[b], job[b])'
    BY <1>2, <2>1 DEF Shows, Stays
  <2>3. Copied(pc[b], job[b])' /\ Seen(pc[b], job[b])'
    BY <2>1 DEF Copied, Seen
  <2> QED
    BY <2>2, <2>3 DEF Shows
<1> QED
  BY <1>3, <1>4, <1>5

LEMMA ShownStep ==
  ASSUME ShownInv, [Next]_vars
  PROVE  ShownInv'
<1>1. ModesInv' /\ IdsInv'
  BY ModesStep, IdsStep DEF ShownInv, ModesInv, TypeInv
<1>2. CASE Worlds
  <2>1. \A a \in Actor : (Front(a)' <=> Front(a)) /\ (Shows(a) => Shows(a)')
    BY <1>2, WorldGood, WorldShows DEF ShownInv, ModesInv
  <2>2. PropInv'
    BY <1>2, WorldShows DEF ShownInv, ModesInv
  <2> QED
    BY <1>1, <2>1, <2>2 DEF ShownInv
<1>3. ASSUME NEW a \in Actor, Acts(a) PROVE ShownInv'
  <2>1. \A b \in Actor : Front(b)' => Shows(b)'
    BY <1>3, RestShows
  <2>2. PropInv'
    BY <1>3, PropStep DEF ShownInv, ModesInv
  <2> QED
    BY <1>1, <2>1, <2>2 DEF ShownInv
<1> QED
  BY <1>2, <1>3, NextForm

LEMMA ShownFollow ==
  ASSUME ShownInv
  PROVE  ShownAgrees
<1> SUFFICES ASSUME AllIdle, ~crossed, failed = {}, ~armed, conn # {}
             PROVE  IF One(conn)
                      THEN shown.on = conn /\ shown.primary \in conn
                      ELSE /\ shown.mode = prop
                           /\ shown.on = IF prop = "only" THEN {screens[conn]["only"]} ELSE conn
                           /\ shown.primary = screens[conn][prop]
  BY DEF ShownAgrees
<1>1. PICK a \in Actor : TRUE
  BY DEF ShownInv, ModesInv
<1>2. Front(a) /\ pc[a] = "idle"
  BY DEF AllIdle, Front, Active
<1>3. Stays(pc[a], job[a]) /\ ids = conn
  BY <1>2 DEF ShownInv, Shows, Well, IdsInv
<1>4. Right(conn)
  BY <1>2, <1>3 DEF Stays
<1> QED
  BY <1>4 DEF Right, RightOf

\* At rest the hardware shows the connected monitors, all or the stored one, in the
\* mode told on D-Bus and with the stored primary monitor, unless operations
\* overlapped or failed since the last clean switch.  What is applied, told and
\* stored are three steps of switchModeAux and applySysMonitorConfigs; that they
\* agree rests on the copy the job made of the stored configurations (Copied) and on
\* the timer: a hot-plug that makes the copy out of date starts it.
THEOREM ShownAgreesAtRest == Spec => []ShownAgrees
<1>1. Init => ShownInv
  BY ShownInit
<1>2. ShownInv /\ [Next]_vars => ShownInv'
  BY ShownStep
<1>3. ShownInv => ShownAgrees
  BY ShownFollow
<1> QED
  BY <1>1, <1>2, <1>3, PTL DEF Spec

=============================================================================
