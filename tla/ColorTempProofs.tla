--------------------------- MODULE ColorTempProofs ---------------------------
(***************************************************************************)
(* Proofs about ColorTemp, for every set of goroutines, of processes and   *)
(* of temperatures, for all modes at once and any number of calls.         *)
(***************************************************************************)
EXTENDS ColorTemp, TLAPS

\* No restart without a change of the time zone.
RestartBound == restarts <= zones

TypeInv == TypeOK /\ RestartBound

-----------------------------------------------------------------------------
\* What getColorTemperatureValue returns is a temperature.
LEMMA TemperatureType == TypeOK => Temperature \in Kelvin
  BY DEF TypeOK, Temperature, Kelvin, Mode

\* The steps of a goroutine stay among the places of the program.
LEMMA GotoType ==
  ASSUME TypeOK, NEW g, NEW from, NEW to \in Pc, Goto(g, from, to)
  PROVE  pc' \in [Goroutine -> Pc]
  BY DEF TypeOK, Goto

\* So does the beginning of a call, which is counted.
LEMMA CallType ==
  ASSUME TypeOK, NEW c \in Client, NEW to \in Pc, Call(c, to)
  PROVE  calls' \in 0 .. MaxCall /\ crossed' \in BOOLEAN /\ pc' \in [Goroutine -> Pc]
<1>1. calls' \in 0 .. MaxCall
  BY ConstantsAssumption DEF ConstantsAssumption, TypeOK, Call
<1>2. crossed' \in BOOLEAN
  BY Zenon DEF Call, TypeOK
<1>3. pc' \in [Goroutine -> Pc]
  BY GotoType DEF Call
<1> QED
  BY <1>1, <1>2, <1>3

\* What a call notes to save is an argument of a call again.
LEMMA ArgMode ==
  ASSUME NEW a \in Arg, NEW m \in Mode
  PROVE  [a EXCEPT !.mode = m, !.saves = "mode"] \in Arg
  BY DEF Arg

LEMMA ArgManual ==
  ASSUME NEW a \in Arg, NEW v \in Manual
  PROVE  [a EXCEPT !.manual = v, !.saves = "manual"] \in Arg
  BY DEF Arg

LEMMA ArgStore ==
  ASSUME TypeOK, NEW c \in Client, NEW a \in Arg, arg' = [arg EXCEPT ![c] = a]
  PROVE  arg' \in [Actor -> Arg]
  BY DEF TypeOK, Actor

LEMMA ArgRead ==
  ASSUME TypeOK, NEW c \in Client
  PROVE  arg[c] \in Arg
  BY DEF TypeOK, Actor

\* redshiftRunner.start and stop keep the types of the runner.
LEMMA StartType ==
  ASSUME TypeOK, NEW why \in SUBSET {"boot", "redshift"}, StartRedshift(why)
  PROVE  /\ state' \in {"none", "running", "stopped"}
         /\ process' \in SUBSET Pid
         /\ value' \in Kelvin
         /\ procs' \in [Pid -> {"none", "alive", "dying"}]
         /\ lost' \in SUBSET {"boot", "redshift"}
  BY DEF TypeOK, StartRedshift, runner, Kelvin

LEMMA StopType ==
  ASSUME TypeOK, StopRedshift
  PROVE  /\ state' \in {"none", "running", "stopped"}
         /\ process' \in SUBSET Pid
         /\ value' \in Kelvin
         /\ procs' \in [Pid -> {"none", "alive", "dying"}]
  BY DEF TypeOK, StopRedshift, runner, Kelvin

\* Every variable keeps its type, and each pending restart of redshift belongs to a
\* change of the time zone.
LEMMA TypeInvStep == TypeInv /\ [Next]_vars => TypeInv'
<1> SUFFICES ASSUME TypeInv, [Next]_vars PROVE TypeInv'
  OBVIOUS
<1> USE ConstantsAssumption DEF ConstantsAssumption, TypeInv, RestartBound
<1> USE DEF settings, switch, custom, redshift, runner, screen, data, local, count
<1>1. ASSUME NEW p \in Pid, Die(p) PROVE TypeInv'
  BY <1>1 DEF Die, TypeOK
<1>2. ASSUME NEW p \in Pid, Reap(p) PROVE TypeInv'
  BY <1>2 DEF Reap, TypeOK
<1>3. ASSUME NEW p \in Pid, NEW v \in Warm, Line(p, v) PROVE TypeInv'
  BY <1>3 DEF Line, TypeOK, Goto, Pc, Kelvin
<1>4. CASE Timezone
  <2>1. CASE state = "running"
    <3>1. StopRedshift /\ restarts' = restarts + 1
      BY <1>4, <2>1 DEF Timezone
    <3>2. restarts' \in 0 .. MaxZone /\ zones' \in 0 .. MaxZone /\ restarts' <= zones'
      BY <1>4, <3>1 DEF Timezone, TypeOK
    <3> QED
      BY <1>4, <3>1, <3>2, StopType DEF Timezone, TypeOK
  <2>2. CASE state # "running"
    BY <1>4, <2>2 DEF Timezone, TypeOK
  <2> QED
    BY <2>1, <2>2
<1>5. CASE Restart
  <2>1. PICK why \in SUBSET {"boot", "redshift"} : StartRedshift(why)
    BY <1>5 DEF Restart
  <2>2. restarts' \in 0 .. MaxZone /\ restarts' <= zones'
    BY <1>5 DEF Restart, TypeOK
  <2> QED
    BY <1>5, <2>1, <2>2, StartType DEF Restart, TypeOK
<1>6. ASSUME NEW c \in Client, NEW m \in Modes, SetMode(c, m) PROVE TypeInv'
  <2>1. dconf' \in Mode /\ signal' \in BOOLEAN
    BY <1>6 DEF SetMode, RecordMode, TypeOK, Mode
  <2>2. [arg[c] EXCEPT !.mode = m, !.saves = "mode"] \in Arg
    BY ArgRead, ArgMode DEF Mode
  <2>3. arg' \in [Actor -> Arg]
    BY <1>6, <2>2, ArgStore DEF SetMode
  <2> QED
    BY <1>6, <2>1, <2>3, CallType DEF SetMode, TypeOK, Pc
<1>7. ASSUME NEW c \in Client, WriteMode(c) PROVE TypeInv'
  BY <1>7 DEF WriteMode, Goto, TypeOK, Pc, Arg, Actor
<1>8. ASSUME NEW c \in Client, WriteEnabled(c) PROVE TypeInv'
  BY <1>8 DEF WriteEnabled, Goto, TypeOK, Pc
<1>9. ASSUME NEW c \in Client, Toggle(c) PROVE TypeInv'
  <2>1. PICK to \in Pc : Call(c, to)
    BY <1>9 DEF Toggle, Pc
  <2>2. enabled' \in BOOLEAN
    BY <1>9 DEF Toggle
  <2> QED
    BY <1>9, <2>1, <2>2, CallType DEF Toggle, TypeOK
<1>10. ASSUME NEW c \in Client, ToggleOn(c) PROVE TypeInv'
  <2>1. dconf' \in Mode /\ signal' \in BOOLEAN
    BY <1>10 DEF ToggleOn, RecordMode, TypeOK
  <2>2. [arg[c] EXCEPT !.mode = modeOn, !.saves = "mode"] \in Arg
    BY ArgRead, ArgMode DEF TypeOK
  <2>3. arg' \in [Actor -> Arg]
    BY <1>10, <2>2, ArgStore DEF ToggleOn
  <2> QED
    BY <1>10, <2>1, <2>3 DEF ToggleOn, Goto, TypeOK, Pc
<1>11. ASSUME NEW c \in Client, ToggleOff(c) PROVE TypeInv'
  <2>1. [arg[c] EXCEPT !.mode = "None", !.saves = "mode"] \in Arg
    BY ArgRead, ArgMode DEF Mode
  <2>2. arg' \in [Actor -> Arg]
    BY <1>11, <2>1, ArgStore DEF ToggleOff
  <2> QED
    BY <1>11, <2>2 DEF ToggleOff, Goto, TypeOK, Pc
<1>12. CASE ModeOnSignal
  BY <1>12 DEF ModeOnSignal, TypeOK
<1>13. ASSUME NEW c \in Client, NEW profile \in [mode : Modes, manual : Manual],
              ApplyConfig(c, profile)
       PROVE  TypeInv'
  <2>1. calls' \in 0 .. MaxCall /\ crossed' \in BOOLEAN /\ pc' \in [Goroutine -> Pc]
    BY <1>13, CallType DEF ApplyConfig, TypeInv, Pc
  <2>2. mode' \in Mode /\ manual' \in Manual /\ saved' \in Profile
    BY <1>13 DEF ApplyConfig, Profile, Mode
  <2>3. enabled' \in BOOLEAN
    BY <1>13 DEF ApplyConfig
  <2> QED
    BY <1>13, <2>1, <2>2, <2>3 DEF ApplyConfig, TypeOK
<1>14. ASSUME NEW c \in Client, ReadMode(c) PROVE TypeInv'
  <2>1. [arg[c] EXCEPT !.mode = mode] \in Arg
    BY ArgRead DEF TypeOK, Arg
  <2>2. arg' \in [Actor -> Arg]
    BY <1>14, <2>1, ArgStore DEF ReadMode
  <2> QED
    BY <1>14, <2>2 DEF ReadMode, Goto, TypeOK, Pc
<1>15. ASSUME NEW g \in Actor, SwitchRunner(g) PROVE TypeInv'
  <2>1. BootLoss(g) \in SUBSET {"boot", "redshift"}
    BY DEF BootLoss
  <2>2. pc' \in [Goroutine -> Pc]
    BY <1>15 DEF SwitchRunner, Goto, TypeOK, Pc
  <2>3. CASE arg[g].mode = "Auto"
    BY <1>15, <2>1, <2>2, <2>3, StartType DEF SwitchRunner, TypeOK
  <2>4. CASE arg[g].mode # "Auto"
    BY <1>15, <2>1, <2>2, <2>4, StopType DEF SwitchRunner, TypeOK
  <2> QED
    BY <2>3, <2>4
<1>16. ASSUME NEW g \in Actor, SwitchCustom(g) PROVE TypeInv'
  <2>1. timer' \in SUBSET {"set", "armed", "fired"}
    BY <1>16 DEF SwitchCustom, TypeOK
  <2>2. pc' \in [Goroutine -> Pc]
    BY <1>16 DEF SwitchCustom, TypeOK, Pc
  <2>3. lost' \in SUBSET {"boot", "redshift"}
    BY <1>16 DEF SwitchCustom, TypeOK, BootLoss
  <2> QED
    BY <1>16, <2>1, <2>2, <2>3 DEF SwitchCustom, TypeOK
<1>17. ASSUME NEW l \in Loop, Fire(l) PROVE TypeInv'
  BY <1>17 DEF Fire, Goto, TypeOK, Pc
<1>18. ASSUME NEW l \in Loop, Tick(l) PROVE TypeInv'
  BY <1>18 DEF Tick, Goto, TypeOK, Pc
<1>19. ASSUME NEW l \in Loop, Arm(l) PROVE TypeInv'
  BY <1>19 DEF Arm, Goto, TypeOK, Pc
<1>20. ASSUME NEW l \in Loop, Select(l) PROVE TypeInv'
  BY <1>20 DEF Select, Goto, TypeOK, Pc
<1>21. ASSUME NEW g \in Goroutine, TakeTemp(g) PROVE TypeInv'
  BY <1>21, TemperatureType DEF TakeTemp, Goto, TypeOK, Pc
<1>22. ASSUME NEW g \in Goroutine, Write(g) PROVE TypeInv'
  <2>1. arg' \in [Actor -> Arg]
    BY <1>22 DEF Write, TypeOK, Arg, NoArg, Mode
  <2>2. temp' \in [Goroutine -> Kelvin] /\ hw' \in Kelvin
    BY <1>22 DEF Write, TypeOK, Kelvin
  <2>3. pc' \in [Goroutine -> Pc]
    BY <1>22 DEF Write, Goto, TypeOK, Pc
  <2> QED
    BY <1>22, <2>1, <2>2, <2>3 DEF Write, TypeOK
<1>23. ASSUME NEW c \in Client, SetBrightness(c) PROVE TypeInv'
  <2>1. temp' \in [Goroutine -> Kelvin]
    BY <1>23, TemperatureType DEF SetBrightness, TypeOK
  <2>2. calls' \in 0 .. MaxCall
    BY <1>23 DEF SetBrightness, TypeOK
  <2>3. pc' \in [Goroutine -> Pc]
    BY <1>23 DEF SetBrightness, Goto, TypeOK, Pc
  <2> QED
    BY <1>23, <2>1, <2>2, <2>3 DEF SetBrightness, TypeOK
<1>24. ASSUME NEW c \in Client, WriteBrightness(c) PROVE TypeInv'
  BY <1>24 DEF WriteBrightness, Goto, TypeOK, Pc, Kelvin, Goroutine
<1>25. ASSUME NEW c \in Client, SetValue(c) PROVE TypeInv'
  BY <1>25, CallType DEF SetValue, TypeOK, Pc
<1>26. ASSUME NEW c \in Client, NEW v \in Manual, WriteValue(c, v) PROVE TypeInv'
  <2>1. [arg[c] EXCEPT !.manual = v, !.saves = "manual"] \in Arg
    BY ArgRead, ArgManual
  <2>2. arg' \in [Actor -> Arg]
    BY <1>26, <2>1, ArgStore DEF WriteValue
  <2> QED
    BY <1>26, <2>2 DEF WriteValue, Goto, TypeOK, Pc
<1>27. ASSUME NEW c \in Client, CopyProfile(c) PROVE TypeInv'
  <2>1. arg' \in [Actor -> Arg]
    BY <1>27 DEF CopyProfile, TypeOK, Actor, Arg, Profile
  <2> QED
    BY <1>27, <2>1 DEF CopyProfile, Goto, TypeOK, Pc
<1>28. ASSUME NEW c \in Client, SaveProfile(c) PROVE TypeInv'
  <2>1. arg' \in [Actor -> Arg]
    BY <1>28 DEF SaveProfile, TypeOK, Actor, Arg, NoArg, Mode
  <2>2. saved' \in Profile
    BY <1>28 DEF SaveProfile, TypeOK, Actor, Arg, Profile
  <2> QED
    BY <1>28, <2>1, <2>2 DEF SaveProfile, Goto, TypeOK, Pc
<1>29. CASE UNCHANGED vars
  BY <1>29 DEF vars, TypeOK
<1> QED
  BY <1>1, <1>2, <1>3, <1>4, <1>5, <1>6, <1>7, <1>8, <1>9, <1>10, <1>11, <1>12, <1>13, <1>14,
     <1>15, <1>16, <1>17, <1>18, <1>19, <1>20, <1>21, <1>22, <1>23, <1>24, <1>25, <1>26, <1>27,
     <1>28, <1>29
     DEF Next, RedshiftStep, ModeStep, LoopStep, WriteStep

LEMMA TypeInvInit == Init => TypeInv
<1> SUFFICES ASSUME Init PROVE TypeInv
  OBVIOUS
<1> USE ConstantsAssumption DEF ConstantsAssumption, Init
<1>1. pc \in [Goroutine -> Pc]
  BY DEF Pc
<1>2. arg \in [Actor -> Arg] /\ saved \in Profile
  BY DEF Arg, NoArg, Profile, Mode
<1>3. temp \in [Goroutine -> Kelvin]
  BY DEF Kelvin
<1>4. /\ mode \in Mode /\ manual \in Manual /\ modeOn \in Mode /\ dconf \in Mode
      /\ value \in Kelvin /\ hw \in Kelvin
      /\ procs \in [Pid -> {"none", "alive", "dying"}]
  BY DEF Mode, Kelvin
<1>5. /\ restarts \in 0 .. MaxZone /\ calls \in 0 .. MaxCall /\ zones \in 0 .. MaxZone
      /\ restarts <= zones
  OBVIOUS
<1> QED
  BY <1>1, <1>2, <1>3, <1>4, <1>5 DEF TypeInv, TypeOK, RestartBound

\* Every variable keeps its type, for every value of the constants.
THEOREM TypeCorrect == Spec => []TypeOK
<1>1. TypeInv => TypeOK
  BY DEF TypeInv
<1> QED
  BY <1>1, TypeInvInit, TypeInvStep, PTL DEF Spec

LEMMA TypeInvariant == Spec => []TypeInv
  BY TypeInvInit, TypeInvStep, PTL DEF Spec

-----------------------------------------------------------------------------
(* One process.  OneProcess is not inductive: start looks at the state and *)
(* not at the processes, so the state must be running while there is one,  *)
(* and the interrupt of stop must reach a process that exists.             *)

ProcessInv ==
    /\ OneProcess
    /\ state # "running" => \A p \in Pid : procs[p] = "none"
    /\ \A p \in process : procs[p] # "none"

LEMMA StartProcess ==
  ASSUME TypeOK, ProcessInv, NEW why, StartRedshift(why)
  PROVE  ProcessInv'
<1>1. CASE state = "running"
  BY <1>1 DEF StartRedshift, ProcessInv, OneProcess, runner
<1>2. CASE state # "running"
  <2>1. CASE UNCHANGED procs
    BY <1>2, <2>1 DEF StartRedshift, ProcessInv, OneProcess, TypeOK
  <2>2. CASE \E p \in Pid : /\ procs[p] = "none"
                            /\ procs' = [procs EXCEPT ![p] = "alive"]
                            /\ process' = {p}
                            /\ state' = "running"
    BY <1>2, <2>2 DEF ProcessInv, OneProcess, TypeOK
  <2> QED
    BY <1>2, <2>1, <2>2 DEF StartRedshift
<1> QED
  BY <1>1, <1>2

LEMMA StopProcess ==
  ASSUME TypeOK, ProcessInv, StopRedshift
  PROVE  ProcessInv'
  BY DEF StopRedshift, ProcessInv, OneProcess, runner, TypeOK

LEMMA ProcessInvStep == TypeOK /\ ProcessInv /\ [Next]_vars => ProcessInv'
<1> SUFFICES ASSUME TypeOK, ProcessInv, [Next]_vars PROVE ProcessInv'
  OBVIOUS
<1>1. ASSUME NEW p \in Pid, Die(p) PROVE ProcessInv'
  BY <1>1 DEF Die, ProcessInv, OneProcess, TypeOK
<1>2. ASSUME NEW p \in Pid, Reap(p) PROVE ProcessInv'
  BY <1>2 DEF Reap, ProcessInv, OneProcess, TypeOK
<1>3. CASE Timezone
  <2>1. CASE state = "running"
    BY <1>3, <2>1, StopProcess DEF Timezone
  <2>2. CASE state # "running"
    BY <1>3, <2>2 DEF Timezone, runner, ProcessInv, OneProcess
  <2> QED
    BY <2>1, <2>2
<1>4. CASE Restart
  BY <1>4, StartProcess DEF Restart
<1>5. ASSUME NEW g \in Actor, SwitchRunner(g) PROVE ProcessInv'
  BY <1>5, StartProcess, StopProcess DEF SwitchRunner
<1>6. CASE UNCHANGED <<state, process, procs>>
  BY <1>6 DEF ProcessInv, OneProcess
<1>7. ASSUME NEW p \in Pid, NEW v \in Warm, Line(p, v) PROVE UNCHANGED <<state, process, procs>>
  BY <1>7 DEF Line
<1>8. ModeStep => UNCHANGED <<state, process, procs>> \/ \E g \in Actor : SwitchRunner(g)
  BY DEF ModeStep, SetMode, WriteMode, WriteEnabled, Toggle, ToggleOn, ToggleOff, ApplyConfig,
         ReadMode, ModeOnSignal, SwitchCustom, redshift, runner
<1>9. LoopStep => UNCHANGED <<state, process, procs>>
  BY DEF LoopStep, Fire, Tick, Arm, Select, redshift, runner
<1>10. WriteStep => UNCHANGED <<state, process, procs>>
  BY DEF WriteStep, TakeTemp, Write, SetBrightness, WriteBrightness, SetValue, WriteValue,
         CopyProfile, SaveProfile, redshift, runner
<1>11. CASE UNCHANGED vars
  BY <1>6, <1>11 DEF vars, redshift, runner
<1> QED
  BY <1>1, <1>2, <1>3, <1>4, <1>5, <1>6, <1>7, <1>8, <1>9, <1>10, <1>11 DEF Next, RedshiftStep

\* At most one redshift process runs at any time.
THEOREM SingleProcess == Spec => []OneProcess
<1>1. Init => ProcessInv
  BY DEF Init, ProcessInv, OneProcess
<1>2. TypeInv => TypeOK
  BY DEF TypeInv
<1>3. ProcessInv => OneProcess
  BY DEF ProcessInv
<1> QED
  BY <1>1, <1>2, <1>3, ProcessInvStep, TypeInvariant, PTL DEF Spec

-----------------------------------------------------------------------------
(* The temperature of the monitor.  While a goroutine is on its way to     *)
(* setColorTempOneShot, or is in it with the temperature asked for, the    *)
(* monitor may show another one; it is the last of them that settles it.   *)

\* Goroutines that are going to read the temperature.
Reading == {"enable", "profile", "runner", "custom", "shot"}

WillRead == \E g \in Goroutine : pc[g] \in Reading

\* The holder of _setColorTempMu has the temperature asked for.
Held == \E g \in Goroutine : pc[g] = "write" /\ temp[g] = Temperature

\* Automatic mode before the first line of redshift.
Silent == mode = "Auto" /\ value = Zero

Mutex == \A g, h \in Goroutine : pc[g] = "write" /\ pc[h] = "write" => g = h

Free == \A g \in Goroutine : pc[g] # "write"

TemperatureInv ==
    /\ Mutex
    /\ WillRead \/ Held \/ Silent \/ (Free /\ (late \/ hw = Temperature))

\* A step that leaves the inputs of getColorTemperatureValue, the monitor and the
\* readers alone keeps the invariant.
LEMMA NeutralStep ==
  ASSUME TemperatureInv,
         UNCHANGED <<mode, manual, flag, value, hw, late>>,
         \A g \in Goroutine : /\ pc[g] \in Reading => pc'[g] \in Reading
                              /\ pc'[g] = "write" <=> pc[g] = "write"
                              /\ pc[g] = "write" => temp'[g] = temp[g]
  PROVE  TemperatureInv'
<1>1. Temperature' = Temperature
  BY DEF Temperature
<1>2. Mutex'
  BY DEF TemperatureInv, Mutex
<1>3. CASE WillRead
  BY <1>2, <1>3 DEF TemperatureInv, WillRead
<1>4. CASE Held
  BY <1>1, <1>2, <1>4 DEF TemperatureInv, Held
<1>5. CASE Silent
  BY <1>2, <1>5 DEF TemperatureInv, Silent
<1>6. CASE Free /\ (late \/ hw = Temperature)
  BY <1>1, <1>2, <1>6 DEF TemperatureInv, Free
<1> QED
  BY <1>3, <1>4, <1>5, <1>6 DEF TemperatureInv

\* Whatever a step changes, a goroutine on its way to the monitor makes up for it.
LEMMA ReadingStep ==
  ASSUME TemperatureInv, NEW g \in Goroutine, pc'[g] \in Reading,
         \A h \in Goroutine : pc'[h] = "write" => pc[h] = "write"
  PROVE  TemperatureInv'
  BY DEF TemperatureInv, Mutex, WillRead

\* The steps of redshift that empty its value: they matter in automatic mode only.
LEMMA ZeroStep ==
  ASSUME TemperatureInv, value' = Zero \/ UNCHANGED value,
         UNCHANGED <<mode, manual, flag, screen, local>>
  PROVE  TemperatureInv'
<1>1. CASE mode = "Auto" /\ value' = Zero
  BY <1>1 DEF TemperatureInv, Mutex, Silent, local
<1>2. CASE mode # "Auto" \/ UNCHANGED value
  <2>1. Temperature' = Temperature
    BY <1>2 DEF Temperature
  <2>2. Silent => Silent'
    BY <1>2 DEF Silent
  <2> QED
    BY <2>1, <2>2 DEF TemperatureInv, Mutex, WillRead, Held, Free, local, data, screen
<1> QED
  BY <1>1, <1>2

\* start and stop write the value of the runner to nothing but Zero.
LEMMA RunnerValue ==
  ASSUME NEW why, StartRedshift(why) \/ StopRedshift
  PROVE  value' = Zero \/ UNCHANGED value
  BY DEF StartRedshift, StopRedshift, runner

LEMMA TemperatureInvStep == TypeOK /\ TemperatureInv /\ [Next]_vars => TemperatureInv'
<1> SUFFICES ASSUME TypeOK, TemperatureInv, [Next]_vars PROVE TemperatureInv'
  OBVIOUS
<1> USE ConstantsAssumption DEF ConstantsAssumption, Goroutine, Actor
<1>1. ASSUME NEW p \in Pid, Die(p) \/ Reap(p) PROVE TemperatureInv'
  BY <1>1, ZeroStep DEF Die, Reap, settings, custom
<1>2. ASSUME NEW p \in Pid, NEW v \in Warm, Line(p, v) PROVE TemperatureInv'
  BY <1>2, ReadingStep DEF Line, Goto, TypeOK, Reading
<1>3. CASE Timezone
  BY <1>3, RunnerValue, ZeroStep DEF Timezone, settings, custom, runner
<1>4. CASE Restart
  BY <1>4, RunnerValue, ZeroStep DEF Restart, settings, custom
<1>5. ASSUME NEW c \in Client, NEW m \in Modes, SetMode(c, m) PROVE TemperatureInv'
  BY <1>5, NeutralStep
     DEF SetMode, Call, Goto, TypeOK, Reading, settings, custom, redshift, runner, screen
<1>6. ASSUME NEW c \in Client, WriteMode(c) PROVE TemperatureInv'
  BY <1>6, ReadingStep DEF WriteMode, Goto, TypeOK, Reading
<1>7. ASSUME NEW c \in Client, WriteEnabled(c) PROVE TemperatureInv'
  BY <1>7, ReadingStep DEF WriteEnabled, Goto, TypeOK, Reading
<1>8. ASSUME NEW c \in Client, Toggle(c) PROVE TemperatureInv'
  BY <1>8, NeutralStep
     DEF Toggle, Call, Goto, TypeOK, Reading, custom, redshift, runner, screen, data
<1>9. ASSUME NEW c \in Client, ToggleOn(c) \/ ToggleOff(c) PROVE TemperatureInv'
  BY <1>9, NeutralStep
     DEF ToggleOn, ToggleOff, Goto, TypeOK, Reading, settings, custom, redshift, runner, screen
<1>10. CASE ModeOnSignal
  BY <1>10, NeutralStep
     DEF ModeOnSignal, settings, custom, redshift, runner, screen, local, data
<1>11. ASSUME NEW c \in Client, NEW profile \in [mode : Modes, manual : Manual],
              ApplyConfig(c, profile)
       PROVE  TemperatureInv'
  BY <1>11, ReadingStep DEF ApplyConfig, Call, Goto, TypeOK, Reading
<1>12. ASSUME NEW c \in Client, ReadMode(c) PROVE TemperatureInv'
  BY <1>12, ReadingStep DEF ReadMode, Goto, TypeOK, Reading
<1>13. ASSUME NEW g \in Actor, SwitchRunner(g) PROVE TemperatureInv'
  BY <1>13, ReadingStep DEF SwitchRunner, Goto, TypeOK, Reading
<1>14. ASSUME NEW g \in Actor, SwitchCustom(g) PROVE TemperatureInv'
  <2>1. pc'[g] \in Reading
    BY <1>14 DEF SwitchCustom, TypeOK, Reading
  <2>2. \A h \in Goroutine : pc'[h] = "write" => pc[h] = "write"
    BY <1>14 DEF SwitchCustom, TypeOK
  <2> QED
    BY <2>1, <2>2, ReadingStep
<1>15. ASSUME NEW l \in Loop, Fire(l) PROVE TemperatureInv'
  BY <1>15, NeutralStep
     DEF Fire, Goto, TypeOK, Reading, settings, redshift, runner, screen, data
<1>16. ASSUME NEW l \in Loop, Tick(l) PROVE TemperatureInv'
  <2>1. CASE mode = "Custom"
    BY <1>16, <2>1, ReadingStep DEF Tick, Goto, TypeOK, Reading
  <2>2. CASE mode # "Custom"
    BY <1>16, <2>2, NeutralStep
       DEF Tick, Goto, TypeOK, Reading, settings, redshift, runner, screen, data
  <2> QED
    BY <2>1, <2>2
<1>17. ASSUME NEW l \in Loop, Arm(l) \/ Select(l) PROVE TemperatureInv'
  BY <1>17, NeutralStep
     DEF Arm, Select, Goto, TypeOK, Reading, settings, redshift, runner, screen, data
<1>18. ASSUME NEW g \in Goroutine, TakeTemp(g) PROVE TemperatureInv'
  <2>1. Temperature' = Temperature
    BY <1>18 DEF TakeTemp, Temperature, settings, custom, redshift, runner
  <2>2. pc'[g] = "write" /\ temp'[g] = Temperature
    BY <1>18 DEF TakeTemp, Goto, TypeOK
  <2>3. Held'
    BY <2>1, <2>2 DEF Held
  <2>4. Mutex'
    BY <1>18 DEF TakeTemp, Goto, TypeOK, Mutex
  <2> QED
    BY <2>3, <2>4 DEF TemperatureInv
<1>19. ASSUME NEW g \in Goroutine, Write(g) PROVE TemperatureInv'
  <2>1. Temperature' = Temperature
    BY <1>19 DEF Write, Temperature, settings, custom, redshift, runner
  <2>2. Mutex' /\ Free'
    BY <1>19 DEF Write, Goto, TypeOK, TemperatureInv, Mutex, Free
  <2>3. CASE WillRead
    <3>1. PICK h \in Goroutine : pc[h] \in Reading
      BY <2>3 DEF WillRead
    <3>2. pc'[h] \in Reading
      BY <1>19, <3>1 DEF Write, Goto, TypeOK, Reading
    <3> QED
      BY <2>2, <3>2 DEF TemperatureInv, WillRead
  <2>4. CASE Held
    <3>1. hw' = Temperature
      BY <1>19, <2>4 DEF Write, Goto, Held, TemperatureInv, Mutex
    <3> QED
      BY <2>1, <2>2, <3>1 DEF TemperatureInv
  <2>5. CASE Silent
    BY <1>19, <2>2, <2>5 DEF Write, TemperatureInv, Silent, settings, redshift, runner
  <2>6. CASE Free
    BY <1>19, <2>6 DEF Write, Goto, Free
  <2> QED
    BY <2>3, <2>4, <2>5, <2>6 DEF TemperatureInv
<1>20. ASSUME NEW c \in Client, SetBrightness(c) PROVE TemperatureInv'
  BY <1>20, NeutralStep
     DEF SetBrightness, Goto, TypeOK, Reading, settings, custom, redshift, runner, screen
<1>21. ASSUME NEW c \in Client, WriteBrightness(c) PROVE TemperatureInv'
  <2>1. Temperature' = Temperature
    BY <1>21 DEF WriteBrightness, Temperature, settings, custom, redshift, runner
  <2>2. late' \/ hw' = Temperature'
    BY <1>21, <2>1 DEF WriteBrightness
  <2>3. \A g \in Goroutine : /\ pc[g] \in Reading => pc'[g] \in Reading
                             /\ pc'[g] = "write" <=> pc[g] = "write"
                             /\ pc[g] = "write" => temp'[g] = temp[g]
    BY <1>21 DEF WriteBrightness, Goto, TypeOK, Reading
  <2>4. Silent => Silent'
    BY <1>21 DEF WriteBrightness, Silent, settings, redshift, runner
  <2> QED
    BY <2>1, <2>2, <2>3, <2>4 DEF TemperatureInv, Mutex, WillRead, Held, Free
<1>22. ASSUME NEW c \in Client, SetValue(c) PROVE TemperatureInv'
  BY <1>22, NeutralStep
     DEF SetValue, Call, Goto, TypeOK, Reading, settings, custom, redshift, runner, screen, data
<1>23. ASSUME NEW c \in Client, NEW v \in Manual, WriteValue(c, v) PROVE TemperatureInv'
  BY <1>23, ReadingStep DEF WriteValue, Goto, TypeOK, Reading
<1>24. ASSUME NEW c \in Client, CopyProfile(c) PROVE TemperatureInv'
  BY <1>24, NeutralStep
     DEF CopyProfile, Goto, TypeOK, Reading, settings, custom, redshift, runner, screen
<1>25. ASSUME NEW c \in Client, SaveProfile(c) PROVE TemperatureInv'
  BY <1>25, NeutralStep
     DEF SaveProfile, Goto, TypeOK, Reading, custom, redshift, runner, screen
<1>26. CASE UNCHANGED vars
  BY <1>26, NeutralStep
     DEF vars, settings, custom, redshift, runner, screen, local, data
<1> QED
  BY <1>1, <1>2, <1>3, <1>4, <1>5, <1>6, <1>7, <1>8, <1>9, <1>10, <1>11, <1>12, <1>13, <1>14,
     <1>15, <1>16, <1>17, <1>18, <1>19, <1>20, <1>21, <1>22, <1>23, <1>24, <1>25, <1>26
     DEF Next, RedshiftStep, ModeStep, LoopStep, WriteStep

\* When every goroutine is done the monitor shows the temperature the settings ask for,
\* except after a stale write of setBrightness and while redshift is silent.
THEOREM TemperatureIsCurrent == Spec => []TempCurrent
<1>1. Init => TemperatureInv
  BY DEF Init, TemperatureInv, Mutex, Free, Temperature
<1>2. TypeInv => TypeOK
  BY DEF TypeInv
<1>3. TemperatureInv => TempCurrent
  BY DEF TemperatureInv, TempCurrent, Settled, WillRead, Reading, Held, Silent
<1> QED
  BY <1>1, <1>2, <1>3, TemperatureInvStep, TypeInvariant, PTL DEF Spec

-----------------------------------------------------------------------------
(* Calls that do not overlap.  What the three records of the mode say is a *)
(* matter of the one call that runs: where it is, and what it carries.     *)

Resting == {"idle", "bright"}

\* A call carries what it is going to save exactly in these places.
Carrying ==
    \A c \in Client :
        /\ pc[c] \in Resting \cup {"toggleOn", "toggleOff", "value", "profile", "wait", "leaked"}
               => arg[c].saves = "nothing"
        /\ pc[c] \in {"prop", "enable"} => arg[c].saves = "mode"
        /\ pc[c] = "save" => arg[c].saves \in {"mode", "manual"}
        /\ pc[c] = "saveWrite" <=> arg[c].saves = "profile"

\* One call runs at a time.
Serial == \A c, d \in Client : pc[c] \notin Resting /\ pc[d] \notin Resting => c = d

\* The switch and the mode differ only while a call is about to write one of them.
SwitchInv ==
    /\ \A c \in Client : pc[c] = "toggleOff" => mode # "None"
    /\ \A c \in Client : pc[c] = "enable" => mode = arg[c].mode
    /\ (\A c \in Client : pc[c] \notin {"toggleOn", "toggleOff", "prop", "enable"})
           => (enabled <=> mode # "None")

\* The stored profile lags behind by what the call that runs is going to save.
SavedInv ==
    /\ (\A c \in Client : arg[c].saves = "nothing") => saved = [mode |-> mode, manual |-> manual]
    /\ \A c \in Client :
         /\ arg[c].saves = "mode" =>
              /\ saved.manual = manual
              /\ pc[c] # "prop" => arg[c].mode = mode
         /\ arg[c].saves = "manual" => saved.mode = mode /\ arg[c].manual = manual
         /\ arg[c].saves = "profile" => arg[c].mode = mode /\ arg[c].manual = manual

SerialInv ==
    /\ Carrying
    /\ dconf # "None"
    /\ ~crossed => Serial /\ modeOn # "None" /\ SwitchInv /\ SavedInv

\* Steps of goroutines that are not calls leave everything about calls as it is.
LEMMA OtherStep ==
  ASSUME SerialInv, UNCHANGED <<settings, modeOn, dconf, crossed>>,
         \A c \in Client : pc'[c] = pc[c] /\ arg'[c] = arg[c]
  PROVE  SerialInv'
  BY DEF SerialInv, Carrying, Serial, SwitchInv, SavedInv, settings

\* So do the steps of a call between the places where it writes.
LEMMA InnerStep ==
  ASSUME SerialInv, UNCHANGED <<settings, modeOn, dconf, crossed>>, NEW c \in Client,
         UNCHANGED arg,
         \A d \in Client \ {c} : pc'[d] = pc[d],
         pc[c] \in {"runner", "custom", "shot"},
         pc'[c] \in {"runner", "custom", "shot", "write"}
  PROVE  SerialInv'
  BY DEF SerialInv, Carrying, Serial, SwitchInv, SavedInv, settings, Resting

\* A call that begins alone finds the records in agreement.
LEMMA CallAlone ==
  ASSUME TypeOK, SerialInv, NEW c \in Client, NEW to, Call(c, to), ~crossed'
  PROVE  /\ ~crossed
         /\ \A d \in Client \ {c} : pc[d] \in Resting
         /\ \A d \in Client : arg[d].saves = "nothing"
         /\ enabled <=> mode # "None"
         /\ saved = [mode |-> mode, manual |-> manual]
<1>1. ~crossed /\ \A d \in Client \ {c} : pc[d] \in {"idle", "bright"}
  BY Zenon DEF Call
<1>2. \A d \in Client : pc[d] \in Resting
  BY <1>1 DEF Call, Goto, Resting
<1>3. \A d \in Client : arg[d].saves = "nothing"
  BY <1>2 DEF SerialInv, Carrying
<1>4. enabled <=> mode # "None"
  BY <1>1, <1>2 DEF SerialInv, SwitchInv, Resting
<1> QED
  BY <1>1, <1>2, <1>3, <1>4 DEF SerialInv, SavedInv

LEMMA SerialInvStep == TypeOK /\ SerialInv /\ [Next]_vars => SerialInv'
<1> SUFFICES ASSUME TypeOK, SerialInv, [Next]_vars PROVE SerialInv'
  OBVIOUS
<1> USE ConstantsAssumption DEF ConstantsAssumption, Goroutine, Actor
<1>1. CASE RedshiftStep
  BY <1>1, OtherStep
     DEF RedshiftStep, Die, Reap, Line, Timezone, Restart, Goto, TypeOK, settings, switch, local,
         data, count
<1>2. ASSUME NEW c \in Client, NEW m \in Modes, SetMode(c, m) PROVE SerialInv'
  <2>1. dconf' # "None"
    BY <1>2 DEF SetMode, RecordMode, SerialInv
  <2>2. pc' = [pc EXCEPT ![c] = "prop"] /\ pc[c] = "idle"
    BY <1>2 DEF SetMode, Call, Goto
  <2>3. Carrying'
    BY <1>2, <2>2 DEF SetMode, TypeOK, SerialInv, Carrying, Resting, Arg
  <2>4. ASSUME ~crossed' PROVE (Serial /\ modeOn # "None" /\ SwitchInv /\ SavedInv)'
    <3>1. /\ ~crossed
          /\ \A d \in Client \ {c} : pc[d] \in Resting
          /\ \A d \in Client : arg[d].saves = "nothing"
          /\ enabled <=> mode # "None"
          /\ saved = [mode |-> mode, manual |-> manual]
      BY <1>2, <2>4, CallAlone DEF SetMode
    <3>2. Serial' /\ SwitchInv'
      BY <1>2, <2>2, <3>1 DEF SetMode, TypeOK, Serial, SwitchInv, Resting, settings
    <3>3. SavedInv'
      BY <1>2, <2>2, <3>1 DEF SetMode, TypeOK, SavedInv, Arg, settings
    <3> QED
      BY <1>2, <3>1, <3>2, <3>3 DEF SetMode, SerialInv
  <2> QED
    BY <2>1, <2>3, <2>4 DEF SerialInv
<1>3. ASSUME NEW c \in Client, WriteMode(c) PROVE SerialInv'
  BY <1>3
     DEF WriteMode, Goto, TypeOK, SerialInv, Carrying, Serial, SwitchInv, SavedInv, Resting,
         switch, data, count
<1>4. ASSUME NEW c \in Client, WriteEnabled(c) PROVE SerialInv'
  BY <1>4
     DEF WriteEnabled, Goto, TypeOK, SerialInv, Carrying, Serial, SwitchInv, SavedInv, Resting,
         switch, data, count
<1>5. ASSUME NEW c \in Client, Toggle(c) PROVE SerialInv'
  <2>1. /\ pc' = [pc EXCEPT ![c] = IF enabled THEN "toggleOff" ELSE "toggleOn"]
        /\ pc[c] = "idle"
    BY <1>5 DEF Toggle, Call, Goto
  <2>2. Carrying'
    BY <1>5, <2>1 DEF Toggle, TypeOK, SerialInv, Carrying, Resting, data
  <2>3. ASSUME ~crossed' PROVE (Serial /\ modeOn # "None" /\ SwitchInv /\ SavedInv)'
    <3>1. /\ ~crossed
          /\ \A d \in Client \ {c} : pc[d] \in Resting
          /\ \A d \in Client : arg[d].saves = "nothing"
          /\ enabled <=> mode # "None"
          /\ saved = [mode |-> mode, manual |-> manual]
      BY <1>5, <2>3, CallAlone DEF Toggle
    <3>2. Serial' /\ SwitchInv'
      BY <1>5, <2>1, <3>1 DEF Toggle, TypeOK, Serial, SwitchInv, Resting, data
    <3>3. SavedInv'
      BY <1>5, <2>1, <3>1 DEF Toggle, TypeOK, SavedInv, data
    <3> QED
      BY <1>5, <3>1, <3>2, <3>3 DEF Toggle, SerialInv, switch
  <2> QED
    BY <1>5, <2>2, <2>3 DEF Toggle, SerialInv, switch
<1>6. ASSUME NEW c \in Client, ToggleOn(c) PROVE SerialInv'
  <2>1. dconf' # "None"
    BY <1>6 DEF ToggleOn, RecordMode, SerialInv
  <2> QED
    BY <1>6, <2>1
       DEF ToggleOn, Goto, TypeOK, Arg, SerialInv, Carrying, Serial, SwitchInv, SavedInv, Resting,
           settings, count
<1>7. ASSUME NEW c \in Client, ToggleOff(c) PROVE SerialInv'
  BY <1>7
     DEF ToggleOff, Goto, TypeOK, Arg, SerialInv, Carrying, Serial, SwitchInv, SavedInv, Resting,
         settings, count
<1>8. CASE ModeOnSignal
  BY <1>8
     DEF ModeOnSignal, SerialInv, Carrying, Serial, SwitchInv, SavedInv, settings, local, data,
         count
<1>9. ASSUME NEW c \in Client, NEW profile \in [mode : Modes, manual : Manual],
             ApplyConfig(c, profile)
      PROVE  SerialInv'
  <2>1. pc' = [pc EXCEPT ![c] = "profile"] /\ pc[c] = "idle"
    BY <1>9 DEF ApplyConfig, Call, Goto
  <2>2. Carrying'
    BY <1>9, <2>1 DEF ApplyConfig, TypeOK, SerialInv, Carrying, Resting, data
  <2>3. ASSUME ~crossed' PROVE (Serial /\ modeOn # "None" /\ SwitchInv /\ SavedInv)'
    <3>1. /\ ~crossed
          /\ \A d \in Client \ {c} : pc[d] \in Resting
          /\ \A d \in Client : arg[d].saves = "nothing"
      BY <1>9, <2>3, CallAlone DEF ApplyConfig
    <3>2. Serial' /\ SwitchInv'
      BY <1>9, <2>1, <3>1 DEF ApplyConfig, TypeOK, Serial, SwitchInv, Resting, data
    <3>3. SavedInv'
      BY <1>9, <2>1, <3>1 DEF ApplyConfig, TypeOK, SavedInv, data
    <3> QED
      BY <1>9, <3>1, <3>2, <3>3 DEF ApplyConfig, SerialInv, switch
  <2> QED
    BY <1>9, <2>2, <2>3 DEF ApplyConfig, SerialInv, switch
<1>10. ASSUME NEW c \in Client, ReadMode(c) PROVE SerialInv'
  BY <1>10
     DEF ReadMode, Goto, TypeOK, Arg, SerialInv, Carrying, Serial, SwitchInv, SavedInv, Resting,
         settings, switch, count
<1>11. ASSUME NEW g \in Actor, SwitchRunner(g) PROVE SerialInv'
  <2>1. CASE g \in Client
    BY <1>11, <2>1, InnerStep DEF SwitchRunner, Goto, TypeOK, settings, switch, data, count
  <2>2. CASE g = Boot
    BY <1>11, <2>2, OtherStep DEF SwitchRunner, Goto, TypeOK, settings, switch, data, count
  <2> QED
    BY <2>1, <2>2
<1>12. ASSUME NEW g \in Actor, SwitchCustom(g) PROVE SerialInv'
  BY <1>12
     DEF SwitchCustom, TypeOK, SerialInv, Carrying, Serial, SwitchInv, SavedInv, Resting,
         settings, switch, data, count
<1>13. CASE LoopStep
  BY <1>13, OtherStep
     DEF LoopStep, Fire, Tick, Arm, Select, Goto, TypeOK, settings, switch, data, count
<1>14. ASSUME NEW g \in Goroutine, TakeTemp(g) PROVE SerialInv'
  <2>1. CASE g \in Client
    BY <1>14, <2>1, InnerStep DEF TakeTemp, Goto, TypeOK, settings, switch, count
  <2>2. CASE g \notin Client
    BY <1>14, <2>2, OtherStep DEF TakeTemp, Goto, TypeOK, settings, switch, count
  <2> QED
    BY <2>1, <2>2
<1>15. ASSUME NEW g \in Goroutine, Write(g) PROVE SerialInv'
  <2>1. CASE g \in Client
    <3>1. pc' = [pc EXCEPT ![g] = IF arg[g].saves # "nothing" THEN "save" ELSE "idle"]
      BY <1>15, <2>1 DEF Write, Goto
    <3>2. \A c \in Client : arg'[c].saves = arg[c].saves
      BY <1>15 DEF Write, NoArg
    <3>3. \A c \in Client : arg[c].saves # "nothing" => arg'[c] = arg[c]
      BY <1>15 DEF Write
    <3>4. Carrying'
      BY <1>15, <2>1, <3>1, <3>2 DEF Write, Goto, TypeOK, Arg, SerialInv, Carrying, Resting
    <3>5. ~crossed => Serial'
      BY <1>15, <2>1, <3>1 DEF Write, Goto, TypeOK, SerialInv, Serial, Resting
    <3>6. ~crossed => SwitchInv'
      BY <1>15, <2>1, <3>1, <3>3
         DEF Write, Goto, TypeOK, SerialInv, Carrying, SwitchInv, settings
    <3>7. ~crossed => SavedInv'
      BY <1>15, <2>1, <3>1, <3>2, <3>3
         DEF Write, Goto, TypeOK, SerialInv, Carrying, SavedInv, settings
    <3> QED
      BY <1>15, <3>4, <3>5, <3>6, <3>7 DEF Write, SerialInv, switch, count
  <2>2. CASE g \notin Client
    BY <1>15, <2>2, OtherStep DEF Write, Goto, TypeOK, settings, switch, count
  <2> QED
    BY <2>1, <2>2
<1>16. ASSUME NEW c \in Client, SetBrightness(c) \/ WriteBrightness(c) PROVE SerialInv'
  BY <1>16
     DEF SetBrightness, WriteBrightness, Goto, TypeOK, SerialInv, Carrying, Serial, SwitchInv,
         SavedInv, Resting, settings, switch, count
<1>17. ASSUME NEW c \in Client, SetValue(c) PROVE SerialInv'
  <2>1. pc' = [pc EXCEPT ![c] = "value"] /\ pc[c] = "idle"
    BY <1>17 DEF SetValue, Call, Goto
  <2>2. Carrying'
    BY <1>17, <2>1 DEF SetValue, TypeOK, SerialInv, Carrying, Resting, data
  <2>3. ASSUME ~crossed' PROVE (Serial /\ modeOn # "None" /\ SwitchInv /\ SavedInv)'
    <3>1. /\ ~crossed
          /\ \A d \in Client \ {c} : pc[d] \in Resting
          /\ \A d \in Client : arg[d].saves = "nothing"
          /\ enabled <=> mode # "None"
          /\ saved = [mode |-> mode, manual |-> manual]
      BY <1>17, <2>3, CallAlone DEF SetValue
    <3>2. Serial' /\ SwitchInv'
      BY <1>17, <2>1, <3>1 DEF SetValue, TypeOK, Serial, SwitchInv, Resting, settings, data
    <3>3. SavedInv'
      BY <1>17, <2>1, <3>1 DEF SetValue, TypeOK, SavedInv, settings, data
    <3> QED
      BY <1>17, <3>1, <3>2, <3>3 DEF SetValue, SerialInv, switch
  <2> QED
    BY <1>17, <2>2, <2>3 DEF SetValue, SerialInv, switch
<1>18. ASSUME NEW c \in Client, NEW v \in Manual, WriteValue(c, v) PROVE SerialInv'
  BY <1>18
     DEF WriteValue, Goto, TypeOK, Arg, SerialInv, Carrying, Serial, SwitchInv, SavedInv, Resting,
         switch, count
<1>19. ASSUME NEW c \in Client, CopyProfile(c) PROVE SerialInv'
  BY <1>19
     DEF CopyProfile, Goto, TypeOK, Arg, Profile, SerialInv, Carrying, Serial, SwitchInv, SavedInv,
         Resting, settings, switch, count
<1>20. ASSUME NEW c \in Client, SaveProfile(c) PROVE SerialInv'
  BY <1>20
     DEF SaveProfile, Goto, TypeOK, Arg, NoArg, SerialInv, Carrying, Serial, SwitchInv, SavedInv,
         Resting, switch, count
<1>21. CASE UNCHANGED vars
  BY <1>21, OtherStep DEF vars, switch, local, data, count
<1> QED
  BY <1>1, <1>2, <1>3, <1>4, <1>5, <1>6, <1>7, <1>8, <1>9, <1>10, <1>11, <1>12, <1>13, <1>14,
     <1>15, <1>16, <1>17, <1>18, <1>19, <1>20, <1>21
     DEF Next, ModeStep, WriteStep

LEMMA SerialInvariant == Spec => []SerialInv
<1>1. Init => SerialInv
  BY ConstantsAssumption
     DEF ConstantsAssumption, Init, Goroutine, Actor, NoArg, SerialInv, Carrying, Serial,
         SwitchInv, SavedInv, Resting
<1>2. TypeInv => TypeOK
  BY DEF TypeInv
<1> QED
  BY <1>1, <1>2, SerialInvStep, TypeInvariant, PTL DEF Spec

\* The switch of the control center, the mode and the stored profile agree after calls
\* that did not overlap.
THEOREM RecordsAgree == Spec => []SettingsAgree
<1>1. SerialInv => SettingsAgree
  BY DEF SerialInv, Carrying, SwitchInv, SavedInv, SettingsAgree, Settled, Goroutine, Resting
<1> QED
  BY <1>1, SerialInvariant, PTL

\* The switch turns a mode on, whatever the order of calls and of the daemon's signals,
\* as long as calls do not overlap.
THEOREM SwitchTurnsOn == Spec => []CanTurnOn
<1>1. SerialInv => CanTurnOn
  BY DEF SerialInv, CanTurnOn
<1> QED
  BY <1>1, SerialInvariant, PTL

-----------------------------------------------------------------------------
(* Redshift and the loops follow the mode: they lag behind it while a call *)
(* is on its way from the mode to them.                                    *)

\* A call in one of these places has still to turn redshift on or off ...
Choosing == {"prop", "enable", "profile", "runner"}

\* ... with the mode that is set, if no other call sets another one.
Agreed == ~crossed => \A c \in Client : pc[c] \in {"runner", "custom"} => arg[c].mode = mode

BootInv == arg[Boot].mode = "None"

LEMMA BootInvStep == TypeOK /\ BootInv /\ [Next]_vars => BootInv'
<1> SUFFICES ASSUME TypeOK, BootInv, [Next]_vars PROVE BootInv'
  OBVIOUS
<1> USE ConstantsAssumption DEF ConstantsAssumption
<1>1. CASE arg' = arg
  BY <1>1 DEF BootInv
<1>2. ASSUME NEW c \in Client, NEW x, arg' = [arg EXCEPT ![c] = x] PROVE BootInv'
  <2>1. c # Boot
    OBVIOUS
  <2> QED
    BY <1>2, <2>1 DEF BootInv, TypeOK, Actor
<1>3. CASE RedshiftStep
  BY <1>1, <1>3 DEF RedshiftStep, Die, Reap, Line, Timezone, Restart, local, data
<1>4. ASSUME NEW c \in Client, NEW m \in Modes, SetMode(c, m) PROVE BootInv'
  BY <1>2, <1>4 DEF SetMode
<1>5. ASSUME NEW c \in Client, WriteMode(c) \/ WriteEnabled(c) \/ Toggle(c) PROVE BootInv'
  BY <1>1, <1>5 DEF WriteMode, WriteEnabled, Toggle, data
<1>6. ASSUME NEW c \in Client, ToggleOn(c) \/ ToggleOff(c) PROVE BootInv'
  BY <1>2, <1>6 DEF ToggleOn, ToggleOff
<1>7. ASSUME NEW c \in Client, NEW profile, ApplyConfig(c, profile) PROVE BootInv'
  BY <1>1, <1>7 DEF ApplyConfig, data
<1>8. ASSUME NEW c \in Client, ReadMode(c) PROVE BootInv'
  <2>1. arg' = [arg EXCEPT ![c] = [@ EXCEPT !.mode = mode]]
    BY <1>8 DEF ReadMode
  <2> QED
    BY <1>2, <2>1
<1>9. CASE ModeOnSignal \/ \E g \in Actor : SwitchRunner(g) \/ SwitchCustom(g)
  BY <1>1, <1>9 DEF ModeOnSignal, SwitchRunner, SwitchCustom, local, data
<1>10. CASE LoopStep
  BY <1>1, <1>10 DEF LoopStep, Fire, Tick, Arm, Select, data
<1>11. ASSUME NEW g \in Goroutine, TakeTemp(g) PROVE BootInv'
  BY <1>1, <1>11 DEF TakeTemp
<1>12. ASSUME NEW g \in Goroutine, Write(g) PROVE BootInv'
  BY <1>12 DEF Write, BootInv, NoArg, Actor
<1>13. ASSUME NEW c \in Client, SetBrightness(c) \/ WriteBrightness(c) \/ SetValue(c) PROVE BootInv'
  BY <1>1, <1>13 DEF SetBrightness, WriteBrightness, SetValue, data
<1>14. ASSUME NEW c \in Client, NEW v \in Manual, WriteValue(c, v) PROVE BootInv'
  BY <1>2, <1>14 DEF WriteValue
<1>15. ASSUME NEW c \in Client, CopyProfile(c) \/ SaveProfile(c) PROVE BootInv'
  BY <1>2, <1>15 DEF CopyProfile, SaveProfile
<1>16. CASE UNCHANGED vars
  BY <1>1, <1>16 DEF vars, local, data
<1> QED
  BY <1>3, <1>4, <1>5, <1>6, <1>7, <1>8, <1>9, <1>10, <1>11, <1>12, <1>13, <1>14, <1>15, <1>16
     DEF Next, ModeStep, WriteStep

\* A step that moves no call and changes neither the mode nor what calls carry.
LEMMA AgreedOther ==
  ASSUME Agreed, mode' = mode, crossed => crossed',
         \A c \in Client : pc'[c] = pc[c] /\ arg'[c] = arg[c]
  PROVE  Agreed'
BY DEF Agreed

\* A call that goes on, to a place where it is not to turn anything on or off.
LEMMA AgreedAside ==
  ASSUME Agreed, mode' = mode, crossed => crossed', NEW c \in Client,
         pc'[c] \notin {"runner", "custom"},
         \A d \in Client \ {c} : pc'[d] = pc[d] /\ arg'[d] = arg[d]
  PROVE  Agreed'
BY DEF Agreed

LEMMA AgreedStep == TypeOK /\ SerialInv /\ Agreed /\ [Next]_vars => Agreed'
<1> SUFFICES ASSUME TypeOK, SerialInv, Agreed, [Next]_vars PROVE Agreed'
  OBVIOUS
<1> USE ConstantsAssumption DEF ConstantsAssumption, Goroutine, Actor
<1>1. CASE RedshiftStep
  BY <1>1, AgreedOther
     DEF RedshiftStep, Die, Reap, Line, Timezone, Restart, Goto, TypeOK, settings, local, data, count
<1>2. ASSUME NEW c \in Client, NEW m \in Modes, SetMode(c, m) PROVE Agreed'
  BY <1>2, AgreedAside DEF SetMode, Call, Goto, TypeOK, settings
<1>3. ASSUME NEW c \in Client, WriteMode(c) PROVE Agreed'
  <2>1. pc'[c] = "enable" /\ \A d \in Client \ {c} : pc'[d] = pc[d]
    BY <1>3 DEF WriteMode, Goto, TypeOK
  <2>2. ~crossed => \A d \in Client \ {c} : pc[d] \in Resting
    BY <1>3 DEF WriteMode, Goto, SerialInv, Serial, Resting
  <2>3. crossed' = crossed
    BY <1>3 DEF WriteMode, count
  <2> QED
    BY <2>1, <2>2, <2>3 DEF Agreed, Resting
<1>4. ASSUME NEW c \in Client, WriteEnabled(c) PROVE Agreed'
  <2>1. pc[c] = "enable" /\ \A d \in Client \ {c} : pc'[d] = pc[d]
    BY <1>4 DEF WriteEnabled, Goto, TypeOK
  <2>2. ~crossed => mode = arg[c].mode
    BY <2>1 DEF SerialInv, SwitchInv
  <2>3. UNCHANGED <<arg, mode, crossed>>
    BY <1>4 DEF WriteEnabled, data, count
  <2> QED
    BY <2>1, <2>2, <2>3 DEF Agreed
<1>5. ASSUME NEW c \in Client, Toggle(c) PROVE Agreed'
  BY <1>5, AgreedAside DEF Toggle, Call, Goto, TypeOK, data
<1>6. ASSUME NEW c \in Client, ToggleOn(c) \/ ToggleOff(c) PROVE Agreed'
  BY <1>6, AgreedAside DEF ToggleOn, ToggleOff, Goto, TypeOK, settings, count
<1>7. ASSUME NEW c \in Client, NEW profile, ApplyConfig(c, profile) PROVE Agreed'
  <2>1. Call(c, "profile") /\ pc'[c] = "profile" /\ \A d \in Client \ {c} : pc'[d] = pc[d]
    BY <1>7 DEF ApplyConfig, Call, Goto, TypeOK
  <2>2. ~crossed' => \A d \in Client \ {c} : pc[d] \in Resting
    BY <2>1, CallAlone
  <2> QED
    BY <2>1, <2>2 DEF Agreed, Resting
<1>8. ASSUME NEW c \in Client, ReadMode(c) PROVE Agreed'
  <2>1. arg[c] \in Arg
    BY DEF TypeOK
  <2>2. arg'[c].mode = mode /\ \A d \in Client \ {c} : pc'[d] = pc[d] /\ arg'[d] = arg[d]
    BY <1>8, <2>1 DEF ReadMode, Goto, TypeOK, Arg
  <2>3. mode' = mode /\ crossed' = crossed
    BY <1>8 DEF ReadMode, settings, count
  <2> QED
    BY <2>2, <2>3 DEF Agreed
<1>9. CASE ModeOnSignal
  BY <1>9, AgreedOther DEF ModeOnSignal, settings, local, data, count
<1>10. ASSUME NEW g \in Actor, SwitchRunner(g) PROVE Agreed'
  <2>1. pc[g] = "runner" /\ \A c \in Client \ {g} : pc'[c] = pc[c]
    BY <1>10 DEF SwitchRunner, Goto, TypeOK
  <2>2. UNCHANGED <<arg, mode, crossed>>
    BY <1>10 DEF SwitchRunner, settings, data, count
  <2> QED
    BY <2>1, <2>2 DEF Agreed
<1>11. ASSUME NEW g \in Actor, SwitchCustom(g) PROVE Agreed'
  <2>1. \A c \in Client : pc'[c] \in {pc[c], "shot", "leaked", "select"}
    BY <1>11 DEF SwitchCustom, TypeOK
  <2>2. UNCHANGED <<arg, mode, crossed>>
    BY <1>11 DEF SwitchCustom, settings, data, count
  <2> QED
    BY <2>1, <2>2 DEF Agreed
<1>12. CASE LoopStep
  BY <1>12, AgreedOther
     DEF LoopStep, Fire, Tick, Arm, Select, Goto, TypeOK, settings, data, count
<1>13. ASSUME NEW g \in Goroutine, TakeTemp(g) PROVE Agreed'
  <2>1. \A c \in Client : pc'[c] \in {pc[c], "write"}
    BY <1>13 DEF TakeTemp, Goto, TypeOK
  <2>2. UNCHANGED <<arg, mode, crossed>>
    BY <1>13 DEF TakeTemp, settings, count
  <2> QED
    BY <2>1, <2>2 DEF Agreed
<1>14. ASSUME NEW g \in Goroutine, Write(g) PROVE Agreed'
  <2>1. \A c \in Client \ {g} : pc'[c] = pc[c] /\ arg'[c] = arg[c]
    BY <1>14 DEF Write, Goto, TypeOK
  <2>2. pc'[g] \in {"arm", "save", "idle"}
    BY <1>14 DEF Write, Goto, TypeOK
  <2>3. UNCHANGED <<mode, crossed>>
    BY <1>14 DEF Write, settings, count
  <2> QED
    BY <2>1, <2>2, <2>3 DEF Agreed
<1>15. ASSUME NEW c \in Client, SetBrightness(c) \/ WriteBrightness(c) PROVE Agreed'
  BY <1>15, AgreedAside DEF SetBrightness, WriteBrightness, Goto, TypeOK, settings, count
<1>16. ASSUME NEW c \in Client, SetValue(c) PROVE Agreed'
  BY <1>16, AgreedAside DEF SetValue, Call, Goto, TypeOK, settings, data
<1>17. ASSUME NEW c \in Client, NEW v \in Manual, WriteValue(c, v) PROVE Agreed'
  BY <1>17, AgreedAside DEF WriteValue, Goto, TypeOK, count
<1>18. ASSUME NEW c \in Client, CopyProfile(c) \/ SaveProfile(c) PROVE Agreed'
  BY <1>18, AgreedAside DEF CopyProfile, SaveProfile, Goto, TypeOK, settings, count
<1>19. CASE UNCHANGED vars
  BY <1>19, AgreedOther DEF vars, settings, local, data, count
<1> QED
  BY <1>1, <1>2, <1>3, <1>4, <1>5, <1>6, <1>7, <1>8, <1>9, <1>10, <1>11, <1>12, <1>13, <1>14,
     <1>15, <1>16, <1>17, <1>18, <1>19 DEF Next, ModeStep, WriteStep

\* Redshift is on, respectively off or about to be.
Runs == state = "running" /\ \A p \in Pid : procs[p] # "dying"
Ends == state = "running" => \E p \in Pid : procs[p] = "dying"

\* RedshiftFollows, strengthened to be inductive: it holds as soon as the call that
\* set the mode has been at the runner, and the restart after a change of the time
\* zone counts as redshift being on.
FollowInv ==
    /\ state = "running" => process # {}
    /\ ~crossed /\ lost = {} /\ (\A c \in Client : pc[c] \notin Choosing) =>
         IF mode = "Auto" THEN Runs \/ restarts > 0 ELSE Ends

\* A start that loses nothing finds redshift on, or turns it on.
LEMMA StartFollows ==
  ASSUME TypeOK, ProcessInv, FollowInv, NEW why, StartRedshift(why)
  PROVE  /\ state' = "running" => process' # {}
         /\ lost' = {} => Runs' /\ why = {} /\ lost = {}
<1>1. CASE state = "running"
  <2>1. UNCHANGED <<state, process, procs>> /\ process # {}
    BY <1>1 DEF StartRedshift, runner, FollowInv
  <2>2. lost' = lost \cup why \cup {"redshift" : p \in {q \in process : procs[q] = "dying"}}
    BY <1>1 DEF StartRedshift
  <2>3. ASSUME lost' = {}, NEW p \in Pid PROVE procs[p] # "dying"
    <3>1. PICK q \in process : TRUE
      BY <2>1
    <3>2. q \in Pid /\ procs[q] # "none" /\ procs[q] # "dying"
      BY <2>2, <2>3, <3>1 DEF TypeOK, ProcessInv
    <3> QED
      BY <3>2 DEF ProcessInv, OneProcess
  <2> QED
    BY <1>1, <2>1, <2>2, <2>3 DEF Runs
<1>2. ASSUME state # "running", NEW p \in Pid, procs' = [procs EXCEPT ![p] = "alive"], process' = {p},
             state' = "running", lost' = lost \cup why
      PROVE  process' # {} /\ Runs' /\ (lost' = {} => why = {} /\ lost = {})
  <2>1. \A q \in Pid : procs'[q] # "dying"
    BY <1>2 DEF ProcessInv, TypeOK
  <2> QED
    BY <1>2, <2>1 DEF Runs
<1>3. CASE state' = "stopped" /\ lost' = lost \cup why \cup {"redshift"}
  BY <1>3
<1> QED
  BY <1>1, <1>2, <1>3 DEF StartRedshift

\* A stop reaches the process there is.
LEMMA StopFollows ==
  ASSUME TypeOK, ProcessInv, FollowInv, StopRedshift
  PROVE  (state' = "running" => process' # {}) /\ Ends'
<1>1. CASE state = "stopped"
  BY <1>1 DEF StopRedshift, runner, Ends
<1>2. CASE state # "stopped"
  <2>1. procs' = [p \in Pid |-> IF p \in process THEN "dying" ELSE procs[p]] /\ UNCHANGED <<state, process>>
    BY <1>2 DEF StopRedshift
  <2>2. process \subseteq Pid
    BY DEF TypeOK
  <2> QED
    BY <2>1, <2>2 DEF FollowInv, Ends
<1> QED
  BY <1>1, <1>2

\* Steps that do not touch redshift and bring no call past the runner.
LEMMA FollowKept ==
  ASSUME FollowInv, UNCHANGED <<state, process, procs, restarts>>,
         crossed => crossed', lost \subseteq lost',
         \A c \in Client : pc[c] \in Choosing => pc'[c] \in Choosing,
         mode' = mode \/ \E c \in Client : pc'[c] \in Choosing
  PROVE  FollowInv'
<1>1. state' = "running" => process' # {}
  BY DEF FollowInv
<1>2. ASSUME ~crossed', lost' = {}, \A c \in Client : pc'[c] \notin Choosing
      PROVE  IF mode' = "Auto" THEN Runs' \/ restarts' > 0 ELSE Ends'
  <2>1. ~crossed /\ lost = {} /\ mode' = mode /\ \A c \in Client : pc[c] \notin Choosing
    BY <1>2
  <2> QED
    BY <2>1 DEF FollowInv, Runs, Ends
<1> QED
  BY <1>1, <1>2 DEF FollowInv

LEMMA FollowRunner ==
  ASSUME TypeInv, ProcessInv, FollowInv, RedshiftStep
  PROVE  FollowInv'
<1>0. TypeOK /\ restarts \in Nat /\ UNCHANGED <<mode, crossed>>
      /\ \A c \in Client : pc'[c] = pc[c]
  BY ConstantsAssumption
     DEF TypeInv, TypeOK, RedshiftStep, Die, Reap, Line, Timezone, Restart, Goto, settings, local, count,
         Goroutine
<1>1. ASSUME NEW p \in Pid, Die(p) PROVE FollowInv'
  BY <1>1 DEF Die, FollowInv
<1>2. ASSUME NEW p \in Pid, Reap(p) PROVE FollowInv'
  <2>1. procs[p] = "dying" /\ state' = "stopped" /\ restarts' = restarts /\ lost' = lost
    BY <1>2 DEF Reap
  <2>2. ~Runs /\ Ends'
    BY <2>1 DEF Runs, Ends
  <2> QED
    BY <1>0, <2>1, <2>2 DEF FollowInv
<1>3. ASSUME NEW p \in Pid, NEW v \in Warm, Line(p, v) PROVE FollowInv'
  BY <1>0, <1>3, FollowKept DEF Line
<1>4. CASE Timezone /\ state = "running"
  <2>1. StopRedshift /\ restarts' = restarts + 1 /\ lost' = lost
    BY <1>4 DEF Timezone
  <2>2. restarts' > 0
    BY <1>0, <2>1
  <2> QED
    BY <1>0, <2>1, <2>2, StopFollows DEF FollowInv
<1>5. CASE Timezone /\ state # "running"
  BY <1>0, <1>5, FollowKept DEF Timezone, runner
<1>6. CASE Restart
  <2> DEFINE why == IF mode = "Auto" THEN {} ELSE {"redshift"}
  <2>1. StartRedshift(why)
    BY <1>6 DEF Restart
  <2>2. why = {} => mode = "Auto"
    OBVIOUS
  <2> HIDE DEF why
  <2>3. /\ state' = "running" => process' # {}
        /\ lost' = {} => Runs' /\ why = {} /\ lost = {}
    BY <1>0, <2>1, StartFollows
  <2> QED
    BY <1>0, <2>2, <2>3 DEF FollowInv
<1> QED
  BY <1>1, <1>2, <1>3, <1>4, <1>5, <1>6 DEF RedshiftStep

\* A call that chooses does it alone, unless calls overlap.
LEMMA FollowChoice ==
  ASSUME TypeInv, ProcessInv, SerialInv, Agreed, BootInv, FollowInv, NEW g \in Actor, SwitchRunner(g)
  PROVE  FollowInv'
<1>0. TypeOK /\ pc[g] = "runner" /\ UNCHANGED <<mode, crossed, restarts>>
  BY DEF TypeInv, SwitchRunner, Goto, settings, count
<1>1. ASSUME ~crossed', lost' = {}
      PROVE  arg[g].mode = mode
  <2>1. CASE g \in Client
    BY <1>0, <1>1, <2>1 DEF Agreed
  <2>2. CASE g = Boot
    <3>1. BootLoss(g) = {}
      BY <1>1 DEF SwitchRunner, StartRedshift
    <3>2. mode = "None"
      BY <2>2, <3>1 DEF BootLoss
    <3> QED
      BY <2>2, <3>2 DEF BootInv
  <2> QED
    BY <2>1, <2>2 DEF Actor
<1>2. CASE arg[g].mode = "Auto"
  <2>1. StartRedshift(BootLoss(g))
    BY <1>2 DEF SwitchRunner
  <2>2. /\ state' = "running" => process' # {}
        /\ lost' = {} => Runs'
    BY <1>0, <2>1, StartFollows
  <2> QED
    BY <1>0, <1>1, <1>2, <2>2 DEF FollowInv
<1>3. CASE arg[g].mode # "Auto"
  <2>1. StopRedshift
    BY <1>3 DEF SwitchRunner
  <2>2. (state' = "running" => process' # {}) /\ Ends'
    BY <1>0, <2>1, StopFollows
  <2> QED
    BY <1>0, <1>1, <1>3, <2>2 DEF FollowInv
<1> QED
  BY <1>2, <1>3

LEMMA FollowInvStep ==
  TypeInv /\ ProcessInv /\ SerialInv /\ Agreed /\ BootInv /\ FollowInv /\ [Next]_vars => FollowInv'
<1> SUFFICES ASSUME TypeInv, ProcessInv, SerialInv, Agreed, BootInv, FollowInv, [Next]_vars PROVE FollowInv'
  OBVIOUS
<1>0. TypeOK
  BY DEF TypeInv
<1> USE ConstantsAssumption DEF ConstantsAssumption, Goroutine, Actor
<1> USE DEF redshift, runner
<1>1. CASE RedshiftStep
  BY <1>1, FollowRunner
<1>2. ASSUME NEW c \in Client, NEW m \in Modes, SetMode(c, m) PROVE FollowInv'
  BY <1>0, <1>2, FollowKept DEF SetMode, Call, Goto, TypeOK, Choosing, settings
<1>3. ASSUME NEW c \in Client, WriteMode(c) \/ WriteEnabled(c) PROVE FollowInv'
  BY <1>0, <1>3, FollowKept DEF WriteMode, WriteEnabled, Goto, TypeOK, Choosing, count
<1>4. ASSUME NEW c \in Client, Toggle(c) PROVE FollowInv'
  <2>1. pc[c] = "idle" /\ \A d \in Client \ {c} : pc'[d] = pc[d]
    BY <1>0, <1>4 DEF Toggle, Call, Goto, TypeOK
  <2>2. UNCHANGED <<mode, state, process, procs, restarts, lost>> /\ (crossed => crossed')
    BY <1>4 DEF Toggle, Call
  <2> QED
    BY <2>1, <2>2, FollowKept DEF Choosing
<1>5. ASSUME NEW c \in Client, ToggleOn(c) \/ ToggleOff(c) PROVE FollowInv'
  BY <1>0, <1>5, FollowKept DEF ToggleOn, ToggleOff, Goto, TypeOK, Choosing, settings, count
<1>6. ASSUME NEW c \in Client, NEW profile, ApplyConfig(c, profile) PROVE FollowInv'
  BY <1>0, <1>6, FollowKept DEF ApplyConfig, Call, Goto, TypeOK, Choosing
<1>7. ASSUME NEW c \in Client, ReadMode(c) PROVE FollowInv'
  BY <1>0, <1>7, FollowKept DEF ReadMode, Goto, TypeOK, Choosing, settings, count
<1>8. CASE ModeOnSignal
  BY <1>8, FollowKept DEF ModeOnSignal, settings, local, count
<1>9. ASSUME NEW g \in Actor, SwitchRunner(g) PROVE FollowInv'
  BY <1>9, FollowChoice
<1>10. ASSUME NEW g \in Actor, SwitchCustom(g) PROVE FollowInv'
  <2>1. \A c \in Client : pc[c] \in Choosing => pc'[c] = pc[c]
    BY <1>0, <1>10 DEF SwitchCustom, TypeOK, Choosing
  <2>2. lost \subseteq lost' /\ UNCHANGED <<mode, state, process, procs, restarts, crossed>>
    BY <1>10 DEF SwitchCustom, settings, count
  <2> QED
    BY <2>1, <2>2, FollowKept
<1>11. CASE LoopStep
  BY <1>0, <1>11, FollowKept
     DEF LoopStep, Fire, Tick, Arm, Select, Goto, TypeOK, settings, count
<1>12. ASSUME NEW g \in Goroutine, TakeTemp(g) \/ Write(g) PROVE FollowInv'
  <2>1. \A c \in Client : pc[c] \in Choosing => pc'[c] = pc[c]
    BY <1>0, <1>12 DEF TakeTemp, Write, Goto, TypeOK, Choosing
  <2>2. UNCHANGED <<mode, state, process, procs, restarts, lost, crossed>>
    BY <1>12 DEF TakeTemp, Write, settings, count
  <2> QED
    BY <2>1, <2>2, FollowKept
<1>13. ASSUME NEW c \in Client, SetBrightness(c) \/ WriteBrightness(c) PROVE FollowInv'
  BY <1>0, <1>13, FollowKept DEF SetBrightness, WriteBrightness, Goto, TypeOK, Choosing, settings, count
<1>14. ASSUME NEW c \in Client, SetValue(c) PROVE FollowInv'
  BY <1>0, <1>14, FollowKept DEF SetValue, Call, Goto, TypeOK, Choosing, settings
<1>15. ASSUME NEW c \in Client, NEW v \in Manual, WriteValue(c, v) PROVE FollowInv'
  BY <1>0, <1>15, FollowKept DEF WriteValue, Goto, TypeOK, Choosing, count
<1>16. ASSUME NEW c \in Client, CopyProfile(c) \/ SaveProfile(c) PROVE FollowInv'
  BY <1>0, <1>16, FollowKept DEF CopyProfile, SaveProfile, Goto, TypeOK, Choosing, settings, count
<1>17. CASE UNCHANGED vars
  BY <1>17, FollowKept DEF vars, settings, local, count
<1> QED
  BY <1>1, <1>2, <1>3, <1>4, <1>5, <1>6, <1>7, <1>8, <1>9, <1>10, <1>11, <1>12, <1>13, <1>14,
     <1>15, <1>16, <1>17 DEF Next, ModeStep, WriteStep

LEMMA ProcessInvariant == Spec => []ProcessInv
<1>1. Init => ProcessInv
  BY DEF Init, ProcessInv, OneProcess
<1>2. TypeInv => TypeOK
  BY DEF TypeInv
<1> QED
  BY <1>1, <1>2, ProcessInvStep, TypeInvariant, PTL DEF Spec

\* What calls carry is the mode, and the goroutine of the start carries none.
LEMMA AgreedInvariant == Spec => [](Agreed /\ BootInv)
<1>1. Init => Agreed /\ BootInv
  BY ConstantsAssumption DEF Init, Agreed, BootInv, NoArg, Goroutine, Actor, ConstantsAssumption
<1>2. TypeInv => TypeOK
  BY DEF TypeInv
<1> QED
  BY <1>1, <1>2, AgreedStep, BootInvStep, SerialInvariant, TypeInvariant, PTL DEF Spec

\* Redshift runs exactly in automatic mode when all is done, for every number of
\* calls and of changes of the time zone, unless one of the events of the history
\* came between.
THEOREM RedshiftIsFollowing == Spec => []RedshiftFollows
<1>1. Init => FollowInv
  BY DEF Init, FollowInv, Ends
<1>2. FollowInv /\ TypeInv => RedshiftFollows
  <2> SUFFICES ASSUME FollowInv, TypeInv, Quiet, ~crossed, lost = {}
               PROVE  state = "running" <=> mode = "Auto"
    BY DEF RedshiftFollows
  <2>1. \A c \in Client : pc[c] \notin Choosing
    BY DEF Quiet, Settled, Goroutine, Choosing
  <2> QED
    BY <2>1 DEF FollowInv, Quiet, Runs, Ends
<1> QED
  BY <1>1, <1>2, FollowInvStep, ProcessInvariant, SerialInvariant, AgreedInvariant, TypeInvariant, PTL
     DEF Spec

-----------------------------------------------------------------------------
(* The custom mode.  CustomTicks is not inductive: a loop that turns is    *)
(* going to reset the timer, and a timer that fires while no loop waits    *)
(* keeps its value for the one that comes to the select statement.         *)

\* A loop at work, which resets the timer before it waits again.
Turning == {"tick", "shot", "write", "arm"}

\* A timer that is going to fire or has fired is one that was set, and its channel
\* keeps the value only while nobody waits for it.
KeptInv ==
    /\ timer # {} => "set" \in timer
    /\ "fired" \in timer => \A l \in Loop : pc[l] # "wait"

\* A loop is there, and something is going to wake it up.
Ticking ==
    /\ "set" \in timer
    /\ \E l \in Loop : pc[l] \in Turning \cup {"select", "wait"}
    /\ \/ "armed" \in timer
       \/ \E l \in Loop : pc[l] \in Turning
       \/ "fired" \in timer /\ \E l \in Loop : pc[l] = "select"

TickInv ==
    /\ KeptInv
    /\ ~crossed /\ "boot" \notin lost /\ mode = "Custom"
       /\ (\A c \in Client : pc[c] \notin Choosing \cup {"custom"}) => Ticking

\* Steps that leave the timer alone, and the loops but for their turn.
LEMMA TickKept ==
  ASSUME TickInv, timer' = timer,
         crossed => crossed', lost \subseteq lost',
         \A c \in Client : pc[c] \in Choosing \cup {"custom"} => pc'[c] \in Choosing \cup {"custom"},
         mode' = mode \/ \E c \in Client : pc'[c] \in Choosing,
         \A l \in Loop : pc'[l] = pc[l] \/ (pc[l] \in Turning /\ pc'[l] \in Turning)
  PROVE  TickInv'
<1>1. KeptInv'
  BY DEF TickInv, KeptInv, Turning
<1>2. Ticking => Ticking'
  <2> SUFFICES ASSUME Ticking PROVE Ticking'
    OBVIOUS
  <2>1. "set" \in timer'
    BY DEF Ticking
  <2>2. \E l \in Loop : pc'[l] \in Turning \cup {"select", "wait"}
    BY DEF Ticking
  <2>3. (\E l \in Loop : pc[l] \in Turning) => \E l \in Loop : pc'[l] \in Turning
    OBVIOUS
  <2>4. (\E l \in Loop : pc[l] = "select") => \E l \in Loop : pc'[l] = "select"
    BY DEF Turning
  <2> QED
    BY <2>1, <2>2, <2>3, <2>4 DEF Ticking
<1>3. ASSUME ~crossed', "boot" \notin lost', mode' = "Custom",
             \A c \in Client : pc'[c] \notin Choosing \cup {"custom"}
      PROVE  Ticking'
  <2>1. ~crossed /\ "boot" \notin lost /\ mode = "Custom"
        /\ \A c \in Client : pc[c] \notin Choosing \cup {"custom"}
    BY <1>3
  <2> QED
    BY <1>2, <2>1 DEF TickInv
<1> QED
  BY <1>1, <1>3 DEF TickInv

\* The switch of a call to the custom mode starts a loop and sets the timer; the
\* switch to another mode finds that mode set, or is a late one of Boot.
LEMMA TickSwitch ==
  ASSUME TypeOK, Agreed, BootInv, TickInv, NEW g \in Actor, SwitchCustom(g)
  PROVE  TickInv'
<1> USE ConstantsAssumption DEF ConstantsAssumption, Goroutine, Actor
<1>1. pc[g] = "custom" /\ UNCHANGED <<mode, crossed>> /\ lost' = lost \cup BootLoss(g)
  BY DEF SwitchCustom, settings, count
<1>2. ASSUME arg[g].mode = "Custom", timer' = timer \cup {"set", "armed"}, NEW l \in Loop,
             pc[l] = "idle", pc' = [pc EXCEPT ![g] = "shot", ![l] = "select"]
      PROVE  TickInv'
  <2>1. pc'[l] = "select" /\ \A k \in Loop \ {l} : pc'[k] = pc[k]
    BY <1>2 DEF TypeOK
  <2>2. KeptInv'
    BY <1>2, <2>1 DEF TickInv, KeptInv
  <2>3. Ticking'
    BY <1>2, <2>1 DEF Ticking
  <2> QED
    BY <2>2, <2>3 DEF TickInv
<1>3. ASSUME arg[g].mode # "Custom", timer' = {} PROVE TickInv'
  <2>1. ~crossed' /\ "boot" \notin lost' => mode' # "Custom"
    <3>1. CASE g \in Client
      BY <1>1, <1>3, <3>1 DEF Agreed
    <3>2. CASE g = Boot
      BY <1>1, <3>2 DEF BootLoss
    <3> QED
      BY <3>1, <3>2
  <2> QED
    BY <1>3, <2>1 DEF TickInv, KeptInv
<1> QED
  BY <1>2, <1>3 DEF SwitchCustom

\* The steps of the timer and of the loops.
LEMMA TickFire ==
  ASSUME TypeOK, TickInv, NEW l \in Loop, Fire(l)
  PROVE  TickInv'
<1> USE ConstantsAssumption DEF ConstantsAssumption, Goroutine, Actor
<1>1. /\ UNCHANGED <<mode, crossed, lost>>
      /\ \A c \in Client : pc'[c] = pc[c]
      /\ \A k \in Loop \ {l} : pc'[k] = pc[k]
  BY DEF Fire, Goto, TypeOK, settings, redshift, count
<1>2. CASE \E k \in Loop : pc[k] = "wait"
  <2>1. pc'[l] = "tick" /\ timer' = timer \ {"armed"}
    BY <1>2 DEF Fire, Goto, TypeOK
  <2>2. "fired" \notin timer' /\ (timer' # {} => "set" \in timer')
    BY <1>2, <2>1 DEF TickInv, KeptInv
  <2>3. Ticking => Ticking'
    BY <2>1 DEF Ticking, Turning
  <2> QED
    BY <1>1, <2>2, <2>3 DEF TickInv, KeptInv
<1>3. CASE ~ \E k \in Loop : pc[k] = "wait"
  <2>1. pc' = pc /\ timer' = (timer \ {"armed"}) \cup {"fired"}
    BY <1>3 DEF Fire
  <2>2. KeptInv'
    <3>1. "set" \in timer
      BY DEF Fire, TickInv, KeptInv
    <3> QED
      BY <1>3, <2>1, <3>1 DEF KeptInv
  <2>3. Ticking => Ticking'
    BY <1>3, <2>1 DEF Ticking
  <2> QED
    BY <1>1, <2>2, <2>3 DEF TickInv
<1> QED
  BY <1>2, <1>3

LEMMA TickArm ==
  ASSUME TypeOK, TickInv, NEW l \in Loop, Arm(l)
  PROVE  TickInv'
<1>1. pc'[l] = "select" /\ \A k \in Loop \ {l} : pc'[k] = pc[k]
  BY DEF Arm, Goto, TypeOK, Goroutine
<1>2. timer' = timer \cup {"set", "armed"}
  BY DEF Arm
<1>3. KeptInv'
  BY <1>1, <1>2 DEF TickInv, KeptInv
<1>4. Ticking'
  BY <1>1, <1>2 DEF Ticking
<1> QED
  BY <1>3, <1>4 DEF TickInv

LEMMA TickSelect ==
  ASSUME TypeOK, TickInv, NEW l \in Loop, Select(l)
  PROVE  TickInv'
<1> USE ConstantsAssumption DEF ConstantsAssumption, Goroutine, Actor
<1>1. /\ UNCHANGED <<mode, crossed, lost>>
      /\ pc[l] = "select"
      /\ \A c \in Client : pc'[c] = pc[c]
      /\ \A k \in Loop \ {l} : pc'[k] = pc[k]
  BY DEF Select, Goto, TypeOK, settings, redshift, count
<1>2. CASE "set" \notin timer
  <2>1. pc'[l] = "panic" /\ timer' = timer
    <3>1. "fired" \notin timer
      BY <1>2 DEF TickInv, KeptInv
    <3> QED
      BY <1>2, <3>1 DEF Select, Goto, TypeOK
  <2>2. KeptInv'
    BY <1>1, <2>1 DEF TickInv, KeptInv
  <2>3. ~Ticking
    BY <1>2 DEF Ticking
  <2> QED
    BY <1>1, <2>2, <2>3 DEF TickInv
<1>3. CASE "set" \in timer /\ "fired" \in timer
  <2>1. pc'[l] = "tick" /\ timer' = timer \ {"fired"}
    BY <1>3 DEF Select, Goto, TypeOK
  <2>2. Ticking'
    BY <1>3, <2>1 DEF Ticking, Turning
  <2> QED
    BY <1>1, <2>1, <2>2 DEF TickInv, KeptInv
<1>4. CASE "set" \in timer /\ "fired" \notin timer
  <2>1. pc'[l] = "wait" /\ timer' = timer
    BY <1>4 DEF Select, Goto, TypeOK
  <2>2. Ticking => Ticking'
    BY <1>1, <1>4, <2>1 DEF Ticking, Turning
  <2> QED
    BY <1>1, <1>4, <2>1, <2>2 DEF TickInv, KeptInv
<1> QED
  BY <1>2, <1>3, <1>4

LEMMA TickInvStep ==
  TypeOK /\ Agreed /\ BootInv /\ TickInv /\ [Next]_vars => TickInv'
<1> SUFFICES ASSUME TypeOK, Agreed, BootInv, TickInv, [Next]_vars PROVE TickInv'
  OBVIOUS
<1> USE ConstantsAssumption DEF ConstantsAssumption, Goroutine, Actor
<1> USE DEF redshift, runner, custom
<1>1. CASE RedshiftStep
  <2>1. \A p \in Client \cup Loop : pc'[p] = pc[p]
    BY <1>1 DEF RedshiftStep, Die, Reap, Line, Timezone, Restart, Goto, TypeOK, local
  <2>2. UNCHANGED <<mode, crossed, timer>>
    BY <1>1 DEF RedshiftStep, Die, Reap, Line, Timezone, Restart, settings, count
  <2>3. lost \subseteq lost'
    BY <1>1 DEF RedshiftStep, Die, Reap, Line, Timezone, Restart, StartRedshift
  <2> QED
    BY <2>1, <2>2, <2>3, TickKept
<1>2. ASSUME NEW c \in Client, NEW m \in Modes, SetMode(c, m) PROVE TickInv'
  BY <1>2, TickKept DEF SetMode, Call, Goto, TypeOK, Choosing, settings
<1>3. ASSUME NEW c \in Client, WriteMode(c) \/ WriteEnabled(c) PROVE TickInv'
  BY <1>3, TickKept DEF WriteMode, WriteEnabled, Goto, TypeOK, Choosing, count
<1>4. ASSUME NEW c \in Client, Toggle(c) PROVE TickInv'
  <2>1. pc[c] = "idle" /\ \A d \in Goroutine \ {c} : pc'[d] = pc[d]
    BY <1>4 DEF Toggle, Call, Goto, TypeOK
  <2>2. UNCHANGED <<mode, timer, lost>> /\ (crossed => crossed')
    BY <1>4 DEF Toggle, Call
  <2> QED
    BY <2>1, <2>2, TickKept DEF Choosing
<1>5. ASSUME NEW c \in Client, ToggleOn(c) \/ ToggleOff(c) PROVE TickInv'
  BY <1>5, TickKept DEF ToggleOn, ToggleOff, Goto, TypeOK, Choosing, settings, count
<1>6. ASSUME NEW c \in Client, NEW profile, ApplyConfig(c, profile) PROVE TickInv'
  BY <1>6, TickKept DEF ApplyConfig, Call, Goto, TypeOK, Choosing
<1>7. ASSUME NEW c \in Client, ReadMode(c) PROVE TickInv'
  BY <1>7, TickKept DEF ReadMode, Goto, TypeOK, Choosing, settings, count
<1>8. CASE ModeOnSignal
  BY <1>8, TickKept DEF ModeOnSignal, settings, local, count
<1>9. ASSUME NEW g \in Actor, SwitchRunner(g) PROVE TickInv'
  <2>1. pc'[g] = "custom" /\ \A h \in Goroutine \ {g} : pc'[h] = pc[h]
    BY <1>9 DEF SwitchRunner, Goto, TypeOK
  <2>2. lost \subseteq lost' /\ UNCHANGED <<mode, timer, crossed>>
    BY <1>9 DEF SwitchRunner, StartRedshift, settings, count
  <2> QED
    BY <2>1, <2>2, TickKept
<1>10. ASSUME NEW g \in Actor, SwitchCustom(g) PROVE TickInv'
  BY <1>10, TickSwitch
<1>11. ASSUME NEW l \in Loop, Tick(l) PROVE TickInv'
  <2>1. pc[l] = "tick" /\ pc'[l] \in {"shot", "arm"} /\ \A h \in Goroutine \ {l} : pc'[h] = pc[h]
    BY <1>11 DEF Tick, Goto, TypeOK
  <2>2. UNCHANGED <<mode, timer, crossed, lost>>
    BY <1>11 DEF Tick, settings, count
  <2> QED
    BY <2>1, <2>2, TickKept DEF Turning
<1>12. ASSUME NEW g \in Goroutine, TakeTemp(g) PROVE TickInv'
  BY <1>12, TickKept DEF TakeTemp, Goto, TypeOK, Choosing, Turning, settings, count
<1>13. ASSUME NEW g \in Goroutine, Write(g) PROVE TickInv'
  <2>1. pc[g] = "write" /\ \A h \in Goroutine \ {g} : pc'[h] = pc[h]
    BY <1>13 DEF Write, Goto, TypeOK
  <2>2. g \in Loop => pc'[g] = "arm"
    BY <1>13 DEF Write, Goto, TypeOK
  <2>3. UNCHANGED <<mode, timer, crossed, lost>>
    BY <1>13 DEF Write, settings, count
  <2> QED
    BY <2>1, <2>2, <2>3, TickKept DEF Turning, Choosing
<1>14. ASSUME NEW c \in Client, SetBrightness(c) \/ WriteBrightness(c) PROVE TickInv'
  BY <1>14, TickKept DEF SetBrightness, WriteBrightness, Goto, TypeOK, Choosing, settings, count
<1>15. ASSUME NEW c \in Client, SetValue(c) PROVE TickInv'
  BY <1>15, TickKept DEF SetValue, Call, Goto, TypeOK, Choosing, settings
<1>16. ASSUME NEW c \in Client, NEW v \in Manual, WriteValue(c, v) PROVE TickInv'
  BY <1>16, TickKept DEF WriteValue, Goto, TypeOK, Choosing, count
<1>17. ASSUME NEW c \in Client, CopyProfile(c) \/ SaveProfile(c) PROVE TickInv'
  BY <1>17, TickKept DEF CopyProfile, SaveProfile, Goto, TypeOK, Choosing, settings, count
<1>18. CASE UNCHANGED vars
  BY <1>18, TickKept DEF vars, settings, local, count
<1> QED
  BY <1>1, <1>2, <1>3, <1>4, <1>5, <1>6, <1>7, <1>8, <1>9, <1>10, <1>11, <1>12, <1>13, <1>14,
     <1>15, <1>16, <1>17, <1>18, TickFire, TickArm, TickSelect
     DEF Next, ModeStep, LoopStep, WriteStep

\* In custom mode the monitor goes on changing: at rest a loop waits for a timer that is
\* going to fire, for any number of loops and timers that earlier visits left behind.
THEOREM CustomModeTicks == Spec => []CustomTicks
<1>1. Init => TickInv
  BY DEF Init, TickInv, KeptInv
<1>2. TickInv => CustomTicks
  <2> SUFFICES ASSUME TickInv, Settled, ~crossed, "boot" \notin lost, mode = "Custom"
               PROVE  "armed" \in timer /\ \E l \in Loop : pc[l] = "wait"
    BY DEF CustomTicks
  <2>1. \A g \in Goroutine : pc[g] \in {"idle", "wait", "leaked"}
    BY DEF Settled
  <2>2. \A c \in Client : pc[c] \notin Choosing \cup {"custom"}
    BY <2>1 DEF Goroutine, Choosing
  <2>3. Ticking
    BY <2>2 DEF TickInv
  <2>4. \A l \in Loop : pc[l] \notin Turning \cup {"select"}
    BY <2>1 DEF Goroutine, Turning
  <2> QED
    BY <2>3, <2>4 DEF Ticking
<1>3. TypeInv => TypeOK
  BY DEF TypeInv
<1> QED
  BY <1>1, <1>2, <1>3, TickInvStep, AgreedInvariant, TypeInvariant, PTL DEF Spec

=============================================================================
