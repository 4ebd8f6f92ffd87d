------------------------------ MODULE ColorTemp ------------------------------
(***************************************************************************)
(* The color temperature (src/display: color_temp.go, brightness.go,       *)
(* display.go).                                                            *)
(*                                                                         *)
(* Four kinds of goroutines work on it without a common lock: D-Bus calls  *)
(* and the appliers of a configuration (Client), the goroutine that        *)
(* resets the temperature at start-up (Boot), the readers of the redshift  *)
(* processes (Pid, with the process itself), and the loops that look at    *)
(* the clock in custom mode (Loop).  All of them end in                    *)
(* setColorTempOneShot, which reads the temperature the settings ask for   *)
(* and writes it to the monitor; the mutex of that function covers no      *)
(* other access.  One monitor is modelled, and it stays connected.         *)
(***************************************************************************)
EXTENDS Naturals

CONSTANTS
    Client,   \* goroutines of calls
    Boot,     \* the goroutine initSysDisplay starts
    Loop,     \* bound: goroutines of the custom mode
    Pid,      \* redshift processes
    Manual,   \* temperatures a user sets
    Default,  \* the one of the daemon's key default-temperature-manual
    Warm,     \* temperatures redshift prints
    Normal,   \* 6500 K
    Zero,     \* redshiftRunner.value before redshift printed anything
    CanFail,  \* redshift may fail to start, or end although nobody stopped it
    Modes,    \* bound: the modes that calls ask for and profiles hold
    MaxCall,  \* bound: calls in a behaviour
    MaxZone   \* bound: changes of the time zone in a behaviour

ASSUME ConstantsAssumption ==
    /\ Boot \notin Client \cup Loop \cup Pid
    /\ Client \cap Loop = {} /\ Client \cap Pid = {} /\ Loop \cap Pid = {}
    /\ Default \in Manual
    /\ Zero \notin Manual \cup Warm
    /\ CanFail \in BOOLEAN
    /\ Modes \subseteq {"None", "Auto", "Manual", "Custom"}
    /\ MaxCall \in Nat
    /\ MaxZone \in Nat

Mode == {"None", "Auto", "Manual", "Custom"}
Actor     == Client \cup {Boot}
Goroutine == Client \cup {Boot} \cup Loop \cup Pid

VARIABLES
    mode,     \* Manager.ColorTemperatureMode
    enabled,  \* Manager.ColorTemperatureEnabled
    manual,   \* Manager.ColorTemperatureManual
    modeOn,   \* Manager.colorTemperatureModeOn
    dconf,    \* the daemon's key color-temperature-mode-on
    signal,   \* its change has not been delivered
    saved,    \* the UserMonitorModeConfig of the connected monitors
    flag,     \* Manager.customColorTempFlag
    timer,    \* Manager.customColorTempTimer: {} is nil
    state,    \* redshiftRunner.state
    process,  \* redshiftRunner.process, a set of at most one
    value,    \* redshiftRunner.value
    procs,    \* what each redshift process does
    restarts, \* pending time.AfterFunc(50 ms) of listenTimezone
    hw,       \* the temperature written to the monitor
    pc,       \* where each goroutine is
    arg,      \* what a call carries along
    temp,     \* the temperature a goroutine is about to write
    calls,    \* calls so far
    zones,    \* changes of the time zone so far
    crossed,  \* history: a call began while another one was running
    lost,     \* history: a late reset of Boot, or a failure of redshift or of its start
    late      \* history: the last write to the monitor was a stale one, of setBrightness

settings == <<mode, enabled, manual, saved>>
switch   == <<modeOn, dconf, signal>>
custom   == <<flag, timer>>
runner   == <<state, process, value, procs>>
redshift == <<runner, restarts, lost>>
screen   == <<hw, late>>
data     == <<arg, temp>>
local    == <<pc, data>>
count    == <<calls, zones, crossed>>
vars     == <<settings, switch, custom, redshift, screen, local, count>>

Kelvin  == {Normal, Zero} \cup Manual \cup Warm
Profile == [mode : Mode, manual : Manual]

\* The arguments of a call, with the part of the profile it saves in the end.
Arg   == [mode : Mode, manual : Manual, saves : {"nothing", "mode", "manual", "profile"}]
NoArg == [mode |-> "None", manual |-> Default, saves |-> "nothing"]
Pc == {"idle", "toggleOn", "toggleOff", "prop", "enable", "profile", "runner", "custom",
       "value", "shot", "write", "bright", "save", "saveWrite",
       "select", "wait", "tick", "arm", "leaked", "panic"}

TypeOK ==
    /\ mode \in Mode /\ enabled \in BOOLEAN /\ manual \in Manual
    /\ modeOn \in Mode /\ dconf \in Mode /\ signal \in BOOLEAN
    /\ saved \in Profile
    /\ flag \in BOOLEAN
    /\ timer \in SUBSET {"set", "armed", "fired"}
    /\ state \in {"none", "running", "stopped"}
    /\ process \in SUBSET Pid
    /\ value \in Kelvin
    /\ procs \in [Pid -> {"none", "alive", "dying"}]
    /\ restarts \in 0 .. MaxZone
    /\ hw \in Kelvin
    /\ pc \in [Goroutine -> Pc]
    /\ arg \in [Actor -> Arg]
    /\ temp \in [Goroutine -> Kelvin]
    /\ calls \in 0 .. MaxCall
    /\ zones \in 0 .. MaxZone
    /\ crossed \in BOOLEAN
    /\ lost \in SUBSET {"boot", "redshift"}
    /\ late \in BOOLEAN

Goto(g, from, to) ==
    /\ pc[g] = from
    /\ pc' = [pc EXCEPT ![g] = to]

\* getColorTemperatureValue, and setMonitorBrightness for the value 0
Temperature ==
    CASE mode = "None"   -> Normal
      [] mode = "Manual" -> manual
      [] mode = "Auto"   -> IF value = Zero THEN Normal ELSE value
      [] mode = "Custom" -> IF flag THEN manual ELSE Normal

\* A call begins in a goroutine of its own.
Call(c, to) ==
    /\ calls < MaxCall
    /\ calls' = calls + 1
    /\ crossed' = (crossed \/ \E d \in Client \ {c} : pc[d] \notin {"idle", "bright"})
    /\ Goto(c, "idle", to)

-----------------------------------------------------------------------------
(* The redshift process: redshiftRunner.                                   *)

\* Fault: a start that does not look at the state.
StartUnchecked(why) ==
    /\ \E p \in Pid :
         /\ procs[p] = "none"
         /\ procs' = [procs EXCEPT ![p] = "alive"]
         /\ process' = {p}
    /\ state' = "running"
    /\ value' = Zero
    /\ lost' = lost \cup why

\* start does nothing while the state is running, although the process may be dying.
\* "why" goes to the history in any case.
StartRedshift(why) ==
    \/ /\ state = "running"
       /\ lost' = lost \cup why \cup {"redshift" : p \in {q \in process : procs[q] = "dying"}}
       /\ UNCHANGED runner
    \/ /\ state # "running"
       /\ \E p \in Pid :
            /\ procs[p] = "none"
            /\ procs' = [procs EXCEPT ![p] = "alive"]
            /\ process' = {p}
       /\ state' = "running"
       /\ value' = Zero
       /\ lost' = lost \cup why
    \/ /\ CanFail
       /\ state # "running"
       /\ state' = "stopped"
       /\ lost' = lost \cup why \cup {"redshift"}
       /\ UNCHANGED <<process, value, procs>>

StopRedshift ==
    IF state = "stopped"
    THEN UNCHANGED runner
    ELSE /\ procs' = [p \in Pid |-> IF p \in process THEN "dying" ELSE procs[p]]
         /\ value' = Zero
         /\ UNCHANGED <<state, process>>

\* Fault: updateValue without its callback.
LineUnseen(p, v) ==
    /\ procs[p] # "none"
    /\ v # value
    /\ value' = v
    /\ pc[p] = "idle"
    /\ UNCHANGED <<settings, switch, custom, state, process, procs, restarts, lost, screen,
                   local, count>>

\* updateValue: a line of the process p, which may have been interrupted already
Line(p, v) ==
    /\ procs[p] # "none"
    /\ v # value
    /\ value' = v
    /\ Goto(p, "idle", "shot")
    /\ UNCHANGED <<settings, switch, custom, state, process, procs, restarts, lost, screen,
                   data, count>>

\* External: redshift ends of its own accord.
Die(p) ==
    /\ CanFail
    /\ procs[p] = "alive"
    /\ procs' = [procs EXCEPT ![p] = "dying"]
    /\ lost' = lost \cup {"redshift"}
    /\ UNCHANGED <<settings, switch, custom, state, process, value, restarts, screen,
                   local, count>>

\* Fault: the reader ends without a change of the state.
ReapRunning(p) ==
    /\ procs[p] = "dying"
    /\ pc[p] = "idle"
    /\ procs' = [procs EXCEPT ![p] = "none"]
    /\ process' = {}
    /\ UNCHANGED <<settings, switch, custom, state, value, restarts, lost, screen, local,
                   count>>

\* The end of the reader: cmd.Wait has returned.
Reap(p) ==
    /\ procs[p] = "dying"
    /\ pc[p] = "idle"
    /\ procs' = [procs EXCEPT ![p] = "none"]
    /\ state' = "stopped"
    /\ process' = {}
    /\ UNCHANGED <<settings, switch, custom, value, restarts, lost, screen, local, count>>

\* listenTimezone: redshift is stopped, and started again 50 ms later.
Timezone ==
    /\ zones < MaxZone
    /\ zones' = zones + 1
    /\ IF state = "running"
       THEN StopRedshift /\ restarts' = restarts + 1
       ELSE UNCHANGED <<runner, restarts>>
    /\ UNCHANGED <<settings, switch, custom, lost, screen, local, calls, crossed>>

\* Fault: the function of AfterFunc runs more than once.
RestartAgain ==
    /\ restarts' = restarts - 1
    /\ StartRedshift(IF mode = "Auto" THEN {} ELSE {"redshift"})
    /\ UNCHANGED <<settings, switch, custom, screen, local, count>>

\* The function of time.AfterFunc does not look at the mode.
Restart ==
    /\ restarts > 0
    /\ restarts' = restarts - 1
    /\ StartRedshift(IF mode = "Auto" THEN {} ELSE {"redshift"})
    /\ UNCHANGED <<settings, switch, custom, screen, local, count>>

-----------------------------------------------------------------------------
(* setColorTempMode, setColorTempModeReal and the callers of either.       *)

\* Fault: the daemon's key is written for None as well.
RecordAny(m) == dconf' = m /\ signal' = (signal \/ dconf # m)

\* The daemon's key is written first, for any mode but None; it accepts the value.
RecordMode(m) ==
    IF m = "None"
    THEN UNCHANGED <<dconf, signal>>
    ELSE dconf' = m /\ signal' = (signal \/ dconf # m)

\* SetMethodAdjustCCT
SetMode(c, m) ==
    /\ Call(c, "prop")
    /\ arg' = [arg EXCEPT ![c] = [@ EXCEPT !.mode = m, !.saves = "mode"]]
    /\ RecordMode(m)
    /\ UNCHANGED <<settings, modeOn, custom, redshift, screen, temp, zones>>

WriteMode(c) ==
    /\ Goto(c, "prop", "enable")
    /\ mode' = arg[c].mode
    /\ UNCHANGED <<enabled, manual, saved, switch, custom, redshift, screen, data, count>>

WriteEnabled(c) ==
    /\ Goto(c, "enable", "runner")
    /\ enabled' = (arg[c].mode # "None")
    /\ UNCHANGED <<mode, manual, saved, switch, custom, redshift, screen, data, count>>

\* A write of the property ColorTemperatureEnabled: one that changes nothing is an error.
Toggle(c) ==
    /\ Call(c, IF enabled THEN "toggleOff" ELSE "toggleOn")
    /\ enabled' = ~enabled
    /\ UNCHANGED <<mode, manual, saved, switch, custom, redshift, screen, data, zones>>

ToggleOn(c) ==
    /\ Goto(c, "toggleOn", "prop")
    /\ arg' = [arg EXCEPT ![c] = [@ EXCEPT !.mode = modeOn, !.saves = "mode"]]
    /\ RecordMode(modeOn)
    /\ UNCHANGED <<settings, modeOn, custom, redshift, screen, temp, count>>

ToggleOff(c) ==
    /\ Goto(c, "toggleOff", "prop")
    /\ modeOn' = mode
    /\ arg' = [arg EXCEPT ![c] = [@ EXCEPT !.mode = "None", !.saves = "mode"]]
    /\ UNCHANGED <<settings, dconf, signal, custom, redshift, screen, temp, count>>

\* The listener of the daemon's key
ModeOnSignal ==
    /\ signal
    /\ signal' = FALSE
    /\ modeOn' = dconf
    /\ UNCHANGED <<settings, dconf, custom, redshift, screen, local, count>>

\* applyColorTempConfig: the profile of the monitors connected now; it sets three
\* properties and then reads the first one again.
ApplyConfig(c, profile) ==
    /\ Call(c, "profile")
    /\ saved' = profile
    /\ mode' = profile.mode
    /\ enabled' = (profile.mode # "None")
    /\ manual' = profile.manual
    /\ UNCHANGED <<switch, custom, redshift, screen, data, zones>>

ReadMode(c) ==
    /\ Goto(c, "profile", "runner")
    /\ arg' = [arg EXCEPT ![c].mode = mode]
    /\ UNCHANGED <<settings, switch, custom, redshift, screen, temp, count>>

\* What the history remembers of a step of Boot.
BootLoss(g) == IF g = Boot /\ mode # "None" THEN {"boot"} ELSE {}

\* setColorTempModeReal: first redshift ...
SwitchRunner(g) ==
    /\ Goto(g, "runner", "custom")
    /\ IF arg[g].mode = "Auto"
       THEN StartRedshift(BootLoss(g))
       ELSE StopRedshift /\ lost' = lost \cup BootLoss(g)
    /\ UNCHANGED <<settings, switch, custom, restarts, screen, data, count>>

\* ... then the timer of the custom mode: listenCustomColorTempTime starts one more loop,
\* stopCustomColorTempMode leaves the loops waiting for a timer that does not fire.
SwitchCustom(g) ==
    /\ \/ /\ arg[g].mode = "Custom"
          /\ timer' = timer \cup {"set", "armed"}
          /\ \E l \in Loop :
               /\ pc[l] = "idle"
               /\ pc' = [pc EXCEPT ![g] = "shot", ![l] = "select"]
       \/ /\ arg[g].mode # "Custom"
          /\ timer' = {}
          /\ pc' = [h \in Goroutine |-> IF h = g THEN "shot"
                                        ELSE IF pc[h] = "wait" THEN "leaked" ELSE pc[h]]
    /\ pc[g] = "custom"
    /\ lost' = lost \cup BootLoss(g)
    /\ UNCHANGED <<settings, switch, flag, runner, restarts, screen, data, count>>

-----------------------------------------------------------------------------
(* The loops of the custom mode: listenCustomColorTempTime.                *)

\* The timer fires: a waiting loop gets the value, or the channel keeps it.
Fire(l) ==
    /\ "armed" \in timer
    /\ IF \E k \in Loop : pc[k] = "wait"
       THEN Goto(l, "wait", "tick") /\ timer' = timer \ {"armed"}
       ELSE timer' = (timer \ {"armed"}) \cup {"fired"} /\ UNCHANGED pc
    /\ UNCHANGED <<settings, switch, flag, redshift, screen, data, count>>

\* Fault: the loop sets the flag and leaves the monitor as it is.
TickSilent(l) ==
    /\ IF mode = "Custom"
       THEN Goto(l, "tick", "arm") /\ flag' \in BOOLEAN
       ELSE Goto(l, "tick", "arm") /\ UNCHANGED flag
    /\ UNCHANGED <<settings, switch, timer, redshift, screen, data, count>>

\* checkCustomModeTime gives either answer.
Tick(l) ==
    /\ IF mode = "Custom"
       THEN Goto(l, "tick", "shot") /\ flag' \in BOOLEAN
       ELSE Goto(l, "tick", "arm") /\ UNCHANGED flag
    /\ UNCHANGED <<settings, switch, timer, redshift, screen, data, count>>

\* Fault: the timer is not reset.
ArmOnce(l) ==
    /\ Goto(l, "arm", "select")
    /\ UNCHANGED <<settings, switch, custom, redshift, screen, data, count>>

\* A new timer, or a Reset of the one another goroutine left.
Arm(l) ==
    /\ Goto(l, "arm", "select")
    /\ timer' = timer \cup {"set", "armed"}
    /\ UNCHANGED <<settings, switch, flag, redshift, screen, data, count>>

\* The select statement dereferences the timer: after a stop since Arm that is a panic,
\* which ends the program.
Select(l) ==
    /\ CASE "set" \notin timer  -> Goto(l, "select", "panic") /\ UNCHANGED timer
         [] "fired" \in timer   -> Goto(l, "select", "tick") /\ timer' = timer \ {"fired"}
         [] OTHER               -> Goto(l, "select", "wait") /\ UNCHANGED timer
    /\ UNCHANGED <<settings, switch, flag, redshift, screen, data, count>>

-----------------------------------------------------------------------------
(* Writing the temperature to the monitor.                                 *)

\* setColorTempOneShot: _setColorTempMu is held from the read to the write.
TakeTemp(g) ==
    /\ \A h \in Goroutine : pc[h] # "write"
    /\ Goto(g, "shot", "write")
    /\ temp' = [temp EXCEPT ![g] = Temperature]
    /\ UNCHANGED <<settings, switch, custom, redshift, screen, arg, count>>

Write(g) ==
    /\ Goto(g, "write", IF g \in Loop THEN "arm"
                       ELSE IF g \in Client /\ arg[g].saves # "nothing" THEN "save"
                       ELSE "idle")
    /\ arg' = [c \in Actor |-> IF c = g /\ arg[c].saves = "nothing"
                             THEN NoArg ELSE arg[c]]
    /\ hw' = temp[g]
    /\ temp' = [temp EXCEPT ![g] = Normal]
    /\ late' = FALSE
    /\ UNCHANGED <<settings, switch, custom, redshift, count>>

\* setBrightness of any other caller takes no mutex.
SetBrightness(c) ==
    /\ calls < MaxCall
    /\ calls' = calls + 1
    /\ Goto(c, "idle", "bright")
    /\ temp' = [temp EXCEPT ![c] = Temperature]
    /\ UNCHANGED <<settings, switch, custom, redshift, screen, arg, zones, crossed>>

WriteBrightness(c) ==
    /\ Goto(c, "bright", "idle")
    /\ hw' = temp[c]
    /\ temp' = [temp EXCEPT ![c] = Normal]
    /\ late' = (temp[c] # Temperature)
    /\ UNCHANGED <<settings, switch, custom, redshift, arg, count>>

\* setColorTempValue: the mode is checked before the lock is taken.
SetValue(c) ==
    /\ mode = "Manual"
    /\ Call(c, "value")
    /\ UNCHANGED <<settings, switch, custom, redshift, screen, data, zones>>

WriteValue(c, v) ==
    /\ Goto(c, "value", "shot")
    /\ manual' = v
    /\ arg' = [arg EXCEPT ![c] = [@ EXCEPT !.manual = v, !.saves = "manual"]]
    /\ UNCHANGED <<mode, enabled, saved, switch, custom, redshift, screen, temp, count>>

\* Fault: a fresh profile instead of the stored one is changed.
CopyDefault(c) ==
    /\ Goto(c, "save", "saveWrite")
    /\ arg' = [arg EXCEPT ![c] =
                 [mode   |-> IF @.saves = "mode" THEN @.mode ELSE saved.mode,
                  manual |-> IF @.saves = "manual" THEN @.manual ELSE Default,
                  saves  |-> "profile"]]
    /\ UNCHANGED <<settings, switch, custom, redshift, screen, temp, count>>

\* saveColorTempModeInCfg and saveColorTempValueInCfg: modifySuitableUserMonitorModeConfig
\* changes a copy of the stored profile ...
CopyProfile(c) ==
    /\ Goto(c, "save", "saveWrite")
    /\ arg' = [arg EXCEPT ![c] =
                 [mode   |-> IF @.saves = "mode" THEN @.mode ELSE saved.mode,
                  manual |-> IF @.saves = "manual" THEN @.manual ELSE saved.manual,
                  saves  |-> "profile"]]
    /\ UNCHANGED <<settings, switch, custom, redshift, screen, temp, count>>

\* ... and stores it.
SaveProfile(c) ==
    /\ Goto(c, "saveWrite", "idle")
    /\ saved' = [mode |-> arg[c].mode, manual |-> arg[c].manual]
    /\ arg' = [arg EXCEPT ![c] = NoArg]
    /\ UNCHANGED <<mode, enabled, manual, switch, custom, redshift, screen, temp, count>>

-----------------------------------------------------------------------------
\* Boot resets the temperature only where the driver supports gamma.
Init ==
    /\ mode = "None" /\ enabled = FALSE /\ manual = Default
    /\ modeOn = "Manual" /\ dconf = "Manual" /\ signal = FALSE
    /\ saved = [mode |-> "None", manual |-> manual]
    /\ flag = FALSE /\ timer = {}
    /\ state = "none" /\ process = {} /\ value = Zero
    /\ procs = [p \in Pid |-> "none"]
    /\ restarts = 0
    /\ hw = Normal
    /\ \E b \in {"idle", "runner"} :
         pc = [g \in Goroutine |-> IF g = Boot THEN b ELSE "idle"]
    /\ arg = [g \in Actor |-> NoArg]
    /\ temp = [g \in Goroutine |-> Normal]
    /\ calls = 0 /\ zones = 0
    /\ crossed = FALSE /\ lost = {} /\ late = FALSE

RedshiftStep ==
    \/ \E p \in Pid : Die(p) \/ Reap(p) \/ \E v \in Warm : Line(p, v)
    \/ Timezone
    \/ Restart

ModeStep ==
    \/ \E c \in Client :
         \/ \E m \in Modes : SetMode(c, m)
         \/ WriteMode(c) \/ WriteEnabled(c)
         \/ Toggle(c) \/ ToggleOn(c) \/ ToggleOff(c)
         \/ \E profile \in [mode : Modes, manual : Manual] : ApplyConfig(c, profile)
         \/ ReadMode(c)
    \/ ModeOnSignal
    \/ \E g \in Actor : SwitchRunner(g) \/ SwitchCustom(g)

LoopStep == \E l \in Loop : Fire(l) \/ Tick(l) \/ Arm(l) \/ Select(l)

WriteStep ==
    \/ \E g \in Goroutine : TakeTemp(g) \/ Write(g)
    \/ \E c \in Client :
         \/ SetBrightness(c) \/ WriteBrightness(c)
         \/ SetValue(c)
         \/ \E v \in Manual : WriteValue(c, v)
         \/ CopyProfile(c) \/ SaveProfile(c)

Next ==
    /\ \A l \in Loop : pc[l] # "panic"
    /\ RedshiftStep \/ ModeStep \/ LoopStep \/ WriteStep

Spec == Init /\ [][Next]_vars

-----------------------------------------------------------------------------
\* No goroutine is in the middle of something.
Settled == \A g \in Goroutine : pc[g] \in {"idle", "wait", "leaked"}

\* Nor is a process.
Quiet == Settled /\ restarts = 0 /\ \A p \in Pid : procs[p] # "dying"

\* Never do two redshift processes run, whose lines would fight over the temperature:
\* start waits until the reader of the last one reports its end.
OneProcess == \A p, q \in Pid : procs[p] # "none" /\ procs[q] # "none" => p = q

\* The monitor shows what the settings ask for once everybody is done, whatever overlaps:
\* every change of an input of getColorTemperatureValue is followed by a
\* setColorTempOneShot that reads it.  Two exceptions: a write of setBrightness, outside
\* the mutex, with a temperature that is no longer the one asked for, and automatic mode
\* before the first line of redshift, which keeps the temperature of the last process.
TempCurrent ==
    Settled /\ ~late /\ ~(mode = "Auto" /\ value = Zero) => hw = Temperature

\* Redshift runs exactly in automatic mode, except after overlapping calls or after one
\* of the events the history names: the reset of Boot came late, start found a process
\* that was still dying, redshift failed or died, the mode was left while the restart of
\* listenTimezone was pending.
RedshiftFollows ==
    Quiet /\ ~crossed /\ lost = {} => (state = "running" <=> mode = "Auto")

\* In custom mode a loop waits for a timer that is going to fire, with the same
\* exceptions: loops and timers of earlier visits to the mode do no harm.
CustomTicks ==
    Settled /\ ~crossed /\ "boot" \notin lost /\ mode = "Custom" =>
        "armed" \in timer /\ \E l \in Loop : pc[l] = "wait"

\* Three records of the mode agree when calls do not overlap: the property, the switch
\* the control center shows and the stored configuration.
SettingsAgree ==
    Settled /\ ~crossed =>
        /\ enabled <=> mode # "None"
        /\ saved = [mode |-> mode, manual |-> manual]

\* The switch can always be turned on again, if calls do not overlap: the mode it turns
\* on is never None, whenever the daemon's signal arrives.
CanTurnOn == ~crossed => modeOn # "None"

\* Comment of setColorTempModeReal for automatic mode: "adjust the temperature in
\* automatic mode, start the service".
AutoRuns == Quiet /\ mode = "Auto" => state = "running"

=============================================================================
