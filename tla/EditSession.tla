----------------------------- MODULE EditSession -----------------------------
(***************************************************************************)
(* Editing the settings of the monitors over D-Bus (src/display:           *)
(* monitor.go, manager.go, manager_ifc.go, brightness.go).                 *)
(*                                                                         *)
(* A client changes properties of Monitor objects, calls ApplyChanges,     *)
(* looks at the result, and calls Save or ResetChanges.  Every call runs   *)
(* in a goroutine of its own; hot-plug events, in the event goroutine, end *)
(* the session of the monitors that were connected.                        *)
(*                                                                         *)
(* The properties of a monitor are its "position" (X, Y), its "mode", which *)
(* stands for Enabled, Width, Height, RefreshRate and Rotation, and        *)
(* "reflect"; a configuration has the brightness as well.  The monitors    *)
(* considered are connected all the time: a screen (a monitors id) tells   *)
(* which others are.                                                       *)
(***************************************************************************)
EXTENDS Naturals

CONSTANTS
    Screen,   \* monitors ids, each with a stored configuration
    Monitor,  \* monitors connected on every screen
    Value,    \* values of a property
    Default,  \* the one it has when a monitor was never configured
    Thread,   \* goroutines
    Ev,       \* the one that handles the events of the X server
    CanFail,  \* mm.apply and SetConfig of the system daemon may fail
    MaxCall,  \* bound: calls in a behaviour
    MaxPlug   \* bound: changes of the screen in a behaviour

ASSUME ConstantsAssumption ==
    /\ Default \in Value
    /\ Ev \in Thread
    /\ CanFail \in BOOLEAN
    /\ MaxCall \in Nat
    /\ MaxPlug \in Nat

Attr == {"position", "mode", "reflect"}
Key  == Attr \cup {"brightness"}

\* What monitorChanges has keys for.
Recordable == {"position", "mode"}

VARIABLES
    screen,     \* id of the connected monitors
    shown,      \* Manager.monitorMap: the properties of each monitor
    backup,     \* Monitor.backup, a set of at most one
    changes,    \* Monitor.changes
    hasChanged, \* Manager.HasChanged
    future,     \* Manager.futureConfig, a set of at most one
    sys,        \* Manager.sysConfig: the stored configuration of each screen
    hw,         \* X server: the settings that are in force
    inApply,    \* Manager.inApply
    timer,      \* Manager.delayApplyTimer is running
    pc,         \* where each goroutine is
    id,         \* its monitors id
    cfg,        \* its configuration
    calls,      \* calls so far
    plugs,      \* changes of the screen so far
    applied,    \* history: the configurations that were applied or stored at first
    torn,       \* history: a setting came between the halves of a reset or markClean
    before      \* history: what was in force when the session began, a set of at
                \* most one, {} if something else happened while a call was running

session == <<shown, backup, changes, hasChanged>>
local   == <<id, cfg>>
bounds  == <<calls, plugs>>
hist    == <<applied, torn, before>>
vars    == <<screen, session, future, sys, hw, inApply, timer, pc, local, bounds, hist>>

Settings == [Attr -> Value]
Config   == [Monitor -> [Key -> Value]]
Changes  == UNION {[S -> Value] : S \in SUBSET Recordable}
Pc == {"idle", "applyCopy", "apply", "record", "drop", "saveCopy", "saveWrite", "saveSend",
       "clean", "flag", "forget", "reset", "resetApply", "storedApply"}

\* The part of a configuration that mm.apply puts into force.
Geometry(c) == [m \in Monitor |-> [a \in Attr |-> c[m][a]]]

TypeOK ==
    /\ screen \in Screen
    /\ shown \in [Monitor -> Settings]
    /\ backup \in [Monitor -> SUBSET Settings]
    /\ changes \in [Monitor -> Changes]
    /\ hasChanged \in BOOLEAN
    /\ future \in SUBSET [id : Screen, cfg : Config]
    /\ sys \in [Screen -> Config]
    /\ hw \in [Monitor -> Settings]
    /\ inApply \in BOOLEAN
    /\ timer \in BOOLEAN
    /\ pc \in [Thread -> Pc]
    /\ pc[Ev] \in {"idle", "clean", "flag", "forget"}
    /\ id \in [Thread -> Screen]
    /\ cfg \in [Thread -> Config]
    /\ calls \in 0 .. MaxCall
    /\ plugs \in 0 .. MaxPlug
    /\ applied \in SUBSET [id : Screen, cfg : [Monitor -> Settings]]
    /\ torn \in BOOLEAN
    /\ before \in SUBSET [Monitor -> Settings]

Goto(t, from, to) ==
    /\ pc[t] = from
    /\ pc' = [pc EXCEPT ![t] = to]

\* The history variable every beginning updates.
Begin(b) == before' = IF \A t \in Thread : pc[t] = "idle" THEN b ELSE {}

\* A D-Bus call begins in a goroutine of its own.
Call(t, to) ==
    /\ t # Ev
    /\ calls < MaxCall
    /\ calls' = calls + 1
    /\ Begin(before)
    /\ Goto(t, "idle", to)
    /\ UNCHANGED <<plugs, applied, torn>>

-----------------------------------------------------------------------------
(* The setters of a Monitor: each runs under its PropsMu.                  *)

\* Monitor.markChanged
MarkChanged(m) ==
    /\ hasChanged' = TRUE
    /\ backup' = IF backup[m] = {} THEN [backup EXCEPT ![m] = {shown[m]}] ELSE backup

\* Fault: SetReflect records a setting that SysMonitorConfig.modify does not know.
SetRecording(m, a, v) ==
    /\ calls < MaxCall
    /\ calls' = calls + 1
    /\ a = "position" => ~inApply
    /\ shown[m][a] # v
    /\ MarkChanged(m)
    /\ shown' = [shown EXCEPT ![m][a] = v]
    /\ changes' = [changes EXCEPT ![m] = [k \in DOMAIN @ \cup {a} |-> IF k = a THEN v ELSE @[k]]]
    /\ Begin(IF hasChanged THEN before ELSE {hw})
    /\ torn' = (torn \/ \E t \in Thread : pc[t] \in {"flag", "reset"})
    /\ UNCHANGED <<screen, future, sys, hw, inApply, timer, pc, local, plugs, applied>>

\* Enable, SetMode, SetPosition, SetRotation, SetReflect ...: SetPosition alone is
\* rejected while a configuration is being applied, SetReflect alone is not recorded.
Set(m, a, v) ==
    /\ calls < MaxCall
    /\ calls' = calls + 1
    /\ a = "position" => ~inApply
    /\ shown[m][a] # v
    /\ MarkChanged(m)
    /\ shown' = [shown EXCEPT ![m][a] = v]
    /\ changes' = IF a \in Recordable
                  THEN [changes EXCEPT ![m] = [k \in DOMAIN @ \cup {a} |->
                                                 IF k = a THEN v ELSE @[k]]]
                  ELSE changes
    /\ Begin(IF hasChanged THEN before ELSE {hw})
    /\ torn' = (torn \/ \E t \in Thread : pc[t] \in {"flag", "reset"})
    /\ UNCHANGED <<screen, future, sys, hw, inApply, timer, pc, local, plugs, applied>>

-----------------------------------------------------------------------------
(* ApplyChanges                                                            *)

ApplyChanges(t) ==
    /\ ~inApply /\ hasChanged
    /\ Call(t, "applyCopy")
    /\ UNCHANGED <<screen, session, future, sys, hw, inApply, timer, local>>

\* SysMonitorConfig.modify, for every monitor.
Modify(c) ==
    [m \in Monitor |-> [k \in Key |-> IF k \in DOMAIN changes[m] THEN changes[m][k] ELSE c[m][k]]]

\* The stored configuration of the connected monitors, modified by the changes of
\* a copy of monitorMap; then applySysMonitorConfigs as far as Manager.apply.
ApplyCopy(t) ==
    /\ Goto(t, "applyCopy", "apply")
    /\ id' = [id EXCEPT ![t] = screen]
    /\ cfg' = [cfg EXCEPT ![t] = Modify(sys[screen])]
    /\ inApply' = TRUE
    /\ UNCHANGED <<screen, session, future, sys, hw, timer, bounds, hist>>

\* mm.apply puts c into force, and its final refresh updates the monitors.
InForce(c) ==
    /\ hw' = Geometry(c)
    /\ shown' = Geometry(c)

EndApply(t) ==
    /\ \/ /\ Goto(t, "apply", "record")
          /\ InForce(cfg[t])
          /\ applied' = applied \cup {[id |-> id[t], cfg |-> Geometry(cfg[t])]}
       \/ /\ CanFail
          /\ Goto(t, "apply", "drop")
          /\ UNCHANGED <<hw, shown, applied>>
    /\ inApply' = FALSE
    /\ UNCHANGED <<screen, backup, changes, hasChanged, future, sys, timer, local, bounds,
                   torn, before>>

\* futureConfig.setConfigs
Record(t) ==
    /\ Goto(t, "record", "idle")
    /\ future' = {[id |-> id[t], cfg |-> cfg[t]]}
    /\ UNCHANGED <<screen, session, sys, hw, inApply, timer, local, bounds, hist>>

\* futureConfig.clear
Drop(t) ==
    /\ Goto(t, "drop", "idle")
    /\ future' = {}
    /\ UNCHANGED <<screen, session, sys, hw, inApply, timer, local, bounds, hist>>

-----------------------------------------------------------------------------
(* Save                                                                    *)

Save(t) ==
    /\ ~inApply /\ hasChanged
    /\ Call(t, "saveCopy")
    /\ UNCHANGED <<screen, session, future, sys, hw, inApply, timer, local>>

\* Fault: the future configuration is used whatever monitors it is for.
SaveCopyAny(t) ==
    /\ \/ \E f \in future :
            /\ Goto(t, "saveCopy", "saveWrite")
            /\ id' = [id EXCEPT ![t] = screen]
            /\ cfg' = [cfg EXCEPT ![t] = f.cfg]
       \/ /\ future = {}
          /\ Goto(t, "saveCopy", "idle")
          /\ UNCHANGED local
    /\ UNCHANGED <<screen, session, future, sys, hw, inApply, timer, bounds, hist>>

\* futureConfig.getConfigs: those of the connected monitors, or nothing is saved.
SaveCopy(t) ==
    /\ \/ \E f \in future :
            /\ f.id = screen
            /\ Goto(t, "saveCopy", "saveWrite")
            /\ id' = [id EXCEPT ![t] = screen]
            /\ cfg' = [cfg EXCEPT ![t] = f.cfg]
       \/ /\ \A f \in future : f.id # screen
          /\ Goto(t, "saveCopy", "idle")
          /\ UNCHANGED local
    /\ UNCHANGED <<screen, session, future, sys, hw, inApply, timer, bounds, hist>>

\* setSysScreenConfig
SaveWrite(t) ==
    /\ Goto(t, "saveWrite", "saveSend")
    /\ sys' = [sys EXCEPT ![id[t]] = cfg[t]]
    /\ UNCHANGED <<screen, session, future, hw, inApply, timer, local, bounds, hist>>

\* saveSysConfig: on an error the session goes on.
SaveSend(t) ==
    /\ \/ Goto(t, "saveSend", "clean")
       \/ CanFail /\ Goto(t, "saveSend", "idle")
    /\ UNCHANGED <<screen, session, future, sys, hw, inApply, timer, local, bounds, hist>>

(* markClean: the monitors, the flag and the future configuration, each under  *)
(* a lock of its own.                                                      *)

Clean(t) ==
    /\ Goto(t, "clean", "flag")
    /\ backup' = [m \in Monitor |-> {}]
    /\ changes' = [m \in Monitor |-> [k \in {} |-> k]]
    /\ UNCHANGED <<screen, shown, hasChanged, future, sys, hw, inApply, timer, local, bounds, hist>>

CleanFlag(t) ==
    /\ Goto(t, "flag", "forget")
    /\ hasChanged' = FALSE
    /\ UNCHANGED <<screen, shown, backup, changes, future, sys, hw, inApply, timer, local, bounds, hist>>

\* ... and then updateMonitorsId restarts the delay timer, if it is the caller.
CleanFuture(t) ==
    /\ Goto(t, "forget", "idle")
    /\ future' = {}
    /\ timer' = (timer \/ t = Ev)
    /\ UNCHANGED <<screen, session, sys, hw, inApply, local, bounds, hist>>

-----------------------------------------------------------------------------
(* ResetChanges                                                            *)

ResetChanges(t) ==
    /\ hasChanged
    /\ hasChanged' = FALSE
    /\ Call(t, "reset")
    /\ UNCHANGED <<screen, shown, backup, changes, future, sys, hw, inApply, timer, local>>

\* Fault: the backups are kept.
ResetKeeping(t) ==
    /\ Goto(t, "reset", "resetApply")
    /\ \E restored \in [Monitor -> Settings] :
        /\ \A m \in Monitor : IF backup[m] = {} THEN restored[m] = shown[m]
                                                ELSE restored[m] \in backup[m]
        /\ shown' = restored
        /\ cfg' = [cfg EXCEPT ![t] =
             [m \in Monitor |-> [k \in Key |-> IF k \in Attr THEN restored[m][k] ELSE @[m][k]]]]
    /\ id' = [id EXCEPT ![t] = screen]
    /\ inApply' = TRUE
    /\ UNCHANGED <<screen, backup, changes, hasChanged, future, sys, hw, timer, bounds, hist>>

\* Monitor.resetChanges, for every monitor; the copy of monitorMap is made before
\* anything else may happen to it.
Reset(t) ==
    /\ Goto(t, "reset", "resetApply")
    /\ \E restored \in [Monitor -> Settings] :
        /\ \A m \in Monitor : IF backup[m] = {} THEN restored[m] = shown[m]
                                                ELSE restored[m] \in backup[m]
        /\ shown' = restored
        /\ cfg' = [cfg EXCEPT ![t] =
             [m \in Monitor |-> [k \in Key |-> IF k \in Attr THEN restored[m][k] ELSE @[m][k]]]]
    /\ backup' = [m \in Monitor |-> {}]
    /\ id' = [id EXCEPT ![t] = screen]
    /\ inApply' = TRUE
    /\ UNCHANGED <<screen, changes, hasChanged, future, sys, hw, timer, bounds, hist>>

ResetApply(t) ==
    /\ Goto(t, "resetApply", "idle")
    /\ \/ InForce(cfg[t])
       \/ CanFail /\ UNCHANGED <<hw, shown>>
    /\ inApply' = FALSE
    /\ UNCHANGED <<screen, backup, changes, hasChanged, future, sys, timer, local, bounds, hist>>

-----------------------------------------------------------------------------
(* Other parts of the program.                                             *)

\* SetAndSaveBrightness stores the brightness of a monitor.
SaveBrightness(m, v) ==
    /\ Begin(before)
    /\ calls < MaxCall
    /\ calls' = calls + 1
    /\ sys' = [sys EXCEPT ![screen][m]["brightness"] = v]
    /\ UNCHANGED <<screen, session, future, hw, inApply, timer, pc, local, plugs, applied, torn>>

\* An event about m: handleMonitorChanged updates the properties of the monitor.
MonitorChanged(m) ==
    /\ pc[Ev] = "idle"
    /\ shown' = [shown EXCEPT ![m] = hw[m]]
    /\ UNCHANGED <<screen, backup, changes, hasChanged, future, sys, hw, inApply, timer, pc,
                   local, bounds, hist>>

\* Other monitors are connected: updateMonitorsId, and after a second the stored
\* configuration is applied.
Plug(s) ==
    /\ Begin({})
    /\ plugs < MaxPlug
    /\ plugs' = plugs + 1
    /\ s # screen
    /\ screen' = s
    /\ Goto(Ev, "idle", "clean")
    /\ UNCHANGED <<session, future, sys, hw, inApply, timer, local, calls, applied, torn>>

DelayedApply(t) ==
    /\ Begin(before)
    /\ timer
    /\ timer' = FALSE
    /\ t # Ev
    /\ Goto(t, "idle", "storedApply")
    /\ id' = [id EXCEPT ![t] = screen]
    /\ cfg' = [cfg EXCEPT ![t] = sys[screen]]
    /\ inApply' = TRUE
    /\ UNCHANGED <<screen, session, future, sys, hw, bounds, applied, torn>>

StoredApply(t) ==
    /\ Goto(t, "storedApply", "idle")
    /\ \/ InForce(cfg[t])
       \/ CanFail /\ UNCHANGED <<hw, shown>>
    /\ inApply' = FALSE
    /\ UNCHANGED <<screen, backup, changes, hasChanged, future, sys, timer, local, bounds, hist>>

-----------------------------------------------------------------------------
Init ==
    /\ screen \in Screen
    /\ sys = [s \in Screen |-> [m \in Monitor |-> [k \in Key |-> Default]]]
    /\ hw = Geometry(sys[screen])
    /\ shown = hw
    /\ backup = [m \in Monitor |-> {}]
    /\ changes = [m \in Monitor |-> [k \in {} |-> k]]
    /\ hasChanged = FALSE
    /\ future = {}
    /\ inApply = FALSE
    /\ timer = FALSE
    /\ pc = [t \in Thread |-> "idle"]
    /\ id = [t \in Thread |-> screen]
    /\ cfg = [t \in Thread |-> sys[screen]]
    /\ calls = 0
    /\ plugs = 0
    /\ applied = {[id |-> s, cfg |-> Geometry(sys[s])] : s \in Screen}
    /\ torn = FALSE
    /\ before = {}

Step(t) ==
    \/ ApplyCopy(t) \/ EndApply(t) \/ Record(t) \/ Drop(t)
    \/ SaveCopy(t) \/ SaveWrite(t) \/ SaveSend(t)
    \/ Clean(t) \/ CleanFlag(t) \/ CleanFuture(t)
    \/ Reset(t) \/ ResetApply(t) \/ DelayedApply(t) \/ StoredApply(t)

Next ==
    \/ \E m \in Monitor : MonitorChanged(m)
    \/ \E m \in Monitor, v \in Value : \/ \E a \in Attr : Set(m, a, v)
                                       \/ SaveBrightness(m, v)
    \/ \E s \in Screen : Plug(s)
    \/ \E t \in Thread : ApplyChanges(t) \/ Save(t) \/ ResetChanges(t) \/ Step(t)

Spec == Init /\ [][Next]_vars

-----------------------------------------------------------------------------
\* Save stores a configuration only under the monitors id it was successfully
\* applied for: not one that mm.apply refused, nor one of other monitors.
SavedWasApplied ==
    \A s \in Screen : [id |-> s, cfg |-> Geometry(sys[s])] \in applied

\* HasChanged says whether a monitor has a backup to go back to; otherwise
\* ApplyChanges, Save and ResetChanges ignore a setting, or ResetChanges finds
\* nothing to reset.  It says so between the two halves of neither ResetChanges
\* nor markClean, and not after a setting that came between them.
FlagMatchesBackup ==
    torn \/ (\E t \in Thread : pc[t] \in {"flag", "reset"})
         \/ (hasChanged <=> \E m \in Monitor : backup[m] # {})

\* "Restore from backup": ResetChanges puts into force again what was in force
\* when the session began, no matter how many times it was applied in between.
ResetRestores ==
    [][\A t \in Thread : pc[t] = "resetApply" /\ pc'[t] = "idle" /\ before # {}
          => hw' \in before]_vars

\* "SetAndSaveBrightness sets the brightness and keeps it": saving the geometry
\* of the monitors does not bring an older brightness back.
BrightnessKept ==
    [][\A t \in Thread : pc[t] = "saveWrite" /\ pc'[t] = "saveSend" =>
          \A m \in Monitor : sys'[id[t]][m]["brightness"] = sys[id[t]][m]["brightness"]]_vars

==============================================================================
