---------------------------- MODULE DisplayMode ----------------------------
(***************************************************************************)
(* Display modes and the primary monitor (src/display: manager.go,         *)
(* handle_event.go): which mode is requested, in force, told on D-Bus and  *)
(* stored, when D-Bus calls, the delayed application after a hot-plug,     *)
(* start-up and changes made by other sessions overlap.                    *)
(*                                                                         *)
(* A monitor is its rank among the possible primary monitors.  Of a        *)
(* configuration only the primary monitor matters: it tells "mirror" and   *)
(* "extend" configurations apart, and in "only" it is the monitor enabled. *)
(***************************************************************************)
EXTENDS Naturals, FiniteSets, FiniteSetsExt

CONSTANTS
    Monitor,    \* monitors that can be connected, numbers
    Builtin,    \* the built-in one, or 0
    First,      \* the sets of monitors that may be connected at first
    Caller,     \* goroutines of D-Bus calls and of handleSysConfigUpdated
    Timer,      \* goroutines of start-up and of delayApplyTimer
    Asked,      \* the modes that are asked for
    CanFail,    \* applications and requests may fail at any time
    MaxPlug,    \* bound: hot-plugs
    MaxCall     \* bound: D-Bus calls and updates by other sessions

ASSUME ConstantsAssumption ==
    /\ Monitor \subseteq Nat \ {0}
    /\ IsFiniteSet(Monitor)
    /\ Builtin \in Monitor \cup {0}
    /\ First \subseteq SUBSET Monitor
    /\ Caller \cap Timer = {}
    /\ Asked \subseteq {"mirror", "extend", "only", "other"}
    /\ CanFail \in BOOLEAN
    /\ MaxPlug \in Nat
    /\ MaxCall \in Nat

Actor == Caller \cup Timer
\* "other": bytes that are no mode, which SwitchMode takes as well.
Modes == {"mirror", "extend", "only", "other"}
None  == 0

VARIABLES
    conn,       \* the connected monitors
    plugs,      \* the hot-plugs so far
    ids,        \* Manager.monitorsId
    burst,      \* prevNumMonitors >= 2, and changed less than a second ago
    armed,      \* delayApplyTimer is running
    prop,       \* the property DisplayMode
    stored,     \* sysConfig.Config.DisplayMode
    screens,    \* Config.Screens: per set of monitors and mode, None if not there
    delay,      \* delaySwitchMode, a set of at most one
    shown,      \* what the hardware shows
    pc,         \* where a goroutine is
    job,        \* its local variables
    calls,      \* the calls so far
    failed,     \* history: the kinds of operations that failed, ...
    crossed     \* ... and whether some overlapped, since the last clean switch

display == <<conn, plugs, ids, burst, armed>>
config  == <<stored, screens>>
goro    == <<pc, job>>
history == <<failed, crossed>>
vars    == <<display, prop, config, delay, shown, goro, calls, history>>

ScreenCfg == [{"single", "mirror", "extend", "only"} -> Monitor \cup {None}]
NoScreen  == [k \in {"single", "mirror", "extend", "only"} |-> None]
Op        == {"none", "switch", "delayed", "auto", "config", "update", "only", "primary"}
Job       == [op : Op, mode : Modes, old : Modes, name : Monitor \cup {None}, snap : SUBSET Monitor,
              screen : ScreenCfg, primary : Monitor \cup {None}, build : BOOLEAN, clean : BOOLEAN]
NoJob     == [op |-> "none", mode |-> "other", old |-> "other", name |-> None, snap |-> {},
              screen |-> NoScreen, primary |-> None, build |-> FALSE, clean |-> FALSE]
Delay     == [mode : Modes, old : Modes, name : Monitor \cup {None}, fresh : BOOLEAN]
Shown     == [mode : Modes \cup {"none", "single"}, on : SUBSET Monitor, primary : Monitor \cup {None}]

TypeOK ==
    /\ conn \subseteq Monitor
    /\ plugs \in 0 .. MaxPlug
    /\ ids \subseteq Monitor
    /\ burst \in BOOLEAN
    /\ armed \in BOOLEAN
    /\ prop \in Modes
    /\ stored \in Modes
    /\ screens \in [SUBSET Monitor -> ScreenCfg]
    /\ delay \subseteq Delay /\ Cardinality(delay) <= 1
    /\ shown \in Shown
    /\ pc \in [Actor -> {"idle", "mode", "apply", "publish", "screen", "save", "after"}]
    /\ job \in [Actor -> Job]
    /\ calls \in 0 .. MaxCall
    /\ failed \subseteq {"apply", "update", "other"}
    /\ crossed \in BOOLEAN

-----------------------------------------------------------------------------
(* What is connected, and time.                                            *)

Many(S) == Cardinality(S) > 1
One(S)  == Cardinality(S) = 1

\* A monitor comes or goes: handleMonitorChanged counts the monitors, and
\* updateMonitorsId restarts the timer if they are others than before.
Plug(n) ==
    /\ plugs < MaxPlug
    /\ plugs' = plugs + 1
    /\ conn' = IF n \in conn THEN conn \ {n} ELSE conn \cup {n}
    /\ burst' = Many(conn)
    /\ IF conn' \notin {ids, {}} THEN ids' = conn' /\ armed' = TRUE ELSE UNCHANGED <<ids, armed>>
    /\ UNCHANGED <<prop, config, delay, shown, goro, calls, history>>

\* A second has passed since the last hot-plug, ...
BurstEnds ==
    /\ burst
    /\ burst' = FALSE
    /\ UNCHANGED <<conn, plugs, ids, armed, prop, config, delay, shown, goro, calls, history>>

\* ... or four seconds since the delayed switch was asked for.
DelayExpires ==
    /\ \E d \in delay : d.fresh /\ delay' = {[d EXCEPT !.fresh = FALSE]}
    /\ UNCHANGED <<display, prop, config, shown, goro, calls, history>>

-----------------------------------------------------------------------------
(* Beginning and ending operations.                                        *)

Busy(a) == \E b \in Actor \ {a} : pc[b] # "idle"
Pending == \E d \in delay : d.fresh

\* A delayed switch is under way from the call to the application.
Crosses(a) == Busy(a) \/ (a \notin Timer /\ Pending)

\* "clean" is history: nothing else runs while the operation does.
Clean(a, j) == [j EXCEPT !.clean = ~Crosses(a)]

Continue(a, where, j) ==
    /\ pc' = [pc EXCEPT ![a] = where]
    /\ job' = [b \in Actor |-> CASE b = a -> j
                               [] b # a /\ pc[a] = "idle" -> [job[b] EXCEPT !.clean = FALSE]
                               [] OTHER -> job[b]]

\* What is still to be done: a delayed switch is forgotten, an update sets the
\* property.
End(a, j) ==
    IF j.op \in {"delayed", "update"}
      THEN Continue(a, "after", [NoJob EXCEPT !.op = j.op, !.mode = j.mode])
      ELSE Continue(a, "idle", NoJob)

Class(op) == IF op = "update" THEN op ELSE "apply"

\* An update that fails does not set the property; a delayed switch is over anyway.
EndFailed(a, j) ==
    /\ failed' = failed \cup {Class(j.op)}
    /\ IF j.op = "delayed" THEN End(a, j) ELSE Continue(a, "idle", NoJob)

\* Fault: the delayed switches are kept in a list.
AddDelay(mode, old, name) ==
    delay' = IF burst THEN delay \cup {[mode |-> mode, old |-> old, name |-> name, fresh |-> TRUE]} ELSE delay

\* setDelaySwitch: in a burst of disconnections the switch is put off until the
\* monitors are back.
SetDelay(mode, old, name) ==
    delay' = IF burst THEN {[mode |-> mode, old |-> old, name |-> name, fresh |-> TRUE]} ELSE delay

Called(a) ==
    /\ pc[a] = "idle"
    /\ calls < MaxCall
    /\ calls' = calls + 1
    /\ crossed' = (crossed \/ Crosses(a))

-----------------------------------------------------------------------------
(* What an operation starts from: applyDisplayConfig and applyMode... up   *)
(* to the application.                                                     *)

\* Which configuration of the screen is meant; with one monitor the mode does
\* not matter, except to the calls that go straight to that of a mode.
Kind(j) == IF One(j.snap) /\ j.op \notin {"only", "primary"} THEN "single" ELSE j.mode

\* getDefaultPrimaryMonitor
Default(S) == IF Builtin \in S THEN Builtin ELSE Min(S)

\* The monitor that the configuration of the screen makes primary, None if there
\* is no configuration or it is not to be used.
Configured(j) ==
    LET p == screens[j.snap][Kind(j)] IN
    IF Kind(j) = "only" /\ (j.name # None \/ p \notin j.snap) THEN None ELSE p

\* switchModeAux saves the mode if it was another one.
Then(a, j) ==
    LET k == [NoJob EXCEPT !.op = j.op, !.mode = j.mode, !.snap = j.snap, !.clean = j.clean] IN
    IF j.op \in {"switch", "delayed", "auto"} /\ j.old # j.mode THEN Continue(a, "save", k) ELSE End(a, k)

\* A monitor that is named must be there.
BadName(j) == Kind(j) = "only" /\ j.name \notin j.snap \cup {None}

\* A configuration for "mirror" cannot be built for monitors without a common size.
NoCommonSize(j) == CanFail /\ Kind(j) = "mirror" /\ Configured(j) = None

\* The primary monitor of the configuration: as stored, named, or chosen.
Primary(j) ==
    CASE Configured(j) # None -> Configured(j)
      [] Configured(j) = None /\ j.name # None -> j.name
      [] OTHER -> Default(j.snap)

\* The monitors and the configuration of their screen are copied, and a
\* configuration is built if there is none.
Read(a, j) ==
    IF j.snap = {} \/ BadName(j) THEN EndFailed(a, j)
    ELSE IF Kind(j) = "other" THEN Then(a, j) /\ failed' = failed   \* nothing to do is no failure
    ELSE \/ /\ Continue(a, "apply", [j EXCEPT !.screen = screens[j.snap], !.primary = Primary(j),
                                            !.build = Configured(j) = None])
            /\ failed' = failed
         \/ NoCommonSize(j) /\ EndFailed(a, j)

-----------------------------------------------------------------------------
(* Who applies a configuration.                                            *)

\* SwitchMode on D-Bus.  The name matters in "only".
SwitchMode(c, m, n) ==
    /\ Called(c)
    /\ m # "only" => n = None
    /\ IF One(conn)
         THEN SetDelay(m, prop, n) /\ Continue(c, "idle", NoJob) /\ failed' = failed
         ELSE /\ Read(c, Clean(c, [NoJob EXCEPT !.op = "switch", !.mode = m, !.old = prop,
                                                 !.name = n, !.snap = conn]))
              /\ UNCHANGED delay
    /\ UNCHANGED <<display, prop, config, shown>>

\* SetPrimary on D-Bus: an application in "only", no more than a request in
\* "extend", and refused in "mirror".
SetPrimary(c, n) ==
    /\ Called(c)
    /\ \/ /\ prop = "only"
          /\ Read(c, Clean(c, [NoJob EXCEPT !.op = "only", !.mode = "only", !.name = n, !.snap = conn]))
       \/ /\ prop = "extend" /\ n \in conn
          /\ Continue(c, "publish", [NoJob EXCEPT !.op = "primary", !.mode = "extend", !.snap = conn,
                                                  !.screen = screens[conn], !.primary = n, !.build = TRUE])
          /\ failed' = failed
    /\ UNCHANGED <<display, prop, config, delay, shown>>

\* handleSysConfigUpdated takes another mode over and starts a goroutine.
Update(c, m) ==
    /\ Called(c)
    /\ m \notin {stored, "other"}
    /\ stored' = m
    /\ Read(c, [NoJob EXCEPT !.op = "update", !.mode = m, !.snap = conn])
    /\ UNCHANGED <<display, prop, screens, delay, shown>>

\* Fault: the mode of a delayed switch is not used.
TimerFireNoMode(t) ==
    /\ armed
    /\ pc[t] = "idle"
    /\ armed' = FALSE
    /\ burst' = FALSE
    /\ IF Pending /\ Many(conn)
         THEN Read(t, Clean(t, [NoJob EXCEPT !.op = "delayed", !.mode = prop, !.old = prop, !.snap = conn]))
         ELSE Continue(t, "mode", [NoJob EXCEPT !.op = "config"]) /\ failed' = failed
    /\ crossed' = (crossed \/ Crosses(t))
    /\ UNCHANGED <<conn, plugs, ids, prop, config, delay, shown, calls>>

\* delayApplyConfig, a second after the last change: the delayed switch if there
\* is one, or the configuration of the present mode.
TimerFire(t) ==
    /\ armed
    /\ pc[t] = "idle"
    /\ armed' = FALSE
    /\ burst' = FALSE
    /\ IF Pending /\ Many(conn)
         THEN \E d \in delay :
                Read(t, Clean(t, [NoJob EXCEPT !.op = "delayed", !.mode = d.mode, !.old = d.old,
                                               !.name = IF d.mode = "only" THEN d.name ELSE None,
                                               !.snap = conn]))
         ELSE Continue(t, "mode", [NoJob EXCEPT !.op = "config"]) /\ failed' = failed
    /\ crossed' = (crossed \/ Crosses(t))
    /\ UNCHANGED <<conn, plugs, ids, prop, config, delay, shown, calls>>

\* applyConfig (applySaveMu: by one timer goroutine at a time): the present mode,
\* but "mirror" in place of "only" from three monitors on, which overlaps a delayed
\* switch that still has "only" for the old mode.
ApplyConfig(a) ==
    /\ pc[a] = "mode"
    /\ a \in Timer => \A t \in Timer \ {a} : job[t].op \notin {"config", "auto"} \/ pc[t] = "mode"
    /\ LET auto == prop = "only" /\ Cardinality(conn) >= 3
       IN  Read(a, [NoJob EXCEPT !.op = IF auto THEN "auto" ELSE "config",
                                 !.mode = IF auto THEN "mirror" ELSE prop, !.old = prop, !.snap = conn])
           /\ crossed' = (crossed \/ (auto /\ Pending))
    /\ UNCHANGED <<display, prop, config, delay, shown, calls>>

-----------------------------------------------------------------------------
(* The steps of an application: applySysMonitorConfigs, applyMode... and   *)
(* switchModeAux.                                                          *)

At(a, where) == pc[a] = where

\* Manager.apply, one at a time (applyMu): the monitors of the snapshot get the
\* configuration, ...
Apply(a) ==
    LET j == job[a] IN
    /\ At(a, "apply")
    /\ shown' = [shown EXCEPT !.mode = Kind(j), !.on = IF Kind(j) = "only" THEN {j.primary} ELSE j.snap]
    /\ Continue(a, "publish", j)
    /\ UNCHANGED <<display, prop, config, delay, calls, history>>

\* ... or only some of them, and the operation ends.  A switch whose monitors
\* went meanwhile is put off.
ApplyFails(a) ==
    LET j == job[a] IN
    /\ At(a, "apply")
    /\ CanFail \/ j.snap # conn
    /\ shown' = [shown EXCEPT !.mode = "none"]
    /\ EndFailed(a, job[a])
    /\ IF j.op = "switch" /\ One(conn) /\ ~One(j.snap)
         THEN SetDelay(j.mode, j.old, j.name)
         ELSE UNCHANGED delay
    /\ UNCHANGED <<display, prop, config, calls, crossed>>

\* setPropDisplayMode, not for a single monitor and not in setPrimary; then
\* setMonitorPrimary, whose failure only setPrimary minds.
Publish(a) ==
    LET j == job[a]
        k == [j EXCEPT !.clean = @ /\ shown'.primary = j.primary]
    IN  /\ At(a, "publish")
        /\ prop' = IF j.op = "primary" \/ Kind(j) = "single" THEN prop ELSE j.mode
        /\ \/ shown' = [shown EXCEPT !.primary = j.primary] /\ failed' = failed
           \/ CanFail /\ j.op # "primary" /\ shown' = shown /\ failed' = failed \cup {Class(j.op)}
        /\ IF j.build THEN Continue(a, "screen", k) ELSE Then(a, k)
        /\ UNCHANGED <<display, config, delay, calls, crossed>>

RefusePrimary(a) ==
    /\ At(a, "publish")
    /\ CanFail /\ job[a].op = "primary"
    /\ EndFailed(a, job[a])
    /\ UNCHANGED <<display, prop, config, delay, shown, calls, crossed>>

\* Fault: the monitor of "only" is not recorded.
SaveScreenNoUuid(a) ==
    LET j == job[a] IN
    /\ At(a, "screen")
    /\ screens' = IF Kind(j) = "only" THEN screens
                  ELSE [screens EXCEPT ![j.snap] = [j.screen EXCEPT ![Kind(j)] = j.primary]]
    /\ Then(a, job[a])
    /\ UNCHANGED <<display, prop, stored, delay, shown, calls, history>>

\* setSysScreenConfig writes the copy back, with the configuration that was built
\* or changed.
SaveScreen(a) ==
    LET j == job[a] IN
    /\ At(a, "screen")
    /\ screens' = [screens EXCEPT ![j.snap] = [j.screen EXCEPT ![Kind(j)] = j.primary]]
    /\ Then(a, job[a])
    /\ UNCHANGED <<display, prop, stored, delay, shown, calls, history>>

\* Fault: the mode is saved only if it is not the property already.
SaveModeIfNew(a) ==
    LET j == job[a] IN
    /\ At(a, "save")
    /\ stored' = IF j.mode # prop THEN j.mode ELSE stored
    /\ End(a, job[a])
    /\ UNCHANGED history
    /\ UNCHANGED <<display, prop, screens, delay, shown, calls>>

\* The mode is saved.  After a switch that nothing disturbed all is well again.
SaveMode(a) ==
    LET j == job[a]
        undisturbed == j.clean /\ j.mode # "other" /\ j.snap = conn
    IN  /\ At(a, "save")
        /\ stored' = j.mode
        /\ End(a, job[a])
        /\ failed' = IF undisturbed THEN {} ELSE IF j.mode = "other" THEN failed \cup {"other"} ELSE failed
        /\ crossed' = (crossed /\ ~undisturbed)
        /\ UNCHANGED <<display, prop, screens, delay, shown, calls>>

\* After a delayed switch delayApplyConfig forgets it; the goroutine of
\* handleSysConfigUpdated sets the property.
Finish(a) ==
    /\ At(a, "after")
    /\ IF job[a].op = "delayed"
         THEN delay' = {} /\ prop' = prop
         ELSE prop' = job[a].mode /\ delay' = delay
    /\ Continue(a, "idle", NoJob)
    /\ UNCHANGED <<display, config, shown, calls, history>>

-----------------------------------------------------------------------------
Init ==
    /\ conn \in First
    /\ plugs = 0
    /\ ids = conn
    /\ burst = FALSE
    /\ armed = FALSE
    /\ stored \in Modes \ {"other"}
    /\ prop = stored
    /\ screens = [S \in SUBSET Monitor |-> NoScreen]
    /\ delay = {}
    /\ shown = [mode |-> "none", on |-> {}, primary |-> None]
    /\ pc \in {p \in [Actor -> {"idle", "mode"}] : \E t \in Timer : {a \in Actor : p[a] = "mode"} = {t}}
    /\ job = [a \in Actor |-> NoJob]
    /\ calls = 0
    /\ failed = {}
    /\ crossed = FALSE

Step(a) ==
    \/ ApplyConfig(a)
    \/ Apply(a) \/ ApplyFails(a) \/ Publish(a) \/ RefusePrimary(a)
    \/ SaveScreen(a) \/ SaveMode(a) \/ Finish(a)

Call == \E c \in Caller : \/ \E m \in Asked, n \in Monitor \cup {None} : SwitchMode(c, m, n)
                         \/ \E n \in Monitor : SetPrimary(c, n)
                         \/ \E m \in Asked : Update(c, m)

Next ==
    \/ \E n \in Monitor : Plug(n)
    \/ BurstEnds \/ DelayExpires
    \/ Call
    \/ \E t \in Timer : TimerFire(t)
    \/ \E a \in Actor : Step(a)

Spec == Init /\ [][Next]_vars

\* Goroutines go on, and the timer fires once nobody resets it any more.
FairSpec ==
    /\ Spec
    /\ WF_vars(\E t \in Timer : TimerFire(t))
    /\ \A a \in Actor : WF_vars(Step(a))

-----------------------------------------------------------------------------
AllIdle == \A a \in Actor : pc[a] = "idle"

\* At rest the mode told on D-Bus is the stored one, unless since the last clean
\* switch operations overlapped, the application of an update by another session
\* failed, or a byte that is no mode was stored.  switchModeAux stores the mode only
\* if it is not the one the property had when the call began.
ModesAgree ==
    AllIdle /\ ~crossed /\ failed \cap {"update", "other"} = {} => prop = stored

\* At rest, with the timer stopped and nothing overlapped or failed since the last
\* clean switch, the hardware shows the connected monitors, in the mode told on
\* D-Bus, with the primary monitor of the stored configuration.
ShownAgrees ==
    AllIdle /\ ~crossed /\ failed = {} /\ ~armed /\ conn # {} =>
        IF One(conn)
          THEN shown.on = conn /\ shown.primary \in conn
          ELSE /\ shown.mode = prop
               /\ shown.on = IF prop = "only" THEN {screens[conn]["only"]} ELSE conn
               /\ shown.primary = screens[conn][prop]

\* A switch put off while a single monitor was left is made when the others are
\* back: if the timer runs with several monitors, then the mode becomes the
\* requested one, unless time runs out, the monitors go again, something fails or
\* overlaps.
Honoured ==
    \A m \in Modes \ {"other"} :
        (armed /\ Many(conn) /\ \E d \in delay : d.fresh /\ d.mode = m)
        ~> (prop = m \/ (\E d \in delay : ~d.fresh) \/ ~Many(conn) \/ failed # {} \/ crossed)
=============================================================================
