------------------------------- MODULE Hotplug -------------------------------
(***************************************************************************)
(* Hot-plug handling and configuration applying of the display manager on  *)
(* X11 (src/display: xorg.go, handle_event.go, manager.go).                *)
(*                                                                         *)
(* Three parties share the state:                                          *)
(*   - the X server, which sends an event for every hot-plug;              *)
(*   - the event goroutine (listenXEvents), which keeps the cache of       *)
(*     xMonitorManager and calls Manager.handleMonitorChanged;             *)
(*   - the goroutines that apply a configuration: the start-up code, the   *)
(*     delay timer's callback and the D-Bus methods.                       *)
(*                                                                         *)
(* A monitor is an output; a configuration is the set of outputs it        *)
(* enables, and the configuration of a set of connected outputs enables    *)
(* them all, as the Mirror, Extend and single-monitor ones do.  Geometry,  *)
(* modes and which crtc drives an output are abstracted: the server drives *)
(* an output (it is lit) or does not.                                      *)
(***************************************************************************)
EXTENDS Naturals, Sequences

CONSTANTS
    Output,     \* the RandR outputs of the graphics card
    Fixed,      \* outputs that are never unplugged (a laptop's panel)
    Thread,     \* goroutines that apply a configuration
    Main,       \* the one that runs Manager.init
    NoThread,   \* value of a mutex nobody holds
    CanFail,    \* mm.apply may fail: no free crtc, a refused request
    MaxPlug,    \* bound: hot-plugs in a behaviour
    MaxCall     \* bound: D-Bus calls that apply in a behaviour

ASSUME ConstantsAssumption ==
    /\ Fixed \subseteq Output
    /\ Main \in Thread
    /\ NoThread \notin Thread
    /\ CanFail \in BOOLEAN
    /\ MaxPlug \in Nat
    /\ MaxCall \in Nat

VARIABLES
    srv,         \* X server: connected outputs, configuration timestamp
    lit,         \* X server: the outputs a crtc drives
    evq,         \* events the server sent and nobody handled yet
    cache,       \* xMonitorManager: connection state and cfgTs last seen
    cbEnabled,   \* xMonitorManager.monitorChangedCbEnabled
    mon,         \* Manager.monitorMap: the monitors with realConnected
    monitorsId,  \* Manager.monitorsId, {} for the empty id
    timer,       \* Manager.delayApplyTimer is running
    inApply,     \* Manager.inApply
    applyMu,     \* holder of Manager.applyMu
    applySaveMu, \* holder of Manager.applySaveMu
    evPc,        \* event goroutine: "idle", "diff" or "ids"
    evTodo,      \* monitors doDiff found changed and has still to report
    pc,          \* where each applying goroutine is
    snap,        \* connected monitors of its copy of monitorMap
    todo,        \* monitors its final refresh has still to report
    info,        \* the MonitorInfo its final refresh holds
    calls,       \* D-Bus calls so far
    tried,       \* history: the latest copy to be applied, monitorsId at the latest copy
    outdated     \* history: a final refresh overwrote a newer report

server == <<srv, evq>>
mgr    == <<mon, monitorsId, timer>>
event  == <<evPc, evTodo>>
locks  == <<inApply, applyMu, applySaveMu>>
local  == <<snap, todo, info>>
hist   == <<tried, outdated>>
vars   == <<server, lit, cache, cbEnabled, mgr, event, locks, pc, local, calls, hist>>

\* A goroutine at one of these holds applyMu and runs mm.apply ...
Applying == {"disable", "set", "wait", "info", "update", "ids"}
\* ... and at one of these it has stopped the callbacks.
Grabbed == {"disable", "set", "wait"}
Pc == {"idle", "fired", "called", "wantApply", "finish"} \cup Applying

Screen == [conn : SUBSET Output, ts : Nat]
Event  == [kind : {"screen"}, ts : Nat] \cup
          [kind : {"output"}, out : Output, conn : BOOLEAN]
Info   == [out : Output, conn : BOOLEAN]

TypeOK ==
    /\ srv \in Screen
    /\ lit \in SUBSET Output
    /\ evq \in Seq(Event)
    /\ cache \in Screen
    /\ cbEnabled \in BOOLEAN
    /\ mon \in SUBSET Output
    /\ monitorsId \in SUBSET Output
    /\ timer \in BOOLEAN
    /\ inApply \in BOOLEAN
    /\ applyMu \in Thread \cup {NoThread}
    /\ applySaveMu \in Thread \cup {NoThread}
    /\ evPc \in {"idle", "diff", "ids"}
    /\ evTodo \in SUBSET Output
    /\ evPc = "diff" => evTodo # {}
    /\ evPc = "idle" => evTodo = {}
    /\ pc \in [Thread -> Pc]
    /\ snap \in [Thread -> SUBSET Output]
    /\ todo \in [Thread -> SUBSET Output]
    /\ info \in [Thread -> SUBSET Info]
    /\ calls \in 0 .. MaxCall
    /\ tried \in [conn : SUBSET Output, id : SUBSET Output]
    /\ outdated \in BOOLEAN

\* S with o made a member or not.
With(S, o, in) == IF in THEN S \cup {o} ELSE S \ {o}

-----------------------------------------------------------------------------
(* The X server (external).                                                *)

\* A monitor is plugged into or out of an output: the configuration timestamp
\* grows, and a screen event and an output event are sent.
Plug(o) ==
    /\ srv.ts < MaxPlug
    /\ o \notin Fixed
    /\ srv' = [conn |-> With(srv.conn, o, o \notin srv.conn), ts |-> srv.ts + 1]
    /\ evq' = evq \o <<[kind |-> "screen", ts |-> srv'.ts],
                       [kind |-> "output", out |-> o, conn |-> o \in srv'.conn]>>
    /\ UNCHANGED <<lit, cache, cbEnabled, mgr, event, locks, pc, local, calls, hist>>

\* A crtc request carries the client's configuration timestamp; the server may
\* refuse it (SetConfigInvalidConfigTime) when its own is newer.
Stale == cache.ts # srv.ts

-----------------------------------------------------------------------------
(* The event goroutine.                                                    *)

\* Fault: the events that come while the callbacks are stopped are skipped.
CacheAfterSkipping(e) ==
    CASE ~cbEnabled -> cache
      [] e.kind = "output" -> [cache EXCEPT !.conn = With(@, e.out, e.conn)]
      [] e.kind = "screen" /\ e.ts # cache.ts -> srv
      [] OTHER -> cache

\* What HandleScreenChanged and HandleEvent make of the cache: the former reads
\* all resources again if the timestamp is new, the latter takes the event's word.
CacheAfter(e) ==
    CASE e.kind = "output" -> [cache EXCEPT !.conn = With(@, e.out, e.conn)]
      [] e.kind = "screen" /\ e.ts # cache.ts -> srv
      [] OTHER -> cache

HandleEvent ==
    /\ evPc = "idle"
    /\ evq # <<>>
    /\ evq' = Tail(evq)
    /\ cache' = CacheAfter(Head(evq))
    /\ evTodo' = {o \in Output : (o \in cache.conn) # (o \in cache'.conn)}
    /\ evPc' = IF evTodo' = {} THEN "idle" ELSE "diff"
    /\ UNCHANGED <<srv, lit, cbEnabled, mgr, locks, pc, local, calls, hist>>

\* An event about the crtc or the geometry of o, which mm.apply causes, makes
\* doDiff report o although its connection did not change.
HandleCrtcEvent(o) ==
    /\ evPc = "idle"
    /\ evTodo' = {o}
    /\ evPc' = "diff"
    /\ UNCHANGED <<server, lit, cache, cbEnabled, mgr, locks, pc, local, calls, hist>>

\* Fault: only an additional monitor restarts the timer.
UpdateMonitorsIdOnAdd ==
    IF mon # monitorsId /\ mon # {}
    THEN monitorsId' = mon /\ timer' = (timer \/ ~(mon \subseteq monitorsId))
    ELSE UNCHANGED <<monitorsId, timer>>

\* Manager.updateMonitorsId: a new, not empty id restarts the delay timer.
UpdateMonitorsId ==
    IF mon # monitorsId /\ mon # {}
    THEN monitorsId' = mon /\ timer' = TRUE
    ELSE UNCHANGED <<monitorsId, timer>>

\* doDiff reports a changed monitor, or drops it while the callback is disabled;
\* handleMonitorChanged updates the monitor (updateMonitor) ...
ReportChanged(o) ==
    /\ evPc = "diff"
    /\ o \in evTodo
    /\ evTodo' = evTodo \ {o}
    /\ IF cbEnabled
       THEN mon' = With(mon, o, o \in cache.conn) /\ evPc' = "ids"
       ELSE mon' = mon /\ evPc' = IF evTodo' = {} THEN "idle" ELSE "diff"
    /\ UNCHANGED <<server, lit, cache, cbEnabled, monitorsId, timer, locks, pc, local, calls, hist>>

\* Fault: doDiff goes on without looking whether a monitor is left.
ReportIdsOn ==
    /\ evPc = "ids"
    /\ UpdateMonitorsId
    /\ evPc' = "diff"
    /\ UNCHANGED <<server, lit, cache, cbEnabled, mon, evTodo, locks, pc, local, calls, hist>>

\* ... and then the monitors id.
ReportIds ==
    /\ evPc = "ids"
    /\ UpdateMonitorsId
    /\ evPc' = IF evTodo = {} THEN "idle" ELSE "diff"
    /\ UNCHANGED <<server, lit, cache, cbEnabled, mon, evTodo, locks, pc, local, calls, hist>>

-----------------------------------------------------------------------------
(* Applying a configuration.                                               *)

Goto(t, from, to) ==
    /\ pc[t] = from
    /\ pc' = [pc EXCEPT ![t] = to]

\* Fault: the timer's callback gives up while a configuration is being applied.
TimerFireIdle(t) ==
    /\ timer
    /\ timer' = FALSE
    /\ IF inApply THEN pc' = pc ELSE Goto(t, "idle", "fired")
    /\ UNCHANGED <<server, lit, cache, cbEnabled, mon, monitorsId, event, locks, local, calls, hist>>

\* The delay timer runs delayApplyConfig.  It takes applySaveMu to apply the
\* configuration, but not to make the switch of mode that an earlier call of
\* SwitchMode left in delaySwitchMode.
TimerFire(t) ==
    /\ timer
    /\ timer' = FALSE
    /\ \/ Goto(t, "idle", "fired")
       \/ calls > 0 /\ Goto(t, "idle", "called")
    /\ UNCHANGED <<server, lit, cache, cbEnabled, mon, monitorsId, event, locks, local, calls, hist>>

\* A D-Bus method that applies a configuration: SwitchMode, SetPrimary, ...
Call(t) ==
    /\ calls < MaxCall
    /\ calls' = calls + 1
    /\ Goto(t, "idle", "called")
    /\ UNCHANGED <<server, lit, cache, cbEnabled, mgr, event, locks, local, hist>>

\* cloneMonitorMap, then applyDisplayConfig as far as Manager.apply's lock;
\* nothing is applied when no monitor is connected.
TakeSnapshot(t) ==
    /\ \/ /\ pc[t] = "fired"
          /\ applySaveMu = NoThread
          /\ applySaveMu' = t
       \/ pc[t] = "called" /\ applySaveMu' = applySaveMu
    /\ pc' = [pc EXCEPT ![t] = IF mon = {} THEN "finish" ELSE "wantApply"]
    /\ snap' = [snap EXCEPT ![t] = mon]
    /\ inApply' = (inApply \/ mon # {})
    /\ tried' = [conn |-> IF mon = {} THEN tried.conn ELSE mon, id |-> monitorsId]
    /\ UNCHANGED <<server, lit, cache, cbEnabled, mgr, event, applyMu, todo, info, calls, outdated>>

\* Fault: Manager.apply does not take applyMu.
LockApplyFree(t) ==
    /\ applyMu' = t
    /\ \/ CanFail /\ Goto(t, "wantApply", "finish") /\ cbEnabled' = cbEnabled
       \/ Goto(t, "wantApply", "disable") /\ cbEnabled' = FALSE
    /\ UNCHANGED <<server, lit, cache, mgr, event, inApply, applySaveMu, local, calls, hist>>

\* mm.apply finds a crtc for every output to enable, or fails at once; then it
\* grabs the server and stops the callbacks.
LockApply(t) ==
    /\ applyMu = NoThread
    /\ applyMu' = t
    /\ \/ CanFail /\ Goto(t, "wantApply", "finish") /\ cbEnabled' = cbEnabled
       \/ Goto(t, "wantApply", "disable") /\ cbEnabled' = FALSE
    /\ UNCHANGED <<server, lit, cache, mgr, event, inApply, applySaveMu, local, calls, hist>>

\* The crtcs whose geometry changes are turned off first.
DisableCrtcs(t) ==
    /\ Goto(t, "disable", "set")
    /\ \E off \in SUBSET lit : lit' = lit \ off
    /\ UNCHANGED <<server, cache, cbEnabled, mgr, event, locks, local, calls, hist>>

\* Fault: the failing mm.apply leaves the callbacks stopped.
FailApplySilent(t) ==
    /\ CanFail
    /\ Goto(t, "disable", "finish")
    /\ \E off \in SUBSET lit : lit' = lit \ off
    /\ UNCHANGED <<server, cache, cbEnabled, mgr, event, locks, local, calls, hist>>

\* Turning a crtc off or resizing the screen fails: mm.apply returns the error,
\* its deferred function enables the callbacks.
FailApply(t) ==
    /\ CanFail
    /\ Goto(t, "disable", "finish")
    /\ \E off \in SUBSET lit : lit' = lit \ off
    /\ cbEnabled' = TRUE
    /\ UNCHANGED <<server, cache, mgr, event, locks, local, calls, hist>>

\* Set every crtc and release the server.  A request that fails is only logged:
\* one for a disconnected output, which has no modes, or a stale one.
SetCrtcs(t) ==
    /\ Goto(t, "set", "wait")
    /\ \E refused \in IF Stale THEN SUBSET Output ELSE {{}} :
           lit' = (lit \cap (snap[t] \cup refused)) \cup ((snap[t] \cap srv.conn) \ refused)
    /\ UNCHANGED <<server, cache, cbEnabled, mgr, event, locks, local, calls, hist>>

\* Fault: only the monitors of the configuration are reported again.
EndWaitConfigured(t) ==
    /\ Goto(t, "wait", "info")
    /\ cbEnabled' = TRUE
    /\ todo' = [todo EXCEPT ![t] = snap[t]]
    /\ UNCHANGED <<server, lit, cache, mgr, event, locks, snap, info, calls, hist>>

\* mm.wait returns: the events came, the monitors id changed or the time is
\* over.  Every monitor is to be reported once.
EndWait(t) ==
    /\ Goto(t, "wait", "info")
    /\ cbEnabled' = TRUE
    /\ todo' = [todo EXCEPT ![t] = Output]
    /\ UNCHANGED <<server, lit, cache, mgr, event, locks, snap, info, calls, hist>>

\* mm.getMonitor
GetInfo(t) ==
    /\ Goto(t, "info", "update")
    /\ \E o \in todo[t] :
        /\ info' = [info EXCEPT ![t] = {[out |-> o, conn |-> o \in cache.conn]}]
        /\ todo' = [todo EXCEPT ![t] = @ \ {o}]
    /\ UNCHANGED <<server, lit, cache, cbEnabled, mgr, event, locks, snap, calls, hist>>

\* A MonitorInfo older than the latest change of the cache.
Old(i) == i.conn # (i.out \in cache.conn)

\* handleMonitorChanged in the applying goroutine.
RefreshMonitor(t) ==
    /\ Goto(t, "update", "ids")
    /\ \E i \in info[t] : mon' = With(mon, i.out, i.conn)
    /\ info' = [info EXCEPT ![t] = {}]
    /\ outdated' = (outdated \/ \E i \in info[t] : Old(i))
    /\ UNCHANGED <<server, lit, cache, cbEnabled, monitorsId, timer, event, locks, snap, todo, calls, tried>>

\* Fault: the final refresh does not look at the monitors id.
RefreshIdsNot(t) ==
    /\ Goto(t, "ids", IF todo[t] = {} THEN "finish" ELSE "info")
    /\ UNCHANGED <<server, lit, cache, cbEnabled, mgr, event, locks, local, calls, hist>>

RefreshIds(t) ==
    /\ Goto(t, "ids", IF todo[t] = {} THEN "finish" ELSE "info")
    /\ UpdateMonitorsId
    /\ UNCHANGED <<server, lit, cache, cbEnabled, mon, event, locks, local, calls, hist>>

\* Release applyMu and clear inApply, both only after mm.apply; then applySaveMu.
Finish(t) ==
    /\ Goto(t, "finish", "idle")
    /\ applyMu' = IF applyMu = t THEN NoThread ELSE applyMu
    /\ inApply' = IF applyMu = t THEN FALSE ELSE inApply
    /\ applySaveMu' = IF applySaveMu = t THEN NoThread ELSE applySaveMu
    /\ snap' = [snap EXCEPT ![t] = {}]
    /\ UNCHANGED <<server, lit, cache, cbEnabled, mgr, event, todo, info, calls, hist>>

-----------------------------------------------------------------------------
\* newXMonitorManager and Manager.init as far as applyConfig.
Init ==
    /\ srv \in [conn : {c \in SUBSET Output : Fixed \subseteq c}, ts : {0}]
    /\ lit = srv.conn
    /\ evq = <<>>
    /\ cache = srv
    /\ cbEnabled = FALSE
    /\ mon = srv.conn
    /\ monitorsId = srv.conn
    /\ timer = FALSE
    /\ inApply = FALSE
    /\ applyMu = NoThread
    /\ applySaveMu = NoThread
    /\ evPc = "idle"
    /\ evTodo = {}
    /\ pc = [t \in Thread |-> IF t = Main THEN "called" ELSE "idle"]
    /\ snap = [t \in Thread |-> {}]
    /\ todo = [t \in Thread |-> {}]
    /\ info = [t \in Thread |-> {}]
    /\ calls = 0
    /\ tried = [conn |-> {}, id |-> {}]
    /\ outdated = FALSE

EventStep == HandleEvent \/ (\E o \in Output : ReportChanged(o)) \/ ReportIds

ApplyStep(t) ==
    \/ TakeSnapshot(t) \/ LockApply(t) \/ DisableCrtcs(t) \/ FailApply(t)
    \/ SetCrtcs(t) \/ EndWait(t) \/ GetInfo(t) \/ RefreshMonitor(t)
    \/ RefreshIds(t) \/ Finish(t)

Next ==
    \/ \E o \in Output : Plug(o) \/ HandleCrtcEvent(o)
    \/ EventStep
    \/ \E t \in Thread : TimerFire(t) \/ Call(t) \/ ApplyStep(t)

Spec == Init /\ [][Next]_vars

Fairness ==
    /\ SF_vars(HandleEvent)
    /\ WF_vars(\E o \in Output : ReportChanged(o))
    /\ WF_vars(ReportIds)
    /\ WF_vars(\E t \in Thread : TimerFire(t))
    /\ \A t \in Thread : SF_vars(ApplyStep(t))

FairSpec == Spec /\ Fairness

-----------------------------------------------------------------------------
(* Safety.                                                                 *)

\* Only one goroutine is inside mm.apply ("only Manager.apply may call it"), and
\* no callback is delivered between its grab and the end of its wait.
ApplyExclusive ==
    /\ \A t, u \in Thread : pc[t] \in Applying /\ pc[u] \in Applying => t = u
    /\ \A t \in Thread : pc[t] \in Grabbed => ~cbEnabled

\* Whichever way mm.apply is left, the callbacks it stopped work again.
CallbacksReenabled ==
    [][(\E t \in Thread : pc[t] \in Grabbed) /\ ~(\E t \in Thread : pc'[t] \in Grabbed)
        => cbEnabled']_vars

\* Once the events are handled the cache equals the server's state, although a
\* screen event reads the state of now and the output events behind it are older.
CacheCurrent == evq = <<>> => cache = srv

\* The Manager's copy of o agrees with the cache, or somebody is going to report o.
Covered(o) ==
    \/ o \in mon <=> o \in cache.conn
    \/ o \in evTodo
    \/ \E t \in Thread : \/ pc[t] \in Grabbed
                         \/ o \in todo[t]
                         \/ [out |-> o, conn |-> o \in cache.conn] \in info[t]

\* mm.apply has not run yet: the callbacks were never enabled.
NeverApplied == ~cbEnabled /\ ~\E t \in Thread : pc[t] \in Grabbed

\* A hot-plug is lost to the Manager in three ways only: mm.apply fails while
\* the callbacks are stopped, its final refresh overwrites a newer report with
\* an outdated one, or no configuration was applied since the start.
OnlyKnownLosses ==
    [][\A o \in Output : Covered(o) /\ ~Covered(o)' =>
          \/ NeverApplied
          \/ \E t \in Thread : \/ pc[t] = "disable" /\ pc'[t] = "finish"
                               \/ [out |-> o, conn |-> o \notin cache.conn] \in info[t]
      ]_vars

\* The latest configuration tried is the one for the monitors the Manager knows,
\* or the timer or a goroutine is about to try it, or somebody is about to find
\* out that the monitors id changed.
ApplyDue ==
    \/ mon = {}
    \/ tried.conn = mon
    \/ timer
    \/ \E t \in Thread : pc[t] \in {"fired", "called"}
    \/ mon # monitorsId /\ (evPc = "ids" \/ \E t \in Thread : pc[t] = "ids")

\* "When a monitor is disconnected or connected, monitorsId changes and the
\* configuration that fits is applied again", unless the latest copy was made while
\* the monitors the Manager knew and monitorsId were not the same: between the
\* halves of a report, or with no monitor connected, when monitorsId still is that
\* of the monitors before and nothing is applied when they are back.
NoApplyLost == tried.conn = tried.id => ApplyDue

\* "In X, a monitor's attributes changed, it was disconnected or connected": with
\* nothing left to do, the Manager knows which monitors are connected.
Busy == evq # <<>> \/ evPc # "idle" \/ timer \/ \E t \in Thread : pc[t] # "idle"
MonCurrent == ~Busy => mon = srv.conn

\* "No save, in apply", "no apply changes, in apply", "reject set position, in
\* apply": inApply is set while a configuration is being applied.
InApplyCoversApply == \A t \in Thread : pc[t] \in Applying => inApply

-----------------------------------------------------------------------------
(* Liveness.                                                               *)

\* A crtc request of the configuration being applied was refused, and the
\* configuration is nevertheless right about what is connected now.
Refused ==
    \E t \in Thread : /\ pc[t] \in {"wait", "info", "update", "ids", "finish"}
                     /\ applyMu = t
                     /\ \E o \in Output : /\ o \in snap[t] <=> o \in srv.conn
                                          /\ ~(o \in snap[t] <=> o \in lit)

\* When the hot-plugs stop the Manager gets to know what is connected, unless a
\* final refresh overwrote a newer report.
Converges == <>[](outdated \/ (mon = srv.conn /\ monitorsId = srv.conn))

\* ... and the server ends up driving exactly the connected outputs, unless it
\* refused a crtc request that is right again before the application ends.
Reapplied == [](~Refused) => <>[](outdated \/ lit = srv.conn)

==============================================================================
