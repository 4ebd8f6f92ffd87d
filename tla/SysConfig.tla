------------------------------ MODULE SysConfig ------------------------------
(***************************************************************************)
(* The system configuration shared by the sessions of a machine            *)
(* (src/display: manager.go, displayconf.go, display.go).  The system      *)
(* daemon keeps the only stored version; every session's display manager   *)
(* works on a copy, saves the whole of it, and takes over what the others  *)
(* save when the daemon signals it, at once if its session is active and   *)
(* otherwise when it becomes active.                                       *)
(*                                                                         *)
(* A configuration has sections, and the value of a section is the number  *)
(* of the write that made it: an older value is a smaller one.  A version  *)
(* has the number of the save in place of the time UpdateAt.               *)
(***************************************************************************)
EXTENDS Naturals, Sequences

CONSTANTS
    Session,    \* sessions of users
    Nobody,     \* whose session is active while no session of Session is
    First,      \* whose session is active at first
    Worker,     \* goroutines of a session that change its configuration
    CanFail,    \* calls of the daemon and applications may fail
    MaxWrite,   \* bound: changes of a section
    MaxSwitch   \* bound: changes of the active session

ASSUME ConstantsAssumption ==
    /\ Nobody \notin Session
    /\ First \in Session \cup {Nobody}
    /\ CanFail \in BOOLEAN
    /\ MaxWrite \in Nat
    /\ MaxSwitch \in Nat

\* The sections that are one SysScreenConfig; "mode" is DisplayMode, "scale"
\* ScaleFactors, "fill" FillModes, "cache" the names and times of monitors.
Screen  == {"geometry", "brightness"}
Section == {"mode", "scale", "fill", "cache"} \cup Screen
\* Those that can be seen: the cache is only remembered.
Visible == Section \ {"cache"}

VARIABLES
    store,      \* the daemon's version
    clock,      \* the saves so far
    writes,     \* the changes so far
    seat,       \* the session logind says is active
    switches,   \* its changes so far
    life,       \* "off", "loaded" (Manager.init has read the version) or "on"
    mem,        \* Manager.sysConfig
    active,     \* Manager.sessionActive
    parked,     \* Manager.newSysCfg, a set of at most one
    queue,      \* signals that sysSigLoop has still to handle, one at a time
    hpc,        \* where it is in handling one
    new,        \* the version it handles, a set of at most one
    diff,       \* the sections in which that differs from the configuration
    pc,         \* where the worker w of session s, <<s, w>>, is
    copy,       \* what it is going to write
    jobs,       \* goroutines that handleSysConfigUpdated started
    shown,      \* what the session put into force
    lost,       \* history: a call failed, or an old version was taken over late
    reverted,   \* history: a worker wrote an outdated copy back
    disturbed   \* history: writes and applications overlapped, or one failed

daemon  == <<store, clock>>
logind  == <<seat, switches>>
session == <<life, active, parked>>
handler == <<hpc, new, diff>>
worker  == <<pc, copy>>
vars    == <<daemon, writes, logind, session, mem, queue, handler, worker, jobs, shown,
             lost, reverted, disturbed>>

Config  == [Section -> Nat]
Version == [cfg : Config, at : Nat]
Empty   == [k \in Section |-> 0]
Signal  == [kind : {"updated"}, at : Nat] \cup [kind : {"active"}, on : BOOLEAN]
What    == {"scale", "mode", "screen", "brightness", "fill"}
Job     == [what : What, cfg : Config]

TypeOK ==
    /\ store \in Version
    /\ clock \in Nat
    /\ writes \in 0 .. MaxWrite
    /\ seat \in Session \cup {Nobody}
    /\ switches \in 0 .. MaxSwitch
    /\ life \in [Session -> {"off", "loaded", "on"}]
    /\ mem \in [Session -> Version]
    /\ active \in [Session -> BOOLEAN]
    /\ parked \in [Session -> SUBSET Version]
    /\ queue \in [Session -> Seq(Signal)]
    /\ hpc \in [Session -> {"idle", "get", "compare", "set"}]
    /\ new \in [Session -> SUBSET Version]
    /\ diff \in [Session -> SUBSET Section]
    /\ pc \in [Session \X Worker -> {"idle", "screen", "fill", "save"}]
    /\ copy \in [Session \X Worker -> Config]
    /\ jobs \in [Session -> SUBSET Job]
    /\ shown \in [Session -> Config]
    /\ lost \in [Session -> BOOLEAN]
    /\ reverted \in [Session -> BOOLEAN]
    /\ disturbed \in [Session -> BOOLEAN]

-----------------------------------------------------------------------------
(* logind (external), and the beginning of a session.                      *)

Send(s, m) == IF life[s] = "off" THEN queue[s] ELSE Append(queue[s], m)

SwitchTo(x) ==
    /\ x # seat
    /\ switches < MaxSwitch
    /\ switches' = switches + 1
    /\ seat' = x
    /\ queue' = [s \in Session |-> IF s \in {seat, x} THEN Send(s, [kind |-> "active", on |-> s = x])
                                                     ELSE queue[s]]
    /\ UNCHANGED <<daemon, writes, session, mem, handler, worker, jobs, shown, lost, reverted, disturbed>>

\* newManager learns whether the session is active; loadSysConfig, whose failure
\* leaves an empty configuration; what it says is applied.
Load(s) ==
    /\ life[s] = "off"
    /\ life' = [life EXCEPT ![s] = "loaded"]
    /\ active' = [active EXCEPT ![s] = seat = s]
    /\ \/ mem' = [mem EXCEPT ![s] = store] /\ lost' = lost
       \/ /\ CanFail
          /\ mem' = [mem EXCEPT ![s] = [cfg |-> Empty, at |-> 0]]
          /\ lost' = [lost EXCEPT ![s] = TRUE]
    /\ shown' = [shown EXCEPT ![s] = mem'[s].cfg]
    /\ UNCHANGED <<daemon, writes, logind, parked, queue, handler, worker, jobs, reverted, disturbed>>

\* initSysDisplay, in a goroutine of its own: until then nothing is received.
Listen(s) ==
    /\ life[s] = "loaded"
    /\ life' = [life EXCEPT ![s] = "on"]
    /\ lost' = [lost EXCEPT ![s] = @ \/ mem[s].at # store.at]
    /\ UNCHANGED <<daemon, writes, logind, active, parked, mem, queue, handler, worker, jobs, shown,
                   reverted, disturbed>>

-----------------------------------------------------------------------------
(* Saving.                                                                 *)

Handling(s) == hpc[s] = "set" \/ jobs[s] # {}
Working(s)  == \E w \in Worker : pc[<<s, w>>] # "idle"

\* Fault: a save does not renew UpdateAt.
SaveAsBefore(s, c) ==
    /\ clock' = clock + 1
    /\ mem' = [mem EXCEPT ![s].cfg = c]
    /\ store' = mem'[s]
    /\ queue' = [t \in Session |->
                   IF life[t] = "on" THEN Append(queue[t], [kind |-> "updated", at |-> mem'[s].at])
                                     ELSE queue[t]]
    /\ lost' = lost

\* saveSysConfigNoLock with c for configuration: the version is numbered and sent;
\* the daemon stores it and signals it to every session that listens.
SaveAs(s, c) ==
    /\ clock' = clock + 1
    /\ mem' = [mem EXCEPT ![s] = [cfg |-> c, at |-> clock']]
    /\ \/ /\ store' = mem'[s]
          /\ queue' = [t \in Session |->
                         IF life[t] = "on" THEN Append(queue[t], [kind |-> "updated", at |-> clock'])
                                           ELSE queue[t]]
          /\ lost' = [lost EXCEPT ![s] = FALSE]
       \/ /\ CanFail
          /\ UNCHANGED <<store, queue>>
          /\ lost' = [lost EXCEPT ![s] = TRUE]

\* A new value, which is in force before it is written to the configuration.
Change(s, k) ==
    /\ life[s] # "off"
    /\ writes < MaxWrite
    /\ writes' = writes + 1
    /\ shown' = [shown EXCEPT ![s][k] = writes']

\* switchModeAux, setScaleFactors and saveBuiltinMonitorConfig change their
\* section and save under one lock.
SaveLocked(s, k) ==
    /\ Change(s, k)
    /\ SaveAs(s, [mem[s].cfg EXCEPT ![k] = writes'])
    /\ disturbed' = [disturbed EXCEPT ![s] = @ \/ Handling(s)]
    /\ UNCHANGED <<logind, session, handler, worker, jobs, reverted>>

Goto(g, from, to) ==
    /\ pc[g] = from
    /\ pc' = [pc EXCEPT ![g] = to]

Disturb(s) == disturbed' = [disturbed EXCEPT ![s] = @ \/ Handling(s) \/ Working(s)]

\* Fault: the copy has only what is to be changed.
CopySection(s, w, k) ==
    /\ Goto(<<s, w>>, "idle", "screen")
    /\ Change(s, k)
    /\ copy' = [copy EXCEPT ![<<s, w>>] = [x \in {k} |-> writes']]
    /\ Disturb(s)
    /\ UNCHANGED <<daemon, logind, session, mem, queue, handler, jobs, lost, reverted>>

\* getSysScreenConfig: a copy, in which the other sections do not matter.
GetSysScreenConfig(s) ==
    [k \in Section |-> IF k \in Screen THEN mem[s].cfg[k] ELSE 0]

\* A worker takes a copy of the screen configuration and
\* changes one section of it: saveBrightnessInCfg; or applyModeExtend, setPrimary,
\* save and the like, which apply the other first.
CopyScreen(s, w, k) ==
    /\ Goto(<<s, w>>, "idle", "screen")
    /\ Change(s, k)
    /\ copy' = [copy EXCEPT ![<<s, w>>] = [GetSysScreenConfig(s) EXCEPT ![k] = writes']]
    /\ Disturb(s)
    /\ UNCHANGED <<daemon, logind, session, mem, queue, handler, jobs, lost, reverted>>

\* Fault: the whole configuration is written back, not only the screen's.
SetAll(s, w) ==
    LET c == copy[<<s, w>>] IN
    /\ Goto(<<s, w>>, "screen", "save")
    /\ mem' = [mem EXCEPT ![s].cfg = c]
    /\ reverted' = [reverted EXCEPT ![s] = @ \/ \E k \in Screen : c[k] < mem[s].cfg[k]]
    /\ copy' = [copy EXCEPT ![<<s, w>>] = Empty]
    /\ disturbed' = [disturbed EXCEPT ![s] = @ \/ Handling(s)]
    /\ UNCHANGED <<daemon, writes, logind, session, queue, handler, jobs, shown, lost>>

\* setSysScreenConfig writes the whole screen configuration back ...
SetScreen(s, w) ==
    LET c == [k \in Section |-> IF k \in Screen THEN copy[<<s, w>>][k] ELSE mem[s].cfg[k]] IN
    /\ Goto(<<s, w>>, "screen", "save")
    /\ mem' = [mem EXCEPT ![s].cfg = c]
    /\ reverted' = [reverted EXCEPT ![s] = @ \/ \E k \in Screen : c[k] < mem[s].cfg[k]]
    /\ copy' = [copy EXCEPT ![<<s, w>>] = Empty]
    /\ disturbed' = [disturbed EXCEPT ![s] = @ \/ Handling(s)]
    /\ UNCHANGED <<daemon, writes, logind, session, queue, handler, jobs, shown, lost>>

\* ... and saveSysConfig takes the lock once more.
Save(s, w) ==
    /\ Goto(<<s, w>>, "save", "idle")
    /\ SaveAs(s, mem[s].cfg)
    /\ UNCHANGED <<writes, logind, session, handler, copy, jobs, shown, reverted, disturbed>>

\* recordMonitorConnectedAux notes a monitor that came or went; saving follows.
RecordConnected(s, w) ==
    /\ Goto(<<s, w>>, "idle", "save")
    /\ Change(s, "cache")
    /\ mem' = [mem EXCEPT ![s].cfg["cache"] = writes']
    /\ Disturb(s)
    /\ UNCHANGED <<daemon, logind, session, queue, handler, copy, jobs, lost, reverted>>

\* setMonitorFillMode sets a fill mode: the given one, or the present one again.
SetFill(s, w) ==
    /\ Goto(<<s, w>>, "idle", "fill")
    /\ \/ Change(s, "fill")
       \/ /\ life[s] # "off"
          /\ writes < MaxWrite
          /\ writes' = writes + 1
          /\ shown' = [shown EXCEPT ![s]["fill"] = mem[s].cfg["fill"]]
    /\ copy' = [copy EXCEPT ![<<s, w>>] = [Empty EXCEPT !["fill"] = shown'[s]["fill"]]]
    /\ Disturb(s)
    /\ UNCHANGED <<daemon, logind, session, mem, queue, handler, jobs, lost, reverted>>

\* Then it writes and saves it, under one lock.
SaveFill(s, w) ==
    LET v == copy[<<s, w>>]["fill"] IN
    /\ Goto(<<s, w>>, "fill", "idle")
    /\ SaveAs(s, [mem[s].cfg EXCEPT !["fill"] = v])
    /\ reverted' = [reverted EXCEPT ![s] = @ \/ v < mem[s].cfg["fill"]]
    /\ copy' = [copy EXCEPT ![<<s, w>>] = Empty]
    /\ disturbed' = [disturbed EXCEPT ![s] = @ \/ Handling(s)]
    /\ UNCHANGED <<writes, logind, session, handler, jobs, shown>>

-----------------------------------------------------------------------------
(* Taking over what others save: the signal handlers of sysSigLoop.        *)

At(s, from, to) ==
    /\ hpc[s] = from
    /\ hpc' = [hpc EXCEPT ![s] = to]

\* ConfigUpdated: a version the session has, its own as a rule, is of no interest.
ReceiveUpdated(s) ==
    /\ queue[s] # <<>>
    /\ Head(queue[s]).kind = "updated"
    /\ queue' = [queue EXCEPT ![s] = Tail(@)]
    /\ At(s, "idle", IF Head(queue[s]).at = mem[s].at THEN "idle" ELSE "get")
    /\ UNCHANGED <<daemon, writes, logind, session, mem, new, diff, worker, jobs, shown,
                   lost, reverted, disturbed>>

\* Fault: only an active session gets the version.
FetchActive(s) ==
    /\ \/ /\ active[s]
          /\ At(s, "get", "compare")
          /\ new' = [new EXCEPT ![s] = {store}]
       \/ /\ ~active[s]
          /\ At(s, "get", "idle")
          /\ new' = new
    /\ UNCHANGED <<daemon, writes, logind, session, mem, queue, diff, worker, jobs, shown,
                   lost, reverted, disturbed>>

\* getSysConfig gets the daemon's version of now; the signal is forgotten if it
\* fails.  In an inactive session the version is put aside.
Fetch(s) ==
    /\ \/ /\ active[s]
          /\ At(s, "get", "compare")
          /\ new' = [new EXCEPT ![s] = {store}]
          /\ UNCHANGED <<parked, lost>>
       \/ /\ ~active[s]
          /\ At(s, "get", "idle")
          /\ parked' = [parked EXCEPT ![s] = {store}]
          /\ UNCHANGED <<new, lost>>
       \/ /\ CanFail
          /\ At(s, "get", "idle")
          /\ lost' = [lost EXCEPT ![s] = TRUE]
          /\ UNCHANGED <<new, parked>>
    /\ UNCHANGED <<daemon, writes, logind, life, active, mem, queue, diff, worker, jobs, shown,
                   reverted, disturbed>>

\* Fault: the version put aside is kept after it was handled.
ReceiveActiveKeeping(s) ==
    /\ queue[s] # <<>>
    /\ Head(queue[s]).kind = "active"
    /\ queue' = [queue EXCEPT ![s] = Tail(@)]
    /\ active' = [active EXCEPT ![s] = Head(queue[s]).on]
    /\ IF active'[s] /\ parked[s] # {}
       THEN At(s, "idle", "compare") /\ new' = [new EXCEPT ![s] = parked[s]]
       ELSE At(s, "idle", "idle") /\ new' = new
    /\ UNCHANGED <<daemon, writes, logind, life, parked, mem, diff, worker, jobs, shown,
                   lost, reverted, disturbed>>

\* The session's Active changed: the version put aside is handled, however long
\* ago it was got and whatever the session has saved since.
ReceiveActive(s) ==
    /\ queue[s] # <<>>
    /\ Head(queue[s]).kind = "active"
    /\ queue' = [queue EXCEPT ![s] = Tail(@)]
    /\ active' = [active EXCEPT ![s] = Head(queue[s]).on]
    /\ IF active'[s] /\ parked[s] # {}
       THEN /\ At(s, "idle", "compare")
            /\ new' = [new EXCEPT ![s] = parked[s]]
            /\ parked' = [parked EXCEPT ![s] = {}]
            /\ lost' = [lost EXCEPT ![s] = @ \/ \E v \in parked[s] : v.at < mem[s].at]
       ELSE At(s, "idle", "idle") /\ UNCHANGED <<new, parked, lost>>
    /\ UNCHANGED <<daemon, writes, logind, life, mem, diff, worker, jobs, shown, reverted, disturbed>>

\* handleSysConfigUpdated compares without the lock ...
Compare(s) ==
    /\ At(s, "compare", "set")
    /\ \E v \in new[s] : diff' = [diff EXCEPT ![s] = {k \in Section : v.cfg[k] # mem[s].cfg[k]}]
    /\ UNCHANGED <<daemon, writes, logind, session, mem, queue, new, worker, jobs, shown,
                   lost, reverted, disturbed>>

\* Fault: a change of brightness is all that is looked for in a screen configuration.
DueBrightness(w, d) ==
    CASE w = "scale"      -> "scale" \in d
      [] w = "mode"       -> "mode" \in d
      [] w = "brightness" -> "mode" \notin d /\ "brightness" \in d
      [] w = "screen"     -> "mode" \notin d /\ "geometry" \in d /\ "brightness" \notin d
      [] w = "fill"       -> "mode" \notin d /\ "fill" \in d /\ "geometry" \notin d

\* SysMonitorConfigs.onlyBrNotEq
OnlyBrNotEq(d) == "geometry" \notin d /\ "brightness" \in d

\* What is to be applied when the sections d have changed: a new mode brings the
\* screen configuration and the fill modes with it, and so does the former the latter.
Due(w, d) ==
    CASE w = "scale"      -> "scale" \in d
      [] w = "mode"       -> "mode" \in d
      [] w = "screen"     -> "mode" \notin d /\ "geometry" \in d
      [] w = "brightness" -> "mode" \notin d /\ OnlyBrNotEq(d)
      [] w = "fill"       -> "mode" \notin d /\ "geometry" \notin d /\ "fill" \in d

\* ... and then takes the whole version over, and leaves the rest to goroutines.
SetCfg(s) ==
    /\ At(s, "set", "idle")
    /\ \E v \in new[s] :
        /\ mem' = [mem EXCEPT ![s] = v]
        /\ jobs' = [jobs EXCEPT ![s] =
                      @ \cup {[what |-> w, cfg |-> v.cfg] : w \in {x \in What : Due(x, diff[s])}}]
        /\ lost' = [lost EXCEPT ![s] = @ /\ v.at # store.at]
    /\ new' = [new EXCEPT ![s] = {}]
    /\ diff' = [diff EXCEPT ![s] = {}]
    /\ disturbed' = [disturbed EXCEPT ![s] = @ \/ jobs[s] # {} \/ Working(s)]
    /\ UNCHANGED <<daemon, writes, logind, session, queue, worker, shown, reverted>>

\* The sections a job applies as they were handed to it, and those it takes from
\* the configuration of the moment it runs.
Given(w) == IF w = "screen" THEN Screen ELSE {w}
Current(w) == CASE w = "mode" -> Screen \cup {"fill"} [] w = "screen" -> {"fill"} [] OTHER -> {}

RunJob(s, j) ==
    /\ j \in jobs[s]
    /\ jobs' = [jobs EXCEPT ![s] = @ \ {j}]
    /\ \/ /\ shown' = [shown EXCEPT ![s] = [k \in Section |->
                         IF k \in Given(j.what) THEN j.cfg[k]
                         ELSE IF k \in Current(j.what) THEN mem[s].cfg[k] ELSE @[k]]]
          /\ disturbed' = disturbed
       \/ /\ CanFail
          /\ shown' = shown
          /\ disturbed' = [disturbed EXCEPT ![s] = TRUE]
    /\ UNCHANGED <<daemon, writes, logind, session, mem, queue, handler, worker, lost, reverted>>

-----------------------------------------------------------------------------
Init ==
    /\ store = [cfg |-> Empty, at |-> 0]
    /\ clock = 0
    /\ writes = 0
    /\ seat = First
    /\ switches = 0
    /\ life = [s \in Session |-> "off"]
    /\ mem = [s \in Session |-> store]
    /\ active = [s \in Session |-> FALSE]
    /\ parked = [s \in Session |-> {}]
    /\ queue = [s \in Session |-> <<>>]
    /\ hpc = [s \in Session |-> "idle"]
    /\ new = [s \in Session |-> {}]
    /\ diff = [s \in Session |-> {}]
    /\ pc = [g \in Session \X Worker |-> "idle"]
    /\ copy = [g \in Session \X Worker |-> Empty]
    /\ jobs = [s \in Session |-> {}]
    /\ shown = [s \in Session |-> Empty]
    /\ lost = [s \in Session |-> FALSE]
    /\ reverted = [s \in Session |-> FALSE]
    /\ disturbed = [s \in Session |-> FALSE]

\* The worker w of s goes on with what it has begun.
Proceed(s, w) == SetScreen(s, w) \/ Save(s, w) \/ SaveFill(s, w)

Begin(s, w) ==
    \/ \E k \in Screen : CopyScreen(s, w, k)
    \/ RecordConnected(s, w)
    \/ SetFill(s, w)

Handle(s) ==
    ReceiveUpdated(s) \/ ReceiveActive(s) \/ Fetch(s) \/ Compare(s) \/ SetCfg(s)

Next ==
    \/ \E x \in Session \cup {Nobody} : SwitchTo(x)
    \/ \E s \in Session :
        \/ Load(s) \/ Listen(s) \/ Handle(s)
        \/ \E k \in {"mode", "scale", "cache"} : SaveLocked(s, k)
        \/ \E w \in Worker : Begin(s, w) \/ Proceed(s, w)
        \/ \E j \in jobs[s] : RunJob(s, j)

Spec == Init /\ [][Next]_vars

\* Fairness: the signal loop and the goroutines that were started go on, as Go's
\* scheduler and the mutex sysConfig.mu let them; nobody has to start anything.
Fairness ==
    \A s \in Session :
        /\ WF_vars(Handle(s))
        /\ WF_vars(Listen(s))
        /\ WF_vars(\E j \in jobs[s] : RunJob(s, j))
        /\ \A w \in Worker : WF_vars(Proceed(s, w))

FairSpec == Spec /\ Fairness

-----------------------------------------------------------------------------
\* UpdateAt stands for the contents: the handler of ConfigUpdated ignores a version
\* whose UpdateAt is its own, and a session that is no worker's change ahead of
\* its UpdateAt has exactly what the daemon has under it.
StampIdentifies ==
    \A s \in Session :
        mem[s].at = store.at /\ (\A w \in Worker : pc[<<s, w>>] # "save") => mem[s].cfg = store.cfg

\* An active session that has nothing left to do has the latest version, unless a
\* call of the daemon failed, a version was saved while the session started, or an
\* outdated version had been put aside.
UpToDate ==
    \A s \in Session :
        life[s] = "on" /\ active[s] /\ queue[s] = <<>> /\ hpc[s] = "idle" /\ ~lost[s]
            => mem[s].at = store.at

\* What is in force agrees with the configuration once all goroutines have ended,
\* provided that they did not overlap and none failed: what handleSysConfigUpdated
\* starts is enough for every combination of changed sections.
AppliedWhatChanged ==
    \A s \in Session :
        life[s] # "off" /\ hpc[s] = "idle" /\ jobs[s] = {} /\ ~Working(s) /\ ~disturbed[s]
            => \A k \in Visible : shown[s][k] = mem[s].cfg[k]

\* No save brings back an older value of a section, unless the session has not
\* taken over the latest version, or one of its workers wrote an outdated copy.
NoOldValueSaved ==
    [][\A s \in Session : store' # store /\ mem'[s].at = store'.at
          => \/ mem[s].at # store.at
             \/ reverted'[s]
             \/ \A k \in Section : store'.cfg[k] >= store.cfg[k]]_vars

\* When nobody changes anything any more, the active sessions end up with the
\* daemon's version, with the exceptions of UpToDate, and come to rest.
Converges ==
    <>[](\A s \in Session : life[s] = "on" =>
            /\ queue[s] = <<>> /\ hpc[s] = "idle" /\ jobs[s] = {} /\ ~Working(s)
            /\ active[s] /\ ~lost[s] => mem[s] = store)

\* What the sessions do is what SharedConfig promises: the version put aside or
\* being handled is the one held.
Shared == INSTANCE SharedConfig
    WITH reg <- store, copy <- mem, held <- [s \in Session |-> parked[s] \cup new[s]]

ImplementsSharedConfig == Shared!Spec

==============================================================================
