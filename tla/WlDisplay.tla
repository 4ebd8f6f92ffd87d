----------------------------- MODULE WlDisplay -----------------------------
(***************************************************************************)
(* The Wayland display daemon (src/wl_display, run by                      *)
(* src/cmd/wl_display_daemon): its monitors, display modes, custom modes   *)
(* and stored configurations, beside the compositor (KWin), which owns the *)
(* outputs.  The daemon changes them with the external command             *)
(* dde_wloutput, one run for the outputs to be enabled and one for each to *)
(* be disabled, and learns of changes by signals, handled in order by one  *)
(* goroutine.  A D-Bus call runs in a goroutine of its own.  No lock is    *)
(* held while a command runs or a file is written: a step of the model     *)
(* lasts from one of these to the next.                                    *)
(***************************************************************************)
EXTENDS WlLayout, Sequences, SequencesExt

CONSTANTS
    Monitor,    \* outputs, numbered as monitorIdGenerator does
    Kind,       \* what the name of each says: "edp", "hdmi", "vga" or "other"
    Modes,      \* the sizes of each (squares)
    Pos,        \* the places that a user or the compositor chooses
    Name,       \* names of custom modes
    Caller,     \* goroutines of D-Bus calls
    Main, Loop, \* the goroutines of the start and of the signals
    First,      \* what may be plugged when the daemon starts
    LastPrimary,\* the primary monitor that may be stored
    Custom,     \* what may be stored when it starts: custom modes, and the one in use
    Asked,      \* the operations that are called
    MaxCall,    \* bound: calls
    MaxOther,   \* bound: failures, and changes of the outputs by others
    MaxEvent    \* bound: both together

None == 0       \* no monitor

\* What is stored of a monitor
MonitorConfig == [on : BOOLEAN, pos : Int16 \X Int16, size : Nat, primary : BOOLEAN]

ASSUME ConstantsAssumption ==
    /\ Monitor \subseteq Nat \ {None} /\ IsFiniteSet(Monitor)
    /\ First \subseteq SUBSET Monitor
    /\ Kind \in [Monitor -> {"edp", "hdmi", "vga", "other"}]
    /\ \A i \in Monitor : Modes[i] # {} /\ Modes[i] \subseteq Uint16 \ {0}
    /\ Pos \subseteq Int16 \X Int16
    /\ \A c \in Custom :
           LET N == DOMAIN c.modes
           IN  /\ c.id \in Name \cup {""} /\ N \subseteq Name
               /\ c.modes = [n \in N |-> c.modes[n]]
               /\ \A n \in N : \E K \in SUBSET Monitor : c.modes[n] \in [K -> MonitorConfig]
    /\ Cardinality({Main, Loop}) = 2 /\ {Main, Loop} \cap Caller = {}
    /\ "" \notin Name
    /\ {MaxCall, MaxOther, MaxEvent} \subseteq Nat

VARIABLES
    kwin,       \* the settings of every output at the compositor
    plugged,    \* the outputs it has
    signals,    \* what it announced and the daemon has not handled
    life,       \* how far main has come
    known,      \* monitorMap
    mem,        \* the settings of the monitors
    backup,     \* Monitor.backup, a set of at most one
    hasChanged, \* HasChanged
    mode,       \* DisplayMode
    customId,   \* CurrentCustomId
    primary,    \* Primary
    rect,       \* PrimaryRect
    how,        \* mutiMonitorsPos
    ids,        \* monitorsId
    config,     \* config, by sets of monitors
    pc,         \* what each goroutine does next
    task,       \* the operation it does it for
    calls, others,
    unsent,     \* history: monitors whose settings did not reach the compositor,
                \* or that were changed before main listened
    missed,     \* history: monitors plugged or unplugged before main listened
    free        \* history: why the layout need not be that of the mode:
                \* "failed", "crossed", "edited", "taken" or "blind"

compositor == <<kwin, plugged>>
shown      == <<mode, customId, primary, rect>>
edit       == <<backup, hasChanged, how>>
work       == <<mem, ids, config, pc, task>>
bounds     == <<calls, others>>
history    == <<unsent, missed, free>>
vars       == <<compositor, signals, life, known, edit, shown, work, bounds, history>>

Actor  == Caller \cup {Main, Loop}
Mode   == {"custom", "mirror", "extend", "only"}
Sizes  == UNION {Modes[i] : i \in Monitor}
Best(i) == CHOOSE s \in Modes[i] : \A t \in Modes[i] : t <= s
Nothing == [i \in {} |-> 0]
Off    == [on |-> FALSE, pos |-> <<0, 0>>, size |-> 0, w |-> 0]

\* A task at rest, and what every operation knows of itself: what it applies
\* (op), for whom (by), the mode and custom mode it is to end in, the monitors
\* when it began (scr), the one to become primary, what it was to apply.
Rest == [op |-> "none", by |-> "none", mode |-> "mirror", name |-> "", scr |-> {},
         main |-> None, save |-> FALSE, cmd |-> Nothing, off |-> {}]
For(by, m, n, K) == [Rest EXCEPT !.by = by, !.mode = m, !.name = n, !.scr = K]

Screen == [single |-> {}, custom |-> Nothing, extend |-> Nothing, only |-> Nothing]

Idle  == \A a \in Actor : pc[a] = "idle"
Listening == life \in {"on", "started", "ready"}
Quiet == life = "ready" /\ Idle /\ signals = <<>>

TypeOK ==
    /\ kwin \in [Monitor -> [on : BOOLEAN, pos : Int16 \X Int16, size : Sizes]]
    /\ plugged \subseteq Monitor /\ known \subseteq Monitor /\ ids \subseteq Monitor
    /\ \A i \in 1 .. Len(signals) :
           signals[i].kind \in {"added", "changed", "removed"} /\ signals[i].m \in Monitor
    /\ life \in {"off", "listed", "on", "started", "ready", "dead"}
    /\ mem \in [Monitor -> [on : BOOLEAN, pos : Int16 \X Int16, size : Sizes \cup {0}, w : Nat]]
    /\ \A i \in Monitor : (mem[i].size = 0) = (i \notin known)
    /\ \A i \in Monitor : backup[i] # {} => i \in known /\ Cardinality(backup[i]) = 1
    /\ hasChanged \in BOOLEAN
    /\ mode \in Mode /\ customId \in Name \cup {""}
    /\ primary \in Monitor \cup {None} /\ how \in Position
    /\ \A a \in Actor : /\ pc[a] \in {"idle", "set", "unset", "end", "save"}
                        /\ pc[a] = "idle" => task[a] = Rest
                        /\ pc[a] = "set" => DOMAIN task[a].cmd # {}
                        /\ pc[a] = "unset" => task[a].off # {}
    /\ calls \in 0 .. MaxCall /\ others \in 0 .. MaxOther
    /\ unsent \subseteq known

-----------------------------------------------------------------------------
(* Monitors and what is stored of them.                                    *)

\* getMinIDMonitor of several: a built-in one, or the first
Builtin(K) == {i \in K : Kind[i] = "edp"}
MinID(K) ==
    IF K = {} THEN None
    ELSE LET C == IF Builtin(K) # {} THEN Builtin(K) ELSE K
         IN  CHOOSE i \in C : \A j \in C : i <= j

\* sortMonitorsByID: the built-in ones, then the others.
Before(i, j) == IF Kind[i] = "edp" /\ Kind[j] = "edp" THEN i < j
                ELSE Kind[i] = "edp" \/ (Kind[j] # "edp" /\ i < j)

\* initPrimary: the stored name when it is there; or a guess, which takes no
\* monitor (defaultName) when there is a built-in one.
FirstPrimary(K, stored) ==
    LET of(k) == {i \in K : Kind[i] = k}
        last(k) == IF of(k) = {} THEN {None} ELSE of(k)
    IN  IF stored \in K THEN {stored}
        ELSE IF of("edp") # {} THEN last("other")
        ELSE IF of("hdmi") # {} THEN last("hdmi")
        ELSE IF of("vga") # {} THEN last("vga")
        ELSE last("other")

RectOf(s) == Square(s.pos, s.w)
Seen(s)   == [on |-> s.on, pos |-> s.pos, size |-> s.size, w |-> s.size]
Select(i, size) == IF size \in Modes[i] THEN size ELSE Best(i)

\* toConfig and toMonitorConfigs
ToConfig(s, p) == [on |-> s.on, pos |-> s.pos, size |-> s.w, primary |-> p]
ToConfigs(K, mm, p) == [i \in K |-> ToConfig(mm[i], i = p)]

\* GetRealDisplayMode, of settings
RealMode(K, s) ==
    LET on == {i \in K : s[i].on}
    IN  IF \E i, j \in on : i # j /\ s[i].pos = s[j].pos THEN "mirror"
        ELSE IF on = {} THEN "unknow"
        ELSE IF Cardinality(on) = 1 THEN "only" ELSE "extend"

Merge(f, g) == [x \in DOMAIN f \cup DOMAIN g |-> IF x \in DOMAIN g THEN g[x] ELSE f[x]]

\* setMonitorConfigsOnlyOne: of a disabled monitor, what was stored before
MergeOnly(old, new) ==
    [i \in {j \in DOMAIN new : new[j].on \/ j \in DOMAIN old} |->
        IF new[i].on THEN new[i] ELSE [new[i] EXCEPT !.size = old[i].size]]

\* setMonitorConfigs; a configuration for "mirror" is stored but never read
Store(sc, m, n, new) ==
    CASE m = "custom" -> [sc EXCEPT !.custom = Merge(@, [x \in {n} |-> new])]
      [] m = "extend" -> [sc EXCEPT !.extend = new]
      [] m = "only"   -> [sc EXCEPT !.only = MergeOnly(@, new)]
      [] m = "mirror" -> sc

\* getMonitorConfigs
Stored(sc, m, n) ==
    CASE m = "custom" -> IF n \in DOMAIN sc.custom THEN sc.custom[n] ELSE Nothing
      [] m = "extend" -> sc.extend
      [] m = "only"   -> sc.only
      [] m = "mirror" -> Nothing

-----------------------------------------------------------------------------
(* The layouts of the modes.                                               *)

Common(K) == {s \in Sizes : \A i \in K : s \in Modes[i]}

Mirrored(K, mm) ==
    LET s == CHOOSE u \in Common(K) : \A t \in Common(K) : t <= u
    IN  [i \in Monitor |-> IF i \in K THEN [on |-> TRUE, pos |-> <<0, 0>>, size |-> s, w |-> s]
                           ELSE mm[i]]

\* The size that a configuration asks for, or the best
Wanted(i, cfg) == IF i \in DOMAIN cfg THEN Select(i, cfg[i].size) ELSE Best(i)

\* Monitors without a configuration follow each other from the left.
FromLeft(i, K, cfg) ==
    IF i \in DOMAIN cfg THEN cfg[i].pos[1]
    ELSE Least(FoldSet(LAMBDA j, n : n + Best(j), 0, {j \in K \ DOMAIN cfg : Before(j, i) /\ j # i}),
               32767)

Extended(K, mm, cfg) ==
    [i \in Monitor |->
        IF i \in K THEN [on |-> TRUE, pos |-> <<FromLeft(i, K, cfg), 0>>,
                         size |-> Wanted(i, cfg), w |-> Wanted(i, cfg)]
        ELSE mm[i]]

\* A mutant: the others keep what they have.
AloneBeside(i, K, mm, cfg) ==
    LET s == Wanted(i, cfg)
    IN  [mm EXCEPT ![i] = [on |-> TRUE, pos |-> <<0, 0>>, size |-> s, w |-> s]]

Alone(i, K, mm, cfg) ==
    LET s == Wanted(i, cfg)
    IN  [j \in Monitor |-> IF j = i THEN [on |-> TRUE, pos |-> <<0, 0>>, size |-> s, w |-> s]
                           ELSE [mm[j] EXCEPT !.on = FALSE]]

Configured(K, mm, cfg) ==
    [i \in Monitor |->
        IF i \notin K THEN mm[i]
        ELSE IF i \notin DOMAIN cfg THEN [mm[i] EXCEPT !.on = FALSE]
        ELSE LET s == Select(i, cfg[i].size)
             IN  [on |-> cfg[i].on, pos |-> cfg[i].pos, size |-> s, w |-> s]]

\* The monitor that a configuration makes primary, when it does
Named(K, cfg) == {i \in K \cap DOMAIN cfg : cfg[i].primary}
OneOf(S) == IF S = {} THEN {None} ELSE S

\* A mutant of it: only the primary monitor is moved.
AdjustedAlone(K, mm, h) ==
    IF mode # "custom" \/ RealMode(K, mm) # "extend" \/ primary \notin K THEN {mm}
    ELSE LET of(s) == Square(s.pos, s.size)
             move(b) == [mm EXCEPT ![primary].pos = <<b[1].x, b[1].y>>, ![primary].w = b[1].w]
         IN  {move(BestMove(of(mm[primary]), of(mm[j]), h)) : j \in K \ {primary}}

\* AdjustPositonAfterSetMode: in a custom mode that extends the desktop, the
\* primary monitor and another are moved next to each other; every monitor
\* but the primary takes the place of that other.
Adjusted(K, mm, h) ==
    IF mode # "custom" \/ RealMode(K, mm) # "extend" THEN {mm}
    ELSE LET of(s) == Square(s.pos, s.size)
             p     == IF primary \in K THEN of(mm[primary]) ELSE rect
             move(b) == [i \in Monitor |->
                 IF i \notin K THEN mm[i]
                 ELSE LET r == IF i = primary THEN b[1] ELSE b[2]
                      IN  [mm[i] EXCEPT !.pos = <<r.x, r.y>>, !.w = r.w]]
         IN  {move(BestMove(p, of(mm[j]), h)) : j \in K \ {primary}}

-----------------------------------------------------------------------------
(* An operation ends, or begins to apply what it wants.                    *)

Ids(t, K) == IF t.by = "ids" THEN K ELSE ids

\* Manager.apply: what to enable is fixed now, with what is to be disabled.
Start(a, t, K, mm) ==
    \E new \in Adjusted(K, mm, how) :
        LET on == {i \in K : new[i].on}
        IN  /\ mem' = new
            /\ task' = [task EXCEPT ![a] = [t EXCEPT
                            !.cmd = [i \in on |-> [on |-> TRUE, pos |-> new[i].pos, size |-> new[i].size]],
                            !.off = K \ on]]
            /\ pc' = [pc EXCEPT ![a] = IF on # {} THEN "set" ELSE IF K # {} THEN "unset" ELSE "end"]
            /\ UNCHANGED <<ids, config>>

\* It returns at once: an error, or nothing to be done.
Return(a, t, K, mm) ==
    /\ mem' = mm
    /\ ids' = Ids(t, K)
    /\ pc' = [pc EXCEPT ![a] = "idle"]
    /\ task' = [task EXCEPT ![a] = Rest]
    /\ UNCHANGED config

\* saveConfig follows.
Save(a, t, cfg) ==
    /\ config' = cfg
    /\ pc' = [pc EXCEPT ![a] = "save"]
    /\ task' = [task EXCEPT ![a] = [t EXCEPT !.cmd = Nothing, !.off = {}]]
    /\ UNCHANGED ids

\* The current settings become the custom mode t.name.
SaveCustom(a, t, K, mm) ==
    /\ mem' = mm
    /\ Save(a, [t EXCEPT !.op = "stored"],
            [config EXCEPT ![t.scr] = Store(@, "custom", t.name, ToConfigs(K, mm, primary))])

ApplyConfigs(a, t, K, mm, cfg) ==
    \E i \in OneOf({j \in Named(K, cfg) : cfg[j].on}) :
        Start(a, [t EXCEPT !.op = "configs", !.main = i], K, Configured(K, mm, cfg))

SwitchExtend(a, t, K, mm) ==
    LET cfg == config[K].extend
        first == {i \in Named(K, cfg) : \A j \in Named(K, cfg) : i = j \/ Before(i, j)}
        i0 == IF t.save /\ primary \in K THEN primary
              ELSE IF first = {} THEN MinID(K) ELSE CHOOSE i \in first : TRUE
    IN  Start(a, [t EXCEPT !.op = "extend", !.main = i0], K, Extended(K, mm, cfg))

SwitchMirror(a, t, K, mm) ==
    IF Common(K) # {} THEN Start(a, [t EXCEPT !.op = "mirror"], K, Mirrored(K, mm))
    ELSE IF t.op = "custom" THEN SwitchExtend(a, [t EXCEPT !.save = TRUE], K, mm)
    ELSE Return(a, t, K, mm)

\* The monitor asked for, the one stored as enabled, or the first.
SwitchOnly(a, t, i, K, mm) ==
    LET cfg == config[K].only
        kept == {j \in DOMAIN cfg : cfg[j].on}
        only(j, new) == Start(a, [t EXCEPT !.op = "only", !.main = j, !.save = new], K, Alone(j, K, mm, cfg))
    IN  CASE i # None  -> IF i \in K THEN only(i, TRUE) ELSE Return(a, t, K, mm)
          [] i = None /\ kept # {} -> \E j \in kept : IF j \in K THEN only(j, FALSE) ELSE only(MinID(K), TRUE)
          [] i = None /\ kept = {} -> only(MinID(K), TRUE)

\* switchModeCustom: a stored configuration is applied; else the current
\* settings are stored, after the monitors that are off have been enabled.
SwitchCustom(a, t, K, mm) ==
    LET cfg == Stored(config[K], "custom", t.name)
    IN  CASE t.name = ""      -> Return(a, t, K, mm)
          [] t.name # "" /\ cfg # Nothing -> ApplyConfigs(a, t, K, mm, cfg)
          [] t.name # "" /\ cfg = Nothing ->
                 IF \A i \in K : mm[i].on THEN SaveCustom(a, t, K, mm)
                 ELSE SwitchMirror(a, [t EXCEPT !.op = "custom", !.save = TRUE], K, mm)

Switch(a, t, i, K, mm) ==
    CASE t.mode = "mirror" -> SwitchMirror(a, t, K, mm)
      [] t.mode = "extend" -> SwitchExtend(a, t, K, mm)
      [] t.mode = "only"   -> SwitchOnly(a, t, i, K, mm)
      [] t.mode = "custom" -> SwitchCustom(a, t, K, mm)

\* applyDisplayMode: the settings stored for a single monitor, or its best
\* ones; or the display mode.
ApplyDisplayMode(a, by, K, mm) ==
    LET t == For(by, mode, customId, K)
    IN  CASE K = {} -> Return(a, t, K, mm)
          [] Cardinality(K) = 1 ->
                 LET i == MinID(K)
                     best == [on |-> TRUE, pos |-> <<0, 0>>, size |-> Best(i), primary |-> TRUE]
                 IN  \E c \in IF config[K].single = {} THEN {best} ELSE config[K].single :
                         ApplyConfigs(a, t, K, mm, [j \in K |-> c])
          [] Cardinality(K) > 1 -> Switch(a, t, None, K, mm)

-----------------------------------------------------------------------------
(* The commands.                                                           *)

\* What KWin announces of outputs that change
Announced(kind, S, k) ==
    LET order == SetToSeq(S)
        of(i) == [kind |-> kind, m |-> i, on |-> k[i].on, pos |-> k[i].pos, size |-> k[i].size]
    IN  [n \in DOMAIN order |-> of(order[n])]

KwinSet(new) ==
    /\ kwin' = new
    /\ signals' = signals \o Announced("changed", {i \in plugged : new[i] # kwin[i]}, new)

CanHappen == others < MaxOther /\ calls + others < MaxEvent

Event ==
    /\ CanHappen
    /\ others' = others + 1
    /\ UNCHANGED calls

\* The next step of a task, once a command is done
After(a, off) ==
    /\ task' = [task EXCEPT ![a].off = off]
    /\ pc' = [pc EXCEPT ![a] = IF off = {} THEN "end" ELSE "unset"]
    /\ UNCHANGED <<mem, ids, config>>

\* A command returns an error: the error is returned to the caller.  The
\* first of a custom mode, which was to mirror, is followed by another.
Broken(a) ==
    LET t == task[a]
    IN  IF t.op = "mirror" /\ t.save
        THEN SwitchExtend(a, t, known, mem)
        ELSE Return(a, t, t.scr, mem)

\* dde_wloutput set of all the outputs to be enabled.  The error that it was
\* killed after 5 seconds is ignored.
Set(a) ==
    LET cmd == task[a].cmd
        done == plugged \cap DOMAIN cmd
    IN  /\ pc[a] = "set"
        /\ \/ /\ KwinSet([i \in Monitor |-> IF i \in done THEN cmd[i] ELSE kwin[i]])
              /\ After(a, task[a].off)
              /\ unsent' = {i \in unsent : i \notin done \/ cmd[i] # [on |-> mem[i].on, pos |-> mem[i].pos, size |-> mem[i].size]}
              /\ UNCHANGED bounds
           \/ /\ Event
              /\ \/ After(a, task[a].off)
                 \/ Broken(a)
              /\ unsent' = unsent \cup (known \cap (DOMAIN cmd \cup task[a].off))
              /\ UNCHANGED <<kwin, signals>>
        /\ free' = free \cup (IF others' > others THEN {"failed"} ELSE {})
        /\ UNCHANGED <<plugged, life, known, edit, shown, missed>>

\* dde_wloutput set of one output to be disabled
Unset(a) ==
    /\ pc[a] = "unset"
    /\ \E i \in task[a].off :
           \/ /\ KwinSet([kwin EXCEPT ![i].on = @ /\ i \notin plugged])
              /\ After(a, task[a].off \ {i})
              /\ unsent' = IF i \in known /\ ~mem[i].on THEN unsent \ {i} ELSE unsent
              /\ UNCHANGED bounds
           \/ /\ Event
              /\ \/ After(a, task[a].off \ {i})
                 \/ Broken(a)
              /\ unsent' = unsent \cup (known \cap task[a].off)
              /\ UNCHANGED <<kwin, signals>>
    /\ free' = free \cup (IF others' > others THEN {"failed"} ELSE {})
    /\ UNCHANGED <<plugged, life, known, edit, shown, missed>>

Become(i, t) == primary' = i /\ rect' = IF i \in known THEN RectOf(mem[i])
                                        ELSE Square(t.cmd[i].pos, t.cmd[i].size)

\* switchMode: after success, the mode, and the custom mode's name
Switched(t) ==
    /\ mode' = IF t.by = "switch" THEN t.mode ELSE mode
    /\ customId' = IF t.by = "switch" /\ t.mode = "custom" THEN t.name ELSE customId

\* Every command is done: the primary monitor is set, the configuration of
\* "only" and of a new custom mode stored.  With no monitor left to become
\* primary, the daemon dies of a nil pointer.
End(a) ==
    LET t == task[a]
        i == IF t.op = "mirror" \/ (t.op = "configs" /\ t.main = None) THEN MinID(known) ELSE t.main
    IN  /\ pc[a] = "end"
        /\ IF t.op \in {"mirror", "configs"} /\ i = None
           THEN life' = "dead" /\ UNCHANGED <<shown, edit, work>>
           ELSE /\ IF i = None THEN UNCHANGED <<primary, rect>> ELSE Become(i, t)
                /\ hasChanged' = (hasChanged /\ t.op # "reset")
                /\ CASE t.op \in {"mirror", "extend"} /\ t.save ->
                            /\ Save(a, [t EXCEPT !.op = "stored"],
                                    [config EXCEPT ![t.scr] =
                                        Store(@, "custom", t.name, ToConfigs(known, mem, primary'))])
                            /\ UNCHANGED <<mem, mode, customId>>
                     [] t.op = "only" /\ t.save ->
                            /\ Save(a, [t EXCEPT !.op = "stored"],
                                    [config EXCEPT ![t.scr] =
                                        Store(@, "only", "", ToConfigs(known, mem, t.main))])
                            /\ UNCHANGED <<mem, mode, customId>>
                     [] ~(t.save /\ t.op \in {"mirror", "extend", "only"}) ->
                            Return(a, t, t.scr, mem) /\ Switched(t)
                /\ UNCHANGED <<life, backup, how>>
        /\ UNCHANGED <<compositor, signals, known, bounds, history>>

\* The file is written, or not.  Save() then drops the backups.
Saved(a) ==
    LET t == task[a]
    IN  /\ pc[a] = "save"
        /\ Return(a, t, t.scr, mem)
        /\ \/ /\ Switched(t)
              /\ backup' = IF t.op = "save" THEN [i \in Monitor |-> {}] ELSE backup
              /\ hasChanged' = (hasChanged /\ t.op # "save")
              /\ UNCHANGED <<bounds, free>>
           \/ /\ Event
              /\ free' = free \cup {"failed"}
              /\ UNCHANGED <<mode, customId, backup, hasChanged>>
        /\ UNCHANGED <<compositor, signals, life, known, primary, rect, how, unsent, missed>>

-----------------------------------------------------------------------------
(* D-Bus calls.                                                            *)

Calm(a) == \A b \in Actor \ {a} : pc[b] = "idle"

\* One can come.
Callable(c) == life = "ready" /\ pc[c] = "idle" /\ calls < MaxCall /\ calls + others < MaxEvent

Call(c, op) ==
    /\ op \in Asked
    /\ calls' = calls + 1
    /\ UNCHANGED <<compositor, signals, life, known, others, missed>>

\* An operation that sets the whole layout ends what was said of it before,
\* unless it overlaps with another.
Ruling(a, K, calm) ==
    free' = IF ~calm THEN free \cup {"crossed"}
            ELSE IF mode = "custom" /\ primary \notin K THEN free \cup {"blind"}
            ELSE IF pc'[a] \in {"set", "unset"} THEN {}
            ELSE IF pc'[a] = "idle" /\ a \notin Caller THEN {"failed"} ELSE free
Beginning(c) == Calm(c) /\ signals = <<>>
Note(c) == free' = IF Beginning(c) THEN free ELSE free \cup {"crossed"}

SwitchMode(c, m, n, i) ==
    /\ Call(c, "switch")
    /\ m # mode /\ Cardinality(known) > 1
    /\ Switch(c, For("switch", m, n, known), i, known, mem)
    /\ Ruling(c, known, Beginning(c))
    /\ UNCHANGED <<edit, shown, unsent>>

ApplyChanges(c) ==
    /\ Call(c, "edit")
    /\ hasChanged /\ known # {}
    /\ Start(c, [For("call", mode, "", known) EXCEPT !.op = "changes"], known, mem)
    /\ Note(c)
    /\ UNCHANGED <<edit, shown, unsent>>

Restored(b) == [on |-> b.on, pos |-> b.pos, size |-> b.size, w |-> b.size]

ResetChanges(c) ==
    /\ Call(c, "edit")
    /\ hasChanged /\ known # {}
    /\ Start(c, [For("call", mode, "", known) EXCEPT !.op = "reset"], known,
             [i \in Monitor |-> IF backup[i] = {} THEN mem[i]
                                ELSE Restored(CHOOSE b \in backup[i] : TRUE)])
    /\ backup' = [i \in Monitor |-> {}]
    /\ free' = free \cup {"edited"} \cup (IF Beginning(c) THEN {} ELSE {"crossed"})
    /\ UNCHANGED <<hasChanged, how, shown, unsent>>

SaveCall(c) ==
    /\ Call(c, "edit")
    /\ known # {}
    /\ LET K == known
           one == ToConfig(mem[MinID(K)], FALSE)
       IN  Save(c, [For("call", mode, "", K) EXCEPT !.op = "save"],
                [config EXCEPT ![K] = IF Cardinality(K) = 1 THEN [@ EXCEPT !.single = {one}]
                                      ELSE Store(@, mode, customId, ToConfigs(K, mem, primary))])
    /\ Note(c)
    /\ UNCHANGED <<mem, edit, shown, unsent>>

SetPrimary(c, i) ==
    LET K == known
        t == For("call", mode, "", K)
        old == Stored(config[K], mode, customId)
        new == IF old = Nothing THEN ToConfigs(K, mem, i)
               ELSE [j \in DOMAIN old |-> [old[j] EXCEPT !.primary = (j = i)]]
    IN  /\ Call(c, "primary")
        /\ K # {} /\ i \in K \cup {None} /\ mode # "mirror"
        /\ \/ /\ mode = "only"
              /\ SwitchOnly(c, t, i, K, mem)
              /\ Ruling(c, known, Beginning(c))
              /\ UNCHANGED <<primary, rect>>
           \/ /\ i # None
              /\ mode = "extend" \/ (mode = "custom" /\ old # Nothing)
              /\ Become(i, t)
              /\ Save(c, [t EXCEPT !.op = "stored"], [config EXCEPT ![K] = Store(@, mode, customId, new)])
              /\ Note(c)
              /\ UNCHANGED mem
        /\ UNCHANGED <<edit, mode, customId, unsent>>

\* The custom mode in use is not deleted, but it may be renamed.
DeleteCustomMode(c, n) ==
    LET sc == config[known]
    IN  /\ Call(c, "name")
        /\ known # {} /\ n \in DOMAIN sc.custom
        /\ ~(mode = "custom" /\ customId = n)
        /\ customId' = IF customId = n THEN "" ELSE customId
        /\ Save(c, [For("call", mode, "", known) EXCEPT !.op = "stored"],
                [config EXCEPT ![known].custom = [x \in DOMAIN @ \ {n} |-> @[x]]])
        /\ Note(c)
        /\ UNCHANGED <<mem, edit, mode, primary, rect, unsent>>

ModifyConfigName(c, n, new) ==
    LET old == config[known].custom
    IN  /\ Call(c, "name")
        /\ known # {} /\ n \in DOMAIN old /\ new \notin DOMAIN old
        /\ customId' = IF customId = n THEN new ELSE customId
        /\ Save(c, [For("call", mode, "", known) EXCEPT !.op = "stored"],
                [config EXCEPT ![known].custom =
                    [x \in (DOMAIN old \ {n}) \cup {new} |-> IF x = new THEN old[n] ELSE old[x]]])
        /\ Note(c)
        /\ UNCHANGED <<mem, edit, mode, primary, rect, unsent>>

\* Monitor.Enable, SetPosition, SetMode: markChanged, then the setting.
Edit(c, i, s, h) ==
    /\ Call(c, "edit")
    /\ i \in known /\ s # mem[i]
    /\ hasChanged' = TRUE
    /\ backup' = [backup EXCEPT ![i] =
           IF @ = {} THEN {[on |-> mem[i].on, pos |-> mem[i].pos, size |-> mem[i].size]} ELSE @]
    /\ mem' = [mem EXCEPT ![i] = s]
    /\ how' = h
    /\ unsent' = unsent \cup {i}
    /\ free' = free \cup {"edited"} \cup (IF Beginning(c) THEN {} ELSE {"crossed"})
    /\ UNCHANGED <<shown, ids, config, pc, task>>

Enable(c, i)         == Edit(c, i, [mem[i] EXCEPT !.on = ~@], how)
SetPosition(c, i, p) == Edit(c, i, [mem[i] EXCEPT !.pos = p], "Unknow")
SetMode(c, i, size)  ==
    \E j \in known : \E k \in OneOf(known \ {j}) :
        /\ size \in Modes[i] /\ size # mem[i].size
        /\ Edit(c, i, [mem[i] EXCEPT !.size = size, !.w = size],
                PositionOf(RectOf(mem[j]), IF k = None THEN Zero ELSE RectOf(mem[k])))

-----------------------------------------------------------------------------
(* The compositor: an output comes, goes or is changed by others.          *)

Change(i, kind, on, p, size, why) ==
    LET new == [on |-> on, pos |-> p, size |-> size]
    IN  /\ Event
        /\ kwin' = [kwin EXCEPT ![i] = new]
        /\ signals' = IF Listening THEN signals \o Announced(kind, {i}, kwin') ELSE signals
        /\ missed' = IF Listening THEN missed ELSE missed \cup {i}
        /\ unsent' = IF Listening THEN unsent ELSE unsent \cup (known \cap {i})
        /\ free' = free \cup why \cup (IF Idle THEN {} ELSE {"crossed"})
        /\ UNCHANGED <<life, known, edit, shown, work>>

Plug(i, p) ==
    /\ i \notin plugged
    /\ plugged' = plugged \cup {i}
    /\ Change(i, "added", TRUE, p, Best(i), {})

Unplug(i) ==
    /\ i \in plugged
    /\ plugged' = plugged \ {i}
    /\ Change(i, "removed", FALSE, <<0, 0>>, Best(i), {})

Move(i, on, p) ==
    /\ i \in plugged
    /\ <<on, p>> # <<kwin[i].on, kwin[i].pos>>
    /\ Change(i, "changed", on, p, kwin[i].size, IF on = kwin[i].on THEN {} ELSE {"taken"})
    /\ UNCHANGED plugged

-----------------------------------------------------------------------------
(* The signals, one after the other.                                       *)

\* A mutant of it: the edits are kept.
UpdateKeepsEdits(K, mm) ==
    IF K = ids
    THEN /\ mem' = mm
         /\ UNCHANGED <<hasChanged, backup, ids, config, pc, task, free>>
    ELSE /\ UNCHANGED <<backup, hasChanged>>
         /\ ApplyDisplayMode(Loop, "ids", K, mm)
         /\ Ruling(Loop, K, Calm(Loop) /\ signals' = <<>>)

\* updateMonitorsId: when the set has changed, edits are dropped and the
\* display mode is applied.
UpdateMonitorsId(K, mm) ==
    IF K = ids
    THEN /\ mem' = mm
         /\ UNCHANGED <<hasChanged, backup, ids, config, pc, task, free>>
    ELSE /\ backup' = [i \in Monitor |-> {}]
         /\ hasChanged' = FALSE
         /\ ApplyDisplayMode(Loop, "ids", K, mm)
         /\ Ruling(Loop, K, Calm(Loop) /\ signals' = <<>>)

Handling(kind) ==
    /\ Listening /\ pc[Loop] = "idle"
    /\ signals # <<>> /\ Head(signals).kind = kind
    /\ signals' = Tail(signals)
    /\ UNCHANGED <<compositor, life, how, mode, customId, primary, bounds>>

OutputAdded ==
    LET s == Head(signals)
    IN  /\ Handling("added")
        /\ known' = known \cup {s.m}
        /\ UpdateMonitorsId(known', [mem EXCEPT ![s.m] = Seen(s)])
        /\ unsent' = unsent \ {s.m}
        /\ UNCHANGED <<rect, missed>>

OutputRemoved ==
    LET s == Head(signals)
    IN  /\ Handling("removed")
        /\ IF s.m \in known
           THEN /\ known' = known \ {s.m}
                /\ UpdateMonitorsId(known', [mem EXCEPT ![s.m] = Off])
           ELSE UNCHANGED <<known, backup, hasChanged, work, free>>
        /\ unsent' = unsent \ {s.m}
        /\ UNCHANGED <<rect, missed>>

\* The settings are taken over when they say of an enabled monitor what is
\* known already; otherwise what is known is applied again.
Confirms(s) ==
    LET v == mem[s.m]
    IN  ~v.on \/ (v.pos = s.pos /\ v.w = s.size)

\* A mutant: what differs from what is known is not applied again.
OutputChangedOnly ==
    LET s == Head(signals)
        seen == [mem EXCEPT ![s.m] = Seen(s)]
    IN  /\ Handling("changed")
        /\ \/ /\ s.m \notin known
              /\ known' = known \cup {s.m}
              /\ UpdateMonitorsId(known', seen)
              /\ missed' = missed \ {s.m}
              /\ UNCHANGED <<rect, unsent>>
           \/ /\ s.m \in known
              /\ mem' = IF Confirms(s) THEN seen ELSE mem
              /\ UNCHANGED <<rect, unsent, known, backup, hasChanged, ids, config, pc, task, missed, free>>

OutputChanged ==
    LET s == Head(signals)
        seen == [mem EXCEPT ![s.m] = Seen(s)]
    IN  /\ Handling("changed")
        /\ \/ /\ s.m \notin known
              /\ known' = known \cup {s.m}
              /\ UpdateMonitorsId(known', seen)
              /\ missed' = missed \ {s.m}
              /\ UNCHANGED <<rect, unsent>>
           \/ /\ s.m \in known /\ Confirms(s)
              /\ mem' = seen
              /\ rect' = IF s.m = primary THEN RectOf(mem'[s.m]) ELSE rect
              /\ unsent' = unsent \ {s.m}
              /\ UNCHANGED <<known, backup, hasChanged, ids, config, pc, task, missed, free>>
           \/ /\ s.m \in known /\ ~Confirms(s)
              /\ Start(Loop, [For("call", mode, "", known) EXCEPT !.op = "check"], known, mem)
              /\ UNCHANGED <<known, backup, hasChanged, rect, unsent, missed, free>>

-----------------------------------------------------------------------------
(* The start.                                                              *)

\* newManager lists the outputs, or fails to, before it listens to signals.
List(stored) ==
    /\ life = "off"
    /\ life' = "listed"
    /\ \/ known' = plugged /\ UNCHANGED bounds
       \/ known' = {} /\ Event
    /\ mem' = [i \in Monitor |-> IF i \in known' THEN Seen(kwin[i]) ELSE Off]
    /\ primary' \in FirstPrimary(known', stored)
    /\ missed' = plugged \ known'
    /\ UNCHANGED <<compositor, signals, edit, mode, customId, rect, ids, config, pc, task, unsent, free>>

Listen ==
    /\ life = "listed"
    /\ life' = "on"
    /\ ids' = known
    /\ UNCHANGED <<compositor, signals, known, edit, shown, mem, config, pc, task, bounds, history>>

\* init applies the display mode; then Start exports the object and asks for
\* the name of the service, so that calls arrive.
Apply ==
    /\ life = "on"
    /\ life' = "started"
    /\ ApplyDisplayMode(Main, "init", known, mem)
    /\ Ruling(Main, known, Calm(Main) /\ signals = <<>>)
    /\ UNCHANGED <<compositor, signals, known, edit, shown, bounds, unsent, missed>>

Serve ==
    /\ life = "started" /\ pc[Main] = "idle"
    /\ life' = "ready"
    /\ UNCHANGED <<compositor, signals, known, edit, shown, work, bounds, history>>

Init ==
    /\ plugged \in First
    /\ kwin = [i \in Monitor |-> [on |-> i \in plugged, pos |-> <<0, 0>>, size |-> Best(i)]]
    /\ signals = <<>>
    /\ life = "off"
    /\ known = {} /\ mem = [i \in Monitor |-> Off]
    /\ backup = [i \in Monitor |-> {}] /\ hasChanged = FALSE /\ how = "Unknow"
    /\ \E c \in Custom :
           /\ config = [K \in SUBSET Monitor |-> IF K = Monitor THEN [Screen EXCEPT !.custom = c.modes]
                                                ELSE Screen]
           /\ customId = c.id
    /\ mode \in IF customId = "" THEN Mode \ {"custom"} ELSE Mode
    /\ primary = None /\ rect = Zero
    /\ ids = {}
    /\ pc = [a \in Actor |-> "idle"] /\ task = [a \in Actor |-> Rest]
    /\ calls = 0 /\ others = 0
    /\ unsent = {} /\ missed = {} /\ free = {}

CallStep(c) ==
    /\ Callable(c)
    /\ \/ \E m \in Mode \ {"custom", "only"} : SwitchMode(c, m, "", None)
       \/ \E n \in Name : SwitchMode(c, "custom", n, None)
       \/ \E i \in Monitor \cup {None} : SwitchMode(c, "only", "", i)
       \/ ApplyChanges(c) \/ ResetChanges(c) \/ SaveCall(c)
       \/ \E i \in Monitor \cup {None} : SetPrimary(c, i)
       \/ \E n \in Name : DeleteCustomMode(c, n)
       \/ \E n, new \in Name : ModifyConfigName(c, n, new)
       \/ \E i \in Monitor : Enable(c, i)
       \/ \E i \in Monitor, p \in Pos : SetPosition(c, i, p)
       \/ \E i \in Monitor, z \in Sizes : SetMode(c, i, z)

CommandStep == \E a \in Actor : Set(a) \/ Unset(a) \/ End(a) \/ Saved(a)
SignalStep  == OutputAdded \/ OutputRemoved \/ OutputChanged
StartStep   == (\E stored \in LastPrimary : List(stored)) \/ Listen \/ Apply \/ Serve

CompositorStep ==
    /\ CanHappen
    /\ \/ \E i \in Monitor, p \in Pos : Plug(i, p)
       \/ \E i \in Monitor : Unplug(i)
       \/ \E i \in Monitor, on \in BOOLEAN, p \in Pos : Move(i, on, p)

Next ==
    /\ life # "dead"
    /\ \/ \E c \in Caller : CallStep(c)
       \/ CommandStep
       \/ SignalStep
       \/ StartStep
       \/ CompositorStep

Spec == Init /\ [][Next]_vars

-----------------------------------------------------------------------------
(* Properties.                                                             *)

\* At rest the daemon knows every output, and knows of it what the compositor
\* has.  Exceptions: an output that came, went or was changed after main listed
\* the outputs and before it listened, until a change of it is announced; a
\* monitor edited but not applied, or whose command failed.
Agrees ==
    Quiet =>
        /\ known \ missed = plugged \ missed
        /\ \A i \in (known \cap plugged) \ unsent :
               /\ mem[i].on <=> kwin[i].on
               /\ mem[i].on => mem[i].pos = kwin[i].pos /\ mem[i].size = kwin[i].size

\* At rest the compositor shows the display mode, however the calls, the
\* signals and their commands followed each other.  Exceptions (free, until an
\* operation that sets the whole layout runs alone): a command or a write
\* failed; two operations overlapped; monitors were edited, or their backups
\* brought back, for the backups outlive a change of mode; another enabled or
\* disabled an output; a custom mode was applied without a primary monitor,
\* which puts every monitor at one place.
Honoured ==
    Quiet /\ free = {} /\ missed = {} /\ Cardinality(known) > 1 =>
        LET cfg == Stored(config[known], mode, customId)
            real == RealMode(known, kwin)
        IN  CASE mode = "mirror" -> real = "mirror" /\ \A i \in known : kwin[i].on
              [] mode = "extend" -> /\ \A i \in known : kwin[i].on
                                    /\ cfg = Nothing => real = "extend"
              [] mode = "only"   -> real = "only"
              [] mode = "custom" -> /\ cfg # Nothing
                                    /\ \A i \in known \cap DOMAIN cfg : kwin[i].on = cfg[i].on

\* Every size, and every place that is chosen or stored, is far enough from the ends of
\* int16 for every two sizes: with sizes from 1024 to 3840, up to 13055.
InReach ==
    LET stored == UNION {UNION {{c.modes[n][i].pos : i \in DOMAIN c.modes[n]} : n \in DOMAIN c.modes} :
                             c \in Custom}
        used   == {0} \cup Sizes \cup UNION {{p[1], p[2]} : p \in Pos \cup stored}
    IN  \A x \in used : \A v, w \in Sizes : NoWrap(x, v, w)

\* Monitors that are applied apart in a custom mode are moved together
\* without a gap or an overlap, as long as every place is in reach: beyond it a wrapped
\* sum passes for two monitors that are apart.
Joined ==
    [][\A a \in Actor :
        LET cmd == task'[a].cmd
        IN  InReach /\ pc'[a] = "set" /\ pc[a] # "set" /\ mode = "custom" /\ Cardinality(DOMAIN cmd) = 2
                /\ primary \in DOMAIN cmd /\ RealMode(DOMAIN cmd, cmd) # "mirror"
            => \A i, j \in DOMAIN cmd : i = j \/ Beside(Square(cmd[i].pos, cmd[i].size),
                                                        Square(cmd[j].pos, cmd[j].size))]_vars
=============================================================================
