# Formal models of startdde

TLA+ models of startdde's display manager (`src/display`), its XSETTINGS manager (`src/xsettings`)
and its Wayland display daemon (`src/wl_display`), model-checked with TLC on small
instances, with machine-checked TLAPS proofs of their safety properties. `PROJECT.json`
lists the components, the runs, the lines every definition stands for, the hazards and the
theorems; this file explains them.

## 1. The system

startdde starts the Deepin desktop session. The program logic is in two D-Bus services:
`src/display` (monitors, modes, brightness, colour temperature) and `src/xsettings` (the
XSETTINGS property). `src/wl_display` is an older copy of `src/display` for Wayland; `src/cmd`
holds small commands.

| component | state | operations | interacts with |
|---|---|---|---|
| X monitor manager (`xorg.go`) | `monitorsCache`, `outputs`, `crtcs`, `cfgTs`, `monitorChangedCbEnabled` | handlers of RandR events, `apply`, `wait` | X server (requests, events), Manager (callback `handleMonitorChanged`) |
| Manager, applying (`manager.go`) | `monitorMap`, `monitorsId`, `delayApplyTimer`, `applyMu`, `applySaveMu`, `inApply` | `updateMonitor`, `updateMonitorsId`, `delayApplyConfig`, `applyConfig`, `apply` | monitor manager, system configuration |
| Editing session (`monitor.go`, `manager_ifc.go`) | `Monitor.backup`, `Monitor.changes`, `HasChanged`, `futureConfig`, `sysConfig` | setters, `ApplyChanges`, `Save`, `ResetChanges`, `markClean` | applying, hot-plug |
| Display mode and primary | `DisplayMode`, `Primary`, `delaySwitchMode` | `switchMode`, `setPrimary` | applying, system configuration |
| System configuration (`displayconf.go`) | `sysConfig`, `newSysCfg`, `sessionActive` | `saveSysConfig`, `handleSysConfigUpdated` | system daemon (D-Bus), other sessions |
| Colour temperature (`color_temp.go`) | mode, `redshiftRunner`, custom timer, user configuration | `setColorTempMode`, `setColorTempValue`, redshift output, time zone | redshift process, applying |
| Brightness (`brightness.go`) | per-monitor brightness | `SetBrightness`, `SetAndSaveBrightness` | system configuration, hardware |
| XSettings (`src/xsettings`) | the property with its serials, the DConfig keys | `SetString` ..., `setSettings`, `handleGSettingsChangedCb` | X server, DConfig |
| Scale factors (`scale.go`, `display.go`) | a map per screen, kept in six places | `setScreenScaleFactors`, `handleLocalCenterSF`, `adjustScaleFactor` | DConfig, system daemon, X clients |
| Wayland display daemon (`src/wl_display`) | monitors, display mode, custom modes, stored configurations | `SwitchMode`, editing, `Save`, custom modes, output signals | KWin (command `dde_wloutput`, signals) |
| Wayland in `src/display`, touchscreens, rotation | as above | | compositor, kernel |

What is hard in it is concurrency. Every D-Bus call runs in a goroutine of its own; X events are
handled in one goroutine (`listenXEvents`), the delayed application in that of a timer. They share
`Manager` through half a dozen mutexes that each protect a field or two, so that nearly every
operation is made of several atomic steps with copies of state in between: `monitorMap` is cloned
before a configuration is applied, `futureConfig` is a copy of what `Save` will store,
`MonitorInfo` is read in one step and used in a later one. Applying takes seconds, and monitors
come and go meanwhile. `PROJECT.json` lists under `hazards` where this bites, with the
properties that cover each place.

What makes the components correct:

- hot-plug: one goroutine at a time drives the server; events dropped during an application are
  made up for; the Manager ends up knowing what is connected and with a configuration for it;
- editing: what `Save` stores was applied successfully for the same monitors; `HasChanged` tells
  whether there is something to save or to reset; `ResetChanges` brings back what was there;
- system configuration: sessions converge on the latest one, no update is lost;
- display mode: property, stored mode and applied configuration agree;
- colour temperature: redshift runs exactly in automatic mode, once; the monitor has the temperature
  the settings ask for; mode, switch and stored profile agree;
- XSettings: serials grow, a reader never sees a change without a new serial, and property and
  configuration say the same once everything is handled;
- scale factors: the places agree after each login, and clients are told settings that fit together;
- Wayland display daemon: at rest it knows what the compositor has, and the compositor shows the
  display mode.

## 2. Modules

### Hotplug

Hot-plug handling and the applying of configurations on X11. Three parties: the X server
(external; `srv`, `lit`, `evq`), the event goroutine (`evPc`, `evTodo`) and the goroutines that apply
(`pc`, with their local variables `snap`, `todo`, `info`).

| state | code |
|---|---|
| `srv` | the server's connected outputs and its configuration timestamp |
| `cache` | `xMonitorManager.outputs`/`monitorsCache` and `cfgTs` |
| `cbEnabled` | `monitorChangedCbEnabled` |
| `mon`, `monitorsId` | monitors of `monitorMap` with `realConnected`; `Manager.monitorsId` |
| `timer` | `delayApplyTimer` is running |
| `applyMu`, `applySaveMu`, `inApply` | the mutexes and the flag of that name |

`Plug` queues the two events the server sends. `HandleEvent` is one turn of the event loop up to
`doDiff`; `ReportChanged` and `ReportIds` are the two halves of `handleMonitorChanged` for one
monitor, between which `mm.mu` is released. `HandleCrtcEvent` stands for the events about
crtcs and geometry, which make `doDiff` report a monitor at any time. `TakeSnapshot` ...
`Finish` follow an applying goroutine: copy of `monitorMap`, `applyMu`, grab of the server with
the callbacks stopped (`LockApply`), the crtcs turned off (`DisableCrtcs`, `FailApply`), set
(`SetCrtcs`), the wait (`EndWait`) and the final refresh of every monitor (`GetInfo`,
`RefreshMonitor`, `RefreshIds`). A monitor is an output that is lit or not: geometry, modes, fill
modes and the choice of a crtc are abstracted. The wait may end at any time, which covers the
comparison that succeeds, the changed monitors id and the timeout. Left out of the event goroutine: X requests
that fail (`getScreenResourcesCurrent` keeps the old cache and timestamp, `xorg.go:1216`; an output whose
`getOutputInfo` fails is dropped from it, `:1226`) and an event of an output the cache does not have (`:1163`).
`CacheCurrent` and what follows from it hold while the X server answers.

Properties: `ApplyExclusive`, `CallbacksReenabled`, `CacheCurrent`, `OnlyKnownLosses` (a hot-plug
is lost to the Manager in three named ways and no other), `NoApplyLost` (whenever the Manager's
monitors changed, an application for them is under way, due, or was tried), and the liveness properties
`Converges` and `Reapplied`. The history variables `tried` and `outdated` exist for these only.

### EditSession

The settings of the monitors edited over D-Bus. A property of a monitor has a value; its
position is rejected while `inApply`, its reflection is not recorded in `Monitor.changes`; the stored
configuration has the brightness as well. Setters are single steps (they hold `PropsMu`);
`ApplyChanges`, `Save` and `ResetChanges` are one step per critical section (`ApplyChanges` →
`ApplyCopy` → `EndApply` → `Record` or `Drop`; `Save` → `SaveCopy` → `SaveWrite` → `SaveSend` →
`Clean` → `CleanFlag` → `CleanFuture`; `ResetChanges` → `Reset` → `ResetApply`). `mm.apply` is
one step here, since Hotplug has its details. A hot-plug (`Plug`) changes the monitors id (`screen`) and
runs `markClean` in the event goroutine, then the stored configuration is applied
(`DelayedApply`). `MonitorChanged` is a refresh of the shown properties by an event.
Each of `Save`'s and `ApplyChanges`' failures is a disjunct guarded by `CanFail`.

Properties: `SavedWasApplied` (what is stored under a monitors id was applied for that id),
`FlagMatchesBackup` (`HasChanged` is right except inside two windows, and after a setting made in one
of them), and the two that the code violates.

### ColorTemp, MCColorTemp

The colour temperature: modes, the switch, profiles, the redshift process and the timer of the custom
mode. `MCColorTemp` adds the symmetry of goroutines and processes for TLC.

| state | code |
|---|---|
| `mode`, `enabled`, `manual` | the properties `ColorTemperatureMode`, `-Enabled`, `-Manual` |
| `modeOn`, `dconf`, `signal` | `colorTemperatureModeOn`, the daemon's key it follows, a change not delivered yet |
| `saved` | the `UserMonitorModeConfig` of the connected monitors |
| `flag`, `timer` | `customColorTempFlag`; `customColorTempTimer`, which is nil, set, armed or has fired |
| `state`, `process`, `value`, `procs` | `redshiftRunner`; what each redshift process does |
| `restarts` | pending `time.AfterFunc` of `listenTimezone` |
| `hw` | the temperature the monitor was given |
| `pc`, `arg`, `temp` | the goroutines and their local variables |

A call is one step per shared variable it reads or writes: `SetMode` (the daemon's key first),
`WriteMode`, `WriteEnabled`, `SwitchRunner`, `SwitchCustom`, `TakeTemp`, `Write`, `CopyProfile`,
`SaveProfile`. A write of the switch (`Toggle`, `ToggleOn`, `ToggleOff`) and an application of a
profile (`ApplyConfig`, `ReadMode`) join it halfway, and `Boot`, the goroutine of `initSysDisplay`, at
`SwitchRunner`. A redshift process prints (`Line`), dies (`Die`) and is waited for (`Reap`); its reader
writes the monitor like any other goroutine. `Loop` is a goroutine of `listenCustomColorTempTime`:
`Select`, `Fire`, `Tick`, `Arm`. It can dereference a timer that `stopCustomColorTempMode` has set to nil
meanwhile; then the program ends (`"panic"`).

Properties: `OneProcess`; `TempCurrent` (the last to finish leaves the right temperature);
`RedshiftFollows` and `CustomTicks` (redshift and timer follow the mode); `SettingsAgree` and
`CanTurnOn` (the records of the mode). Calls that overlap and three accidents are known to leave a
mode without its service or the records different; the history variables `crossed`, `lost` and `late`
say when, so that the properties claim there is no other way.

Abstracted: there is one monitor, and it stays connected; temperatures are a few names; a redshift
line has any of the `Warm` values; the comparison of times in `checkCustomModeTime` gives either answer;
the daemon accepts what is written to its key; errors of the X server, the greeter and the file of the
user configuration are left out. So is the time zone that `zoneInfoMap` does not have, of which `start` reads a nil
pointer (`color_temp.go:182`): the program ends there, and no property is about it.

### SharedConfig, SysConfig

`SharedConfig` is the abstract specification of the system configuration: a register of whole versions
that sessions read, work on and publish. `SysConfig` is the code: the daemon's `store`, each session's
`mem` (`Manager.sysConfig`), `parked` (`newSysCfg`), the `queue` of its signal loop, the handler of
`ConfigUpdated` (`Handle`, with `hpc`, `new`, `diff`), goroutines of D-Bus calls that copy a section and
write it back (`Begin`, `Proceed`), `SaveLocked` (changes made under `sysConfig.mu`) and the goroutines
that an update starts (`RunJob`). The value of a section is the number of the write that made it, so that
"older" can be said. `ImplementsSharedConfig` is the refinement: `reg` is the daemon's version, `held`
the version that is parked or being handled. Left out: `updateUuid` (`manager.go:532`), which gives the
monitors of a version received the present form of their ids before it is compared; it changes nothing once the
old form is gone from the file.

Properties: `StampIdentifies` (equal `UpdateAt` means equal contents), `UpToDate` and `Converges` (an
active session gets the latest version), `AppliedWhatChanged` (what `handleSysConfigUpdated` starts is
enough), `NoOldValueSaved` (two known ways to bring an older value back, no other).

### DisplayMode

`switchMode`, `switchModeAux`, the switch that is put off (`delaySwitchMode`), `setPrimary`, the delayed
application, start-up and the updates from other sessions, with hot-plugs between all steps. `setPropDisplayMode`
and `setMonitorPrimary` are one step, as are the clone of `monitorMap` and `getSysScreenConfig`. A
configuration is its primary monitor. Properties: `ModesAgree`, `ShownAgrees` (property, stored mode,
hardware and stored primary monitor agree at rest), `Honoured` (a switch that was put off is made).

### XSettings

`SetInteger` and its like (`Call`) lock, read the property from the X server, write it, unlock and write the
configuration; `Follow` handles a signal of the configuration. A key stands for its kind of conversion; a
color channel wraps at its width. Left out: calls with a value of the wrong type, the mirror of the old
GSettings, the byte layout and the reading in one piece of the property; a failure to read at the start is
one step. That the X server refuses the property at the start is only logged (`xsettings.go:123`): the service
then goes on with none (`Publish`). Properties: `Agrees`, `NumbersGrow`, `Settles`.

### Scale, MCScale

The six places in which scale factors are kept (`centre` at the daemon, `Local` in DConfig and files), written
one by one (`WriteCentre`, `WriteLocal`), and how a login makes them agree (`Sync`, `Adjust`, `UpdateDPI`,
`Load`, `Send`). The session may end at any step (`Quit`), which is the crash of this model. The
greeter's theme is merged with `qt-theme.ini`. Factors are whole thousandths, of any size: one below 0.005 is
accepted as it comes, but two decimals turn it into 0, and a map with a 0 is refused wherever it is to be written
again. The recommended factor may be any, as `GetForceScaleFactor` returns what it reads from a file unrounded. Left out of
`adjustScaleFactor` (`xsettings.go:209`-`237`): the migration asked for by an environment variable, and the
`qt-theme.ini` written when the greeter has none. Both take the factor from the old GSettings, which nothing here writes, and
write `qt-theme.ini` alone; `PlacesAgree` does not cover the logins where that happens. Properties:
`PlacesAgree`, `ShownFits`.

### WlLayout, WlDisplay, MCWlDisplay

`WlLayout` has the geometry of `rect.go` and `getMonitorsPosition` as pure operators; monitors are squares. Places and
sums are those of `int16` and wrap as they do (`Wrap16`).
`WlDisplay` is the daemon beside the compositor.

| state | code |
|---|---|
| `kwin`, `plugged`, `signals` | KWin's outputs; `OutputAdded`, `OutputChanged`, `OutputRemoved` on their way |
| `known`, `mem`, `backup`, `hasChanged` | `monitorMap`, its `Monitor`s, their `backup`, `HasChanged` |
| `mode`, `customId`, `primary`, `rect`, `how` | `DisplayMode`, `CurrentCustomId`, `Primary`, `PrimaryRect`, `mutiMonitorsPos` |
| `ids`, `config` | `monitorsId`; `config`, the stored configurations |
| `pc`, `task` | the goroutines: of calls, of the start (`Main`), of the signals (`Loop`) |

Nothing is locked while a command runs, so an operation is a step up to its first command (`SwitchMode`,
`ApplyChanges`, `OutputAdded` ...; `Start` computes what the commands will say), one step for the command
that sets the outputs (`Set`), one for each that disables one (`Unset`), one for what comes after (`End`)
and one for the write of the file (`Saved`). A command or a write may fail. The daemon can die of a nil
pointer (`life = "dead"`): all monitors are unplugged while it applies mirror mode or a configuration.

Properties: `Agrees` (daemon and compositor agree at rest), `Honoured` (the compositor shows the display
mode), `Joined` (a custom layout that is applied has no gap and no overlap). `Joined` has a hypothesis, `InReach`:
`intersects` adds `2x + w`, which wraps long before `x` does, and then takes two monitors that overlap for apart.
With a monitor of 1000x1000 at (15500, 0) and one of 2000x2000 at (15500, 100) the code finds the pair of their
top left corners fit, and leaves one on the other. `InReach` says of every place that is chosen or stored, and of every
size, that no such sum wraps whatever is put beside it; with sizes from 1024 to 3840, places up to 13055 are in
reach. Without it TLC finds `Joined` violated once the far place of the run is two to the right or four to the top. `unsent`, `missed` and
`free` are history variables that name the exceptions, all of them things the code does:

- a primary monitor is not chosen when there is a built-in one and the stored one is absent
  (`manager.go:1893` takes `defaultName`); a custom mode then puts all monitors at one place ("blind");
- the backups and `HasChanged` of edited monitors survive a change of mode, so that `ResetChanges` takes
  the layout back under the new mode ("edited");
- a stale `OutputChanged` that arrives while a mode is being applied changes what is stored for it, or
  enables a monitor again ("crossed");
- a change by somebody else that moves an output is undone, but one that turns an output on or off is undone
  or taken over, by what memory says of that output ("taken");
- an output plugged between `listOutput` and the connection of the signals stays unknown until KWin
  announces a change of it (`missed`);
- an output changed between `listOutput` and the connection of the signals keeps its old settings in
  memory if the start applies nothing: mirror without a common size, or a custom mode that only stores (`unsent`).

Left out: brightness, the touch map, rotation and reflection, refresh rates, the size of the screen,
`customDisplayMode` and `modeSetFlag` (which nothing reads back), the blacklist of tablets, the file read at
the start, stored mirror configurations (which are never read) and odd sizes (the run's are even). Of several
built-in monitors the code takes any as primary (`util.go:167`), the model the first by number, and only eDP is a
kind of built-in one: `isBuiltinOutput` also knows `lvds`, `lcd` and `dsi`, `initPrimary` does not. That the signals are connected before `monitorsId` is
set (`manager.go:201`, `:210`) is one step. `AdjustPositonAfterSetMode` gives all
monitors but the primary the same place, which shows with three monitors only; the run has two.

### HotplugProofs, EditSessionProofs, ColorTempProofs, SysConfigProofs, XSettingsProofs, DisplayModeProofs, ScaleProofs, WlDisplayProofs

The theorems, a module for each module they are about; see section 5.

## 3. Runs

| run | instance | result |
|---|---|---|
| `Hotplug_safety` | 2 outputs (one fixed), 2 goroutines, 2 hot-plugs, 1 call, failures | all hold; 2.0 million states |
| `Hotplug_live` | the same without failures and calls | `Converges`, `Reapplied` hold |
| `EditSession_safety` | 2 screens, 1 monitor, 2 clients, 4 calls, 1 hot-plug, failures | all hold; 1.4 million states |
| `EditSession_reset` | 1 screen, 2 monitors, 1 client, 6 calls | `ResetRestores` violated |
| `MCColorTemp_redshift` | 2 clients, 2 calls, 1 loop, 2 processes, 1 change of time zone, failures; modes None, Auto, Manual | all hold; 2.8 million states |
| `MCColorTemp_custom` | 1 client, 4 calls, 2 loops; modes None, Custom | all hold; 1.9 million states |
| `SysConfig_all` | 2 sessions, 1 worker each, 2 writes, 1 change of the active session, failures | all hold, `SysConfig` implements `SharedConfig` |
| `DisplayMode_safety` | 3 monitors (1 built-in), 2 hot-plugs, 2 calls | all hold |
| `DisplayMode_live` | 2 monitors, 2 hot-plugs, 1 call, failures | `Honoured` holds |
| `XSettings_all` | 2 callers, 2 calls, 1 write by another program, failures | all hold |
| `Scale_all` | 2 logins, 2 maps, 1 failure, a forced factor of three decimals | all hold; 6.0 million states |
| `WlDisplay_all` | 2 monitors, 1 stored custom mode; 3 events, of which 2 calls and 2 hot-plugs, changes by others or failures at most; a stored place at the end of what is in reach | all hold; 2.6 million states |

**Bounds.** `MaxPlug`, `MaxCall` bound the hot-plugs and the calls; nothing else is unbounded. Two
hot-plugs of one output are its going and coming back, and put two screen events and two output
events in the queue, of which the first screen event already reads the final state: this is the
disorder that matters to the cache. Two applying goroutines are needed for an overlap, and a third
would wait for `applyMu` like the second. One fixed output makes the usual case of a laptop, where the
empty monitors id never occurs; the runs without it show what happens when it does. Four calls
are a setting, its application, another setting and a save, with a hot-plug anywhere between their
steps. `Value` has two members, as a property is only ever compared with itself at another time;
initially every property has the default. In ColorTemp, `Modes` divides the modes between the runs:
automatic mode against the reset of Boot, the time zone and an overlapping call, custom mode against
a long sequence of calls of one client. A loop never ends in the code: `Loop` bounds how often the
custom mode is entered; two entries are what leaves a second loop behind. Two processes suffice, as a
process that was waited for may run again. In SysConfig two writes are one by each session, or two by one; one change of the
active session puts a version aside and brings it back. In DisplayMode a third monitor is what makes the
set of connected monitors change among sets of several. In XSettings two calls overlap on a setting while a
third party writes its key. In Scale the second login is the one that repairs what the first left, and the
maps asked for are one of three decimals for all screens, an invalid one, one per screen and one that two decimals make
invalid; the recommended factor, 1.667, is one that only a file can force, and differs from its two decimals. In WlDisplay a
built-in monitor with two sizes and another with one make `mirror` differ from what each does best, and the
stored custom mode is to be closed up at the upper right end of what is in reach, one step further right than which the sums
wrap; the places a call chooses are near the origin; two calls are an edit and its application, or a switch
and what overlaps it. Outside the proofs, larger numbers of outputs or goroutines are not covered by
these runs.

**Deadlock** is not checked: once the bounded hot-plugs and calls are used up, a model may stop.
A goroutine that waited for ever would be found by `Converges` and `Reapplied`.

**Fairness** (`Hotplug!FairSpec`). The event goroutine is fair in what it has begun (`WF` on
`ReportChanged`, `ReportIds`), as goroutines are scheduled fairly by Go's runtime; it takes the events
from the queue although spurious events keep coming (`SF` on `HandleEvent`), as the queue is first in,
first out. The timer fires (`WF`), and each applying goroutine proceeds (`SF` on `ApplyStep`, for Go's
mutexes, which do not starve a waiter, and `wait`, which is bounded by a timeout). No fairness is
assumed of the server, of clients or of spurious events.

`SysConfig!FairSpec`: the signal loop and the goroutines that were started go on (`WF`). `DisplayMode!FairSpec`:
every goroutine goes on and the timer fires once it is no longer reset. `XSettings!FairSpec`: besides, whoever
waits for `settingsLocker` gets it (`SF` on `Read`), as Go's mutexes do not starve. In none of them has a
client, another program or logind to do anything. `Scale` and `WlDisplay` state no liveness.

Both liveness properties carry their exceptions: `outdated` is set when a final refresh overwrote
a newer report (a loss that `OnlyKnownLosses` names), and `Reapplied` assumes that no request
of a configuration was refused that nevertheless fits what is connected at the end (an output that went
and came back while it was applied: the id is unchanged and nothing is applied again).

## 4. Disagreements between code and documentation

- **Reset** (run `EditSession_reset`). `resetChanges` leaves `Monitor.changes`; the withdrawn settings
  are applied again with the next `ApplyChanges`, and cannot be reset any more.

The models have others. They are no runs of the project, but the formulas are in the modules and TLC
finds each violated on the instance given:

- **Started without a monitor** (`Hotplug!MonCurrent`, with `Fixed = {}`). The callbacks are enabled by
  `mm.apply` only, which does not run when nothing is connected; the first monitor plugged in is dropped.
- **All monitors gone and back** (`Hotplug!ApplyDue`, with `Fixed = {}`). The empty id is ignored, so when
  the timer fires with nothing connected, the same monitors are not applied to when they return, even
  if what is in force is for others: B goes, A comes (its id is kept), A goes, the timer fires and
  finds no monitor, A returns. `NoApplyLost` leaves this case out, and that of a copy made between the
  two halves of a report, which TLC shows first.
- **`inApply`** (`Hotplug!InApplyCoversApply`) is cleared by the first of two applications to finish.
- **Brightness** (`EditSession!BrightnessKept`, one screen, four calls). `Save` stores the copy
  `ApplyChanges` made, with the brightness of that time.
- **Automatic mode without redshift** (`ColorTemp!AutoRuns`, automatic mode). The goroutine that resets the
  temperature at start-up may stop the redshift that the stored profile has just started.

The panic of the custom mode's loop contradicts no document and has no run of its own; it ends the
behaviours that reach it (`Next`).

## 5. Proofs

Checked by TLAPS for all values of the constants that satisfy the `ConstantsAssumption` of each module,
so for every number of outputs, sessions, goroutines, hot-plugs, calls, failures and logins. Every inductive
invariant was checked by TLC before it was proved; none of the properties below is inductive as it stands
unless that is said.

**Hotplug**

- `TypeCorrect`: inductive as it stands.
- `Exclusion` (`ApplyExclusive`): that two goroutines are in `mm.apply` is excluded by who holds the
  mutex. `ExclusiveInv` adds that whoever is inside holds `applyMu`, and that the callbacks are
  stopped while the server is grabbed.
- `Reenabling` (`CallbacksReenabled`): from `ExclusiveInv`, every step out of the grabbed part enables the callbacks.
- `KnownLossesOnly` (`OnlyKnownLosses`): an action property; needs `InfoInvariant` (a goroutine holds a
  `MonitorInfo` exactly between reading and reporting it), then goes over the actions.
- `CacheCatchesUp` (`CacheCurrent`): `CacheInv` says what the queue makes up for. If the cache has another
  timestamp than the server, a screen event that will read the server's state is in the queue; if it has
  the timestamp, it has the outputs too, and the output events behind are older and leave it alone.
- `ApplicationDue` (`NoApplyLost`): `CopyDue` says the same of every copy of `monitorMap` that a goroutine
  still is to try, `IdsDue` that somebody is going to compare the ids whenever they differ.

**EditSession**

- `TypeCorrect`: lemmas say that recorded changes, modified configurations and what `mm.apply` uses of a
  configuration have their types.
- `SavedOnlyApplied`: `SavedInv` adds to `SavedWasApplied` that the future configuration, and the copy
  of any goroutine about to record or store one, were applied under their id.
- `FlagConsistent`: `FlagInv` says what holds inside the two windows: no backup after the first half of
  `markClean`, `HasChanged` unset after that of `ResetChanges`, unless a setting came in.

**ColorTemp**

- `TypeCorrect`: needs `RestartBound`, that no restart of redshift is pending without a change of the time zone.
- `SingleProcess`: `ProcessInv` adds to `OneProcess` that a process only exists while the runner's state is
  running, since `start` looks at nothing else.
- `TemperatureIsCurrent`: `TemperatureInv` says that whenever the monitor does not show what the settings
  ask for, somebody is on the way to read them again (`WillRead`), or holds the mutex with
  the right value, or one of the exceptions applies; and that one goroutine holds the mutex.
- `RecordsAgree`, `SwitchTurnsOn`: `SerialInv` says, for calls that did not overlap, by what the property,
  the switch and the stored profile differ at each place of the call that runs.
- `RedshiftIsFollowing`: for calls that did not overlap, `Agreed` says at which places of a call the runner and the
  mode may differ and in which way, `BootInv` what the goroutine of start-up is still to do, `FollowInv` puts them together with
  the pending restarts and the processes that are going.
- `CustomModeTicks`: `TickInv` says who keeps the custom mode going at each place: the timer was made and a loop is
  about to wait for it, or it fired and the loop is about to arm it again. `KeptInv` is what makes it inductive
  when loops and timers of earlier visits are still around: a timer that is armed or has fired was set.

**SysConfig**

- `TypeCorrect`: inductive as it stands.
- `StampSafe` (`StampIdentifies`): `StampInv` says that every version anywhere (daemon, memory, parked, in a
  signal's answer) with a given `UpdateAt` is the one that was published with it, or is being
  changed by its own session. `HeldInv` and `MadeInv` say the same of the copies of a section and of the numbers of
  the writes.
- `LatestArrives` (`UpToDate`): `OnItsWay`: a session without the daemon's version has a signal in its queue, is
  handling one, has parked it, or has missed it; `NotOlder` keeps what is parked from being older than memory.
- `ChangesApplied` (`AppliedWhatChanged`): `AppliedInv` says for every section that what is in force is what
  memory says, or a job for it exists, or the handler has not come to it.
- `NoOldValue` (`NoOldValueSaved`): an action property, from `StampInv` and `OneVersion`.
- `Implements`: `SysConfig` refines `SharedConfig`: initial states map to initial states, and every step to a step or
  a stutter. It needs `HeldInv`: what a session holds in the abstract is what the handler read.

**DisplayMode**

- `TypeCorrect`: inductive as it stands.
- `ModesAgreeAtRest` (`ModesAgree`), `ShownAgreesAtRest` (`ShownAgrees`): `Alone` and `CleanAlone` say that without overlap one goroutine is
  at work, `ShapeInv` which job it may have at each place. `ModesInv` and `ShownInv` then say by
  what property, stored mode and hardware differ there (`Good`, `Shows`).

**XSettings**

- `TypeCorrect`: needs `ArgInv`, that a goroutine that has read the property has settings to write.
- `NoItemLost` (`NumbersGrow`): `LockInv`: one goroutine is between reading and writing and what it has
  read is still the property, unless another program wrote it.
- `PropertyAgrees` (`Agrees`): `LoopInv` (who follows the signals, from when on) and `AgreeInv`: for every key, property
  and configuration agree, or a goroutine is about to write one of them, or a signal for
  the key is on its way, or the key is one of the named losses.

**Scale**

- `TypeCorrect`: that a map which is written is valid follows from who begins to write it. `MapsInv` says that
  every map is one that was asked for, the recommended one, or one of them with two decimals, which may have made it invalid;
  `LifeInv`, who may be at work at which time of the process.
- `PlacesAgreeAtRest` (`PlacesAgree`): it says nothing of a session that is starting, of one that is over, or of
  the places while they are written. `CentreInv` follows the newest map through the start: written by
  main, cached, or at the centre. `AloneInv`: a goroutine writes alone or everything of the user's is
  uncertain. `RestInv`: whenever nobody writes, the places that are certain are those of one map, which looks in two
  decimals like the one the session takes for the one that is set; of a session that is over it says
  instead that `handleLocalCenterSF` will repair them at the next login. `WriteInv`: what the goroutine
  has passed has its map. `TailInv`: `individual-scaling` and `qt-theme.ini`, the last two, have the same
  map until the last write, so that a login may judge by the former.
- `ClientsAreToldOneFactor` (`ShownFits`): an action property, from `RestInv`.

Nothing is assumed of the maps asked for but that their factors are natural numbers, and of the recommended factor that it is
positive (`GetForceScaleFactor` allows 1.0 to 3.0). So a map at the centre or in a place need not be valid, and
`TypeCorrect` says that none is written that is not.

**WlDisplay**

- `DaemonAgrees` (`Agrees`): `AgreesInv`, the inductive invariant, has five parts. `Shape`: what the actions take for
  granted of the variables. `Starting`: what memory is before `main` listens. `Present`: an output that came or went
  since memory last heard of it has a signal of that coming. `Truthful`: the last signal on its way about an output
  says whether it is plugged and how it is set. `Settled`: where memory and the compositor differ on an output, a signal on its way
  corrects memory (`Due`), or a command still to run sets the output as memory has it, or an exception is recorded.
  Every operation is shown once to be of one of a few forms (`Works`, `Moves`), from which the parts follow; lemmas on
  sequences say what the signals of one command add to the queue.
- `TypeCorrect` (`TypeOK`): `TypeInv` types every variable (`Typed`: an operation's task says which monitors its command
  sets, which are known) and has `Numbered`: while `main` listens `monitorsId` is the set of the known monitors, except
  while the goroutine of the signals itself applies what a new set asks for. With it `TypeOK`'s clause on
  `backup` follows: no edit is left of a monitor that is gone. It needs `AgreesInv` beside it, for
  what is on its way. The places of `extend` are sums of widths, folded over a finite set: that
  the recursive function exists (`SumsExist`), is unique and has numbers for values follows from a smallest
  counterexample among the finite subsets (`SmallestSet`, by the well-foundedness of strict inclusion).
- `BestMoveJoins` (`WlLayout`): `BestMove`, in the `int16` of the code, leaves any two rectangles of even sizes side by
  side, whatever the way of placing them, if none of the sums that tell of an overlap wraps when the first is put
  beside the second (`NoWrap`): a pair of corners that fits exists (`CanJoin`); the least one exists, since its key is a
  number (`BestPairJoins`); and two rectangles that share a corner and do not intersect are apart (`Apart`), for which the sizes
  must be even, as `Half` truncates. `OverlapInReach` is the step that wrapping breaks: along one axis, of two sections
  joined at an end, `Overlap` is true of those that overlap and of no others. The first rectangle may be anywhere in `int16`:
  the difference by which it is moved may wrap, but then the sum that moves it wraps back.
- `AppliedJoined` (`Joined`): what `BestMoveJoins` says of the operator is true of every command of a custom mode,
  whichever operation gives it, and the command carries the settings `AdjustPositonAfterSetMode` left. Its hypothesis `TwoEven` is two monitors
  with even sizes whose places are in reach, as the property is false in general: of three monitors `AdjustPositonAfterSetMode` may
  take a disabled one for the other, and give the enabled one, of another size, its place. That all places are in reach
  is an assumption about what is chosen and what is stored (`InReach`); that they stay so is part of the types:
  `Coord`, the coordinates that occur, are then those in reach. `extend` puts the second monitor at the width of the first, and
  `BestMoveType` shows that the correction leaves no coordinate above a size, both of which are in reach.
- `ModeHonoured` (`Honoured`): the commands of an operation are separate steps, and signals, other calls and
  changes by others come between them. The inductive invariant `Ordered` says, while no exception is
  recorded in `free`: an operation that sets the whole layout runs alone, the signals that come meanwhile say what its own
  commands did (`Says`), and its settings are prepared for the mode it ends in (`InOrder`, `Prepared`): these are
  `Ruled`; a setting the compositor has not been told is one whose command is about to run (`Unapplied`); of the
  signals on their way, the first that an output came or went tells of something new, and those before it agree with
  memory on what is on (`Foretold`); so does every command that is to run (`Obeying`); and when no such operation is under way,
  memory shows the mode (`Settling`). At rest the compositor fits memory by `AgreesInv`. What each way of
  preparing a layout leaves is a lemma of its own (mirror, extend, only, custom), and so is what each operation comes to when it
  ends. `TwoEven` again: of three monitors `AdjustPositonAfterSetMode`, which runs under the old mode when a
  custom mode is left for extend, puts all but the primary at one place; with it TLC finds `Honoured` violated (a
  variant of `MCWlDisplay_all.cfg` with three monitors, not kept as a run, ends in extend mode with two monitors at the same place).

Its constants are assumed to be finite sets of monitors, numbered from 1, each with positive sizes of 16
bits, the places that are asked for those of `int16`, and the stored configurations of the types the code
gives them (`MonitorConfig` of `config.go`).

**What the attempts at proof found**

- DisplayMode: a switch to `only` is put off; three monitors come back, and the timer's `applyConfig`
  switches to `mirror` by itself; the switch put off then sets the property and, as it had this
  mode when it was put off, does not store it (`manager.go:859`, `:1815`). It takes three
  hot-plugs, one more than the run has. The model now counts this as an overlap.
- Hotplug: the last item but two of section 4; and the exception `outdated` of `NoApplyLost` turned out not to be
  needed.
- Scale: two maps that look alike in two decimals (1.699 and 1.7). A session that dies after it has written
  `scale-factor` of the second over the first, before the rest, is not repaired: `individual-scaling` has
  the first one's text, which is what the centre has. `Unrepaired` has this as a case of its own.
- WlDisplay: the last exception of section 2 (an output changed before `main` listens). In the run the start always applies
  something, which hides it.

**Model-checked only**: the liveness properties (`Converges`, `Reapplied`, `Settles`, DisplayMode's `Honoured`),
which are out of the prover's reach, as are `ENABLED` and the induction theorems that take an operator (for
the one sum above, a smallest counterexample does instead). Every safety invariant and every action property
of the passing runs is stated by a theorem.

## 6. Not modelled, and the plan

`PROJECT.json` gives a reason for every component. Not modelled: Wayland's monitor manager of
`src/display` (it does below the Manager what WlDisplay's commands do), touchscreens (look-ups and
dialogs), the built-in monitor and rotation (a sensor's timing), the migration of old configurations and the
selection of modes (sequential functions on data), the greeter's daemon, the xauthority fixer
and generated code.

Next, in this order:

1. An abstract specification of Hotplug (a Manager that always knows a past state of the server
   and eventually the latest), implemented by `Hotplug` outside its named losses.
2. Three monitors in WlDisplay, once `AdjustPositonAfterSetMode` places them apart.
