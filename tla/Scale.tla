-------------------------------- MODULE Scale --------------------------------
(***************************************************************************)
(* The scale factors of the screens (src/xsettings: scale.go,              *)
(* xsettings.go, xsettings_dpi.go; src/display: display.go, manager.go),   *)
(* from one login of a user to the next.  They are kept at the centre (the *)
(* configuration of the system daemon, shared by the users) and in several *)
(* places of the user's own, which one goroutine writes one by one.  The   *)
(* display manager, which writes to the centre, starts after the service   *)
(* that is asked to set them.                                              *)
(*                                                                         *)
(* A map of factors is a function from names of screens ("ALL" for every   *)
(* screen) to thousandths.                                                 *)
(***************************************************************************)
EXTENDS Integers, FiniteSets

CONSTANTS
    Worker,         \* goroutines: D-Bus calls, and changedCb for other users' changes
    Main,           \* the main goroutine, which logs in
    Factors,        \* the maps that are asked for
    Recommended,    \* the factor recommended for the monitors, or forced by a file
    MaxAsk,         \* bound: maps asked for, by this user and the others
    MaxLogin,       \* bound: logins
    MaxFail         \* bound: failures of dconfig, the daemon or the files

ASSUME ConstantsAssumption ==
    /\ Main \notin Worker
    /\ \A f \in Factors : f \in [DOMAIN f -> Nat]
    /\ Recommended \in Nat \ {0}
    /\ MaxAsk \in Nat
    /\ MaxLogin \in Nat
    /\ MaxFail \in Nat

VARIABLES
    centre,     \* ScaleFactors at the daemon
    mem,        \* ScaleFactors in the display manager's sysConfig
    cache,      \* _scaleFactors, a set of at most one
    place,      \* what is stored for the user
    shown,      \* what the X clients were told at the last login
    life,       \* how far main has come
    signal,     \* a change of the centre is still to be handled
    pc,         \* the place that a goroutine writes next, or "idle"
    arg,        \* the map it writes
    asks,       \* maps asked for so far
    logins,     \* logins so far
    fails,      \* failures so far
    alone,      \* history: no other goroutine has written beside this one
    bad,        \* history: the places it could not write
    off,        \* history: places that may hold something else
    newest      \* history: the map that somebody wrote last

settings == <<place, shown>>
process  == <<life, cache, mem, signal>>
run      == <<pc, arg, alone, bad>>
bounds   == <<asks, logins>>
vars     == <<centre, process, settings, run, bounds, fails, off, newest>>

Actor == Worker \cup {Main}
None  == [x \in {} |-> 0]
Recommendation == [x \in {"ALL"} |-> Recommended]

\* scale-factor, window-scale, gtk-cursor-theme-size and individual-scaling of
\* dconfig, and qt-theme.ini with the greeter's copy of it.
Local == {"sf", "ws", "cs", "ind", "qt"}
Place == {"centre"} \cup Local
Life  == {"off", "sync", "adjusted", "named", "loaded", "sent", "up", "on"}

-----------------------------------------------------------------------------
(* What is stored of a map.                                                *)

Valid(f) == f # None /\ \A x \in DOMAIN f : f[x] > 0

\* getSingleScaleFactor
Single(f) ==
    IF Cardinality(DOMAIN f) = 1 THEN f[CHOOSE x \in DOMAIN f : TRUE]
    ELSE IF "ALL" \in DOMAIN f THEN f["ALL"] ELSE 1000

\* joinScreenScaleFactors writes two decimals: a factor below 0.005 is read again as 0,
\* so that the map is not valid any more.
Rounded(f) == [x \in DOMAIN f |-> ((f[x] + 5) \div 10) * 10]

WindowScale(s) == IF (s + 300) \div 1000 < 1 THEN 1 ELSE (s + 300) \div 1000

Of(p, f) ==
    CASE p = "sf"           -> Single(f)
      [] p = "ws"           -> WindowScale(Single(f))
      [] p = "cs"           -> (24 * Single(f)) \div 1000
      [] p \in {"ind", "qt"} -> Rounded(f)

\* What a user has who never set anything: scale-factor is not positive.
Unset == [p \in Local |-> CASE p = "sf" -> 0 [] p = "ws" -> 1 [] p = "cs" -> 24 [] OTHER -> None]
Set(f) == IF f = None THEN Unset ELSE [p \in Local |-> Of(p, f)]

Map(f) == f \in [DOMAIN f -> Nat]

TypeOK ==
    /\ Map(centre) /\ Map(mem) /\ Map(newest)
    /\ \A f \in cache : Map(f) /\ cache = {f}
    /\ DOMAIN place = Local
    /\ \A p \in {"sf", "ws", "cs"} : place[p] \in Nat
    /\ \A p \in {"ind", "qt"} : Map(place[p])
    /\ shown \in [{"dpi", "ws", "unscaled", "cs"} -> Nat]
    /\ life \in Life
    /\ signal \in BOOLEAN
    /\ pc \in [Actor -> {"idle"} \cup Place]
    /\ \A a \in Actor : pc[a] # "idle" => Valid(arg[a])
    /\ asks \in 0 .. MaxAsk
    /\ logins \in 0 .. MaxLogin
    /\ fails \in 0 .. MaxFail
    /\ alone \in [Actor -> BOOLEAN]
    /\ bad \in [Actor -> SUBSET Place]
    /\ off \in SUBSET Place

-----------------------------------------------------------------------------
(* setScreenScaleFactors: the centre, then the places of the user in turn. *)

\* Fault: individual-scaling is written before what follows from it.
AfterIndFirst(p) ==
    CASE p = "centre" -> "ind"
      [] p = "ind"    -> "sf"
      [] p = "sf"     -> "ws"
      [] p = "ws"     -> "cs"
      [] p = "cs"     -> "qt"
      [] p = "qt"     -> "idle"

After(p) ==
    CASE p = "centre" -> "sf"
      [] p = "sf"     -> "ws"
      [] p = "ws"     -> "cs"
      [] p = "cs"     -> "ind"
      [] p = "ind"    -> "qt"
      [] p = "qt"     -> "idle"

Busy == {a \in Actor : pc[a] # "idle"}

\* The goroutine a begins to write f, which is valid; d is what was off before.
Begin(a, f, d) ==
    /\ pc[a] = "idle"
    /\ pc' = [pc EXCEPT ![a] = "centre"]
    /\ arg' = [arg EXCEPT ![a] = f]
    /\ alone' = [b \in Actor |-> IF b = a THEN Busy = {} ELSE alone[b] /\ b \notin Busy]
    /\ bad' = [bad EXCEPT ![a] = {}]
    /\ off' = IF Busy = {} THEN d ELSE Place

Fine == fails' = fails
Fail == fails < MaxFail /\ fails' = fails + 1

Advance(a, p) ==
    /\ pc[a] = p
    /\ pc' = [pc EXCEPT ![a] = After(p)]
    /\ UNCHANGED <<arg, alone>>

\* setScaleFactors of the display manager saves what differs from its memory.
SaveCentre(f, ok) ==
    /\ mem' = f
    /\ centre' = IF f # mem /\ ok THEN f ELSE centre

\* Fault: what is cached is not replaced.
WriteCentreCacheAll(a) ==
    /\ Advance(a, "centre")
    /\ IF life \in {"up", "on"}
       THEN SaveCentre(arg[a], TRUE) /\ cache' = cache
       ELSE cache' = cache \cup {arg[a]} /\ UNCHANGED <<centre, mem>>
    /\ newest' = IF a = Main THEN newest ELSE arg[a]
    /\ UNCHANGED <<life, signal, settings, bad, off, bounds, fails>>

\* scaleFactorsHelper.SetScaleFactors: the map is cached while the display manager
\* is starting; what comes after the cache was read stays there.
WriteCentre(a) ==
    /\ Advance(a, "centre")
    /\ \/ /\ life \notin {"up", "on"}
          /\ cache' = {arg[a]}
          /\ off' = IF life = "sent" THEN off \cup {"centre"} ELSE off
          /\ Fine
          /\ UNCHANGED <<centre, mem>>
       \/ /\ life \in {"up", "on"}
          /\ SaveCentre(arg[a], TRUE)
          /\ off' = IF arg[a] # mem THEN off \ {"centre"} ELSE off
          /\ cache' = cache
          /\ Fine
       \/ /\ life \in {"up", "on"} /\ arg[a] # mem /\ Fail
          /\ SaveCentre(arg[a], FALSE)
          /\ off' = off \cup {"centre"}
          /\ cache' = cache
    /\ newest' = IF a = Main THEN newest ELSE arg[a]
    /\ UNCHANGED <<life, signal, settings, bad, bounds>>

\* That dconfig does not take a value is only logged; the caller gets the error
\* of the last place.
WriteLocal(a, p) ==
    /\ Advance(a, p)
    /\ \/ Fine /\ place' = [place EXCEPT ![p] = Of(p, arg[a])] /\ bad' = bad
       \/ Fail /\ place' = place /\ bad' = [bad EXCEPT ![a] = @ \cup {p}]
    /\ off' = IF p # "qt" THEN off
              ELSE (IF alone[a] THEN off \cap {"centre"} ELSE off) \cup bad'[a]
    /\ UNCHANGED <<centre, process, shown, bounds, newest>>

-----------------------------------------------------------------------------
(* Logging in.                                                             *)

\* Fault: the user's own come first.
SyncLocalFirst ==
    /\ life = "off"
    /\ logins < MaxLogin
    /\ logins' = logins + 1
    /\ life' = "sync"
    /\ \/ /\ centre # None /\ place.ind = None
          /\ IF Valid(centre) THEN Begin(Main, centre, off) ELSE UNCHANGED <<run, off>>
          /\ cache' = cache
       \/ /\ place.ind # None
          /\ cache' = {place.ind}
          /\ UNCHANGED <<run, off>>
       \/ /\ centre = None /\ place.ind = None
          /\ UNCHANGED <<cache, run, off>>
    /\ UNCHANGED <<centre, mem, signal, settings, asks, fails, newest>>

\* handleLocalCenterSF: what the centre has comes first, unless it is refused; what only
\* the user has is sent there, valid or not.  A centre that does not answer is taken
\* for one that has nothing.
Sync ==
    /\ life = "off"
    /\ logins < MaxLogin
    /\ logins' = logins + 1
    /\ life' = "sync"
    /\ \/ /\ centre # None /\ place.ind # centre
          /\ IF Valid(centre) THEN Begin(Main, centre, off)
             ELSE off' = off \cup Local /\ UNCHANGED run
          /\ cache' = cache /\ Fine
       \/ /\ centre # None /\ place.ind = centre
          /\ UNCHANGED <<cache, run, off, fails>>
       \/ /\ IF centre = None THEN Fine ELSE Fail
          /\ cache' = IF place.ind = None THEN {} ELSE {place.ind}
          /\ off' = IF centre = None THEN off ELSE Place
          /\ UNCHANGED run
    /\ UNCHANGED <<centre, mem, signal, settings, asks, newest>>

\* adjustScaleFactor: a factor that cannot be read is taken for one never set.
Adjust ==
    /\ life = "sync" /\ pc[Main] = "idle"
    /\ life' = "adjusted"
    /\ \/ /\ Recommended # 1000
          /\ IF place.sf <= 0 THEN Fine ELSE Fail
          /\ Begin(Main, Recommendation, IF centre = None /\ place.sf <= 0 THEN off ELSE Place)
          /\ newest' = IF centre = None THEN Recommendation ELSE newest
       \/ /\ place.sf > 0 \/ Recommended = 1000
          /\ UNCHANGED <<run, off, newest, fails>>
    /\ UNCHANGED <<centre, mem, cache, signal, settings, bounds>>

\* updateDPI tells the X clients what is stored, once for the session; from then on
\* the D-Bus service can be called.
UpdateDPI ==
    LET dpi == IF place.sf <= 0 THEN 98304 ELSE (98304 * place.sf) \div 1000 IN
    /\ life = "adjusted" /\ pc[Main] = "idle"
    /\ life' = "named"
    /\ shown' = [dpi |-> dpi, ws |-> place.ws, cs |-> place.cs,
                 unscaled |-> IF place.ws > 1 THEN 98304 ELSE dpi]
    /\ UNCHANGED <<centre, mem, cache, signal, place, run, bounds, fails, off, newest>>

\* Manager.init: loadSysConfig, ...
Load ==
    /\ life = "named"
    /\ life' = "loaded"
    /\ \/ Fine /\ mem' = centre
       \/ Fail /\ mem' = None
    /\ UNCHANGED <<centre, cache, signal, settings, run, bounds, off, newest>>

\* ... and then what was cached until now.
Send ==
    /\ life = "loaded"
    /\ life' = "sent"
    /\ \/ Fine /\ cache = {} /\ UNCHANGED <<centre, mem, off>>
       \/ Fine /\ \E f \in cache : SaveCentre(f, TRUE) /\ off' = off
       \/ Fail /\ \E f \in cache : /\ f # mem
                                   /\ SaveCentre(f, FALSE)
                                   /\ off' = off \cup {"centre"}
    /\ UNCHANGED <<cache, signal, settings, run, bounds, newest>>

\* Start sets _dpy at its very end, and StartPart2 listens to the daemon.
StartDisplay ==
    /\ life \in {"sent", "up"}
    /\ life' = IF life = "sent" THEN "up" ELSE "on"
    /\ cache' = {}
    /\ off' = IF life = "up" /\ mem # centre THEN off \cup {"centre"} ELSE off
    /\ UNCHANGED <<centre, mem, signal, settings, run, bounds, fails, newest>>

-----------------------------------------------------------------------------
(* Changes, and the end of the session.                                    *)

Ask(f) ==
    /\ asks < MaxAsk
    /\ asks' = asks + 1
    /\ logins' = logins

\* SetScaleFactor, SetScreenScaleFactors: a map that is not valid is refused.
Call(w, f) ==
    /\ life \in {"named", "loaded", "sent", "up", "on"}
    /\ Ask(f)
    /\ IF Valid(f) THEN Begin(w, f, off) ELSE UNCHANGED <<run, off>>
    /\ UNCHANGED <<centre, process, settings, fails, newest>>

\* Another user's session saves a map, or sends one that is not valid as Sync does: who
\* is starting meanwhile may miss it, and who comes later does not look further if
\* individual-scaling has that map.
OtherUser(f) ==
    /\ Ask(f)
    /\ f \notin {None, centre}
    /\ centre' = f
    /\ newest' = f
    /\ signal' = (life = "on")
    /\ off' = IF life \notin {"off", "on"} THEN Place
              ELSE IF life = "off" /\ place.ind = f THEN off \cup Local ELSE off
    /\ UNCHANGED <<life, mem, cache, settings, run, fails>>

\* handleSysConfigUpdated leaves the map to changedCb in a goroutine of its own,
\* which writes it like the user's, the centre included, or refuses it.
Adopt(w) ==
    /\ signal
    /\ signal' = FALSE
    /\ \/ /\ mem # centre
          /\ mem' = centre
          /\ IF Valid(centre) THEN Begin(w, centre, off \ {"centre"})
             ELSE off' = Place /\ UNCHANGED run
          /\ Fine
       \/ /\ mem = centre
          /\ UNCHANGED <<mem, run, off, fails>>
       \/ /\ Fail
          /\ off' = off \cup {"centre"}
          /\ UNCHANGED <<mem, run>>
    /\ UNCHANGED <<centre, life, cache, settings, bounds, newest>>

\* The process ends, wherever it is: what has not reached the centre is forgotten
\* at the next login, if individual-scaling tells that the user has something else.
\* If it tells of the map that was being written, by an earlier one that looks like
\* it in two decimals (as qt-theme.ini, written last, has it too), nothing is written
\* again.
Unrepaired ==
    {p \in Place : \E a \in Busy :
        \/ p \in bad[a]
        \/ pc[a] = "qt" /\ p = "qt"
        \/ pc[a] \notin {"qt", "centre"} /\ arg[a] # centre
        \/ /\ pc[a] \notin {"qt", "centre"}
           /\ place.ind = centre /\ (place.qt = centre \/ "qt" \in off)
           /\ p \in Local /\ place[p] # Of(p, arg[a])}

Quit ==
    /\ life # "off"
    /\ life' = "off"
    /\ cache' = {}
    /\ mem' = None
    /\ signal' = FALSE
    /\ pc' = [a \in Actor |-> "idle"]
    /\ arg' = [a \in Actor |-> None]
    /\ alone' = [a \in Actor |-> TRUE]
    /\ bad' = [a \in Actor |-> {}]
    /\ off' = (IF "ind" \in off \cup Unrepaired THEN Local ELSE off \cup Unrepaired) \ {"centre"}
    /\ newest' = IF centre # None THEN centre ELSE place.ind
    /\ UNCHANGED <<centre, settings, bounds, fails>>

-----------------------------------------------------------------------------
Init ==
    /\ centre \in {None} \cup {f \in Factors : Valid(f)}
    /\ \E f \in {None} \cup {g \in Factors : Valid(g)} : place = Set(f)
    /\ mem = None
    /\ cache = {}
    /\ shown = [dpi |-> 0, ws |-> 0, unscaled |-> 0, cs |-> 0]
    /\ life = "off"
    /\ signal = FALSE
    /\ pc = [a \in Actor |-> "idle"]
    /\ arg = [a \in Actor |-> None]
    /\ asks = 0
    /\ logins = 0
    /\ fails = 0
    /\ alone = [a \in Actor |-> TRUE]
    /\ bad = [a \in Actor |-> {}]
    /\ off = {}
    /\ newest = IF centre # None THEN centre ELSE place.ind

Next ==
    \/ Sync \/ Adjust \/ UpdateDPI \/ Load \/ Send \/ StartDisplay \/ Quit
    \/ \E a \in Actor : WriteCentre(a) \/ \E p \in Local : WriteLocal(a, p)
    \/ \E f \in Factors : OtherUser(f) \/ \E w \in Worker : Call(w, f)
    \/ \E w \in Worker : Adopt(w)

Spec == Init /\ [][Next]_vars

-----------------------------------------------------------------------------
\* When the session has come up and nothing is under way, the centre has the map
\* that was written last and every place of the user agrees with it (up to the two
\* decimals that are all a centre without a map is sent), although they are written
\* one by one, maps are cached while the display manager starts, and earlier
\* sessions may have died anywhere.  Exceptions are the places in off: two
\* goroutines wrote at once; a write or a question failed; the map came between the
\* reading of the cache and the end of Start, or another user's in all of it; what the
\* centre has was refused, because two decimals left 0 of a factor.
PlacesAgree ==
    life = "on" /\ Busy = {} /\ ~signal /\ "centre" \notin off /\ centre # None =>
        /\ centre = newest
        /\ \E f \in {centre, Recommendation} \cup Factors :
              /\ Rounded(f) = Rounded(centre)
              /\ \A p \in Local \ off : place[p] = Of(p, f)

\* The single factors of the maps that are asked for or recommended, as they are given
\* and as they are stored.
Singles == LET known == {Recommendation} \cup Factors IN
    {1000} \cup {Single(f) : f \in {g \in known \cup {Rounded(g) : g \in known} : Valid(g)}}

\* The X clients are told settings that fit together: the size of the cursor, the
\* scale of windows and the resolution are those of one factor.
ShownFits ==
    [][shown' # shown /\ {"sf", "ws", "cs"} \cap off = {} =>
        \E s \in Singles : /\ shown'.dpi = (98304 * s) \div 1000
                          /\ shown'.ws = WindowScale(s)
                          /\ shown'.cs = (24 * s) \div 1000]_vars

==============================================================================
