------------------------------ MODULE XSettings ------------------------------
(***************************************************************************)
(* The XSETTINGS manager (src/xsettings): the property that the X clients  *)
(* read, and the configuration (dconfig, external) that it is made from.   *)
(* D-Bus calls set the property and then the configuration; whoever else   *)
(* changes the configuration is followed through its ValueChanged signals. *)
(*                                                                         *)
(* A key stands for its kind: "string" for the settings that are the same  *)
(* on both sides, "bool", "double" and "color" for those that are          *)
(* converted, "size" for those whose signal is ignored; the setting        *)
(* "other" has no key.                                                     *)
(***************************************************************************)
EXTENDS Naturals, Sequences

CONSTANTS
    Caller,     \* goroutines that serve a D-Bus call
    Loop,       \* the goroutine that handles the signals
    Bad,        \* text that is no number, or no color
    CanFail,    \* the X server and dconfig may refuse a write
    MaxSet,     \* bound: D-Bus calls
    MaxWrite    \* bound: values written by other programs

ASSUME ConstantsAssumption ==
    /\ Loop \notin Caller
    /\ Bad \notin Nat
    /\ CanFail \in BOOLEAN
    /\ MaxSet \in Nat
    /\ MaxWrite \in Nat

Key   == {"string", "bool", "double", "color", "size"}
Prop  == Key \cup {"other"}
Actor == Caller \cup {Loop}
Value == Nat \cup {Bad}

VARIABLES
    cfg,        \* the values of dconfig
    data,       \* the property _XSETTINGS_SETTINGS; an item never set has change 0
    lock,       \* who holds settingsLocker, a set of at most one
    pc,         \* where an actor is: "idle", "set", "write" or "config"
    arg,        \* the setting and the value it works with
    buf,        \* the data it has read
    signals,    \* ValueChanged signals not handled yet
    started,    \* NewXSManager has returned
    listening,  \* Start has called HandleConfigChanged
    sets,       \* the calls so far
    writes,     \* the writes of others so far
    apart       \* history: keys whose change was missed, or that a failure parted

store == <<cfg, signals>>
locals == <<pc, arg, buf>>
vars  == <<store, data, lock, locals, started, listening, sets, writes, apart>>

Item == [value : Value, change : Nat]
Data == [serial : Nat, items : [Prop -> Item]]

\* unmarshalSettingData of a window that has no property
Nothing == [serial |-> 0, items |-> [p \in Prop |-> [value |-> 0, change |-> 0]]]

TypeOK ==
    /\ cfg \in [Key -> Value]
    /\ data \in Data
    /\ lock \in {{}} \cup {{a} : a \in Actor}
    /\ pc \in [Actor -> {"idle", "set", "write", "config"}]
    /\ arg \in [Actor -> [prop : Prop, value : Value]]
    /\ buf \in [Actor -> Data]
    /\ signals \in Seq(Key)
    /\ started \in BOOLEAN
    /\ listening \in BOOLEAN
    /\ sets \in 0 .. MaxSet
    /\ writes \in 0 .. MaxWrite
    /\ apart \in SUBSET Key

-----------------------------------------------------------------------------
(* Conversions.  The channels of a color are 16 bits wide in the           *)
(* configuration and 8 in the property, where a caller may put more.  A    *)
(* double has several spellings, n and 10 + n.  The products are exact in  *)
(* the float64 of the code, and out of range wrap as they do on amd64.     *)

Storable(k, v) == k = "double" => v # Bad
Readable(k, c) == k = "color" => c # Bad

\* convertXsToGs, and setValue for a bool
ToGs(k, v) ==
    CASE k = "bool"   -> IF v = 1 THEN 1 ELSE 0
      [] k = "double" -> v % 10
      [] k = "color"  -> ((v * 65535) \div 255) % 65536
      [] OTHER        -> v

\* convertGsToXs
ToXs(k, c) == IF k = "color" THEN (c * 255) \div 65535 ELSE c

\* What the callers and the other programs of this model ask for: the ordinary, in
\* "string", and where there is a conversion what it changes or refuses.
Asked(p) ==
    CASE p = "bool"   -> {2}
      [] p = "double" -> {11, Bad}
      [] p = "color"  -> {256}
      [] OTHER        -> {1}

Written(k) ==
    CASE k = "color"  -> {300, Bad}
      [] k = "string" -> {0, 1}
      [] OTHER        -> {1}

-----------------------------------------------------------------------------
(* setSettings: read, modify and write the property under settingsLocker.  *)

\* Fault: the number of the last change is the property's.
ChangeSerial(d, new) ==
    [serial |-> d.serial + 1,
     items  |-> [p \in Prop |-> IF p \in DOMAIN new THEN [value |-> new[p], change |-> d.serial]
                                                    ELSE d.items[p]]]

\* A new item begins with 1; the number grows though the value be the same.
Modified(d, new) ==
    [serial |-> d.serial + 1,
     items  |-> [p \in Prop |-> IF p \in DOMAIN new
                                THEN [value |-> new[p], change |-> d.items[p].change + 1]
                                ELSE d.items[p]]]

Goto(a, from, to) ==
    /\ pc[a] = from
    /\ pc' = [pc EXCEPT ![a] = to]

\* Fault: the readers' lock is taken.
ReadShared(a) ==
    /\ Goto(a, "set", "write")
    /\ lock' = lock \cup {a}
    /\ buf' = [buf EXCEPT ![a] = data]
    /\ UNCHANGED <<store, data, arg, started, listening, sets, writes, apart>>

Read(a) ==
    /\ lock = {}
    /\ Goto(a, "set", "write")
    /\ lock' = {a}
    /\ buf' = [buf EXCEPT ![a] = data]
    /\ UNCHANGED <<store, data, arg, started, listening, sets, writes, apart>>

\* The deferred Unlock runs whether the X server takes the property or not.
Unlock(a) == lock' = lock \ {a} /\ buf' = [buf EXCEPT ![a] = Nothing]

Write(a) ==
    /\ Goto(a, "write", IF a = Loop THEN "idle" ELSE "config")
    /\ Unlock(a)
    /\ data' = Modified(buf[a], [p \in {arg[a].prop} |-> arg[a].value])
    /\ apart' = IF a # Loop THEN apart
                ELSE IF arg[a].value = Bad THEN apart \cup {arg[a].prop}
                ELSE apart \ {arg[a].prop}
    /\ UNCHANGED <<store, arg, started, listening, sets, writes>>

\* Fault: an error returns before the lock is released.
WriteFailsLocked(a) ==
    /\ CanFail
    /\ Goto(a, "write", "idle")
    /\ apart' = IF a = Loop THEN apart \cup {arg[a].prop} ELSE apart
    /\ UNCHANGED <<store, data, lock, arg, buf, started, listening, sets, writes>>

\* The caller gets the error; the loop only logs it.
WriteFails(a) ==
    /\ CanFail
    /\ Goto(a, "write", "idle")
    /\ Unlock(a)
    /\ apart' = IF a = Loop THEN apart \cup {arg[a].prop} ELSE apart
    /\ UNCHANGED <<store, data, arg, started, listening, sets, writes>>

-----------------------------------------------------------------------------
(* D-Bus calls: SetInteger, SetString, SetColor.                           *)

\* A value is signalled when it changes, to whom listens.
SetValue(k, c) ==
    /\ cfg' = [cfg EXCEPT ![k] = c]
    /\ signals' = IF cfg[k] # c /\ listening THEN Append(signals, k) ELSE signals

Call(a, p, v) ==
    /\ a # Loop
    /\ started
    /\ sets < MaxSet
    /\ sets' = sets + 1
    /\ Goto(a, "idle", "set")
    /\ arg' = [arg EXCEPT ![a] = [prop |-> p, value |-> v]]
    /\ UNCHANGED <<store, data, lock, buf, started, listening, writes, apart>>

\* setGSettingsByXProp: the caller of "other" gets errPropNotFound, that of a value
\* that cannot be converted an error, both with the property set already; that
\* dconfig refused a value nobody learns.
SetConfig(a) ==
    LET p == arg[a].prop
        v == arg[a].value IN
    /\ Goto(a, "config", "idle")
    /\ \/ /\ p \in Key /\ Storable(p, v)
          /\ SetValue(p, ToGs(p, v))
          /\ apart' = IF listening \/ cfg[p] = ToGs(p, v) THEN apart ELSE apart \cup {p}
       \/ /\ p \in Key /\ (CanFail \/ ~Storable(p, v))
          /\ apart' = apart \cup {p}
          /\ UNCHANGED store
       \/ /\ p \notin Key
          /\ UNCHANGED <<store, apart>>
    /\ UNCHANGED <<data, lock, arg, buf, started, listening, sets, writes>>

-----------------------------------------------------------------------------
(* Following the configuration.                                            *)

\* Another program, the control center for one, sets a value.
WriteConfig(k, c) ==
    /\ cfg[k] # c
    /\ writes < MaxWrite
    /\ writes' = writes + 1
    /\ SetValue(k, c)
    /\ apart' = IF listening \/ ~started THEN apart ELSE apart \cup {k}
    /\ UNCHANGED <<data, lock, locals, started, listening, sets>>

\* NewXSManager publishes the whole configuration; what dconfig does not answer is
\* taken for empty, which is no color.  (A failure is that of all the calls.)  That
\* the X server refused the property is only logged.
Publish ==
    LET none     == [k \in Key \ {"color"} |-> Bad]
        readable == {k \in Key : Readable(k, cfg[k])} IN
    /\ ~started
    /\ started' = TRUE
    /\ \/ /\ data' = Modified(data, [k \in readable |-> ToXs(k, cfg[k])])
          /\ apart' = apart
       \/ /\ CanFail
          /\ data' \in {Modified(data, none), data}
          /\ apart' = Key
    /\ UNCHANGED <<store, lock, locals, listening, sets, writes>>

\* Start, having offered its D-Bus service, listens from now on.
HandleConfigChanged ==
    /\ started
    /\ ~listening
    /\ listening' = TRUE
    /\ UNCHANGED <<store, data, lock, locals, started, sets, writes, apart>>

\* xft-dpi, scale-factor, window-scale and gtk-cursor-theme-size
Ignored == {"size"}

\* Fault: a signal is taken for the echo of a call that is under way, and dropped.
FollowOthers ==
    LET k == Head(signals) IN
    /\ signals # <<>>
    /\ pc[Loop] = "idle"
    /\ signals' = Tail(signals)
    /\ IF /\ k \notin Ignored /\ Readable(k, cfg[k])
          /\ \A a \in Caller : pc[a] = "idle" \/ arg[a].prop # k
       THEN /\ Goto(Loop, "idle", "set")
            /\ arg' = [arg EXCEPT ![Loop] = [prop |-> k, value |-> ToXs(k, cfg[k])]]
       ELSE UNCHANGED <<pc, arg>>
    /\ UNCHANGED <<cfg, data, lock, buf, started, listening, sets, writes, apart>>

\* handleGSettingsChangedCb takes the value of now, not that of the signal; a value
\* it cannot read it leaves, and one it does not get it takes for empty.
Follow ==
    LET k == Head(signals) IN
    /\ signals # <<>>
    /\ pc[Loop] = "idle"
    /\ signals' = Tail(signals)
    /\ \/ /\ k \notin Ignored /\ Readable(k, cfg[k])
          /\ Goto(Loop, "idle", "set")
          /\ arg' = [arg EXCEPT ![Loop] = [prop |-> k, value |-> ToXs(k, cfg[k])]]
          /\ apart' = apart
       \/ /\ k \in Ignored \/ ~Readable(k, cfg[k])
          /\ UNCHANGED <<pc, arg, apart>>
       \/ /\ CanFail /\ k \notin Ignored \cup {"color"}
          /\ Goto(Loop, "idle", "set")
          /\ arg' = [arg EXCEPT ![Loop] = [prop |-> k, value |-> Bad]]
          /\ apart' = apart
       \/ /\ CanFail /\ k = "color"
          /\ apart' = apart \cup {k}
          /\ UNCHANGED <<pc, arg>>
    /\ UNCHANGED <<cfg, data, lock, buf, started, listening, sets, writes>>

-----------------------------------------------------------------------------
Init ==
    /\ cfg = [k \in Key |-> 0]
    /\ data = Nothing
    /\ lock = {}
    /\ pc = [a \in Actor |-> "idle"]
    /\ arg = [a \in Actor |-> [prop |-> "other", value |-> 0]]
    /\ buf = [a \in Actor |-> Nothing]
    /\ signals = <<>>
    /\ started = FALSE
    /\ listening = FALSE
    /\ sets = 0
    /\ writes = 0
    /\ apart = {}

Proceed(a) == Read(a) \/ Write(a) \/ WriteFails(a) \/ SetConfig(a)

Next ==
    \/ Publish \/ HandleConfigChanged \/ Follow
    \/ \E k \in Key : \E c \in Written(k) : WriteConfig(k, c)
    \/ \E a \in Caller, p \in Prop : \E v \in Asked(p) : Call(a, p, v)
    \/ \E a \in Actor : Proceed(a)

Spec == Init /\ [][Next]_vars

\* Fairness: Start and the signal loop go on, a call that was begun ends, and a
\* goroutine that waits for the mutex settingsLocker gets it (Go's mutexes do not
\* starve those who wait).
Fairness ==
    /\ WF_vars(Publish) /\ WF_vars(HandleConfigChanged) /\ WF_vars(Follow)
    /\ \A a \in Actor : SF_vars(Read(a)) /\ WF_vars(Proceed(a))

FairSpec == Spec /\ Fairness

-----------------------------------------------------------------------------
AtRest == listening /\ signals = <<>> /\ \A a \in Actor : pc[a] = "idle"

\* Once everything is handled the property says what the configuration says, or a
\* value that is stored as what the configuration says, for every key whose signal
\* is followed; except after a change that was missed or refused.  So it is for any
\* number of calls for one setting that overlap each other and other writers.
Agrees ==
    AtRest => \A k \in Key \ (Ignored \cup apart) :
                 LET v == data.items[k].value IN
                 \/ ~Readable(k, cfg[k])
                 \/ v = ToXs(k, cfg[k])
                 \/ Storable(k, v) /\ cfg[k] = ToGs(k, v)

\* For a client: an item is as it was or its number has grown, so that one who has
\* the number of an item has its value, whatever is set at the same time.
NumbersGrow ==
    [][\A p \in Prop : \/ data'.items[p] = data.items[p]
                       \/ data'.items[p].change > data.items[p].change]_vars

\* When nobody asks for anything any more all calls and signals are handled: no one
\* waits for the lock for ever.
Settles == <>[]AtRest

==============================================================================
