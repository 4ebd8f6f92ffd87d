--------------------------- MODULE XSettingsProofs ---------------------------
(***************************************************************************)
(* Proofs about XSettings, for every set of callers and for any number of  *)
(* calls and of writes of other programs.                                  *)
(***************************************************************************)
EXTENDS XSettings, TLAPS

\* What a goroutine is about to make a color is one; the loop sets keys only.
ArgInv ==
    /\ \A a \in Actor : arg[a].prop = "color" => arg[a].value # Bad
    /\ pc[Loop] # "idle" => arg[Loop].prop \in Key

\* Who writes holds the lock and has read the property as it is; before
\* NewXSManager returns nobody does anything, and the loop only when it listens.
LockInv ==
    /\ \A a \in Actor : pc[a] = "write" => lock = {a} /\ buf[a] = data
    /\ ~started => \A a \in Actor : pc[a] = "idle"
    /\ listening => started
    /\ ~listening => signals = <<>> /\ pc[Loop] = "idle"
    /\ pc[Loop] # "config"

\* The value v of the property is as good as the one of the configuration.
Same(k, v) ==
    \/ ~Readable(k, cfg[k])
    \/ v = ToXs(k, cfg[k])
    \/ Storable(k, v) /\ cfg[k] = ToGs(k, v)

\* What will still make them agree: a signal, the loop that handles one, and the
\* call that set the present value and has not stored it yet.
Signalled(k) == \E i \in 1 .. Len(signals) : signals[i] = k
Following(k) == pc[Loop] \in {"set", "write"} /\ arg[Loop].prop = k
Storing(k)   == \E a \in Caller : pc[a] = "config" /\ arg[a] = [prop |-> k, value |-> data.items[k].value]

\* What the loop is going to set is good, or outdated by a later signal, or else
\* it got no value at all.
LoopInv ==
    \A k \in Key : Following(k) =>
        arg[Loop].value = Bad \/ Same(k, arg[Loop].value) \/ Signalled(k)

\* Agrees in every state.
AgreeInv ==
    started =>
        \A k \in Key \ (Ignored \cup apart) :
            Same(k, data.items[k].value) \/ Signalled(k) \/ Following(k) \/ Storing(k)

-----------------------------------------------------------------------------
(* Types.                                                                  *)

LEMMA ToXsType ==
  ASSUME NEW k \in Key, NEW c \in Value, Readable(k, c)
  PROVE  ToXs(k, c) \in Value /\ (k = "color" => ToXs(k, c) # Bad)
BY ConstantsAssumption DEF ToXs, Readable, Value

LEMMA ToGsType ==
  ASSUME NEW k \in Key, NEW v \in Value, Storable(k, v), k = "color" => v # Bad
  PROVE  ToGs(k, v) \in Value
<1>1. CASE k = "color"
  BY <1>1 DEF ToGs, Value
<1>2. CASE k = "double"
  BY <1>2 DEF ToGs, Storable, Value
<1>3. CASE k \notin {"color", "double"}
  BY <1>3 DEF ToGs, Value
<1> QED
  BY <1>1, <1>2, <1>3

LEMMA NothingType == Nothing \in Data
BY DEF Nothing, Data, Item, Value

\* modifyProperty makes a property.
LEMMA ModifiedType ==
  ASSUME NEW d \in Data, NEW new, \A p \in Prop \cap DOMAIN new : new[p] \in Value
  PROVE  /\ Modified(d, new) \in Data
         /\ Modified(d, new).serial = d.serial + 1
<1>1. d.serial \in Nat /\ d.items \in [Prop -> Item]
  BY DEF Data
<1>2. ASSUME NEW p \in Prop
      PROVE  (IF p \in DOMAIN new THEN [value |-> new[p], change |-> d.items[p].change + 1]
                                  ELSE d.items[p]) \in Item
  BY <1>1, <1>2 DEF Item
<1>3. Modified(d, new).items \in [Prop -> Item]
  BY <1>2 DEF Modified
<1> QED
  BY <1>1, <1>3 DEF Modified, Data

LEMMA TypeStep == TypeOK /\ ArgInv /\ [Next]_vars => TypeOK' /\ ArgInv'
<1> SUFFICES ASSUME TypeOK, ArgInv, [Next]_vars PROVE TypeOK' /\ ArgInv'
  OBVIOUS
<1> USE DEF store, locals
<1>1. CASE Publish
  <2>1. ASSUME NEW p \in Prop \cap (Key \ {"color"}) PROVE Bad \in Value
    BY DEF Value
  <2>2. CASE data' \in {Modified(data, [k \in Key \ {"color"} |-> Bad]), data}
    BY <1>1, <2>1, <2>2, ModifiedType DEF Publish, TypeOK, ArgInv
  <2>3. CASE /\ data' = Modified(data, [k \in {k \in Key : Readable(k, cfg[k])} |-> ToXs(k, cfg[k])])
             /\ apart' = apart
    <3>1. \A k \in {k \in Key : Readable(k, cfg[k])} : ToXs(k, cfg[k]) \in Value
      BY ToXsType DEF TypeOK
    <3>2. data' \in Data
      BY <2>3, <3>1, ModifiedType DEF TypeOK
    <3> QED
      BY <1>1, <2>3, <3>2 DEF Publish, TypeOK, ArgInv
  <2> QED
    BY <1>1, <2>2, <2>3 DEF Publish
<1>2. CASE HandleConfigChanged
  BY <1>2 DEF HandleConfigChanged, TypeOK, ArgInv
<1>3. CASE Follow
  <2> DEFINE k == Head(signals)
  <2>1. k \in Key /\ k \in Prop /\ signals' \in Seq(Key) /\ Loop \in Actor
    BY <1>3 DEF Follow, TypeOK, Prop, Actor
  <2>2. /\ UNCHANGED <<cfg, data, lock, buf, started, listening, sets, writes>>
        /\ apart' = apart \/ apart' = apart \cup {k}
    BY <1>3 DEF Follow
  <2>3. \/ UNCHANGED <<pc, arg>>
        \/ \E v \in Value : /\ pc' = [pc EXCEPT ![Loop] = "set"]
                            /\ arg' = [arg EXCEPT ![Loop] = [prop |-> k, value |-> v]]
                            /\ k = "color" => v # Bad
    <3>1. cfg[k] \in Value
      BY <2>1 DEF TypeOK
    <3> QED
      BY <1>3, <2>1, <3>1, ToXsType DEF Follow, Goto, Value
  <2>4. pc' \in [Actor -> {"idle", "set", "write", "config"}] /\ arg' \in [Actor -> [prop : Prop, value : Value]]
    <3>1. /\ pc \in [Actor -> {"idle", "set", "write", "config"}]
          /\ arg \in [Actor -> [prop : Prop, value : Value]]
      BY DEF TypeOK
    <3>2. CASE UNCHANGED <<pc, arg>>
      BY <3>1, <3>2
    <3>3. ASSUME NEW v \in Value, pc' = [pc EXCEPT ![Loop] = "set"],
                 arg' = [arg EXCEPT ![Loop] = [prop |-> k, value |-> v]]
          PROVE  /\ pc' \in [Actor -> {"idle", "set", "write", "config"}]
                 /\ arg' \in [Actor -> [prop : Prop, value : Value]]
      <4>1. [prop |-> k, value |-> v] \in [prop : Prop, value : Value]
        BY <2>1
      <4> QED
        BY <3>1, <3>3, <4>1
    <3> QED
      BY <2>3, <3>2, <3>3
  <2>5. ArgInv'
    <3>1. CASE UNCHANGED <<pc, arg>>
      BY <3>1 DEF ArgInv
    <3>2. ASSUME NEW v \in Value, pc' = [pc EXCEPT ![Loop] = "set"], k = "color" => v # Bad,
                 arg' = [arg EXCEPT ![Loop] = [prop |-> k, value |-> v]]
          PROVE  ArgInv'
      <4>1. arg'[Loop] = [prop |-> k, value |-> v] /\ \A a \in Actor \ {Loop} : arg'[a] = arg[a]
        BY <2>1, <3>2 DEF TypeOK
      <4> QED
        BY <2>1, <3>2, <4>1 DEF ArgInv
    <3> QED
      BY <2>3, <3>1, <3>2
  <2>6. apart' \in SUBSET Key
    BY <2>1, <2>2 DEF TypeOK
  <2> QED
    BY <2>1, <2>2, <2>4, <2>5, <2>6 DEF TypeOK
<1>4. ASSUME NEW k \in Key, NEW c \in Written(k), WriteConfig(k, c) PROVE TypeOK' /\ ArgInv'
  <2>1. c \in Value
    BY DEF Written, Value
  <2>2. cfg' \in [Key -> Value] /\ signals' \in Seq(Key)
    BY <1>4, <2>1 DEF WriteConfig, SetValue, TypeOK
  <2>3. apart' \in SUBSET Key /\ writes' \in 0 .. MaxWrite
    BY <1>4, ConstantsAssumption DEF WriteConfig, TypeOK
  <2> QED
    BY <1>4, <2>2, <2>3 DEF WriteConfig, TypeOK, ArgInv
<1>5. ASSUME NEW a \in Caller, NEW p \in Prop, NEW v \in Asked(p), Call(a, p, v)
      PROVE  TypeOK' /\ ArgInv'
  <2>1. v \in Value /\ (p = "color" => v # Bad) /\ a \in Actor
    BY ConstantsAssumption DEF Asked, Value, Actor
  <2>2. /\ pc' \in [Actor -> {"idle", "set", "write", "config"}]
        /\ arg' \in [Actor -> [prop : Prop, value : Value]]
    BY <1>5, <2>1 DEF Call, Goto, TypeOK
  <2>3. ArgInv'
    <3>1. /\ arg'[a] = [prop |-> p, value |-> v] /\ a # Loop
          /\ \A b \in Actor \ {a} : arg'[b] = arg[b]
          /\ pc' = [pc EXCEPT ![a] = "set"]
      BY <1>5, <2>1 DEF Call, Goto, TypeOK
    <3>2. pc'[Loop] = pc[Loop] /\ arg'[Loop] = arg[Loop]
      BY <3>1 DEF TypeOK, Actor
    <3> QED
      BY <2>1, <3>1, <3>2 DEF ArgInv
  <2>4. sets' \in 0 .. MaxSet
    BY <1>5, ConstantsAssumption DEF Call, TypeOK
  <2> QED
    BY <1>5, <2>2, <2>3, <2>4 DEF Call, TypeOK
<1>6. ASSUME NEW a \in Actor, Read(a) PROVE TypeOK' /\ ArgInv'
  <2>1. /\ pc' \in [Actor -> {"idle", "set", "write", "config"}]
        /\ buf' \in [Actor -> Data]
    BY <1>6 DEF Read, Goto, TypeOK
  <2>2. ArgInv'
    BY <1>6 DEF Read, Goto, TypeOK, ArgInv
  <2> QED
    BY <1>6, <2>1, <2>2 DEF Read, TypeOK
<1>7. ASSUME NEW a \in Actor, Write(a) PROVE TypeOK' /\ ArgInv'
  <2>1. arg[a].value \in Value /\ buf[a] \in Data
    BY DEF TypeOK
  <2>2. data' \in Data
    BY <1>7, <2>1, ModifiedType DEF Write
  <2>3. /\ pc' \in [Actor -> {"idle", "set", "write", "config"}]
        /\ buf' \in [Actor -> Data]
    BY <1>7, NothingType DEF Write, Unlock, Goto, TypeOK
  <2>4. lock' \in {{}} \cup {{b} : b \in Actor}
    BY <1>7 DEF Write, Unlock, TypeOK
  <2>5. pc[a] = "write" /\ pc' = [pc EXCEPT ![a] = IF a = Loop THEN "idle" ELSE "config"]
    BY <1>7 DEF Write, Goto
  <2>6. apart' \in SUBSET Key
    BY <1>7, <2>5 DEF Write, TypeOK, ArgInv
  <2>7. ArgInv'
    BY <1>7, <2>5 DEF Write, TypeOK, ArgInv
  <2> QED
    BY <1>7, <2>2, <2>3, <2>4, <2>6, <2>7 DEF Write, TypeOK
<1>8. ASSUME NEW a \in Actor, WriteFails(a) PROVE TypeOK' /\ ArgInv'
  <2>1. /\ pc' \in [Actor -> {"idle", "set", "write", "config"}]
        /\ buf' \in [Actor -> Data]
    BY <1>8, NothingType DEF WriteFails, Unlock, Goto, TypeOK
  <2>2. lock' \in {{}} \cup {{b} : b \in Actor}
    BY <1>8 DEF WriteFails, Unlock, TypeOK
  <2>3. pc[a] = "write" /\ pc' = [pc EXCEPT ![a] = "idle"]
    BY <1>8 DEF WriteFails, Goto
  <2>4. apart' \in SUBSET Key
    BY <1>8, <2>3 DEF WriteFails, TypeOK, ArgInv
  <2>5. ArgInv'
    BY <1>8, <2>3 DEF WriteFails, TypeOK, ArgInv
  <2> QED
    BY <1>8, <2>1, <2>2, <2>4, <2>5 DEF WriteFails, TypeOK
<1>9. ASSUME NEW a \in Actor, SetConfig(a) PROVE TypeOK' /\ ArgInv'
  <2>1. pc' \in [Actor -> {"idle", "set", "write", "config"}]
    BY <1>9 DEF SetConfig, Goto, TypeOK
  <2>2. arg[a].value \in Value /\ (arg[a].prop = "color" => arg[a].value # Bad)
    BY DEF TypeOK, ArgInv
  <2>3. cfg' \in [Key -> Value] /\ signals' \in Seq(Key) /\ apart' \in SUBSET Key
    <3>1. CASE UNCHANGED store
      BY <1>9, <3>1 DEF SetConfig, TypeOK
    <3>2. CASE ~UNCHANGED store
      <4>1. /\ arg[a].prop \in Key /\ Storable(arg[a].prop, arg[a].value)
            /\ SetValue(arg[a].prop, ToGs(arg[a].prop, arg[a].value))
            /\ apart' \in {apart, apart \cup {arg[a].prop}}
        BY <1>9, <3>2 DEF SetConfig
      <4>2. ToGs(arg[a].prop, arg[a].value) \in Value
        BY <2>2, <4>1, ToGsType
      <4> QED
        BY <4>1, <4>2 DEF SetValue, TypeOK
    <3> QED
      BY <3>1, <3>2
  <2>4. ArgInv'
    BY <1>9 DEF SetConfig, Goto, TypeOK, ArgInv
  <2> QED
    BY <1>9, <2>1, <2>3, <2>4 DEF SetConfig, TypeOK
<1>10. CASE UNCHANGED vars
  BY <1>10 DEF vars, TypeOK, ArgInv
<1> QED
  BY <1>1, <1>2, <1>3, <1>4, <1>5, <1>6, <1>7, <1>8, <1>9, <1>10 DEF Next, Proceed

LEMMA TypesHold == Spec => [](TypeOK /\ ArgInv)
<1>1. Init => TypeOK /\ ArgInv
  <2> SUFFICES ASSUME Init PROVE TypeOK /\ ArgInv
    OBVIOUS
  <2>1. 0 \in Value /\ "other" \in Prop /\ Loop \in Actor
    BY DEF Value, Prop, Actor
  <2>2. ArgInv
    BY <2>1 DEF Init, ArgInv
  <2>3. sets \in 0 .. MaxSet /\ writes \in 0 .. MaxWrite
    BY ConstantsAssumption DEF Init
  <2>4. arg \in [Actor -> [prop : Prop, value : Value]]
    BY <2>1 DEF Init
  <2> QED
    <3>1. cfg \in [Key -> Value] /\ data \in Data /\ buf \in [Actor -> Data]
      BY <2>1, NothingType DEF Init
    <3>2. signals \in Seq(Key) /\ apart \in SUBSET Key /\ listening \in BOOLEAN /\ started \in BOOLEAN
      <4>1. signals = <<>> /\ apart = {} /\ listening = FALSE /\ started = FALSE
        BY DEF Init
      <4>2. <<>> \in Seq(Key)
        OBVIOUS
      <4> QED
        BY <4>1, <4>2
    <3> QED
      BY <2>2, <2>3, <2>4, <3>1, <3>2 DEF Init, TypeOK
<1> QED
  BY <1>1, TypeStep, PTL DEF Spec

\* Type correctness of the manager, for any values of the configuration, that of the
\* conversions included.
THEOREM TypeCorrect == Spec => []TypeOK
BY TypesHold, PTL

-----------------------------------------------------------------------------
(* The lock, and the numbers of the items.                                 *)

LEMMA GotoStep ==
  ASSUME TypeOK, NEW a \in Actor, NEW from, NEW to, Goto(a, from, to)
  PROVE  /\ pc[a] = from /\ pc'[a] = to
         /\ \A b \in Actor \ {a} : pc'[b] = pc[b]
BY DEF Goto, TypeOK

\* A goroutine that neither begins nor ends to write leaves the invariant alone.
LEMMA LockKept ==
  ASSUME LockInv, UNCHANGED <<data, lock, buf, started, listening>>, listening \/ signals' = signals,
         \A a \in Actor : pc'[a] = "write" => pc[a] = "write",
         \A a \in Actor : pc[a] = "idle" => started \/ pc'[a] = "idle",
         pc'[Loop] = pc[Loop] \/ pc'[Loop] = "idle" \/ (pc'[Loop] = "set" /\ listening)
  PROVE  LockInv'
BY DEF LockInv, Actor

LEMMA LockStep == TypeOK /\ LockInv /\ [Next]_vars => LockInv'
<1> SUFFICES ASSUME TypeOK, LockInv, [Next]_vars PROVE LockInv'
  OBVIOUS
<1>0. Loop \in Actor
  BY DEF Actor
<1> USE DEF store, locals
<1>1. CASE Publish
  <2>1. started'
    BY <1>1 DEF Publish
  <2>2. \A a \in Actor : pc[a] = "idle"
    BY <1>1 DEF Publish, LockInv
  <2> QED
    BY <1>0, <1>1, <2>1, <2>2 DEF Publish, LockInv
<1>2. CASE HandleConfigChanged
  BY <1>2 DEF HandleConfigChanged, LockInv
<1>3. CASE Follow
  <2>1. listening /\ started
    BY <1>3 DEF Follow, LockInv
  <2>2. /\ UNCHANGED <<data, lock, buf, started, listening>>
        /\ pc' = pc \/ Goto(Loop, "idle", "set")
    BY <1>3 DEF Follow
  <2> QED
    BY <1>0, <2>1, <2>2, GotoStep, LockKept
<1>4. ASSUME NEW k \in Key, NEW c \in Written(k), WriteConfig(k, c) PROVE LockInv'
  <2>1. UNCHANGED <<data, lock, pc, buf, started, listening>>
    BY <1>4 DEF WriteConfig
  <2>2. listening \/ signals' = signals
    BY <1>4 DEF WriteConfig, SetValue
  <2> QED
    BY <2>1, <2>2, LockKept
<1>5. ASSUME NEW a \in Caller, NEW p \in Prop, NEW v \in Asked(p), Call(a, p, v) PROVE LockInv'
  <2>1. a \in Actor /\ a # Loop /\ started /\ Goto(a, "idle", "set")
    BY <1>5 DEF Call, Actor
  <2>2. UNCHANGED <<data, lock, buf, signals, started, listening>>
    BY <1>5 DEF Call
  <2> QED
    BY <1>0, <2>1, <2>2, GotoStep, LockKept
<1>6. ASSUME NEW a \in Actor, Read(a) PROVE LockInv'
  <2>1. lock = {} /\ Goto(a, "set", "write") /\ lock' = {a} /\ buf' = [buf EXCEPT ![a] = data]
    BY <1>6 DEF Read
  <2>2. \A b \in Actor : pc[b] # "write"
    BY <2>1 DEF LockInv
  <2>3. buf'[a] = data /\ started
    BY <2>1 DEF TypeOK, LockInv, Goto
  <2> QED
    BY <1>0, <1>6, <2>1, <2>2, <2>3, GotoStep DEF Read, LockInv
<1>7. ASSUME NEW a \in Actor, Write(a) \/ WriteFails(a) PROVE LockInv'
  <2>1. PICK to \in {"idle", "config"} : Goto(a, "write", to) /\ (a = Loop => to = "idle")
    BY <1>7 DEF Write, WriteFails
  <2>2. pc[a] = "write" /\ pc'[a] = to /\ \A b \in Actor \ {a} : pc'[b] = pc[b]
    BY <2>1, GotoStep
  <2>3. lock = {a} /\ buf[a] = data /\ started
    BY <2>2 DEF LockInv
  <2>4. \A b \in Actor : pc'[b] # "write"
    BY <2>1, <2>2, <2>3 DEF LockInv
  <2>5. started'
    BY <1>7, <2>3 DEF Write, WriteFails
  <2>6. UNCHANGED <<signals, started, listening>>
    BY <1>7 DEF Write, WriteFails
  <2> QED
    BY <1>0, <2>1, <2>2, <2>4, <2>5, <2>6 DEF LockInv
<1>8. ASSUME NEW a \in Actor, SetConfig(a) PROVE LockInv'
  <2>1. a # Loop /\ pc[a] = "config"
    BY <1>8 DEF SetConfig, Goto, LockInv
  <2>2. UNCHANGED <<data, lock, buf, started, listening>> /\ Goto(a, "config", "idle")
    BY <1>8 DEF SetConfig
  <2>3. listening \/ signals' = signals
    BY <1>8 DEF SetConfig, SetValue
  <2> QED
    BY <1>0, <2>1, <2>2, <2>3, GotoStep, LockKept
<1>9. CASE UNCHANGED vars
  BY <1>9 DEF vars, LockInv
<1> QED
  BY <1>1, <1>2, <1>3, <1>4, <1>5, <1>6, <1>7, <1>8, <1>9 DEF Next, Proceed

LEMMA LockCorrect == Spec => []LockInv
<1>1. Init => LockInv
  BY DEF Init, LockInv, Actor, Nothing
<1> QED
  BY <1>1, TypeCorrect, LockStep, PTL DEF Spec

LEMMA NumbersStep ==
  ASSUME TypeOK, LockInv, [Next]_vars, NEW p \in Prop
  PROVE  data'.items[p] = data.items[p] \/ data'.items[p].change > data.items[p].change
<1>1. ASSUME NEW new, data' = Modified(data, new)
      PROVE  data'.items[p] = data.items[p] \/ data'.items[p].change > data.items[p].change
  <2>1. data.items[p].change \in Nat
    BY DEF TypeOK, Data, Item
  <2> QED
    BY <1>1, <2>1 DEF Modified
<1>2. CASE data' = data
  BY <1>2
<1>3. ASSUME NEW a \in Actor, Write(a) PROVE data' = Modified(data, [q \in {arg[a].prop} |-> arg[a].value])
  BY <1>3 DEF Write, Goto, LockInv
<1>4. ASSUME NEW a \in Actor, Read(a) \/ WriteFails(a) \/ SetConfig(a) PROVE data' = data
  BY <1>4 DEF Read, WriteFails, SetConfig
<1>5. CASE Publish
  BY <1>1, <1>5 DEF Publish
<1>6. CASE HandleConfigChanged \/ Follow
  BY <1>2, <1>6 DEF HandleConfigChanged, Follow
<1>7. ASSUME NEW k \in Key, NEW c \in Written(k), WriteConfig(k, c) PROVE data' = data
  BY <1>7 DEF WriteConfig
<1>8. ASSUME NEW a \in Caller, NEW q \in Prop, NEW v \in Asked(q), Call(a, q, v) PROVE data' = data
  BY <1>8 DEF Call
<1>9. CASE UNCHANGED vars
  BY <1>2, <1>9 DEF vars
<1> QED
  BY <1>1, <1>2, <1>3, <1>4, <1>5, <1>6, <1>7, <1>8, <1>9 DEF Next, Proceed

\* No setting of an item is lost to another call or to the loop: the number of an
\* item grows with every change of it, because the property that is written is the
\* one that was read under the lock.
THEOREM NoItemLost == Spec => NumbersGrow
<1>1. TypeOK /\ LockInv /\ [Next]_vars =>
        [\A p \in Prop : \/ data'.items[p] = data.items[p]
                         \/ data'.items[p].change > data.items[p].change]_vars
  BY NumbersStep
<1> QED
  BY <1>1, TypeCorrect, LockCorrect, PTL DEF Spec, NumbersGrow

-----------------------------------------------------------------------------
(* Property and configuration.                                             *)

\* A signal remains when another comes after it, and when the first, not it, is
\* taken.
LEMMA SignalAppended ==
  ASSUME TypeOK, NEW m \in Key, signals' = Append(signals, m)
  PROVE  Signalled(m)' /\ \A k \in Key : Signalled(k) => Signalled(k)'
<1>1. signals \in Seq(Key)
  BY DEF TypeOK
<1>2. Len(signals') = Len(signals) + 1 /\ signals'[Len(signals) + 1] = m
  BY <1>1
<1>3. \A i \in 1 .. Len(signals) : signals'[i] = signals[i]
  BY <1>1
<1> QED
  BY <1>1, <1>2, <1>3 DEF Signalled

LEMMA SignalTaken ==
  ASSUME TypeOK, signals # <<>>, signals' = Tail(signals),
         NEW k \in Key, k # Head(signals), Signalled(k)
  PROVE  Signalled(k)'
<1>1. signals \in Seq(Key)
  BY DEF TypeOK
<1>2. PICK i \in 1 .. Len(signals) : signals[i] = k
  BY DEF Signalled
<1>3. i # 1
  BY <1>1, <1>2
<1>4. i - 1 \in 1 .. Len(signals') /\ signals'[i - 1] = signals[i]
  BY <1>1, <1>3
<1> QED
  BY <1>2, <1>4 DEF Signalled

\* Who listens learns of every value that changes.
LEMMA ValueSet ==
  ASSUME TypeOK, NEW x \in Key, NEW c, SetValue(x, c)
  PROVE  /\ cfg'[x] = c
         /\ \A k \in Key : Signalled(k) => Signalled(k)'
         /\ \A k \in Key : cfg'[k] = cfg[k] \/ (k = x /\ (listening => Signalled(k)'))
<1>1. cfg' = [cfg EXCEPT ![x] = c] /\ cfg \in [Key -> Value]
  BY DEF SetValue, TypeOK
<1>2. CASE cfg[x] = c \/ ~listening
  <2>1. signals' = signals
    BY <1>2 DEF SetValue
  <2> QED
    BY <1>1, <1>2, <2>1 DEF Signalled
<1>3. CASE cfg[x] # c /\ listening
  <2>1. signals' = Append(signals, x)
    BY <1>3 DEF SetValue
  <2> QED
    BY <1>1, <2>1, SignalAppended
<1> QED
  BY <1>2, <1>3

\* The value stays as good, or the configuration is no longer the same.
LEMMA SameKept ==
  ASSUME NEW k, NEW v, cfg'[k] = cfg[k], Same(k, v), NEW w, w = v
  PROVE  \/ ~Readable(k, cfg'[k])
         \/ w = ToXs(k, cfg'[k])
         \/ Storable(k, w) /\ cfg'[k] = ToGs(k, w)
BY DEF Same

LEMMA LoopKept ==
  ASSUME LoopInv, LockInv,
         pc'[Loop] \in {"set", "write"} => pc[Loop] \in {"set", "write"} /\ arg'[Loop] = arg[Loop],
         \A k \in Key : Signalled(k) => Signalled(k)',
         \A k \in Key : cfg'[k] = cfg[k] \/ (listening => Signalled(k)')
  PROVE  LoopInv'
<1> SUFFICES ASSUME NEW k \in Key, Following(k)'
             PROVE  arg'[Loop].value = Bad \/ Same(k, arg[Loop].value)' \/ Signalled(k)'
  BY DEF LoopInv
<1>1. Following(k) /\ arg'[Loop] = arg[Loop] /\ listening
  BY DEF Following, LockInv
<1>2. arg[Loop].value = Bad \/ Same(k, arg[Loop].value) \/ Signalled(k)
  BY <1>1 DEF LoopInv
<1> QED
  BY <1>1, <1>2 DEF Same

LEMMA LoopStep == TypeOK /\ LockInv /\ LoopInv /\ [Next]_vars => LoopInv'
<1> SUFFICES ASSUME TypeOK, LockInv, LoopInv, [Next]_vars PROVE LoopInv'
  OBVIOUS
<1> USE DEF store, locals
<1>0. Loop \in Actor /\ \A a \in Caller : a \in Actor /\ a # Loop
  BY ConstantsAssumption DEF Actor
<1>1. ASSUME UNCHANGED <<cfg, signals>>,
             pc'[Loop] \in {"set", "write"} => pc[Loop] \in {"set", "write"} /\ arg'[Loop] = arg[Loop]
      PROVE  LoopInv'
  BY <1>1, LoopKept DEF Signalled
<1>2. CASE Publish \/ HandleConfigChanged
  BY <1>1, <1>2 DEF Publish, HandleConfigChanged
<1>3. CASE Follow
  <2> DEFINE k == Head(signals)
  <2>1. k \in Key /\ UNCHANGED cfg
    BY <1>3 DEF Follow, TypeOK
  <2>2. \/ UNCHANGED <<pc, arg>>
        \/ arg'[Loop].prop = k /\ arg'[Loop].value \in {Bad, ToXs(k, cfg[k])}
    BY <1>0, <1>3 DEF Follow, TypeOK
  <2>3. CASE UNCHANGED <<pc, arg>>
    BY <1>3, <2>3 DEF Follow, LoopInv, Following
  <2>4. CASE arg'[Loop].prop = k /\ arg'[Loop].value \in {Bad, ToXs(k, cfg[k])}
    BY <2>1, <2>4 DEF LoopInv, Following, Same
  <2> QED
    BY <2>2, <2>3, <2>4
<1>4. ASSUME NEW x \in Key, NEW c \in Written(x), WriteConfig(x, c) PROVE LoopInv'
  <2>1. UNCHANGED <<pc, arg>> /\ SetValue(x, c)
    BY <1>4 DEF WriteConfig
  <2> QED
    BY <2>1, ValueSet, LoopKept
<1>5. ASSUME NEW a \in Caller, NEW p \in Prop, NEW v \in Asked(p), Call(a, p, v) PROVE LoopInv'
  <2>1. pc'[Loop] = pc[Loop] /\ arg'[Loop] = arg[Loop]
    BY <1>0, <1>5, GotoStep DEF Call, TypeOK
  <2> QED
    BY <1>1, <1>5, <2>1 DEF Call
<1>6. ASSUME NEW a \in Actor, Read(a) PROVE LoopInv'
  BY <1>0, <1>1, <1>6, GotoStep DEF Read
<1>7. ASSUME NEW a \in Actor, Write(a) \/ WriteFails(a) PROVE LoopInv'
  <2>1. PICK to : Goto(a, "write", to) /\ (a = Loop => to = "idle")
    BY <1>7 DEF Write, WriteFails
  <2>2. UNCHANGED <<cfg, signals, arg>>
    BY <1>7 DEF Write, WriteFails
  <2> QED
    BY <1>0, <1>1, <2>1, <2>2, GotoStep
<1>8. ASSUME NEW a \in Actor, SetConfig(a) PROVE LoopInv'
  <2>1. Goto(a, "config", "idle") /\ UNCHANGED arg
    BY <1>8 DEF SetConfig
  <2>2. a # Loop /\ pc'[Loop] = pc[Loop]
    BY <1>0, <2>1, GotoStep DEF LockInv
  <2>3. CASE UNCHANGED <<cfg, signals>>
    BY <1>1, <2>1, <2>2, <2>3
  <2>4. CASE arg[a].prop \in Key /\ SetValue(arg[a].prop, ToGs(arg[a].prop, arg[a].value))
    BY <2>1, <2>2, <2>4, ValueSet, LoopKept
  <2> QED
    BY <1>8, <2>3, <2>4 DEF SetConfig
<1>9. CASE UNCHANGED vars
  BY <1>1, <1>9 DEF vars
<1> QED
  BY <1>2, <1>3, <1>4, <1>5, <1>6, <1>7, <1>8, <1>9 DEF Next, Proceed

LEMMA LoopCorrect == Spec => []LoopInv
<1>1. Init => LoopInv
  BY DEF Init, LoopInv, Following, Actor
<1> QED
  BY <1>1, TypeCorrect, LockCorrect, LoopStep, PTL DEF Spec

\* AgreeInv for one key.
Good(k) == Same(k, data.items[k].value) \/ Signalled(k) \/ Following(k) \/ Storing(k)

\* The item and the configuration are the same, and nothing that would still make
\* them agree has gone.
LEMMA GoodKept ==
  ASSUME NEW k \in Key, Good(k),
         data'.items[k].value = data.items[k].value, cfg'[k] = cfg[k],
         Signalled(k) => Signalled(k)', Following(k) => Following(k)', Storing(k) => Storing(k)'
  PROVE  Good(k)'
<1>1. CASE Same(k, data.items[k].value)
  BY <1>1 DEF Same, Good
<1>2. CASE Signalled(k) \/ Following(k) \/ Storing(k)
  BY <1>2 DEF Good
<1> QED
  BY <1>1, <1>2 DEF Good

\* A step of another goroutine than a caller that stores.
LEMMA StoringKept ==
  ASSUME NEW k \in Key, Storing(k), data'.items[k].value = data.items[k].value,
         \A b \in Caller : pc[b] = "config" /\ arg[b].prop = k => pc'[b] = pc[b] /\ arg'[b] = arg[b]
  PROVE  Storing(k)'
BY DEF Storing

LEMMA ModifiedItems ==
  ASSUME NEW d, NEW new, NEW p \in Prop
  PROVE  Modified(d, new).items[p].value = IF p \in DOMAIN new THEN new[p] ELSE d.items[p].value
BY DEF Modified

LEMMA AgreeStep ==
  ASSUME TypeOK, LockInv, LoopInv, AgreeInv, [Next]_vars
  PROVE  AgreeInv'
<1> SUFFICES ASSUME started', NEW k \in Key \ Ignored, k \notin apart'
             PROVE  Good(k)'
  BY DEF AgreeInv, Good
<1> USE DEF store, locals
<1>0. /\ Loop \in Actor /\ k \in Key /\ k \in Prop
      /\ \A a \in Caller : a \in Actor /\ a # Loop
  BY ConstantsAssumption DEF Actor, Prop
<1>1. started /\ k \notin apart => Good(k)
  BY DEF AgreeInv, Good
<1>2. CASE Publish
  <2>1. apart' # Key
    BY <1>0
  <2>2. data' = Modified(data, [x \in {y \in Key : Readable(y, cfg[y])} |-> ToXs(x, cfg[x])])
    BY <1>2, <2>1 DEF Publish
  <2>3. Readable(k, cfg[k]) => data'.items[k].value = ToXs(k, cfg[k])
    BY <1>0, <2>2, ModifiedItems
  <2>4. cfg' = cfg
    BY <1>2 DEF Publish
  <2> QED
    BY <2>3, <2>4 DEF Good, Same
<1>3. CASE HandleConfigChanged
  <2>1. UNCHANGED <<data, cfg, signals, pc, arg, apart, started>>
    BY <1>3 DEF HandleConfigChanged
  <2> QED
    BY <1>0, <1>1, <2>1 DEF Good, Same, Signalled, Following, Storing
<1>4. CASE Follow
  <2>1. /\ UNCHANGED <<data, cfg, started>> /\ signals' = Tail(signals) /\ signals # <<>>
        /\ pc[Loop] = "idle" /\ apart \subseteq apart'
    BY <1>4 DEF Follow
  <2>2. CASE k # Head(signals)
    <3>1. \A b \in Caller : pc'[b] = pc[b] /\ arg'[b] = arg[b]
      BY <1>0, <1>4, GotoStep DEF Follow, TypeOK
    <3>2. Storing(k) => Storing(k)'
      BY <2>1, <3>1, StoringKept
    <3>3. ~Following(k)
      BY <2>1 DEF Following
    <3> QED
      BY <1>0, <1>1, <2>1, <2>2, <3>2, <3>3, GoodKept, SignalTaken
  <2>3. CASE k = Head(signals)
    <3>1. \/ Goto(Loop, "idle", "set") /\ arg'[Loop].prop = k
          \/ ~Readable(k, cfg[k])
      BY <1>0, <1>4, <2>3 DEF Follow, TypeOK
    <3>2. CASE Goto(Loop, "idle", "set") /\ arg'[Loop].prop = k
      BY <1>0, <3>2, GotoStep DEF Good, Following
    <3>3. CASE ~Readable(k, cfg[k])
      BY <2>1, <3>3 DEF Good, Same
    <3> QED
      BY <3>1, <3>2, <3>3
  <2> QED
    BY <2>2, <2>3
<1>5. ASSUME NEW x \in Key, NEW c \in Written(x), WriteConfig(x, c) PROVE Good(k)'
  <2>1. UNCHANGED <<data, pc, arg, started>> /\ SetValue(x, c)
    BY <1>5 DEF WriteConfig
  <2>2. apart' = IF listening \/ ~started THEN apart ELSE apart \cup {x}
    BY <1>5 DEF WriteConfig
  <2>3. started /\ k \notin apart
    BY <2>1, <2>2
  <2>4. CASE cfg'[k] = cfg[k]
    BY <1>0, <1>1, <2>1, <2>3, <2>4, GoodKept, ValueSet DEF Following, Storing
  <2>5. CASE cfg'[k] # cfg[k]
    <3>1. k = x
      BY <2>1, <2>5, ValueSet
    <3>2. listening
      BY <1>0, <2>2, <2>3, <3>1
    <3>3. Signalled(k)'
      BY <1>0, <2>1, <2>5, <3>2, ValueSet
    <3> QED
      BY <3>3 DEF Good
  <2> QED
    BY <2>4, <2>5
<1>6. ASSUME NEW a \in Caller, NEW p \in Prop, NEW v \in Asked(p), Call(a, p, v) PROVE Good(k)'
  <2>1. UNCHANGED <<data, cfg, signals, apart, started>> /\ Goto(a, "idle", "set")
    BY <1>6 DEF Call
  <2>2. \A b \in Actor : pc[b] # "idle" => pc'[b] = pc[b] /\ arg'[b] = arg[b]
    BY <1>0, <1>6, <2>1, GotoStep DEF Call, TypeOK
  <2>3. Following(k) => Following(k)'
    BY <1>0, <2>2 DEF Following
  <2>4. Storing(k) => Storing(k)'
    BY <1>0, <2>1, <2>2, StoringKept
  <2> QED
    BY <1>0, <1>1, <2>1, <2>3, <2>4, GoodKept DEF Signalled
<1>7. ASSUME NEW a \in Actor, Read(a) PROVE Good(k)'
  <2>1. UNCHANGED <<data, cfg, signals, arg, apart, started>> /\ Goto(a, "set", "write")
    BY <1>7 DEF Read
  <2>2. \A b \in Actor : pc'[b] = pc[b] \/ (pc[b] = "set" /\ pc'[b] = "write")
    BY <2>1, GotoStep
  <2>3. Following(k) => Following(k)'
    BY <1>0, <2>1, <2>2 DEF Following
  <2>4. Storing(k) => Storing(k)'
    BY <1>0, <2>1, <2>2, StoringKept
  <2> QED
    BY <1>0, <1>1, <2>1, <2>3, <2>4, GoodKept DEF Signalled
<1>8. ASSUME NEW a \in Actor, Write(a) PROVE Good(k)'
  <2>1. /\ UNCHANGED <<cfg, signals, arg>> /\ Goto(a, "write", IF a = Loop THEN "idle" ELSE "config")
        /\ data' = Modified(data, [q \in {arg[a].prop} |-> arg[a].value])
    BY <1>8 DEF Write, Goto, LockInv
  <2>2. /\ started /\ pc[a] = "write"
        /\ pc'[a] = IF a = Loop THEN "idle" ELSE "config"
        /\ \A b \in Actor \ {a} : pc'[b] = pc[b]
    BY <1>0, <2>1, GotoStep DEF LockInv
  <2>3. CASE arg[a].prop # k
    <3>1. data'.items[k].value = data.items[k].value
      BY <1>0, <2>1, <2>3, ModifiedItems
    <3>2. Following(k) => Following(k)'
      BY <1>0, <2>1, <2>2, <2>3 DEF Following
    <3>3. Storing(k) => Storing(k)'
      BY <1>0, <2>1, <2>2, <3>1, StoringKept
    <3>4. k \notin apart
      BY <1>8, <2>3 DEF Write
    <3> QED
      BY <1>0, <1>1, <2>1, <2>2, <3>1, <3>2, <3>3, <3>4, GoodKept DEF Signalled
  <2>4. CASE arg[a].prop = k /\ a # Loop
    <3>1. data'.items[k].value = arg[a].value
      BY <1>0, <2>1, <2>4, ModifiedItems
    <3>2. arg[a] = [prop |-> k, value |-> arg[a].value] /\ a \in Caller
      BY <2>4 DEF TypeOK, Actor
    <3> QED
      BY <2>1, <2>2, <2>4, <3>1, <3>2 DEF Good, Storing
  <2>5. CASE arg[a].prop = k /\ a = Loop
    <3>1. data'.items[k].value = arg[a].value
      BY <1>0, <2>1, <2>5, ModifiedItems
    <3>2. arg[a].value # Bad
      BY <1>8, <2>5 DEF Write
    <3>3. Same(k, arg[a].value) \/ Signalled(k)
      BY <1>0, <2>2, <2>5, <3>2 DEF LoopInv, Following
    <3>4. CASE Signalled(k)
      BY <2>1, <3>4 DEF Good, Signalled
    <3>5. CASE Same(k, arg[a].value)
      BY <2>1, <3>1, <3>5 DEF Good, Same
    <3> QED
      BY <3>3, <3>4, <3>5
  <2> QED
    BY <2>3, <2>4, <2>5
<1>9. ASSUME NEW a \in Actor, WriteFails(a) PROVE Good(k)'
  <2>1. /\ UNCHANGED <<data, cfg, signals, arg, started>> /\ Goto(a, "write", "idle")
        /\ apart' = IF a = Loop THEN apart \cup {arg[a].prop} ELSE apart
    BY <1>9 DEF WriteFails
  <2>2. k \notin apart /\ (a = Loop => arg[a].prop # k)
    BY <2>1
  <2>3. pc[a] = "write" /\ \A b \in Actor \ {a} : pc'[b] = pc[b]
    BY <2>1, GotoStep
  <2>4. Following(k) => Following(k)'
    BY <1>0, <2>1, <2>2, <2>3 DEF Following
  <2>5. Storing(k) => Storing(k)'
    BY <1>0, <2>1, <2>3, StoringKept
  <2> QED
    BY <1>0, <1>1, <2>1, <2>2, <2>4, <2>5, GoodKept DEF Signalled
<1>10. ASSUME NEW a \in Actor, SetConfig(a) PROVE Good(k)'
  <2> DEFINE p == arg[a].prop
             v == arg[a].value
  <2>1. UNCHANGED <<data, arg, started>> /\ Goto(a, "config", "idle")
    BY <1>10 DEF SetConfig
  <2>2. pc[a] = "config" /\ a # Loop /\ \A b \in Actor \ {a} : pc'[b] = pc[b]
    BY <1>0, <2>1, GotoStep DEF LockInv
  <2>3. \/ /\ p \in Key /\ Storable(p, v) /\ SetValue(p, ToGs(p, v))
           /\ apart' = IF listening \/ cfg[p] = ToGs(p, v) THEN apart ELSE apart \cup {p}
        \/ UNCHANGED <<cfg, signals>> /\ apart \subseteq apart' /\ p # k
    BY <1>0, <1>10 DEF SetConfig
  <2>4. started /\ k \notin apart
    BY <2>1, <2>3
  <2>5. Following(k) => Following(k)'
    BY <1>0, <2>1, <2>2 DEF Following
  <2>6. Signalled(k) => Signalled(k)'
    BY <1>0, <2>3, ValueSet DEF Signalled
  <2>7. CASE p # k
    <3>1. cfg'[k] = cfg[k]
      BY <1>0, <2>3, <2>7, ValueSet
    <3>2. Storing(k) => Storing(k)'
      BY <1>0, <2>1, <2>2, <2>7, StoringKept
    <3> QED
      BY <1>0, <1>1, <2>1, <2>4, <2>5, <2>6, <3>1, <3>2, GoodKept
  <2>8. CASE p = k /\ cfg[k] # ToGs(k, v)
    <3>1. SetValue(k, ToGs(k, v)) /\ listening /\ cfg'[k] # cfg[k]
      BY <1>0, <2>3, <2>8, ValueSet
    <3>2. Signalled(k)'
      BY <1>0, <3>1, ValueSet
    <3> QED
      BY <3>2 DEF Good
  <2>9. CASE p = k /\ cfg[k] = ToGs(k, v)
    <3>1. cfg'[k] = cfg[k] /\ Storable(k, v)
      BY <1>0, <2>3, <2>9, ValueSet
    <3>2. CASE data.items[k].value = v
      BY <2>1, <2>9, <3>1, <3>2 DEF Good, Same
    <3>3. CASE data.items[k].value # v
      <4>1. Storing(k) => Storing(k)'
        BY <1>0, <2>1, <2>2, <3>3 DEF Storing
      <4> QED
        BY <1>0, <1>1, <2>1, <2>4, <2>5, <2>6, <3>1, <4>1, GoodKept
    <3> QED
      BY <3>2, <3>3
  <2> QED
    BY <2>7, <2>8, <2>9
<1>11. CASE UNCHANGED vars
  BY <1>0, <1>1, <1>11 DEF vars, Good, Same, Signalled, Following, Storing
<1> QED
  BY <1>2, <1>3, <1>4, <1>5, <1>6, <1>7, <1>8, <1>9, <1>10, <1>11 DEF Next, Proceed

\* Once all is handled property and configuration agree, for any number of calls
\* that overlap, of other writers and of failures: whoever set the present value last
\* still stores it, or is followed by a signal that the loop has to handle.
THEOREM PropertyAgrees == Spec => []Agrees
<1>1. Init => AgreeInv
  BY DEF Init, AgreeInv, Nothing
<1>2. LockInv /\ AgreeInv => Agrees
  <2> SUFFICES ASSUME LockInv, AgreeInv, AtRest, NEW k \in Key \ (Ignored \cup apart)
               PROVE  Same(k, data.items[k].value)
    BY DEF Agrees, Same
  <2>1. started /\ ~Signalled(k) /\ ~Following(k) /\ ~Storing(k)
    BY DEF AtRest, LockInv, Signalled, Following, Storing, Actor
  <2> QED
    BY <2>1 DEF AgreeInv
<1> QED
  BY <1>1, <1>2, TypeCorrect, LockCorrect, LoopCorrect, AgreeStep, PTL DEF Spec

=============================================================================
