-------------------------- MODULE WlDisplayProofs --------------------------
(***************************************************************************)
(* Proofs about WlDisplay, for every set of monitors and of goroutines,    *)
(* and any number of calls, failures and changes of the outputs.           *)
(***************************************************************************)
EXTENDS WlDisplay, FunctionTheorems, FiniteSetTheorems, SequenceTheorems,
        WellFoundedInduction, TLAPS

(* The inductive invariant of Agrees: what the daemon does not know yet is *)
(* said by a signal that it has not handled, or is to be overruled by a    *)
(* command that has not run.                                               *)

\* q is a sequence.
IsSeq(q) == q \in Seq({q[n] : n \in DOMAIN q})

\* In the sequence q, after its first n signals, comes one of monitor i of
\* one of the kinds.
Coming(q, n, i, kinds) == \E k \in DOMAIN q : n < k /\ q[k].m = i /\ q[k].kind \in kinds
AnyKind == {"added", "changed", "removed"}

\* A signal, or the settings of a monitor, say of it what the compositor has.
Like(s, k) == /\ s.on <=> k.on
              /\ s.pos = k.pos /\ s.size = k.size
Fits(s, k) == /\ s.on <=> k.on
              /\ s.on => s.pos = k.pos /\ s.size = k.size

\* A command of goroutine a will give monitor i the settings of mm, or
\* disable it.
Gives(t, i, mm)  == i \in DOMAIN t.cmd /\ Fits(mm[i], t.cmd[i])
Clears(t, i, mm) == i \in t.off /\ ~mm[i].on
Pending(a, i) == \/ pc[a] = "set" /\ Gives(task[a], i, mem)
                 \/ pc[a] \in {"set", "unset"} /\ Clears(task[a], i, mem)

\* What the actions take for granted of the variables.
TaskShape(t) == /\ {"cmd", "off", "mode"} \subseteq DOMAIN t
                /\ t.mode \in Mode
                /\ \A i \in DOMAIN t.cmd : "on" \in DOMAIN t.cmd[i]
Shape ==
    /\ DOMAIN kwin = Monitor /\ \A i \in Monitor : "on" \in DOMAIN kwin[i]
    /\ DOMAIN mem = Monitor
    /\ plugged \subseteq Monitor /\ known \subseteq Monitor
    /\ DOMAIN pc = Actor /\ DOMAIN task = Actor
    /\ \A a \in Actor : TaskShape(task[a])
    /\ mode \in Mode
    /\ IsSeq(signals)
    /\ \A n \in DOMAIN signals : signals[n].m \in Monitor /\ signals[n].kind \in AnyKind

\* Before main listens there are no signals and no commands; before it applies
\* the display mode it has none itself.
Starting ==
    /\ life = "off" => known = {}
    /\ life \in {"off", "listed"} => signals = <<>> /\ Idle
    /\ life = "on" => pc[Main] = "idle"
    /\ life \in {"off", "listed", "on", "started", "ready", "dead"}

\* An output that came or went is announced.
Present ==
    life # "off" =>
        /\ \A i \in known \ missed : i \in plugged \/ Coming(signals, 0, i, {"removed"})
        /\ \A i \in plugged \ missed : i \in known \/ Coming(signals, 0, i, {"added"})

\* The last signal of an output tells whether it is plugged, and its settings.
Truthful ==
    \A n \in DOMAIN signals :
        LET s == signals[n]
        IN  /\ s.kind = "removed" /\ s.m \in plugged => Coming(signals, n, s.m, {"added"})
            /\ s.kind # "removed" /\ s.m \notin plugged => Coming(signals, n, s.m, {"removed"})
            /\ Like(s, kwin[s.m]) \/ Coming(signals, n, s.m, AnyKind)

\* The settings of a monitor fit, or will: a signal corrects them, or a command
\* enforces them.
Due(i) == \/ Fits(mem[i], kwin[i])
          \/ Coming(signals, 0, i, AnyKind)
          \/ \E a \in Actor : Pending(a, i)
Settled == \A i \in (known \cap plugged) \ unsent : Due(i)

AgreesInv == Shape /\ Starting /\ Present /\ Truthful /\ Settled

-----------------------------------------------------------------------------
(* What an operation does to the goroutines and the monitors.              *)

\* Goroutine a goes on; the others do what they did.
Moves(a) == /\ DOMAIN pc' = Actor /\ DOMAIN task' = Actor
            /\ TaskShape(task'[a])
            /\ \A b \in Actor \ {a} : pc'[b] = pc[b] /\ task'[b] = task[b]

\* An operation of goroutine a on the monitors K either stops with the
\* settings mm, or has a command for every one of K.
Works(a, K, mm) ==
    /\ Moves(a)
    /\ DOMAIN mem' = Monitor
    /\ \/ \A i \in K : Pending(a, i)'
       \/ mem' = mm

\* The correction of the layout keeps the monitors.
LEMMA AdjustedShape ==
    ASSUME NEW K, NEW mm, NEW h, DOMAIN mm = Monitor, NEW new \in Adjusted(K, mm, h)
    PROVE  DOMAIN new = Monitor
BY DEF Adjusted

\* The task of a goroutine keeps its shape when it notes another purpose.
LEMMA NotedShape ==
    ASSUME NEW t, TaskShape(t)
    PROVE  /\ \A x : TaskShape([t EXCEPT !.op = x]) /\ TaskShape([t EXCEPT !.main = x])
                     /\ TaskShape([t EXCEPT !.save = x])
           /\ TaskShape([t EXCEPT !.cmd = Nothing, !.off = {}])
BY DEF TaskShape, Nothing

LEMMA ForShape ==
    ASSUME NEW by, NEW m \in Mode, NEW n, NEW K
    PROVE  TaskShape(For(by, m, n, K)) /\ For(by, m, n, K).mode = m
BY DEF TaskShape, For, Rest, Nothing, Mode

LEMMA RestShape == TaskShape(Rest)
BY DEF TaskShape, Rest, Nothing, Mode

\* Whatever is applied, every monitor concerned gets a command.
LEMMA StartWorks ==
    ASSUME Shape, NEW a \in Actor, NEW t, TaskShape(t), NEW K \in SUBSET Monitor,
           NEW mm, DOMAIN mm = Monitor, NEW mo, Start(a, t, K, mm)
    PROVE  Works(a, K, mo)
<1>1. PICK new \in Adjusted(K, mm, how) :
          LET on == {i \in K : new[i].on}
          IN  /\ mem' = new
              /\ task' = [task EXCEPT ![a] = [t EXCEPT
                              !.cmd = [i \in on |-> [on |-> TRUE, pos |-> new[i].pos, size |-> new[i].size]],
                              !.off = K \ on]]
              /\ pc' = [pc EXCEPT ![a] = IF on # {} THEN "set" ELSE IF K # {} THEN "unset" ELSE "end"]
  BY DEF Start
<1> DEFINE on == {i \in K : new[i].on}
           cmd == [i \in on |-> [on |-> TRUE, pos |-> new[i].pos, size |-> new[i].size]]
<1>2. DOMAIN new = Monitor
  BY AdjustedShape
<1>3. DOMAIN pc = Actor /\ DOMAIN task = Actor
  BY DEF Shape
<1>4. task'[a] = [t EXCEPT !.cmd = cmd, !.off = K \ on]
  BY <1>1, <1>3
<1>5. task'[a].cmd = cmd /\ task'[a].off = K \ on /\ TaskShape(task'[a])
  BY <1>4 DEF TaskShape
<1>6. Moves(a)
  BY <1>1, <1>3, <1>5 DEF Moves
<1>7. ASSUME NEW i \in K PROVE Pending(a, i)'
  <2>1. CASE i \in on
    <3>1. pc'[a] = "set"
      BY <1>1, <1>3, <2>1
    <3>2. cmd[i] = [on |-> TRUE, pos |-> new[i].pos, size |-> new[i].size] /\ new[i].on
      BY <2>1
    <3>3. Fits(new[i], cmd[i])
      BY <3>2 DEF Fits
    <3> QED
      BY <1>1, <1>5, <2>1, <3>1, <3>3 DEF Pending, Gives
  <2>2. CASE i \notin on
    <3>1. pc'[a] \in {"set", "unset"}
      BY <1>1, <1>3
    <3> QED
      BY <1>1, <1>5, <1>7, <2>2, <3>1 DEF Pending, Clears
  <2> QED
    BY <2>1, <2>2
<1> QED
  BY <1>1, <1>2, <1>6, <1>7 DEF Works

LEMMA ReturnWorks ==
    ASSUME Shape, NEW a \in Actor, NEW t, NEW K, NEW L,
           NEW mm, DOMAIN mm = Monitor, Return(a, t, K, mm)
    PROVE  Works(a, L, mm)
BY RestShape DEF Shape, Return, Works, Moves

LEMMA SaveMoves ==
    ASSUME Shape, NEW a \in Actor, NEW t, TaskShape(t), NEW cfg, Save(a, t, cfg)
    PROVE  Moves(a)
BY NotedShape DEF Shape, Save, Moves

-----------------------------------------------------------------------------
(* The operations.                                                         *)

LEMMA ApplyConfigsWorks ==
    ASSUME Shape, NEW a \in Actor, NEW t, TaskShape(t), NEW K \in SUBSET Monitor,
           NEW mm, DOMAIN mm = Monitor, NEW mo, NEW cfg, ApplyConfigs(a, t, K, mm, cfg)
    PROVE  Works(a, K, mo)
<1>1. PICK i : Start(a, [t EXCEPT !.op = "configs", !.main = i], K, Configured(K, mm, cfg))
  BY DEF ApplyConfigs
<1>2. DOMAIN Configured(K, mm, cfg) = Monitor
  BY DEF Configured
<1>3. TaskShape([t EXCEPT !.op = "configs", !.main = i])
  BY DEF TaskShape
<1> QED
  BY <1>1, <1>2, <1>3, StartWorks

LEMMA SwitchExtendWorks ==
    ASSUME Shape, NEW a \in Actor, NEW t, TaskShape(t), NEW K \in SUBSET Monitor,
           NEW mm, DOMAIN mm = Monitor, NEW mo, SwitchExtend(a, t, K, mm)
    PROVE  Works(a, K, mo)
<1>1. PICK i : Start(a, [t EXCEPT !.op = "extend", !.main = i], K, Extended(K, mm, config[K].extend))
  BY DEF SwitchExtend
<1>2. DOMAIN Extended(K, mm, config[K].extend) = Monitor
  BY DEF Extended
<1>3. TaskShape([t EXCEPT !.op = "extend", !.main = i])
  BY DEF TaskShape
<1> QED
  BY <1>1, <1>2, <1>3, StartWorks

LEMMA SwitchMirrorWorks ==
    ASSUME Shape, NEW a \in Actor, NEW t, TaskShape(t), NEW K \in SUBSET Monitor,
           NEW mm, DOMAIN mm = Monitor, SwitchMirror(a, t, K, mm)
    PROVE  Works(a, K, mm)
<1>1. CASE Common(K) # {}
  <2>1. DOMAIN Mirrored(K, mm) = Monitor
    BY DEF Mirrored
  <2> QED
    BY <1>1, <2>1, StartWorks, NotedShape DEF SwitchMirror
<1>2. CASE Common(K) = {} /\ t.op = "custom"
  BY <1>2, SwitchExtendWorks, NotedShape DEF SwitchMirror
<1>3. CASE Common(K) = {} /\ t.op # "custom"
  BY <1>3, ReturnWorks DEF SwitchMirror
<1> QED
  BY <1>1, <1>2, <1>3

LEMMA SwitchOnlyWorks ==
    ASSUME Shape, NEW a \in Actor, NEW t, TaskShape(t), NEW K \in SUBSET Monitor,
           NEW i, NEW mm, DOMAIN mm = Monitor, SwitchOnly(a, t, i, K, mm)
    PROVE  Works(a, K, mm)
<1> DEFINE cfg == config[K].only
           only(j, new) == Start(a, [t EXCEPT !.op = "only", !.main = j, !.save = new], K, Alone(j, K, mm, cfg))
<1>1. ASSUME NEW j, NEW new, only(j, new) PROVE Works(a, K, mm)
  <2>1. DOMAIN Alone(j, K, mm, cfg) = Monitor
    BY DEF Alone
  <2>2. TaskShape([t EXCEPT !.op = "only", !.main = j, !.save = new])
    BY DEF TaskShape
  <2> QED
    BY <1>1, <2>1, <2>2, StartWorks
<1> HIDE DEF only
<1>2. \/ \E j, new : only(j, new)
      \/ Return(a, t, K, mm)
  BY DEF SwitchOnly, only
<1> QED
  BY <1>1, <1>2, ReturnWorks

LEMMA SwitchCustomWorks ==
    ASSUME Shape, NEW a \in Actor, NEW t, TaskShape(t), NEW K \in SUBSET Monitor,
           NEW mm, DOMAIN mm = Monitor, SwitchCustom(a, t, K, mm)
    PROVE  Works(a, K, mm)
<1>1. CASE Return(a, t, K, mm)
  BY <1>1, ReturnWorks
<1>2. ASSUME NEW cfg, ApplyConfigs(a, t, K, mm, cfg) PROVE Works(a, K, mm)
  BY <1>2, ApplyConfigsWorks
<1>3. CASE SaveCustom(a, t, K, mm)
  BY <1>3, SaveMoves, NotedShape DEF SaveCustom, Works
<1>4. CASE SwitchMirror(a, [t EXCEPT !.op = "custom", !.save = TRUE], K, mm)
  BY <1>4, SwitchMirrorWorks, NotedShape
<1> QED
  BY <1>1, <1>2, <1>3, <1>4 DEF SwitchCustom

LEMMA SwitchWorks ==
    ASSUME Shape, NEW a \in Actor, NEW t, TaskShape(t), NEW K \in SUBSET Monitor,
           NEW i, NEW mm, DOMAIN mm = Monitor, Switch(a, t, i, K, mm)
    PROVE  Works(a, K, mm)
<1>1. t.mode \in {"custom", "mirror", "extend", "only"}
  BY DEF TaskShape, Mode
<1> QED
  BY <1>1, SwitchMirrorWorks, SwitchExtendWorks, SwitchOnlyWorks, SwitchCustomWorks DEF Switch

LEMMA FiniteMonitor == IsFiniteSet(Monitor)
BY ConstantsAssumption DEF ConstantsAssumption

LEMMA ApplyDisplayModeWorks ==
    ASSUME Shape, NEW a \in Actor, NEW by, NEW K \in SUBSET Monitor,
           NEW mm, DOMAIN mm = Monitor, ApplyDisplayMode(a, by, K, mm)
    PROVE  Works(a, K, mm)
<1> DEFINE t == For(by, mode, customId, K)
<1>1. TaskShape(t)
  BY ForShape DEF Shape
<1>2. IsFiniteSet(K)
  BY FiniteMonitor, FS_Subset
<1>3. Cardinality(K) \in Nat /\ (Cardinality(K) = 0 <=> K = {})
  BY <1>2, FS_CardinalityType, FS_EmptySet
<1>4. CASE K = {}
  <2>1. Cardinality(K) = 0
    BY <1>3, <1>4
  <2>2. ~(Cardinality(K) = 1) /\ ~(Cardinality(K) > 1)
    BY <2>1
  <2>3. Return(a, t, K, mm)
    BY <1>4, <2>2 DEF ApplyDisplayMode
  <2> QED
    BY <2>3, ReturnWorks
<1>5. CASE Cardinality(K) = 1
  <2>1. PICK cfg : ApplyConfigs(a, t, K, mm, cfg)
    BY <1>3, <1>5 DEF ApplyDisplayMode
  <2> QED
    BY <1>1, <2>1, ApplyConfigsWorks
<1>6. CASE Cardinality(K) > 1
  BY <1>1, <1>3, <1>6, SwitchWorks DEF ApplyDisplayMode
<1> QED
  BY <1>3, <1>4, <1>5, <1>6


-----------------------------------------------------------------------------
(* The signals.                                                            *)

LEMMA SeqDomain ==
    ASSUME NEW q, IsSeq(q)
    PROVE  Len(q) \in Nat /\ DOMAIN q = 1 .. Len(q)
BY LenProperties DEF IsSeq

\* A sequence over a set is one over its own elements.
LEMMA SeqOfOwn ==
    ASSUME NEW S, NEW q \in Seq(S)
    PROVE  IsSeq(q)
<1> DEFINE R == {q[n] : n \in DOMAIN q}
<1>1. Len(q) \in Nat /\ q \in [1 .. Len(q) -> S]
  BY LenProperties
<1>2. q \in [1 .. Len(q) -> R]
  BY <1>1
<1> QED
  BY <1>1, <1>2, SeqDef DEF IsSeq

\* The signals q: one of the kind for each of the outputs S, with the settings
\* in k.
Tells(q, kind, S, k) ==
    /\ IsSeq(q)
    /\ \A n \in DOMAIN q : q[n].m \in S /\ q[n].kind = kind /\ Like(q[n], k[q[n].m])
    /\ \A i \in S : \E n \in DOMAIN q : q[n].m = i

\* All that KWin announces of the outputs S
LEMMA AnnouncedTells ==
    ASSUME NEW kind, NEW S, IsFiniteSet(S), NEW k
    PROVE  Tells(Announced(kind, S, k), kind, S, k)
<1> DEFINE order == SetToSeq(S)
           N == Cardinality(S)
           q == Announced(kind, S, k)
           of(i) == [kind |-> kind, m |-> i, on |-> k[i].on, pos |-> k[i].pos, size |-> k[i].size]
<1>1. N \in Nat /\ ExistsBijection(1 .. N, S)
  BY FS_CardinalityType
<1>2. PICK g \in Bijection(1 .. N, S) : TRUE
  BY <1>1 DEF ExistsBijection
<1>3. g \in [1 .. N -> S] /\ IsInjective(g)
  <2> HIDE DEF N
  <2>1. g \in [1 .. N -> S] /\ \A x, y \in 1 .. N : g[x] = g[y] => x = y
    BY <1>2, Fun_BijectionProperties
  <2> QED
    BY <2>1 DEF IsInjective
<1>4. order \in [1 .. N -> S] /\ IsInjective(order)
  BY <1>3 DEF SetToSeq
<1> HIDE DEF order, N
<1>5. order \in Injection(1 .. N, S)
  BY <1>4 DEF Injection
<1>6. Cardinality(1 .. N) = Cardinality(S)
  BY <1>1, FS_Interval DEF N
<1>7. order \in Surjection(1 .. N, S)
  BY <1>5, <1>6, FS_Injection
<1>8. \A i \in S : \E n \in 1 .. N : order[n] = i
  BY <1>7 DEF Surjection
<1>9. q = [n \in 1 .. N |-> of(order[n])]
  BY <1>4 DEF Announced, order
<1>10. q \in [1 .. N -> {q[n] : n \in DOMAIN q}]
  BY <1>9
<1>11. IsSeq(q)
  BY <1>1, <1>10, SeqDef DEF IsSeq
<1>12. \A n \in DOMAIN q : q[n].m \in S /\ q[n].kind = kind /\ Like(q[n], k[q[n].m])
  BY <1>4, <1>9 DEF Like
<1>13. \A i \in S : \E n \in DOMAIN q : q[n].m = i
  BY <1>8, <1>9
<1> QED
  BY <1>11, <1>12, <1>13 DEF Tells

\* In s the elements of r come after those of q.
Follows(q, r, s) ==
    /\ IsSeq(s)
    /\ \A n \in DOMAIN q : n \in DOMAIN s /\ s[n] = q[n]
    /\ \A n \in DOMAIN r : Len(q) + n \in DOMAIN s /\ s[Len(q) + n] = r[n]
    /\ \A n \in DOMAIN s : n \in DOMAIN q \/ \E l \in DOMAIN r : n = Len(q) + l

LEMMA Concatenation ==
    ASSUME NEW q, IsSeq(q), NEW r, IsSeq(r)
    PROVE  Follows(q, r, q \o r)
<1> DEFINE S == {q[n] : n \in DOMAIN q} \cup {r[n] : n \in DOMAIN r}
<1>1. q \in Seq(S) /\ r \in Seq(S)
  BY SeqMonotonic DEF IsSeq
<1>2. /\ q \o r \in Seq(S)
      /\ Len(q \o r) = Len(q) + Len(r)
      /\ \A i \in 1 .. Len(q) + Len(r) : (q \o r)[i] = IF i <= Len(q) THEN q[i] ELSE r[i - Len(q)]
  BY <1>1, ConcatProperties
<1>3. IsSeq(q \o r)
  BY <1>2, SeqOfOwn
<1>4. /\ Len(q) \in Nat /\ DOMAIN q = 1 .. Len(q)
      /\ Len(r) \in Nat /\ DOMAIN r = 1 .. Len(r)
      /\ DOMAIN (q \o r) = 1 .. Len(q \o r)
  BY <1>3, SeqDomain
<1>5. \A n \in DOMAIN q : n \in DOMAIN (q \o r) /\ (q \o r)[n] = q[n]
  BY <1>2, <1>4
<1>6. \A n \in DOMAIN r : Len(q) + n \in DOMAIN (q \o r) /\ (q \o r)[Len(q) + n] = r[n]
  BY <1>2, <1>4
<1>7. ASSUME NEW n \in DOMAIN (q \o r)
      PROVE  n \in DOMAIN q \/ \E l \in DOMAIN r : n = Len(q) + l
  <2>1. CASE n <= Len(q)
    BY <1>2, <1>4, <2>1
  <2>2. CASE ~(n <= Len(q))
    <3>1. n - Len(q) \in DOMAIN r /\ n = Len(q) + (n - Len(q))
      BY <1>2, <1>4, <2>2
    <3> QED
      BY <3>1
  <2> QED
    BY <2>1, <2>2
<1> QED
  BY <1>3, <1>5, <1>6, <1>7 DEF Follows

\* The elements of the rest of a sequence
LEMMA Rested ==
    ASSUME NEW q, IsSeq(q), q # <<>>
    PROVE  /\ IsSeq(Tail(q))
           /\ 1 \in DOMAIN q /\ Head(q) = q[1]
           /\ \A n \in DOMAIN Tail(q) : n \in Nat \ {0} /\ n + 1 \in DOMAIN q /\ Tail(q)[n] = q[n + 1]
           /\ \A n \in DOMAIN q : n = 1 \/ (n - 1 \in DOMAIN Tail(q) /\ Tail(q)[n - 1] = q[n])
<1> DEFINE S == {q[n] : n \in DOMAIN q}
<1>1. /\ Tail(q) \in Seq(S) /\ Len(Tail(q)) = Len(q) - 1
      /\ \A i \in 1 .. Len(Tail(q)) : Tail(q)[i] = q[i + 1]
  BY HeadTailProperties DEF IsSeq
<1>2. IsSeq(Tail(q))
  BY <1>1, SeqOfOwn
<1>3. /\ Len(q) \in Nat /\ DOMAIN q = 1 .. Len(q)
      /\ Len(Tail(q)) \in Nat /\ DOMAIN Tail(q) = 1 .. Len(Tail(q))
  BY <1>2, SeqDomain
<1>4. Len(q) >= 1 /\ Head(q) = q[1]
  BY <1>1, <1>3 DEF IsSeq
<1>5. \A n \in DOMAIN Tail(q) : n \in Nat \ {0} /\ n + 1 \in DOMAIN q /\ Tail(q)[n] = q[n + 1]
  BY <1>1, <1>3
<1>6. ASSUME NEW n \in DOMAIN q, n # 1
      PROVE  n - 1 \in DOMAIN Tail(q) /\ Tail(q)[n - 1] = q[n]
  <2>1. n - 1 \in 1 .. Len(Tail(q)) /\ (n - 1) + 1 = n
    BY <1>1, <1>3, <1>6
  <2> QED
    BY <1>1, <1>3, <2>1
<1> QED
  BY <1>2, <1>3, <1>4, <1>5, <1>6

-----------------------------------------------------------------------------
(* What the signals tell of the outputs.                                   *)

\* A signal of one kind is one of any.
LEMMA ComingAny ==
    ASSUME NEW kind \in AnyKind
    PROVE  \A q, n, i : Coming(q, n, i, {kind}) => Coming(q, n, i, AnyKind)
BY DEF Coming

\* s goes on after q with signals that tell of the outputs S what is in k.
Announces(q, s, kind, S, k) ==
    /\ IsSeq(s)
    /\ \A i, W : \A n \in Nat : Coming(q, n, i, W) => Coming(s, n, i, W)
    /\ \A i \in S : /\ Coming(s, 0, i, {kind})
                    /\ \A n \in DOMAIN q : Coming(s, n, i, {kind})
    /\ \A n \in DOMAIN s :
           \/ n \in DOMAIN q /\ s[n] = q[n]
           \/ s[n].m \in S /\ s[n].kind = kind /\ Like(s[n], k[s[n].m])

LEMMA Announcing ==
    ASSUME NEW q, IsSeq(q), NEW kind, NEW S \in SUBSET Monitor, NEW k
    PROVE  Announces(q, q \o Announced(kind, S, k), kind, S, k)
<1>0. PICK s : s = q \o Announced(kind, S, k)
  OBVIOUS
<1>10. IsFiniteSet(S)
  BY ConstantsAssumption, FS_Subset DEF ConstantsAssumption
<1>1. PICK r : r = Announced(kind, S, k)
  OBVIOUS
<1>2. /\ IsSeq(r)
      /\ \A n \in DOMAIN r : r[n].m \in S /\ r[n].kind = kind /\ Like(r[n], k[r[n].m])
      /\ \A i \in S : \E n \in DOMAIN r : r[n].m = i
  BY <1>1, <1>10, AnnouncedTells DEF Tells
<1>3. Follows(q, r, s)
  BY <1>0, <1>1, <1>2, Concatenation
<1>4. /\ IsSeq(s)
      /\ \A n \in DOMAIN q : n \in DOMAIN s /\ s[n] = q[n]
      /\ \A n \in DOMAIN r : Len(q) + n \in DOMAIN s /\ s[Len(q) + n] = r[n]
      /\ \A n \in DOMAIN s : n \in DOMAIN q \/ \E l \in DOMAIN r : n = Len(q) + l
  BY <1>3 DEF Follows
<1>5. \A i, W : \A n \in Nat : Coming(q, n, i, W) => Coming(s, n, i, W)
  BY <1>4 DEF Coming
<1>6. /\ Len(q) \in Nat /\ DOMAIN q = 1 .. Len(q)
      /\ Len(r) \in Nat /\ DOMAIN r = 1 .. Len(r)
  BY <1>2, SeqDomain
<1>7. ASSUME NEW i \in S, NEW n \in 0 .. Len(q) PROVE Coming(s, n, i, {kind})
  <2>1. PICK l \in DOMAIN r : r[l].m = i
    BY <1>2
  <2>2. Len(q) + l \in DOMAIN s /\ s[Len(q) + l].m = i /\ s[Len(q) + l].kind = kind
    BY <1>2, <1>4, <2>1
  <2>3. n < Len(q) + l
    BY <1>6, <1>7
  <2> QED
    BY <2>2, <2>3 DEF Coming
<1>8. \A i \in S : /\ Coming(s, 0, i, {kind})
                   /\ \A n \in DOMAIN q : Coming(s, n, i, {kind})
  <2>1. 0 \in 0 .. Len(q) /\ DOMAIN q \subseteq 0 .. Len(q)
    BY <1>6
  <2> QED
    BY <1>7, <2>1
<1>9. ASSUME NEW n \in DOMAIN s
      PROVE  \/ n \in DOMAIN q /\ s[n] = q[n]
             \/ s[n].m \in S /\ s[n].kind = kind /\ Like(s[n], k[s[n].m])
  <2>1. CASE n \in DOMAIN q
    BY <1>4, <2>1
  <2>2. CASE n \notin DOMAIN q
    <3>1. PICK l \in DOMAIN r : n = Len(q) + l
      BY <1>4, <2>2
    <3>2. s[n] = r[l]
      BY <1>4, <3>1
    <3> QED
      BY <1>2, <3>1, <3>2
  <2> QED
    BY <2>1, <2>2
<1> QED
  BY <1>0, <1>4, <1>5, <1>8, <1>9 DEF Announces

\* Of the other signals, all is still to come when the first is handled.
LEMMA Handled ==
    ASSUME IsSeq(signals), signals # <<>>, signals' = Tail(signals)
    PROVE  /\ IsSeq(signals')
           /\ 1 \in DOMAIN signals /\ Head(signals) = signals[1]
           /\ \A n \in DOMAIN signals' :
                  /\ n + 1 \in DOMAIN signals /\ signals'[n] = signals[n + 1]
                  /\ \A i, W : Coming(signals, n + 1, i, W) => Coming(signals', n, i, W)
           /\ \A i, W : Coming(signals, 1, i, W) => Coming(signals', 0, i, W)
           /\ \A i, W : Coming(signals, 0, i, W) =>
                  Coming(signals', 0, i, W) \/ (signals[1].m = i /\ signals[1].kind \in W)
<1>1. /\ IsSeq(signals')
      /\ 1 \in DOMAIN signals /\ Head(signals) = signals[1]
      /\ \A n \in DOMAIN signals' :
             n \in Nat \ {0} /\ n + 1 \in DOMAIN signals /\ signals'[n] = signals[n + 1]
      /\ \A n \in DOMAIN signals : n = 1 \/ (n - 1 \in DOMAIN signals' /\ signals'[n - 1] = signals[n])
  BY Rested
<1>2. DOMAIN signals \subseteq Nat
  BY SeqDomain
<1>3. ASSUME NEW n \in Nat, NEW i, NEW W, Coming(signals, n + 1, i, W)
      PROVE  Coming(signals', n, i, W)
  <2>1. PICK k \in DOMAIN signals : n + 1 < k /\ signals[k].m = i /\ signals[k].kind \in W
    BY <1>3 DEF Coming
  <2>2. k \in Nat /\ k # 1 /\ n < k - 1
    BY <1>2, <2>1
  <2> QED
    BY <1>1, <2>1, <2>2 DEF Coming
<1>4. \A i, W : Coming(signals, 1, i, W) => Coming(signals', 0, i, W)
  BY <1>3
<1>5. ASSUME NEW i, NEW W, Coming(signals, 0, i, W)
      PROVE  Coming(signals', 0, i, W) \/ (signals[1].m = i /\ signals[1].kind \in W)
  <2>1. PICK k \in DOMAIN signals : 0 < k /\ signals[k].m = i /\ signals[k].kind \in W
    BY <1>5 DEF Coming
  <2>2. CASE k = 1
    BY <2>1, <2>2
  <2>3. CASE k # 1
    <3>1. 1 < k
      BY <1>2, <2>1, <2>3
    <3>2. Coming(signals, 1, i, W)
      BY <2>1, <3>1 DEF Coming
    <3> QED
      BY <1>4, <3>2
  <2> QED
    BY <2>2, <2>3
<1> QED
  BY <1>1, <1>3, <1>4, <1>5

\* Truthful is inductive: signals are announced of what the compositor changes,
LEMMA TruthfulAnnounced ==
    ASSUME Shape, Truthful, NEW S \in SUBSET plugged,
           UNCHANGED plugged, signals' = signals \o Announced("changed", S, kwin'),
           \A i \in Monitor \ S : Like(kwin[i], kwin'[i])
    PROVE  Truthful'
<1>1. Announces(signals, signals', "changed", S, kwin')
  BY Announcing DEF Shape
<1>2. /\ \A i, W : \A n \in Nat : Coming(signals, n, i, W) => Coming(signals', n, i, W)
      /\ \A i \in S : /\ Coming(signals', 0, i, {"changed"})
                      /\ \A n \in DOMAIN signals : Coming(signals', n, i, {"changed"})
      /\ \A n \in DOMAIN signals' :
             \/ n \in DOMAIN signals /\ signals'[n] = signals[n]
             \/ /\ signals'[n].m \in S /\ signals'[n].kind = "changed"
                /\ Like(signals'[n], kwin'[signals'[n].m])
  BY <1>1 DEF Announces
<1>3. DOMAIN signals \subseteq Nat
  BY SeqDomain DEF Shape
<1> SUFFICES ASSUME NEW n \in DOMAIN signals'
             PROVE  LET s == signals'[n]
                    IN  /\ s.kind = "removed" /\ s.m \in plugged => Coming(signals', n, s.m, {"added"})
                        /\ s.kind # "removed" /\ s.m \notin plugged => Coming(signals', n, s.m, {"removed"})
                        /\ Like(s, kwin'[s.m]) \/ Coming(signals', n, s.m, AnyKind)
  BY DEF Truthful
<1>4. CASE n \in DOMAIN signals /\ signals'[n] = signals[n]
  <2> DEFINE s == signals[n]
  <2>1. /\ s.kind = "removed" /\ s.m \in plugged => Coming(signals', n, s.m, {"added"})
        /\ s.kind # "removed" /\ s.m \notin plugged => Coming(signals', n, s.m, {"removed"})
        /\ Like(s, kwin[s.m]) \/ Coming(signals', n, s.m, AnyKind)
    BY <1>2, <1>3, <1>4 DEF Truthful
  <2>2. s.m \in Monitor
    BY <1>4 DEF Shape
  <2>3. CASE s.m \in S
    <3>1. Coming(signals', n, s.m, {"changed"})
      BY <1>2, <1>4, <2>3
    <3>2. Coming(signals', n, s.m, AnyKind)
      BY <3>1, ComingAny DEF AnyKind
    <3> QED
      BY <1>4, <2>1, <3>2
  <2>4. CASE s.m \notin S
    <3>1. Like(kwin[s.m], kwin'[s.m])
      BY <2>2, <2>4
    <3> QED
      BY <1>4, <2>1, <3>1 DEF Like
  <2> QED
    BY <2>3, <2>4
<1>5. CASE /\ signals'[n].m \in S /\ signals'[n].kind = "changed"
           /\ Like(signals'[n], kwin'[signals'[n].m])
  BY <1>5
<1> QED
  BY <1>2, <1>4, <1>5

\* and outputs come and go with a signal that says so.
LEMMA TruthfulPlugged ==
    ASSUME Shape, Truthful, NEW i \in Monitor, NEW kind \in AnyKind,
           signals' = signals \o Announced(kind, {i}, kwin'),
           \A j \in Monitor \ {i} : kwin'[j] = kwin[j] /\ (j \in plugged' <=> j \in plugged),
           kind = "changed" => i \in plugged /\ i \in plugged',
           kind = "added" => i \notin plugged /\ i \in plugged',
           kind = "removed" => i \in plugged /\ i \notin plugged'
    PROVE  Truthful'
<1>1. Announces(signals, signals', kind, {i}, kwin')
  BY Announcing DEF Shape
<1>2. /\ \A j, W : \A n \in Nat : Coming(signals, n, j, W) => Coming(signals', n, j, W)
      /\ \A n \in DOMAIN signals : Coming(signals', n, i, {kind})
      /\ \A n \in DOMAIN signals' :
             \/ n \in DOMAIN signals /\ signals'[n] = signals[n]
             \/ /\ signals'[n].m = i /\ signals'[n].kind = kind
                /\ Like(signals'[n], kwin'[signals'[n].m])
  BY <1>1 DEF Announces
<1>3. DOMAIN signals \subseteq Nat
  BY SeqDomain DEF Shape
<1> SUFFICES ASSUME NEW n \in DOMAIN signals'
             PROVE  LET s == signals'[n]
                    IN  /\ s.kind = "removed" /\ s.m \in plugged' => Coming(signals', n, s.m, {"added"})
                        /\ s.kind # "removed" /\ s.m \notin plugged' => Coming(signals', n, s.m, {"removed"})
                        /\ Like(s, kwin'[s.m]) \/ Coming(signals', n, s.m, AnyKind)
  BY DEF Truthful
<1>4. CASE n \in DOMAIN signals /\ signals'[n] = signals[n]
  <2> DEFINE s == signals[n]
  <2>1. /\ s.kind = "removed" /\ s.m \in plugged => Coming(signals', n, s.m, {"added"})
        /\ s.kind # "removed" /\ s.m \notin plugged => Coming(signals', n, s.m, {"removed"})
        /\ Like(s, kwin[s.m]) \/ Coming(signals', n, s.m, AnyKind)
    BY <1>2, <1>3, <1>4 DEF Truthful
  <2>2. s.m \in Monitor
    BY <1>4 DEF Shape
  <2>3. CASE s.m = i
    <3>1. Coming(signals', n, i, {kind})
      BY <1>2, <1>4
    <3>2. Coming(signals', n, i, AnyKind)
      BY <3>1, ComingAny
    <3> QED
      BY <1>4, <2>1, <2>3, <3>1, <3>2 DEF AnyKind
  <2>4. CASE s.m # i
    BY <1>4, <2>1, <2>2, <2>4
  <2> QED
    BY <2>3, <2>4
<1>5. CASE /\ signals'[n].m = i /\ signals'[n].kind = kind
           /\ Like(signals'[n], kwin'[signals'[n].m])
  BY <1>5 DEF AnyKind
<1> QED
  BY <1>2, <1>4, <1>5

\* Handling the first signal keeps it.
LEMMA TruthfulHandled ==
    ASSUME Shape, Truthful, signals # <<>>, signals' = Tail(signals), UNCHANGED <<kwin, plugged>>
    PROVE  Truthful'
<1>1. \A n \in DOMAIN signals' :
          /\ n + 1 \in DOMAIN signals /\ signals'[n] = signals[n + 1]
          /\ \A i, W : Coming(signals, n + 1, i, W) => Coming(signals', n, i, W)
  BY Handled DEF Shape
<1> SUFFICES ASSUME NEW n \in DOMAIN signals'
             PROVE  LET s == signals'[n]
                    IN  /\ s.kind = "removed" /\ s.m \in plugged => Coming(signals', n, s.m, {"added"})
                        /\ s.kind # "removed" /\ s.m \notin plugged => Coming(signals', n, s.m, {"removed"})
                        /\ Like(s, kwin[s.m]) \/ Coming(signals', n, s.m, AnyKind)
  BY DEF Truthful
<1> QED
  BY <1>1 DEF Truthful

-----------------------------------------------------------------------------
(* Agrees is an invariant.                                                 *)

LEMMA MovesShape ==
    ASSUME Shape, NEW a \in Actor, Moves(a)
    PROVE  DOMAIN pc' = Actor /\ DOMAIN task' = Actor /\ \A b \in Actor : TaskShape(task'[b])
BY DEF Shape, Moves

\* Nothing is said of the outputs, and nothing heard.
LEMMA Unheard ==
    ASSUME Present, Truthful, UNCHANGED <<kwin, plugged, signals, known, missed>>,
           life = "off" => life' = "off"
    PROVE  Present' /\ Truthful'
BY DEF Present, Truthful

\* The commands of the other goroutines are still to come.
LEMMA OthersPending ==
    ASSUME NEW a \in Actor, Moves(a), pc[a] \notin {"set", "unset"},
           NEW i, mem'[i] = mem[i], \E b \in Actor : Pending(b, i)
    PROVE  \E b \in Actor : Pending(b, i)'
<1>1. PICK b \in Actor : Pending(b, i)
  OBVIOUS
<1>2. b # a
  BY <1>1 DEF Pending
<1>3. pc'[b] = pc[b] /\ task'[b] = task[b]
  BY <1>2 DEF Moves
<1>4. Pending(b, i)'
  BY <1>1, <1>3 DEF Pending, Gives, Clears
<1> QED
  BY <1>4

\* An operation that hears nothing keeps the invariant.
LEMMA WorksKeep ==
    ASSUME AgreesInv, NEW a \in Actor, pc[a] \notin {"set", "unset"}, Works(a, known, mem),
           UNCHANGED <<kwin, plugged, signals, known, missed, unsent>>, mode' \in Mode,
           life \notin {"off", "listed"}, life' \in {"on", "started", "ready", "dead"},
           life' = "on" => life = "on" /\ a # Main
    PROVE  AgreesInv'
<1>1. Moves(a) /\ DOMAIN mem' = Monitor
  BY DEF Works
<1>2. Shape'
  BY <1>1, MovesShape DEF AgreesInv, Shape
<1>3. Starting'
  BY <1>1 DEF Starting, Moves, AgreesInv, Actor
<1>4. Present' /\ Truthful'
  BY Unheard DEF AgreesInv
<1>5. ASSUME NEW i \in (known \cap plugged) \ unsent PROVE Due(i)'
  <2>1. CASE \A j \in known : Pending(a, j)'
    BY <2>1 DEF Due
  <2>2. CASE mem' = mem
    <3>1. Due(i)
      BY DEF AgreesInv, Settled
    <3>2. CASE Fits(mem[i], kwin[i]) \/ Coming(signals, 0, i, AnyKind)
      BY <2>2, <3>2 DEF Due
    <3>3. CASE \E b \in Actor : Pending(b, i)
      BY <1>1, <2>2, <3>3, OthersPending DEF Due
    <3> QED
      BY <3>1, <3>2, <3>3 DEF Due
  <2> QED
    BY <2>1, <2>2 DEF Works
<1>6. Settled'
  BY <1>5 DEF Settled
<1> QED
  BY <1>2, <1>3, <1>4, <1>6 DEF AgreesInv

\* The calls, but for those that edit a monitor
Operates(c) ==
    \/ \E m \in Mode : \E n, i : SwitchMode(c, m, n, i)
    \/ ApplyChanges(c) \/ ResetChanges(c) \/ SaveCall(c)
    \/ \E i : SetPrimary(c, i)
    \/ \E n : DeleteCustomMode(c, n)
    \/ \E n, new : ModifyConfigName(c, n, new)

LEMMA CallWorks ==
    ASSUME AgreesInv, NEW c \in Caller,
           Operates(c)
    PROVE  /\ Works(c, known, mem)
           /\ UNCHANGED <<kwin, plugged, signals, life, known, missed, unsent, mode>>
<1>0. /\ Shape /\ c \in Actor /\ known \in SUBSET Monitor /\ DOMAIN mem = Monitor /\ mode \in Mode
  BY DEF AgreesInv, Shape, Actor
<1>1. ASSUME NEW m \in Mode, NEW n, NEW i, SwitchMode(c, m, n, i)
      PROVE  /\ Works(c, known, mem)
             /\ UNCHANGED <<kwin, plugged, signals, life, known, missed, unsent, mode>>
  <2>1. Switch(c, For("switch", m, n, known), i, known, mem)
    BY <1>1 DEF SwitchMode
  <2> QED
    BY <1>0, <1>1, <2>1, ForShape, SwitchWorks DEF SwitchMode, Call, compositor, shown
<1>2. CASE ApplyChanges(c)
  <2>1. Start(c, [For("call", mode, "", known) EXCEPT !.op = "changes"], known, mem)
    BY <1>2 DEF ApplyChanges
  <2>2. TaskShape([For("call", mode, "", known) EXCEPT !.op = "changes"])
    BY <1>0, ForShape, NotedShape
  <2> QED
    BY <1>0, <1>2, <2>1, <2>2, StartWorks DEF ApplyChanges, Call, compositor, shown
<1>3. CASE ResetChanges(c)
  <2>1. PICK mm : /\ DOMAIN mm = Monitor
                  /\ Start(c, [For("call", mode, "", known) EXCEPT !.op = "reset"], known, mm)
    BY <1>3 DEF ResetChanges
  <2>2. TaskShape([For("call", mode, "", known) EXCEPT !.op = "reset"])
    BY <1>0, ForShape, NotedShape
  <2> QED
    BY <1>0, <1>3, <2>1, <2>2, StartWorks DEF ResetChanges, Call, compositor, shown
<1>4. ASSUME NEW t, TaskShape(t), NEW cfg, Save(c, t, cfg), UNCHANGED mem
      PROVE  Works(c, known, mem)
  BY <1>0, <1>4, SaveMoves DEF Works
<1>5. CASE SaveCall(c)
  <2>1. \E cfg : Save(c, [For("call", mode, "", known) EXCEPT !.op = "save"], cfg)
    BY <1>5 DEF SaveCall
  <2>2. TaskShape([For("call", mode, "", known) EXCEPT !.op = "save"])
    BY <1>0, ForShape, NotedShape
  <2> QED
    BY <1>4, <1>5, <2>1, <2>2 DEF SaveCall, Call, compositor, shown
<1>6. TaskShape(For("call", mode, "", known)) /\ TaskShape([For("call", mode, "", known) EXCEPT !.op = "stored"])
  BY <1>0, ForShape, NotedShape
<1>7. ASSUME NEW i, SetPrimary(c, i)
      PROVE  /\ Works(c, known, mem)
             /\ UNCHANGED <<kwin, plugged, signals, life, known, missed, unsent, mode>>
  <2>1. \/ SwitchOnly(c, For("call", mode, "", known), i, known, mem)
        \/ /\ \E cfg : Save(c, [For("call", mode, "", known) EXCEPT !.op = "stored"], cfg)
           /\ UNCHANGED mem
    BY <1>7 DEF SetPrimary
  <2>2. UNCHANGED <<kwin, plugged, signals, life, known, missed, unsent, mode>>
    BY <1>7 DEF SetPrimary, Call, compositor
  <2> QED
    BY <1>0, <1>4, <1>6, <2>1, <2>2, SwitchOnlyWorks
<1>8. ASSUME NEW n, DeleteCustomMode(c, n)
      PROVE  /\ Works(c, known, mem)
             /\ UNCHANGED <<kwin, plugged, signals, life, known, missed, unsent, mode>>
  <2>1. /\ \E cfg : Save(c, [For("call", mode, "", known) EXCEPT !.op = "stored"], cfg)
        /\ UNCHANGED mem
    BY <1>8 DEF DeleteCustomMode
  <2> QED
    BY <1>4, <1>6, <1>8, <2>1 DEF DeleteCustomMode, Call, compositor
<1>9. ASSUME NEW n, NEW new, ModifyConfigName(c, n, new)
      PROVE  /\ Works(c, known, mem)
             /\ UNCHANGED <<kwin, plugged, signals, life, known, missed, unsent, mode>>
  <2>1. /\ \E cfg : Save(c, [For("call", mode, "", known) EXCEPT !.op = "stored"], cfg)
        /\ UNCHANGED mem
    BY <1>9 DEF ModifyConfigName
  <2> QED
    BY <1>4, <1>6, <1>9, <2>1 DEF ModifyConfigName, Call, compositor
<1> QED
  BY <1>1, <1>2, <1>3, <1>5, <1>7, <1>8, <1>9 DEF Operates

LEMMA CallKeeps ==
    ASSUME AgreesInv, NEW c \in Caller, CallStep(c)
    PROVE  AgreesInv'
<1>0. /\ life = "ready" /\ pc[c] = "idle" /\ c \in Actor
  BY DEF CallStep, Callable, Actor
<1>1. CASE Operates(c)
  <2>1. /\ Works(c, known, mem)
        /\ UNCHANGED <<kwin, plugged, signals, life, known, missed, unsent, mode>>
    BY <1>1, CallWorks
  <2> QED
    BY <1>0, <2>1, WorksKeep DEF AgreesInv, Shape
<1>2. ASSUME NEW i, NEW s, NEW h, Edit(c, i, s, h) PROVE AgreesInv'
  <2>1. /\ UNCHANGED <<kwin, plugged, signals, life, known, missed, pc, task, mode>>
        /\ mem' = [mem EXCEPT ![i] = s] /\ unsent' = unsent \cup {i}
    BY <1>2 DEF Edit, Call, compositor, shown
  <2>2. Shape'
    BY <2>1 DEF AgreesInv, Shape
  <2>3. Starting'
    BY <1>0, <2>1 DEF Starting
  <2>4. Present' /\ Truthful'
    BY <2>1, Unheard DEF AgreesInv
  <2>5. ASSUME NEW j \in (known' \cap plugged') \ unsent' PROVE Due(j)'
    <3>1. j # i /\ mem'[j] = mem[j] /\ Due(j)
      BY <2>1 DEF AgreesInv, Settled, Shape
    <3> QED
      BY <2>1, <3>1 DEF Due, Pending, Gives, Clears
  <2> QED
    BY <2>2, <2>3, <2>4, <2>5 DEF AgreesInv, Settled
<1>3. Operates(c) \/ \E i, s, h : Edit(c, i, s, h)
  <2>1. (\E i \in Monitor : Enable(c, i)) => \E i, s, h : Edit(c, i, s, h)
    BY DEF Enable
  <2>2. (\E i \in Monitor, p \in Pos : SetPosition(c, i, p)) => \E i, s, h : Edit(c, i, s, h)
    BY DEF SetPosition
  <2>3. (\E i \in Monitor, z \in Sizes : SetMode(c, i, z)) => \E i, s, h : Edit(c, i, s, h)
    BY DEF SetMode
  <2>4. {"custom", "only"} \subseteq Mode
    BY DEF Mode
  <2> QED
    BY <2>1, <2>2, <2>3, <2>4 DEF CallStep, Operates
<1> QED
  BY <1>1, <1>2, <1>3

\* What a command changes is announced.
LEMMA KwinSetKeeps ==
    ASSUME AgreesInv, NEW new, KwinSet(new), DOMAIN new = Monitor, UNCHANGED <<plugged, known, missed, life>>,
           \A i \in Monitor : "on" \in DOMAIN new[i],
           \A i \in Monitor \ plugged : Like(kwin[i], new[i])
    PROVE  /\ Present' /\ Truthful' /\ IsSeq(signals')
           /\ \A n \in DOMAIN signals' : signals'[n].m \in Monitor /\ signals'[n].kind \in AnyKind
           /\ \A i \in plugged : new[i] = kwin[i] \/ Coming(signals', 0, i, AnyKind)
           /\ \A i, W : Coming(signals, 0, i, W) => Coming(signals', 0, i, W)
<1> DEFINE S == {i \in plugged : new[i] # kwin[i]}
<1>1. /\ kwin' = new
      /\ signals' = signals \o Announced("changed", S, kwin')
  BY DEF KwinSet
<1> HIDE DEF S
<1>2. S \in SUBSET plugged /\ S \in SUBSET Monitor
  BY DEF S, AgreesInv, Shape
<1>3. Announces(signals, signals', "changed", S, kwin')
  BY <1>1, <1>2, Announcing DEF AgreesInv, Shape
<1>4. Truthful'
  <2>1. \A i \in Monitor \ S : Like(kwin[i], kwin'[i])
    BY <1>1 DEF S, Like
  <2> QED
    BY <1>1, <1>2, <2>1, TruthfulAnnounced DEF AgreesInv
<1>5. \A i, W : Coming(signals, 0, i, W) => Coming(signals', 0, i, W)
  BY <1>3 DEF Announces
<1>6. Present'
  BY <1>5 DEF AgreesInv, Present
<1>7. \A n \in DOMAIN signals' : signals'[n].m \in Monitor /\ signals'[n].kind \in AnyKind
  BY <1>2, <1>3 DEF Announces, AgreesInv, Shape, AnyKind
<1>8. \A i \in S : Coming(signals', 0, i, {"changed"})
  BY <1>3 DEF Announces
<1>9. \A i \in plugged : new[i] = kwin[i] \/ Coming(signals', 0, i, AnyKind)
  BY <1>8, ComingAny DEF S, AnyKind
<1> QED
  BY <1>3, <1>4, <1>5, <1>6, <1>7, <1>9 DEF Announces

LEMMA AfterMoves ==
    ASSUME Shape, NEW a \in Actor, NEW off, After(a, off)
    PROVE  /\ Moves(a) /\ UNCHANGED mem
           /\ task'[a].cmd = task[a].cmd /\ task'[a].off = off
           /\ pc'[a] = IF off = {} THEN "end" ELSE "unset"
<1>1. /\ task' = [task EXCEPT ![a].off = off] /\ pc' = [pc EXCEPT ![a] = IF off = {} THEN "end" ELSE "unset"]
      /\ DOMAIN task = Actor /\ DOMAIN pc = Actor /\ TaskShape(task[a])
  BY DEF After, Shape
<1>2. task'[a] = [task[a] EXCEPT !.off = off]
  BY <1>1
<1>3. TaskShape(task'[a]) /\ task'[a].cmd = task[a].cmd /\ task'[a].off = off
  BY <1>1, <1>2 DEF TaskShape
<1> QED
  BY <1>1, <1>3 DEF Moves, After

\* After a command that failed, whatever it was to do is excepted.
LEMMA FailKeeps ==
    ASSUME AgreesInv, NEW a \in Actor, pc[a] \in {"set", "unset"}, NEW off,
           After(a, off) \/ Broken(a),
           UNCHANGED <<kwin, plugged, signals, known, missed, mode, life>>,
           known \cap ((IF pc[a] = "set" THEN DOMAIN task[a].cmd ELSE {}) \cup task[a].off) \subseteq unsent',
           unsent \subseteq unsent'
    PROVE  AgreesInv'
<1>0. Shape /\ DOMAIN mem = Monitor /\ known \in SUBSET Monitor /\ TaskShape(task[a])
  BY DEF AgreesInv, Shape
<1>1. Works(a, known, mem)
  <2>1. CASE After(a, off)
    BY <1>0, <2>1, AfterMoves DEF Works
  <2>2. CASE SwitchExtend(a, task[a], known, mem)
    BY <1>0, <2>2, SwitchExtendWorks
  <2>3. CASE Return(a, task[a], task[a].scr, mem)
    BY <1>0, <2>3, ReturnWorks
  <2> QED
    BY <2>1, <2>2, <2>3 DEF Broken
<1>2. Moves(a) /\ DOMAIN mem' = Monitor
  BY <1>1 DEF Works
<1>3. Shape'
  BY <1>0, <1>2, MovesShape DEF Shape
<1>4. Starting'
  BY <1>2 DEF AgreesInv, Starting, Idle, Moves, Actor
<1>5. Present' /\ Truthful'
  BY Unheard DEF AgreesInv
<1>6. ASSUME NEW i \in (known \cap plugged) \ unsent' PROVE Due(i)'
  <2>1. CASE \A j \in known : Pending(a, j)'
    BY <2>1 DEF Due
  <2>2. CASE mem' = mem
    <3>1. Due(i) /\ ~Pending(a, i)
      BY DEF AgreesInv, Settled, Pending, Gives, Clears
    <3>2. CASE Fits(mem[i], kwin[i]) \/ Coming(signals, 0, i, AnyKind)
      BY <2>2, <3>2 DEF Due
    <3>3. ASSUME NEW b \in Actor, Pending(b, i) PROVE Due(i)'
      <4>1. pc'[b] = pc[b] /\ task'[b] = task[b]
        BY <1>2, <3>1, <3>3 DEF Moves
      <4> QED
        BY <2>2, <3>3, <4>1 DEF Due, Pending, Gives, Clears
    <3> QED
      BY <3>1, <3>2, <3>3 DEF Due
  <2> QED
    BY <1>1, <2>1, <2>2 DEF Works
<1> QED
  BY <1>3, <1>4, <1>5, <1>6 DEF AgreesInv, Settled

\* The command of all the outputs to be enabled
LEMMA SetKeeps ==
    ASSUME AgreesInv, NEW a \in Actor, Set(a)
    PROVE  AgreesInv'
<1>0. /\ pc[a] = "set" /\ Shape /\ TaskShape(task[a])
      /\ UNCHANGED <<plugged, life, known, missed, mode>>
  BY DEF Set, AgreesInv, Shape, shown
<1> DEFINE cmd == task[a].cmd
           done == plugged \cap DOMAIN cmd
           new == [i \in Monitor |-> IF i \in done THEN cmd[i] ELSE kwin[i]]
<1>1. CASE /\ KwinSet(new)
           /\ After(a, task[a].off)
           /\ unsent' = {i \in unsent : i \notin done \/ cmd[i] # [on |-> mem[i].on, pos |-> mem[i].pos, size |-> mem[i].size]}
  <2>1. /\ DOMAIN new = Monitor
        /\ \A i \in Monitor : "on" \in DOMAIN new[i]
        /\ \A i \in Monitor \ plugged : Like(kwin[i], new[i])
        /\ \A i \in done : new[i] = cmd[i]
        /\ \A i \in Monitor \ done : new[i] = kwin[i]
    BY <1>0 DEF Shape, TaskShape, Like
  <2>2. kwin' = new
    BY <1>1 DEF KwinSet
  <2> HIDE DEF new
  <2>3. /\ Present' /\ Truthful' /\ IsSeq(signals')
        /\ \A n \in DOMAIN signals' : signals'[n].m \in Monitor /\ signals'[n].kind \in AnyKind
        /\ \A i \in plugged : new[i] = kwin[i] \/ Coming(signals', 0, i, AnyKind)
        /\ \A i, W : Coming(signals, 0, i, W) => Coming(signals', 0, i, W)
    BY <1>0, <1>1, <2>1, KwinSetKeeps
  <2>4. /\ Moves(a) /\ UNCHANGED mem
        /\ task'[a].off = task[a].off
        /\ pc'[a] = IF task[a].off = {} THEN "end" ELSE "unset"
    BY <1>0, <1>1, AfterMoves
  <2>5. Shape'
    BY <1>0, <2>1, <2>2, <2>3, <2>4, MovesShape DEF Shape
  <2>6. Starting'
    BY <1>0, <2>4 DEF AgreesInv, Starting, Idle, Moves, Actor
  <2>7. ASSUME NEW i \in (known \cap plugged) \ unsent' PROVE Due(i)'
    <3> i \in Monitor
      BY <1>0 DEF Shape
    <3>1. CASE Coming(signals', 0, i, AnyKind)
      BY <3>1 DEF Due
    <3>2. CASE i \in unsent /\ ~Coming(signals', 0, i, AnyKind)
      <4>1. i \in done /\ cmd[i] = [on |-> mem[i].on, pos |-> mem[i].pos, size |-> mem[i].size]
        BY <1>1, <2>7, <3>2
      <4>2. Fits(mem[i], new[i])
        BY <2>1, <4>1 DEF Fits
      <4> QED
        BY <2>2, <2>4, <4>2 DEF Due
    <3>3. CASE i \notin unsent /\ ~Coming(signals', 0, i, AnyKind)
      <4>1. new[i] = kwin[i] /\ ~Coming(signals, 0, i, AnyKind)
        BY <2>3, <3>3
      <4>2. Due(i)
        BY <3>3 DEF AgreesInv, Settled
      <4>3. CASE Fits(mem[i], kwin[i])
        BY <2>2, <2>4, <4>1, <4>3 DEF Due
      <4>4. CASE Gives(task[a], i, mem)
        <5>1. new[i] = cmd[i]
          BY <2>1, <4>4 DEF Gives
        <5>2. Fits(mem[i], kwin[i])
          BY <4>1, <4>4, <5>1 DEF Gives
        <5> QED
          BY <4>3, <5>2
      <4>5. CASE Clears(task[a], i, mem)
        <5>1. Pending(a, i)'
          BY <2>4, <4>5 DEF Clears, Pending
        <5> QED
          BY <5>1 DEF Due
      <4>6. ASSUME NEW b \in Actor \ {a}, Pending(b, i) PROVE Due(i)'
        <5>1. Pending(b, i)'
          BY <2>4, <4>6 DEF Moves, Pending, Gives, Clears
        <5> QED
          BY <5>1 DEF Due
      <4> QED
        BY <1>0, <4>1, <4>2, <4>3, <4>4, <4>5, <4>6 DEF Due, Pending
    <3> QED
      BY <3>1, <3>2, <3>3
  <2> QED
    BY <1>0, <2>3, <2>5, <2>6, <2>7 DEF AgreesInv, Settled
<1>2. CASE /\ After(a, task[a].off) \/ Broken(a)
           /\ unsent' = unsent \cup (known \cap (DOMAIN cmd \cup task[a].off))
           /\ UNCHANGED <<kwin, signals>>
  BY <1>0, <1>2, FailKeeps
<1> QED
  BY <1>1, <1>2 DEF Set

\* The command of one output to be disabled
LEMMA UnsetKeeps ==
    ASSUME AgreesInv, NEW a \in Actor, Unset(a)
    PROVE  AgreesInv'
<1>0. /\ pc[a] = "unset" /\ Shape /\ TaskShape(task[a])
      /\ UNCHANGED <<plugged, life, known, missed, mode>>
  BY DEF Unset, AgreesInv, Shape, shown
<1>1. ASSUME NEW o \in task[a].off,
             KwinSet([kwin EXCEPT ![o].on = @ /\ o \notin plugged]),
             After(a, task[a].off \ {o}),
             unsent' = IF o \in known /\ ~mem[o].on THEN unsent \ {o} ELSE unsent
      PROVE  AgreesInv'
  <2> DEFINE new == [kwin EXCEPT ![o].on = @ /\ o \notin plugged]
  <2>1. /\ DOMAIN new = Monitor
        /\ \A i \in Monitor : "on" \in DOMAIN new[i]
        /\ \A i \in Monitor \ {o} : new[i] = kwin[i]
        /\ \A i \in Monitor \ plugged : Like(kwin[i], new[i])
        /\ o \in plugged => ~new[o].on
    <3>1. DOMAIN kwin = Monitor /\ plugged \subseteq Monitor /\ \A i \in Monitor : "on" \in DOMAIN kwin[i]
      BY <1>0 DEF Shape
    <3>2. DOMAIN new = Monitor /\ \A i \in Monitor \ {o} : new[i] = kwin[i]
      BY <3>1
    <3>3. ASSUME o \in Monitor
          PROVE  /\ new[o] = [kwin[o] EXCEPT !.on = @ /\ o \notin plugged]
                 /\ "on" \in DOMAIN new[o]
                 /\ new[o].on = (kwin[o].on /\ o \notin plugged)
                 /\ new[o].pos = kwin[o].pos /\ new[o].size = kwin[o].size
      <4>1. new[o] = [kwin[o] EXCEPT !.on = @ /\ o \notin plugged]
        BY <3>1, <3>3
      <4> HIDE DEF new
      <4> QED
        BY <3>1, <3>3, <4>1
    <3> HIDE DEF new
    <3> QED
      BY <3>1, <3>2, <3>3 DEF Like
  <2>2. kwin' = new
    BY <1>1 DEF KwinSet
  <2>8. KwinSet(new)
    BY <1>1
  <2> HIDE DEF new
  <2>3. /\ Present' /\ Truthful' /\ IsSeq(signals')
        /\ \A n \in DOMAIN signals' : signals'[n].m \in Monitor /\ signals'[n].kind \in AnyKind
        /\ \A i \in plugged : new[i] = kwin[i] \/ Coming(signals', 0, i, AnyKind)
        /\ \A i, W : Coming(signals, 0, i, W) => Coming(signals', 0, i, W)
    BY <1>0, <2>8, <2>1, KwinSetKeeps
  <2>4. /\ Moves(a) /\ UNCHANGED mem
        /\ task'[a].off = task[a].off \ {o}
        /\ pc'[a] = IF task[a].off \ {o} = {} THEN "end" ELSE "unset"
    BY <1>0, <1>1, AfterMoves
  <2>5. Shape'
    BY <1>0, <2>1, <2>2, <2>3, <2>4, MovesShape DEF Shape
  <2>6. Starting'
    BY <1>0, <2>4 DEF AgreesInv, Starting, Idle, Moves, Actor
  <2>7. ASSUME NEW i \in (known \cap plugged) \ unsent' PROVE Due(i)'
    <3> i \in Monitor
      BY <1>0 DEF Shape
    <3>1. CASE Coming(signals', 0, i, AnyKind)
      BY <3>1 DEF Due
    <3>2. CASE i = o /\ ~mem[i].on
      BY <2>1, <2>2, <2>4, <3>2 DEF Due, Fits
    <3>3. CASE i \notin unsent /\ ~(i = o /\ ~mem[i].on) /\ ~Coming(signals', 0, i, AnyKind)
      <4>1. new[i] = kwin[i] /\ ~Coming(signals, 0, i, AnyKind)
        BY <2>3, <3>3
      <4>2. Due(i)
        BY <3>3 DEF AgreesInv, Settled
      <4>3. CASE Fits(mem[i], kwin[i])
        BY <2>2, <2>4, <4>1, <4>3 DEF Due
      <4>4. CASE Clears(task[a], i, mem)
        <5>1. i \in task[a].off \ {o} /\ ~mem[i].on
          BY <3>3, <4>4 DEF Clears
        <5>2. Pending(a, i)'
          BY <2>4, <5>1 DEF Clears, Pending
        <5> QED
          BY <5>2 DEF Due
      <4>5. ASSUME NEW b \in Actor \ {a}, Pending(b, i) PROVE Due(i)'
        <5>1. Pending(b, i)'
          BY <2>4, <4>5 DEF Moves, Pending, Gives, Clears
        <5> QED
          BY <5>1 DEF Due
      <4> QED
        BY <1>0, <4>1, <4>2, <4>3, <4>4, <4>5 DEF Due, Pending
    <3> QED
      BY <1>1, <3>1, <3>2, <3>3
  <2> QED
    BY <1>0, <2>3, <2>5, <2>6, <2>7 DEF AgreesInv, Settled
<1>2. ASSUME NEW o \in task[a].off,
             After(a, task[a].off \ {o}) \/ Broken(a),
             unsent' = unsent \cup (known \cap task[a].off),
             UNCHANGED <<kwin, signals>>
      PROVE  AgreesInv'
  BY <1>0, <1>2, FailKeeps
<1> QED
  BY <1>1, <1>2 DEF Unset

\* The end of an operation
LEMMA EndKeeps ==
    ASSUME AgreesInv, NEW a \in Actor, End(a) \/ Saved(a)
    PROVE  AgreesInv'
<1>0. /\ Shape /\ TaskShape(task[a]) /\ DOMAIN mem = Monitor /\ mode \in Mode /\ task[a].mode \in Mode
      /\ pc[a] \in {"end", "save"}
      /\ UNCHANGED <<kwin, plugged, signals, known, missed, unsent>>
  BY DEF AgreesInv, Shape, TaskShape, End, Saved, compositor, history
<1>1. /\ life \notin {"off", "listed"} /\ life' \in {"on", "started", "ready", "dead"}
      /\ life' = "on" => life = "on" /\ a # Main
  BY <1>0 DEF AgreesInv, Starting, Idle, End, Saved
<1>2. Works(a, known, mem) /\ mode' \in Mode
  <2>1. CASE UNCHANGED <<mem, pc, task, mode>>
    BY <1>0, <2>1 DEF Works, Moves, Shape
  <2>2. CASE Return(a, task[a], task[a].scr, mem) /\ (Switched(task[a]) \/ UNCHANGED mode)
    BY <1>0, <2>2, ReturnWorks DEF Switched
  <2>3. CASE /\ \E cfg : Save(a, [task[a] EXCEPT !.op = "stored"], cfg)
             /\ UNCHANGED <<mem, mode>>
    BY <1>0, <2>3, SaveMoves, NotedShape DEF Works
  <2>4. CASE Saved(a)
    BY <2>2, <2>4 DEF Saved
  <2>5. CASE End(a)
    BY <2>1, <2>2, <2>3, <2>5 DEF End, work, shown
  <2> QED
    BY <2>4, <2>5
<1> QED
  BY <1>0, <1>1, <1>2, WorksKeep

LEMMA TwoGoroutines == Main # Loop
<1> SUFFICES ASSUME Main = Loop PROVE FALSE
  OBVIOUS
<1>1. {Main, Loop} = {Main}
  OBVIOUS
<1>2. Cardinality({Main}) = 1
  BY FS_Singleton
<1>3. Cardinality({Main, Loop}) = 2
  BY ConstantsAssumption DEF ConstantsAssumption
<1>4. Cardinality({Main}) = 2
  BY <1>1, <1>3, Zenon
<1> QED
  BY <1>2, <1>4

LEMMA UpdateWorks ==
    ASSUME Shape, NEW K \in SUBSET Monitor, NEW mm, DOMAIN mm = Monitor, UpdateMonitorsId(K, mm)
    PROVE  Works(Loop, K, mm)
<1>0. Loop \in Actor
  BY DEF Actor
<1>1. CASE K = ids
  BY <1>0, <1>1 DEF UpdateMonitorsId, Works, Moves, Shape
<1>2. CASE K # ids
  <2>1. ApplyDisplayMode(Loop, "ids", K, mm)
    BY <1>2 DEF UpdateMonitorsId
  <2> QED
    BY <1>0, <2>1, ApplyDisplayModeWorks
<1> QED
  BY <1>1, <1>2

\* A signal is handled: the daemon takes over what it says, or has a command
\* for every monitor.
LEMMA HeardKeeps ==
    ASSUME AgreesInv, Listening, pc[Loop] = "idle", signals # <<>>, signals' = Tail(signals),
           UNCHANGED <<kwin, plugged, life, mode>>, NEW i, i = signals[1].m,
           known' \subseteq known \cup {i}, known \subseteq known' \cup {i},
           missed' \subseteq missed, missed \subseteq missed' \cup {i},
           i \in known' <=> signals[1].kind # "removed",
           NEW mm, Works(Loop, known', mm),
           \A j \in Monitor \ {i} : mm[j] = mem[j],
           i \in known' => mm[i] = Seen(signals[1]),
           unsent \ {i} \subseteq unsent'
    PROVE  AgreesInv'
<1>0. Shape /\ Moves(Loop) /\ DOMAIN mem' = Monitor /\ Loop \in Actor
  BY DEF AgreesInv, Works, Actor
<1>1. /\ IsSeq(signals') /\ 1 \in DOMAIN signals
      /\ \A n \in DOMAIN signals' : n + 1 \in DOMAIN signals /\ signals'[n] = signals[n + 1]
      /\ \A j, W : Coming(signals, 1, j, W) => Coming(signals', 0, j, W)
      /\ \A j, W : Coming(signals, 0, j, W) =>
             Coming(signals', 0, j, W) \/ (signals[1].m = j /\ signals[1].kind \in W)
  BY <1>0, Handled DEF Shape
<1>2. i \in Monitor
  BY <1>0, <1>1 DEF Shape
<1>3. /\ signals[1].kind = "removed" /\ i \in plugged => Coming(signals, 1, i, {"added"})
      /\ signals[1].kind # "removed" /\ i \notin plugged => Coming(signals, 1, i, {"removed"})
      /\ Like(signals[1], kwin[i]) \/ Coming(signals, 1, i, AnyKind)
  BY <1>1 DEF AgreesInv, Truthful
<1>4. Shape'
  <2>1. \A n \in DOMAIN signals' : signals'[n].m \in Monitor /\ signals'[n].kind \in AnyKind
    BY <1>0, <1>1 DEF Shape
  <2>2. known' \subseteq Monitor
    BY <1>0, <1>2 DEF Shape
  <2> QED
    BY <1>0, <1>1, <2>1, <2>2, MovesShape DEF Shape
<1>5. Starting'
  BY <1>0, TwoGoroutines DEF AgreesInv, Starting, Listening, Moves, Actor
<1>6. Present'
  <2>1. ASSUME NEW j \in known' \ missed' PROVE j \in plugged \/ Coming(signals', 0, j, {"removed"})
    <3>1. CASE j = i
      BY <1>1, <1>3, <2>1, <3>1
    <3>2. CASE j # i
      <4>1. j \in known \ missed /\ life # "off"
        BY <2>1, <3>2 DEF Listening
      <4> QED
        BY <1>1, <3>2, <4>1 DEF AgreesInv, Present
    <3> QED
      BY <3>1, <3>2
  <2>2. ASSUME NEW j \in plugged \ missed' PROVE j \in known' \/ Coming(signals', 0, j, {"added"})
    <3>1. CASE j = i
      BY <1>1, <1>3, <2>2, <3>1
    <3>2. CASE j # i
      <4>1. j \in plugged \ missed /\ life # "off" /\ (j \in known' <=> j \in known)
        BY <2>2, <3>2 DEF Listening
      <4> QED
        BY <1>1, <3>2, <4>1 DEF AgreesInv, Present
    <3> QED
      BY <3>1, <3>2
  <2> QED
    BY <2>1, <2>2 DEF Present
<1>7. Truthful'
  BY <1>0, TruthfulHandled DEF AgreesInv
<1>8. ASSUME NEW j \in (known' \cap plugged') \ unsent' PROVE Due(j)'
  <2>0. j \in Monitor
    BY <1>4 DEF Shape
  <2>1. CASE \A k \in known' : Pending(Loop, k)'
    BY <1>0, <2>1 DEF Due
  <2>2. CASE mem' = mm /\ j = i
    <3>1. CASE Coming(signals, 1, i, AnyKind)
      BY <1>1, <2>2, <3>1 DEF Due
    <3>2. CASE Like(signals[1], kwin[i])
      <4>1. Fits(mm[i], kwin[i])
        BY <2>2, <3>2 DEF Fits, Like, Seen
      <4> QED
        BY <2>2, <4>1 DEF Due
    <3> QED
      BY <1>3, <3>1, <3>2
  <2>3. CASE mem' = mm /\ j # i
    <3>1. mem'[j] = mem[j] /\ Due(j)
      BY <2>0, <2>3 DEF AgreesInv, Settled
    <3>2. CASE Fits(mem[j], kwin[j])
      BY <3>1, <3>2 DEF Due
    <3>3. CASE Coming(signals, 0, j, AnyKind)
      BY <1>1, <2>3, <3>3 DEF Due
    <3>4. CASE \E b \in Actor : Pending(b, j)
      BY <1>0, <3>1, <3>4, OthersPending DEF Due
    <3> QED
      BY <3>1, <3>2, <3>3, <3>4 DEF Due
  <2> QED
    BY <2>1, <2>2, <2>3 DEF Works
<1> QED
  BY <1>4, <1>5, <1>6, <1>7, <1>8 DEF AgreesInv, Settled

LEMMA SignalKeeps ==
    ASSUME AgreesInv, SignalStep
    PROVE  AgreesInv'
<1> DEFINE s == Head(signals)
           i == signals[1].m
<1>0. /\ Listening /\ pc[Loop] = "idle" /\ signals # <<>> /\ signals' = Tail(signals)
      /\ UNCHANGED <<kwin, plugged, life, mode>>
  BY DEF SignalStep, OutputAdded, OutputRemoved, OutputChanged, Handling, compositor
<1>1. s = signals[1] /\ 1 \in DOMAIN signals
  BY <1>0, Handled DEF AgreesInv, Shape
<1>2. /\ Shape /\ DOMAIN mem = Monitor /\ known \in SUBSET Monitor /\ i \in Monitor
      /\ Loop \in Actor /\ mode \in Mode
  BY <1>1 DEF AgreesInv, Shape, Actor
<1>3. s.m = i
  BY <1>1
<1> DEFINE seen == [mem EXCEPT ![i] = Seen(s)]
<1>4. DOMAIN seen = Monitor /\ seen[i] = Seen(s) /\ \A j \in Monitor \ {i} : seen[j] = mem[j]
  BY <1>2
<1> HIDE DEF s, i, seen
<1>5. CASE OutputAdded
  <2>1. /\ s.kind = "added" /\ known' = known \cup {i}
        /\ UpdateMonitorsId(known', seen) /\ unsent' = unsent \ {i} /\ UNCHANGED missed
    BY <1>3, <1>5 DEF OutputAdded, Handling, s, seen
  <2>2. Works(Loop, known', seen)
    BY <1>2, <1>4, <2>1, UpdateWorks
  <2> QED
    BY <1>0, <1>1, <1>4, <2>1, <2>2, HeardKeeps DEF i
<1>6. CASE OutputRemoved
  <2> DEFINE gone == [mem EXCEPT ![i] = Off]
  <2>1. /\ s.kind = "removed" /\ unsent' = unsent \ {i} /\ UNCHANGED missed
        /\ known' = known \ {i}
        /\ IF i \in known THEN UpdateMonitorsId(known', gone) ELSE UNCHANGED <<mem, pc, task>>
    BY <1>3, <1>6 DEF OutputRemoved, Handling, s, work
  <2>2. DOMAIN gone = Monitor /\ \A j \in Monitor \ {i} : gone[j] = mem[j]
    BY <1>2
  <2> HIDE DEF gone
  <2>3. CASE i \in known
    <3>1. Works(Loop, known', gone)
      BY <1>2, <2>1, <2>2, <2>3, UpdateWorks
    <3> QED
      BY <1>0, <1>1, <2>1, <2>2, <3>1, HeardKeeps DEF i
  <2>4. CASE i \notin known
    <3>1. Works(Loop, known', mem)
      BY <1>2, <2>1, <2>4 DEF Works, Moves, Shape
    <3> QED
      BY <1>0, <1>1, <2>1, <3>1, HeardKeeps DEF i
  <2> QED
    BY <2>3, <2>4
<1>7. CASE OutputChanged
  <2>1. s.kind = "changed"
    BY <1>7 DEF OutputChanged, Handling, s
  <2>2. CASE /\ i \notin known /\ known' = known \cup {i}
             /\ UpdateMonitorsId(known', seen) /\ missed' = missed \ {i} /\ UNCHANGED unsent
    <3>1. Works(Loop, known', seen)
      BY <1>2, <1>4, <2>2, UpdateWorks
    <3> QED
      BY <1>0, <1>1, <1>4, <2>1, <2>2, <3>1, HeardKeeps DEF i
  <2>3. CASE /\ i \in known /\ mem' = seen /\ unsent' = unsent \ {i}
             /\ UNCHANGED <<known, pc, task, missed>>
    <3>1. Works(Loop, known', seen)
      BY <1>2, <1>4, <2>3 DEF Works, Moves, Shape
    <3> QED
      BY <1>0, <1>1, <1>4, <2>1, <2>3, <3>1, HeardKeeps DEF i
  <2>4. CASE /\ i \in known
             /\ Start(Loop, [For("call", mode, "", known) EXCEPT !.op = "check"], known, mem)
             /\ UNCHANGED <<known, unsent, missed>>
    <3>1. TaskShape([For("call", mode, "", known) EXCEPT !.op = "check"])
      BY <1>2, ForShape, NotedShape
    <3>2. Works(Loop, known', seen)
      BY <1>2, <2>4, <3>1, StartWorks
    <3> QED
      BY <1>0, <1>1, <1>4, <2>1, <2>4, <3>2, HeardKeeps DEF i
  <2> QED
    BY <1>3, <1>7, <2>2, <2>3, <2>4 DEF OutputChanged, s, seen
<1> QED
  BY <1>5, <1>6, <1>7 DEF SignalStep

LEMMA StartKeeps ==
    ASSUME AgreesInv, StartStep
    PROVE  AgreesInv'
<1>1. ASSUME NEW stored, List(stored) PROVE AgreesInv'
  <2>1. /\ life = "off" /\ life' = "listed" /\ signals = <<>> /\ Idle
        /\ UNCHANGED <<kwin, plugged, signals, mode, pc, task, unsent>>
        /\ known' \subseteq plugged /\ missed' = plugged \ known'
        /\ mem' = [i \in Monitor |-> IF i \in known' THEN Seen(kwin[i]) ELSE Off]
    BY <1>1 DEF List, AgreesInv, Starting, compositor
  <2>2. Shape'
    BY <2>1 DEF AgreesInv, Shape
  <2>3. Starting'
    BY <2>1 DEF Starting, Idle
  <2>4. Present'
    BY <2>1 DEF Present
  <2>5. Truthful'
    BY <2>1 DEF Truthful
  <2>6. ASSUME NEW i \in (known' \cap plugged') \ unsent' PROVE Due(i)'
    <3>1. mem'[i] = Seen(kwin[i])
      BY <2>1, <2>6 DEF AgreesInv, Shape
    <3>2. Fits(mem'[i], kwin[i])
      BY <3>1 DEF Fits, Seen
    <3> QED
      BY <2>1, <3>2 DEF Due
  <2> QED
    BY <2>2, <2>3, <2>4, <2>5, <2>6 DEF AgreesInv, Settled
<1>2. CASE Listen \/ Serve
  <2>1. /\ UNCHANGED <<kwin, plugged, signals, known, mode, mem, pc, task, unsent, missed>>
        /\ life # "off" /\ life' \in {"on", "ready"}
        /\ life' = "on" => life = "listed"
    BY <1>2 DEF Listen, Serve, compositor, shown, work, history
  <2>2. Shape'
    BY <2>1 DEF AgreesInv, Shape
  <2>3. Starting'
    BY <2>1 DEF AgreesInv, Starting, Idle, Actor
  <2>4. Present' /\ Truthful'
    BY <2>1, Unheard DEF AgreesInv
  <2>5. Settled'
    BY <2>1 DEF AgreesInv, Settled, Due, Pending, Gives, Clears
  <2> QED
    BY <2>2, <2>3, <2>4, <2>5 DEF AgreesInv
<1>3. CASE Apply
  <2>1. /\ Shape /\ Main \in Actor /\ pc[Main] = "idle" /\ known \in SUBSET Monitor /\ DOMAIN mem = Monitor
        /\ mode \in Mode
    BY <1>3 DEF Apply, AgreesInv, Shape, Starting, Actor
  <2>2. ApplyDisplayMode(Main, "init", known, mem)
    BY <1>3 DEF Apply
  <2>3. Works(Main, known, mem)
    BY <2>1, <2>2, ApplyDisplayModeWorks
  <2> QED
    BY <1>3, <2>1, <2>3, WorksKeep DEF Apply, compositor, shown
<1> QED
  BY <1>1, <1>2, <1>3 DEF StartStep

\* An output comes, goes or is changed by others.
LEMMA ChangeKeeps ==
    ASSUME AgreesInv, life # "dead", NEW i \in Monitor, NEW kind \in AnyKind, NEW on, NEW p, NEW size, NEW why,
           Change(i, kind, on, p, size, why),
           kind = "changed" => plugged' = plugged /\ i \in plugged,
           kind = "added" => plugged' = plugged \cup {i} /\ i \notin plugged,
           kind = "removed" => plugged' = plugged \ {i} /\ i \in plugged
    PROVE  AgreesInv'
<1>0. /\ Shape /\ UNCHANGED <<life, known, mode, mem, pc, task>>
      /\ plugged' \subseteq Monitor
      /\ \A j \in Monitor \ {i} : j \in plugged' <=> j \in plugged
      /\ kind = "added" <=> i \notin plugged
      /\ kind = "removed" <=> i \notin plugged'
  BY DEF Change, AgreesInv, Shape, AnyKind, shown, work
<1>1. /\ DOMAIN kwin' = Monitor /\ \A j \in Monitor : "on" \in DOMAIN kwin'[j]
      /\ \A j \in Monitor \ {i} : kwin'[j] = kwin[j]
  BY <1>0 DEF Change, Shape
<1>2. CASE ~Listening
  <2>1. /\ signals = <<>> /\ UNCHANGED signals
        /\ missed' = missed \cup {i} /\ known \cap {i} \subseteq unsent' /\ unsent \subseteq unsent'
    BY <1>2 DEF AgreesInv, Starting, Listening, Change
  <2>2. Shape'
    BY <1>0, <1>1, <2>1 DEF Shape
  <2>3. Starting'
    BY <1>0, <2>1 DEF AgreesInv, Starting, Idle
  <2>4. Present'
    BY <1>0, <2>1 DEF AgreesInv, Present, Shape
  <2>5. Truthful'
    BY <2>1 DEF Truthful
  <2>6. ASSUME NEW j \in (known' \cap plugged') \ unsent' PROVE Due(j)'
    <3>1. j \in Monitor \ {i} /\ j \in (known \cap plugged) \ unsent
      BY <1>0, <2>1, <2>6
    <3>2. Due(j) /\ kwin'[j] = kwin[j]
      BY <1>1, <3>1 DEF AgreesInv, Settled
    <3> QED
      BY <1>0, <2>1, <3>2 DEF Due, Pending, Gives, Clears
  <2> QED
    BY <2>2, <2>3, <2>4, <2>5, <2>6 DEF AgreesInv, Settled
<1>3. CASE Listening
  <2>1. /\ signals' = signals \o Announced(kind, {i}, kwin')
        /\ UNCHANGED <<missed, unsent>>
    BY <1>3 DEF Change
  <2>2. Announces(signals, signals', kind, {i}, kwin')
    BY <1>0, <2>1, Announcing DEF Shape
  <2>3. /\ IsSeq(signals')
        /\ \A j, W : Coming(signals, 0, j, W) => Coming(signals', 0, j, W)
        /\ Coming(signals', 0, i, {kind})
    BY <2>2 DEF Announces
  <2>4. Coming(signals', 0, i, AnyKind)
    BY <2>3, ComingAny
  <2>5. Shape'
    <3>1. \A n \in DOMAIN signals' : signals'[n].m \in Monitor /\ signals'[n].kind \in AnyKind
      BY <1>0, <2>2 DEF Announces, Shape
    <3> QED
      BY <1>0, <1>1, <2>3, <3>1 DEF Shape
  <2>6. Starting'
    BY <1>0, <1>3 DEF AgreesInv, Starting, Idle, Listening
  <2>7. Present'
    <3>1. ASSUME NEW j \in known' \ missed' PROVE j \in plugged' \/ Coming(signals', 0, j, {"removed"})
      <4>1. CASE j = i
        BY <1>0, <2>3, <4>1
      <4>2. CASE j # i
        BY <1>0, <1>3, <2>1, <2>3, <3>1, <4>2 DEF AgreesInv, Present, Listening, Shape
      <4> QED
        BY <4>1, <4>2
    <3>2. ASSUME NEW j \in plugged' \ missed' PROVE j \in known' \/ Coming(signals', 0, j, {"added"})
      <4>1. CASE j = i /\ i \notin plugged
        BY <1>0, <2>3, <4>1
      <4>2. CASE j # i \/ i \in plugged
        BY <1>0, <1>3, <2>1, <2>3, <3>2, <4>2 DEF AgreesInv, Present, Listening, Shape
      <4> QED
        BY <4>1, <4>2
    <3> QED
      BY <3>1, <3>2 DEF Present
  <2>8. Truthful'
    BY <1>0, <1>1, <2>1, TruthfulPlugged DEF AgreesInv
  <2>9. ASSUME NEW j \in (known' \cap plugged') \ unsent' PROVE Due(j)'
    <3>1. CASE j = i
      BY <2>4, <3>1 DEF Due
    <3>2. CASE j # i
      <4>1. j \in (known \cap plugged) \ unsent /\ j \in Monitor \ {i}
        BY <1>0, <2>1, <2>9, <3>2
      <4>2. Due(j) /\ kwin'[j] = kwin[j]
        BY <1>1, <4>1 DEF AgreesInv, Settled
      <4> QED
        BY <1>0, <2>3, <4>2 DEF Due, Pending, Gives, Clears
    <3> QED
      BY <3>1, <3>2
  <2> QED
    BY <2>5, <2>6, <2>7, <2>8, <2>9 DEF AgreesInv, Settled
<1> QED
  BY <1>2, <1>3

LEMMA CompositorKeeps ==
    ASSUME AgreesInv, life # "dead", CompositorStep
    PROVE  AgreesInv'
<1>1. ASSUME NEW i \in Monitor, NEW p, Plug(i, p) PROVE AgreesInv'
  BY <1>1, ChangeKeeps DEF Plug, AnyKind
<1>2. ASSUME NEW i \in Monitor, Unplug(i) PROVE AgreesInv'
  BY <1>2, ChangeKeeps DEF Unplug, AnyKind
<1>3. ASSUME NEW i \in Monitor, NEW on, NEW p, Move(i, on, p) PROVE AgreesInv'
  BY <1>3, ChangeKeeps DEF Move, AnyKind
<1> QED
  BY <1>1, <1>2, <1>3 DEF CompositorStep

\* What the daemon does not know yet is always on its way to it.
LEMMA AgreesAlways == Spec => []AgreesInv
<1>1. Init => AgreesInv
  <2> SUFFICES ASSUME Init PROVE AgreesInv
    OBVIOUS
  <2>1. IsSeq(signals) /\ DOMAIN signals = {}
    <3>1. signals = <<>>
      BY DEF Init
    <3>2. <<>> \in Seq({}) /\ DOMAIN <<>> = {}
      OBVIOUS
    <3> QED
      BY <3>1, <3>2, SeqOfOwn
  <2>2. Shape
    <3>1. /\ DOMAIN kwin = Monitor /\ \A i \in Monitor : "on" \in DOMAIN kwin[i]
          /\ DOMAIN mem = Monitor /\ known \subseteq Monitor
      BY DEF Init
    <3>2. plugged \subseteq Monitor /\ mode \in Mode
      BY ConstantsAssumption DEF ConstantsAssumption, Init, Mode
    <3>3. DOMAIN pc = Actor /\ DOMAIN task = Actor /\ \A a \in Actor : TaskShape(task[a])
      BY RestShape DEF Init
    <3> QED
      BY <2>1, <3>1, <3>2, <3>3 DEF Shape
  <2>3. Starting /\ Present /\ Truthful /\ Settled
    BY <2>1 DEF Init, Starting, Present, Truthful, Settled, Idle, Actor
  <2> QED
    BY <2>2, <2>3 DEF AgreesInv
<1>2. AgreesInv /\ [Next]_vars => AgreesInv'
  <2> SUFFICES ASSUME AgreesInv, [Next]_vars PROVE AgreesInv'
    OBVIOUS
  <2>1. CASE UNCHANGED vars
    <3>1. UNCHANGED <<kwin, plugged, signals, life, known, mode, mem, pc, task, unsent, missed>>
      BY <2>1 DEF vars, compositor, shown, work, history
    <3> QED
      BY <3>1 DEF AgreesInv, Shape, Starting, Idle, Present, Truthful, Settled, Due, Pending, Gives, Clears
  <2>2. ASSUME NEW c \in Caller, CallStep(c) PROVE AgreesInv'
    BY <2>2, CallKeeps
  <2>3. CASE CommandStep
    BY <2>3, SetKeeps, UnsetKeeps, EndKeeps DEF CommandStep
  <2>4. CASE SignalStep
    BY <2>4, SignalKeeps
  <2>5. CASE StartStep
    BY <2>5, StartKeeps
  <2>6. CASE life # "dead" /\ CompositorStep
    BY <2>6, CompositorKeeps
  <2> QED
    BY <2>1, <2>2, <2>3, <2>4, <2>5, <2>6 DEF Next
<1> QED
  BY <1>1, <1>2, PTL DEF Spec

\* Once every call, command and signal is done, the daemon knows the outputs
\* that are plugged, and of each the settings that the compositor has, but for
\* those that were edited and not applied, whose command failed, or that came,
\* went or changed before main listened.
THEOREM DaemonAgrees == Spec => []Agrees
<1>1. AgreesInv => Agrees
  <2> SUFFICES ASSUME AgreesInv, Quiet PROVE /\ known \ missed = plugged \ missed
                                             /\ \A i \in (known \cap plugged) \ unsent : Fits(mem[i], kwin[i])
    BY DEF Agrees, Fits
  <2>1. \A n, i, W : ~Coming(signals, n, i, W)
    BY DEF Quiet, Coming
  <2>2. known \ missed = plugged \ missed
    BY <2>1 DEF AgreesInv, Present, Quiet
  <2>3. \A i, a : a \in Actor => ~Pending(a, i)
    BY DEF Quiet, Idle, Pending
  <2> QED
    BY <2>1, <2>2, <2>3 DEF AgreesInv, Settled, Due
<1> QED
  BY <1>1, AgreesAlways, PTL

-----------------------------------------------------------------------------
(* Two monitors are brought together.                                      *)

\* The sizes of modes are even, so that halving them is exact.
Even == {2 * n : n \in Nat}
\* Rectangles with coordinates in X and sizes in S
Box(X, S) == [x : X, y : X, w : S, h : S]
Rectangle == Box(Int16, Even)
Apiece == Box(Int16, Nat)

\* A nonempty set of numbers has a least one.
LEMMA LeastNumber ==
    ASSUME NEW T \in SUBSET Nat, T # {}
    PROVE  \E m \in T : \A n \in T : m <= n
<1> DEFINE R == StrictSubsetOrdering(Nat)
           F == FiniteSubsetsOf(Nat)
           I == {0 .. n : n \in T}
<1>1. I \subseteq F /\ I # {}
  <2>1. ASSUME NEW n \in T PROVE 0 .. n \in F
    BY FS_Interval DEF FiniteSubsetsOf
  <2> QED
    BY <2>1
<1>2. PICK J \in I : \A K \in I : <<K, J>> \notin R
  <2> HIDE DEF R, F, I
  <2>1. IsWellFoundedOn(R, F)
    BY FS_StrictSubsetOrderingWellFounded DEF R, F
  <2> QED
    BY <1>1, <2>1, WFMin
<1>3. PICK m \in T : J = 0 .. m
  OBVIOUS
<1>4. ASSUME NEW n \in T, n < m PROVE FALSE
  <2>1. 0 .. n \in SUBSET Nat /\ 0 .. m \in SUBSET Nat
    OBVIOUS
  <2>2. 0 .. n \subseteq 0 .. m /\ 0 .. n # 0 .. m
    BY <1>4
  <2>3. <<0 .. n, 0 .. m>> \in R
    BY <2>1, <2>2 DEF StrictSubsetOrdering
  <2> QED
    BY <1>2, <1>3, <2>3
<1> QED
  BY <1>4

\* What int16 is, by its ends.
LEMMA InInt16 ==
    ASSUME NEW n
    PROVE  n \in Int16 <=> n \in Int /\ -32768 <= n /\ n <= 32767
<1>1. Edge \in Int
  BY DEF Edge
<1>2. n \in Int16 <=> n \in Int /\ -Edge <= n /\ n <= Edge - 1
  BY <1>1 DEF Int16
<1> QED
  BY <1>2 DEF Edge

\* A sum keeps its value within int16, and beyond it is taken a whole turn away.
LEMMA WrapTurn ==
    ASSUME NEW n \in Int
    PROVE  /\ Wrap16(n) \in Int16
           /\ n \in Int16 => Wrap16(n) = n
           /\ 32768 <= n /\ n <= 98303 => Wrap16(n) = n - 65536
           /\ -98304 <= n /\ n <= -32769 => Wrap16(n) = n + 65536
<1>1. /\ Wrap16(n) \in Int /\ -32768 <= Wrap16(n) /\ Wrap16(n) <= 32767
      /\ -32768 <= n /\ n <= 32767 => Wrap16(n) = n
      /\ 32768 <= n /\ n <= 98303 => Wrap16(n) = n - 65536
      /\ -98304 <= n /\ n <= -32769 => Wrap16(n) = n + 65536
  BY DEF Wrap16
<1>2. n \in Int16 => -32768 <= n /\ n <= 32767
  BY InInt16
<1>3. Wrap16(n) \in Int16
  BY <1>1, InInt16
<1> QED
  BY <1>1, <1>2, <1>3

\* The centre of an even section, and half a turn beside it when the sum wraps.
LEMMA HalfOfEven ==
    ASSUME NEW c \in Int
    PROVE  Half(2 * c) = c
<1>1. CASE 2 * c < 0
  <2>1. (-(2 * c)) \div 2 = -c
    BY <1>1
  <2> QED
    BY <1>1, <2>1 DEF Half
<1>2. CASE ~(2 * c < 0)
  <2>1. (2 * c) \div 2 = c
    OBVIOUS
  <2> QED
    BY <1>2, <2>1 DEF Half
<1> QED
  BY <1>1, <1>2

LEMMA MidOfEven ==
    ASSUME NEW x \in Int, NEW n \in Nat
    PROVE  /\ 2 * x + 2 * n \in Int16 => Mid(x, 2 * n) = x + n
           /\ 32768 <= 2 * x + 2 * n /\ 2 * x + 2 * n <= 98303 => Mid(x, 2 * n) = x + n - 32768
           /\ -98304 <= 2 * x + 2 * n /\ 2 * x + 2 * n <= -32769 => Mid(x, 2 * n) = x + n + 32768
<1> DEFINE c == x + n
<1>1. c \in Int /\ 2 * x + 2 * n = 2 * c
  OBVIOUS
<1>2. Half(2 * c) = c /\ Half(2 * (c - 32768)) = c - 32768 /\ Half(2 * (c + 32768)) = c + 32768
  BY <1>1, HalfOfEven
<1>3. 2 * (c - 32768) = 2 * c - 65536 /\ 2 * (c + 32768) = 2 * c + 65536
  BY <1>1
<1>4. Mid(x, 2 * n) = Half(Wrap16(2 * c))
  BY <1>1 DEF Mid
<1> HIDE DEF c
<1>5. /\ 2 * c \in Int16 => Mid(x, 2 * n) = c
      /\ 32768 <= 2 * c /\ 2 * c <= 98303 => Mid(x, 2 * n) = c - 32768
      /\ -98304 <= 2 * c /\ 2 * c <= -32769 => Mid(x, 2 * n) = c + 32768
  <2>1. 2 * c \in Int
    BY <1>1
  <2> QED
    BY <1>2, <1>3, <1>4, <2>1, WrapTurn
<1> QED
  BY <1>1, <1>5 DEF c

\* A section of length w at one of the places where it is joined to x .. x + v
Joint(y, x, v, w) == y \in {x - w, x, x + v - w, x + v}

\* As long as nothing wraps that may hide an overlap, Overlap says of sections of even
\* lengths what it is meant to.
LEMMA OverlapInReach ==
    ASSUME NEW x \in Int, NEW v \in Even, NEW w \in Even, NoWrap(x, v, w), NEW y, Joint(y, x, v, w)
    PROVE  Overlap(y, w, x, v) <=> ~(y + w <= x \/ x + v <= y)
<1>1. PICK m \in Nat, n \in Nat : v = 2 * m /\ w = 2 * n
  BY DEF Even
<1>2. /\ x - 2 * n \in Int16 /\ x + 2 * m \in Int16 /\ 2 * m + 2 * n \in Int16
      /\ 2 * x + 2 * m \in Int16 /\ 2 * x + 2 * n \in Int16 /\ 2 * (x + 2 * m) - 2 * n \in Int16
  BY <1>1 DEF NoWrap
<1>3. m + n <= 16383 /\ (w + v) % 65536 = 2 * (m + n) /\ (2 * (m + n)) \div 2 = m + n
  BY <1>1, <1>2, InInt16
<1>4. Mid(x, v) = x + m
  BY <1>1, <1>2, MidOfEven
<1>5. Overlap(y, w, x, v) <=> Abs(Wrap16(Mid(y, w) - (x + m))) < m + n
  BY <1>3, <1>4 DEF Overlap
<1>6. CASE y = x
  <2>1. Mid(y, w) = x + n
    BY <1>1, <1>2, <1>6, MidOfEven
  <2>2. (x + n) - (x + m) = n - m /\ n - m \in Int16
    BY <1>3, InInt16
  <2>3. Wrap16(n - m) = n - m
    BY <2>2, WrapTurn
  <2>4. Overlap(y, w, x, v) <=> Abs(n - m) < m + n
    BY <1>5, <2>1, <2>2, <2>3
  <2> QED
    BY <1>1, <1>6, <2>4 DEF Abs
<1>7. CASE y = x + v - w
  <2>1. 2 * y + 2 * n = 2 * (x + 2 * m) - 2 * n /\ y \in Int
    BY <1>1, <1>7
  <2>2. Mid(y, w) = y + n
    BY <1>1, <1>2, <2>1, MidOfEven
  <2>3. (y + n) - (x + m) = m - n /\ m - n \in Int16
    BY <1>1, <1>3, <1>7, InInt16
  <2>4. Wrap16(m - n) = m - n
    BY <2>3, WrapTurn
  <2>5. Overlap(y, w, x, v) <=> Abs(m - n) < m + n
    BY <1>5, <2>2, <2>3, <2>4
  <2> QED
    BY <1>1, <1>7, <2>5 DEF Abs
<1>8. CASE y = x - w
  <2>1. /\ y \in Int /\ y + n = x - n
        /\ 2 * y + 2 * n \in Int16 \/ (-98304 <= 2 * y + 2 * n /\ 2 * y + 2 * n <= -32769)
    BY <1>1, <1>2, <1>8, InInt16
  <2>2. Mid(y, w) = x - n \/ Mid(y, w) = x - n + 32768
    BY <1>1, <2>1, MidOfEven
  <2>3. Mid(y, w) - (x + m) = -(m + n) \/ Mid(y, w) - (x + m) = 32768 - (m + n)
    BY <2>2
  <2>4. /\ Wrap16(-(m + n)) = -(m + n)
        /\ Wrap16(32768 - (m + n)) \in {32768 - (m + n), -32768 - (m + n)}
    BY <1>3, WrapTurn, InInt16
  <2>5. ~(Abs(Wrap16(Mid(y, w) - (x + m))) < m + n)
    BY <1>3, <2>3, <2>4 DEF Abs
  <2> QED
    BY <1>1, <1>5, <1>8, <2>5
<1>9. CASE y = x + v
  <2>1. /\ y \in Int /\ y + n = x + 2 * m + n
        /\ 2 * y + 2 * n \in Int16 \/ (32768 <= 2 * y + 2 * n /\ 2 * y + 2 * n <= 98303)
    BY <1>1, <1>2, <1>9, InInt16
  <2>2. Mid(y, w) = x + 2 * m + n \/ Mid(y, w) = x + 2 * m + n - 32768
    BY <1>1, <2>1, MidOfEven
  <2>3. Mid(y, w) - (x + m) = m + n \/ Mid(y, w) - (x + m) = m + n - 32768
    BY <2>2
  <2>4. Wrap16(m + n) = m + n /\ Wrap16(m + n - 32768) = m + n - 32768
    BY <1>3, WrapTurn, InInt16
  <2>5. ~(Abs(Wrap16(Mid(y, w) - (x + m))) < m + n)
    BY <1>3, <2>3, <2>4 DEF Abs
  <2> QED
    BY <1>1, <1>5, <1>9, <2>5
<1> QED
  BY <1>6, <1>7, <1>8, <1>9 DEF Joint

\* The fields of a rectangle
LEMMA PlaceType ==
    ASSUME NEW X \in SUBSET Int16, NEW S \in SUBSET Nat, NEW r \in Box(X, S)
    PROVE  /\ r.x \in Int16 /\ r.y \in Int16 /\ r.w \in S /\ r.h \in S
           /\ r.x \in Int /\ r.y \in Int /\ r.w \in Nat /\ r.h \in Nat
           /\ r = [x |-> r.x, y |-> r.y, w |-> r.w, h |-> r.h]
<1>1. r.x \in X /\ r.y \in X /\ r.w \in S /\ r.h \in S /\ r = [x |-> r.x, y |-> r.y, w |-> r.w, h |-> r.h]
  BY DEF Box
<1>2. r.x \in Int16 /\ r.y \in Int16 /\ r.w \in Nat /\ r.h \in Nat
  BY <1>1
<1> QED
  BY <1>1, <1>2, InInt16

LEMMA EvenType == Even \in SUBSET Nat
BY DEF Even

LEMMA Corners ==
    ASSUME NEW r, r.x \in Int, r.y \in Int, r.w \in Int, r.h \in Int
    PROVE  /\ Corner(r, 0) = <<r.x, r.y>>
           /\ Corner(r, 1) = <<r.x + r.w, r.y>>
           /\ Corner(r, 2) = <<r.x, r.y + r.h>>
           /\ Corner(r, 3) = <<r.x + r.w, r.y + r.h>>
<1>1. ASSUME NEW n \in Int PROVE 0 * n = 0 /\ 1 * n = n
  OBVIOUS
<1>2. /\ 0 % 2 = 0 /\ 1 % 2 = 1 /\ 2 % 2 = 0 /\ 3 % 2 = 1
      /\ 0 \div 2 = 0 /\ 1 \div 2 = 0 /\ 2 \div 2 = 1 /\ 3 \div 2 = 1
  OBVIOUS
<1> QED
  BY <1>1, <1>2 DEF Corner

LEMMA MovedBox ==
    ASSUME NEW S \in SUBSET Nat, NEW r \in Box(Int16, S), NEW o, o[1] \in Int, o[2] \in Int
    PROVE  /\ Moved(r, o) = [x |-> Wrap16(r.x - o[1]), y |-> Wrap16(r.y - o[2]), w |-> r.w, h |-> r.h]
           /\ Moved(r, o) \in Box(Int16, S)
<1>1. /\ r = [x |-> r.x, y |-> r.y, w |-> r.w, h |-> r.h] /\ r.w \in S /\ r.h \in S
      /\ r.x \in Int /\ r.y \in Int
  BY PlaceType
<1>2. PICK v : v = Moved(r, o)
  OBVIOUS
<1>3. v = [x |-> Wrap16(r.x - o[1]), y |-> Wrap16(r.y - o[2]), w |-> r.w, h |-> r.h]
  BY <1>1, <1>2 DEF Moved
<1>4. Wrap16(r.x - o[1]) \in Int16 /\ Wrap16(r.y - o[2]) \in Int16
  BY <1>1, WrapTurn
<1>5. v \in Box(Int16, S)
  BY <1>1, <1>3, <1>4 DEF Box
<1> QED
  BY <1>2, <1>3, <1>5

LEMMA OffsetType ==
    ASSUME NEW r \in Apiece, NEW s \in Apiece, NEW i \in 0 .. 3, NEW j \in 0 .. 3
    PROVE  LET o == Offset(r, s, <<i, j>>)
           IN  /\ o[1] = Corner(r, i)[1] - Corner(s, j)[1] /\ o[1] \in Int
               /\ o[2] = Corner(r, i)[2] - Corner(s, j)[2] /\ o[2] \in Int
<1>1. /\ r.x \in Int /\ r.y \in Int /\ r.w \in Int /\ r.h \in Int
      /\ s.x \in Int /\ s.y \in Int /\ s.w \in Int /\ s.h \in Int
  BY PlaceType DEF Apiece
<1>2. i \in {0, 1, 2, 3} /\ j \in {0, 1, 2, 3}
  OBVIOUS
<1>3. \A n \in {0, 1, 2, 3} : /\ Corner(r, n)[1] \in Int /\ Corner(r, n)[2] \in Int
                             /\ Corner(s, n)[1] \in Int /\ Corner(s, n)[2] \in Int
  BY <1>1, Corners
<1> QED
  BY <1>2, <1>3 DEF Offset

\* There is room beside s for r.
Room(x, v, w) == x - w \in Int16 /\ x + v \in Int16
RoomFor(r, s) == Room(s.x, s.w, r.w) /\ Room(s.y, s.h, r.h)

\* r is moved so that its corner i is at the corner j of s.
IsMoved(t, r, s, i, j) ==
    /\ t.x = r.x - (Corner(r, i)[1] - Corner(s, j)[1])
    /\ t.y = r.y - (Corner(r, i)[2] - Corner(s, j)[2])
    /\ t.w = r.w /\ t.h = r.h

LEMMA MovedThere ==
    ASSUME NEW r \in Apiece, NEW s \in Apiece, NEW i \in 0 .. 3, NEW j \in 0 .. 3, RoomFor(r, s)
    PROVE  LET t == Moved(r, Offset(r, s, <<i, j>>))
           IN  /\ IsMoved(t, r, s, i, j)
               /\ Joint(t.x, s.x, s.w, r.w) /\ Joint(t.y, s.y, s.h, r.h)
<1> DEFINE o == Offset(r, s, <<i, j>>)
           x == r.x - (Corner(r, i)[1] - Corner(s, j)[1])
           y == r.y - (Corner(r, i)[2] - Corner(s, j)[2])
<1>1. /\ r.x \in Int /\ r.y \in Int /\ r.w \in Nat /\ r.h \in Nat
      /\ s.x \in Int /\ s.y \in Int /\ s.w \in Nat /\ s.h \in Nat
  BY PlaceType DEF Apiece
<1>2. /\ o[1] = Corner(r, i)[1] - Corner(s, j)[1] /\ o[1] \in Int
      /\ o[2] = Corner(r, i)[2] - Corner(s, j)[2] /\ o[2] \in Int
  BY OffsetType
<1>3. x = r.x - o[1] /\ y = r.y - o[2] /\ x \in Int /\ y \in Int
  BY <1>1, <1>2
<1>4. Joint(x, s.x, s.w, r.w) /\ Joint(y, s.y, s.h, r.h)
  <2>1. i \in {0, 1, 2, 3} /\ j \in {0, 1, 2, 3}
    OBVIOUS
  <2>2. \A n \in {0, 1, 2, 3} : /\ Corner(r, n)[1] \in {r.x, r.x + r.w}
                               /\ Corner(r, n)[2] \in {r.y, r.y + r.h}
                               /\ Corner(s, n)[1] \in {s.x, s.x + s.w}
                               /\ Corner(s, n)[2] \in {s.y, s.y + s.h}
    BY <1>1, Corners
  <2> QED
    BY <1>1, <2>1, <2>2 DEF Joint
<1> HIDE DEF o, x, y
<1>5. x \in Int16 /\ y \in Int16
  <2>1. ASSUME NEW a \in Int, NEW v \in Nat, NEW w \in Nat, NEW b \in Int, Room(a, v, w), Joint(b, a, v, w)
        PROVE  b \in Int16
    BY <2>1, InInt16 DEF Room, Joint
  <2> QED
    BY <1>1, <1>3, <1>4, <2>1 DEF RoomFor
<1>6. PICK t : t = Moved(r, o)
  OBVIOUS
<1>7. t = [x |-> Wrap16(r.x - o[1]), y |-> Wrap16(r.y - o[2]), w |-> r.w, h |-> r.h]
  BY <1>2, <1>6, MovedBox DEF Apiece
<1>8. t.x = x /\ t.y = y /\ t.w = r.w /\ t.h = r.h
  BY <1>3, <1>5, <1>7, WrapTurn
<1>9. IsMoved(t, r, s, i, j)
  BY <1>8 DEF IsMoved, x, y
<1> QED
  BY <1>4, <1>6, <1>8, <1>9 DEF o

\* What r is moved to is as large, and its place is one of int16.
LEMMA MovedType ==
    ASSUME NEW r \in Apiece, NEW s \in Apiece, NEW p \in Pairs
    PROVE  LET t == Moved(r, Offset(r, s, p)) IN t \in Apiece /\ t.w = r.w /\ t.h = r.h
<1>1. PICK i \in 0 .. 3, j \in 0 .. 3 : p = <<i, j>>
  BY DEF Pairs
<1>2. PICK o : o = Offset(r, s, p) /\ o[1] \in Int /\ o[2] \in Int
  BY <1>1, OffsetType
<1>3. /\ Moved(r, o) = [x |-> Wrap16(r.x - o[1]), y |-> Wrap16(r.y - o[2]), w |-> r.w, h |-> r.h]
      /\ Moved(r, o) \in Apiece
  BY <1>2, MovedBox DEF Apiece
<1> QED
  BY <1>2, <1>3

\* s is in reach for r: no sum that tells whether they overlap wraps.
InReachOf(s, r) == NoWrap(s.x, s.w, r.w) /\ NoWrap(s.y, s.h, r.h)

LEMMA ReachRoom ==
    ASSUME NEW r, NEW s, InReachOf(s, r)
    PROVE  RoomFor(r, s)
BY DEF InReachOf, RoomFor, Room, NoWrap

\* Intersects says of rectangles of even sizes what it is meant to, of those that are
\* joined: when they do not intersect, they share no area.
LEMMA Apart ==
    ASSUME NEW t \in Rectangle, NEW s \in Rectangle, InReachOf(s, t),
           Joint(t.x, s.x, s.w, t.w), Joint(t.y, s.y, s.h, t.h)
    PROVE  Intersects(t, s) <=>
               ~(\/ t.x + t.w <= s.x \/ s.x + s.w <= t.x
                 \/ t.y + t.h <= s.y \/ s.y + s.h <= t.y)
<1>1. /\ s.x \in Int /\ s.y \in Int /\ s.w \in Even /\ s.h \in Even /\ t.w \in Even /\ t.h \in Even
  BY PlaceType, EvenType DEF Rectangle
<1>2. /\ Overlap(t.x, t.w, s.x, s.w) <=> ~(t.x + t.w <= s.x \/ s.x + s.w <= t.x)
      /\ Overlap(t.y, t.h, s.y, s.h) <=> ~(t.y + t.h <= s.y \/ s.y + s.h <= t.y)
  BY <1>1, OverlapInReach DEF InReachOf
<1> QED
  BY <1>2 DEF Intersects

\* Every way of placing monitors allows to join them: the corners that face
\* each other.
LEMMA CanJoin ==
    ASSUME NEW r \in Rectangle, NEW s \in Rectangle, InReachOf(s, r), NEW way \in Position
    PROVE  Joins(r, s, way) # {}
<1>1. /\ r.x \in Int /\ r.y \in Int /\ r.w \in Int /\ r.h \in Int
      /\ s.x \in Int /\ s.y \in Int /\ s.w \in Int /\ s.h \in Int
      /\ r \in Apiece /\ s \in Apiece
  BY PlaceType, EvenType DEF Rectangle, Apiece, Box
<1>2. ASSUME NEW i \in {1, 2, 3}, Allowed(way, <<i, 0>>)
      PROVE  <<i, 0>> \in Joins(r, s, way)
  <2>1. PICK t : t = Moved(r, Offset(r, s, <<i, 0>>))
    OBVIOUS
  <2>2. i \in 0 .. 3 /\ 0 \in 0 .. 3 /\ <<i, 0>> \in Pairs
    BY DEF Pairs
  <2>3. IsMoved(t, r, s, i, 0) /\ Joint(t.x, s.x, s.w, r.w) /\ Joint(t.y, s.y, s.h, r.h)
    BY <1>1, <2>1, <2>2, MovedThere, ReachRoom
  <2>4. /\ t.x = r.x - (Corner(r, i)[1] - Corner(s, 0)[1])
        /\ t.y = r.y - (Corner(r, i)[2] - Corner(s, 0)[2])
        /\ t.w = r.w /\ t.h = r.h
        /\ t \in Rectangle
    <3>1. t \in Apiece
      BY <1>1, <2>1, <2>2, MovedType
    <3> QED
      BY <2>3, <3>1 DEF IsMoved, Rectangle, Apiece, Box
  <2>5. /\ i \in {1, 3} => t.x + t.w <= s.x
        /\ i = 2 => t.y + t.h <= s.y
    BY <1>1, <2>4, Corners
  <2>6. ~Intersects(t, s)
    <3>1. InReachOf(s, t)
      BY <2>4 DEF InReachOf
    <3> QED
      BY <2>3, <2>4, <2>5, <3>1, Apart
  <2> QED
    BY <1>2, <2>1, <2>2, <2>6 DEF Joins
<1>3. \E i \in {1, 2, 3} : Allowed(way, <<i, 0>>)
  <2>1. \A i \in {1, 2, 3} : <<i, 0>>[1] = i /\ <<i, 0>>[2] = 0 /\ {i, 0} = {0, i}
    OBVIOUS
  <2>2. CASE way = "LeftRight"
    BY <2>1, <2>2 DEF Allowed
  <2>3. CASE way = "UpDown"
    BY <2>1, <2>3 DEF Allowed
  <2>4. CASE way = "Diagonal"
    <3>1. {<<3, 0>>[1], <<3, 0>>[2]} = {0, 3}
      BY <2>1
    <3>2. Allowed(way, <<3, 0>>)
      BY <2>4, <3>1 DEF Allowed
    <3> QED
      BY <3>2
  <2>5. CASE way = "Unknow"
    BY <2>5 DEF Allowed
  <2> QED
    BY <2>2, <2>3, <2>4, <2>5 DEF Position
<1> QED
  BY <1>2, <1>3

\* bestMoveOffset finds a pair of corners.
LEMMA BestPairJoins ==
    ASSUME NEW r \in Apiece, NEW s \in Apiece, NEW way, Joins(r, s, way) # {}
    PROVE  BestPair(r, s, way) \in Joins(r, s, way)
<1> DEFINE J == Joins(r, s, way)
           d(p) == Length(Offset(r, s, p))
           key(p) == 16 * d(p) + (4 * p[1] + p[2])
<1>1. ASSUME NEW p \in J
      PROVE  /\ d(p) \in Nat
             /\ 4 * p[1] + p[2] \in Nat /\ 4 * p[1] + p[2] < 16
  <2>1. p \in Pairs
    BY DEF Joins
  <2>2. p[1] \in 0 .. 3 /\ p[2] \in 0 .. 3
    BY <2>1 DEF Pairs
  <2>3. /\ r.x \in Int /\ r.y \in Int /\ r.w \in Int /\ r.h \in Int
        /\ s.x \in Int /\ s.y \in Int /\ s.w \in Int /\ s.h \in Int
    BY PlaceType DEF Apiece
  <2>4. Offset(r, s, p)[1] \in Int /\ Offset(r, s, p)[2] \in Int
    BY <2>2, <2>3 DEF Offset, Corner
  <2>5. ASSUME NEW x \in Int, NEW y \in Int PROVE x * x + y * y \in Nat
    <3>1. \A n \in Int : n * n \in Nat
      OBVIOUS
    <3> QED
      BY <3>1
  <2>6. d(p) \in Nat
    BY <2>4, <2>5 DEF Length
  <2> QED
    BY <2>2, <2>6
<1> HIDE DEF d, J
<1>2. J # {}
  BY DEF J
<1>3. \A p \in J : key(p) \in Nat
  BY <1>1
<1>4. PICK p \in J : \A q \in J : key(p) <= key(q)
  <2>1. {key(q) : q \in J} \subseteq Nat /\ {key(q) : q \in J} # {}
    BY <1>2, <1>3
  <2>2. PICK m \in {key(q) : q \in J} : \A n \in {key(q) : q \in J} : m <= n
    BY <2>1, LeastNumber
  <2> QED
    BY <2>2
<1>5. ASSUME NEW q \in J
      PROVE  d(p) < d(q) \/ (d(p) = d(q) /\ 4 * p[1] + p[2] <= 4 * q[1] + q[2])
  <2>1. key(p) <= key(q)
    BY <1>4
  <2>2. /\ d(p) \in Nat /\ 4 * p[1] + p[2] \in Nat /\ 4 * p[1] + p[2] < 16
        /\ d(q) \in Nat /\ 4 * q[1] + q[2] \in Nat /\ 4 * q[1] + q[2] < 16
    BY <1>1
  <2> QED
    BY <2>1, <2>2
<1>6. \E u \in J : \A q \in J : d(u) < d(q) \/ (d(u) = d(q) /\ 4 * u[1] + u[2] <= 4 * q[1] + q[2])
  BY <1>5
<1> QED
  BY <1>6 DEF BestPair, J, d

\* Where two numbers end that are moved so that the lesser is at 0: no further than
\* they were apart.
LEMMA Shifted ==
    ASSUME NEW x \in Int, NEW v \in Nat, NEW w \in Nat, v \in Int16, w \in Int16, NEW y \in Int, Joint(y, x, v, w)
    PROVE  LET o == Least(y, x)
           IN  /\ o \in Int /\ Wrap16(y - o) = y - o /\ Wrap16(x - o) = x - o
               /\ y - o \in Nat /\ x - o \in Nat /\ Least(y - o, x - o) = 0
               /\ y - o <= v \/ y - o <= w
               /\ x - o <= v \/ x - o <= w
<1> DEFINE o == Least(y, x)
<1>1. /\ o \in Int /\ y - o \in Nat /\ x - o \in Nat /\ Least(y - o, x - o) = 0
      /\ y - o <= v \/ y - o <= w
      /\ x - o <= v \/ x - o <= w
  BY DEF Least, Joint
<1> HIDE DEF o
<1>2. y - o \in Int16 /\ x - o \in Int16
  BY <1>1, InInt16
<1>3. Wrap16(y - o) = y - o /\ Wrap16(x - o) = x - o
  BY <1>1, <1>2, WrapTurn
<1> QED
  BY <1>1, <1>3 DEF o

\* Where bestMovePosition leaves two rectangles that it joins, as long as there is
\* room beside s: r at a corner of s, as t, and both moved to the origin.
Lands(b, t, r, s, p, q) ==
    /\ t.w = r.w /\ t.h = r.h
    /\ Joint(t.x, s.x, s.w, t.w) /\ Joint(t.y, s.y, s.h, t.h)
    /\ b[1] = [x |-> t.x - p, y |-> t.y - q, w |-> r.w, h |-> r.h]
    /\ b[2] = [x |-> s.x - p, y |-> s.y - q, w |-> s.w, h |-> s.h]
    /\ Least(b[1].x, b[2].x) = 0 /\ Least(b[1].y, b[2].y) = 0
    /\ \A k \in {1, 2} : /\ b[k].x \in Nat /\ b[k].y \in Nat
                         /\ b[k].x <= s.w \/ b[k].x <= r.w
                         /\ b[k].y <= s.h \/ b[k].y <= r.h

LEMMA BestMoveMoves ==
    ASSUME NEW r \in Apiece, NEW s \in Apiece, RoomFor(r, s), NEW way, Joins(r, s, way) # {},
           r.w \in Int16, r.h \in Int16, s.w \in Int16, s.h \in Int16
    PROVE  LET t == Moved(r, Offset(r, s, BestPair(r, s, way)))
           IN  t \in Apiece /\ \E p, q \in Int : Lands(BestMove(r, s, way), t, r, s, p, q)
<1>1. PICK pair : pair = BestPair(r, s, way) /\ pair \in Pairs
  BY BestPairJoins DEF Joins
<1>2. PICK t : t = Moved(r, Offset(r, s, pair))
  OBVIOUS
<1>3. t \in Apiece /\ t.w = r.w /\ t.h = r.h
  BY <1>1, <1>2, MovedType
<1>4. Joint(t.x, s.x, s.w, r.w) /\ Joint(t.y, s.y, s.h, r.h)
  <2>1. PICK i \in 0 .. 3, j \in 0 .. 3 : pair = <<i, j>>
    BY <1>1 DEF Pairs
  <2> QED
    BY <1>2, <2>1, MovedThere
<1>5. /\ s.x \in Int /\ s.y \in Int /\ s.w \in Nat /\ s.h \in Nat
      /\ t.x \in Int /\ t.y \in Int /\ r.w \in Nat /\ r.h \in Nat
  BY <1>3, PlaceType DEF Apiece
<1>6. PICK p \in Int, q \in Int : p = Least(t.x, s.x) /\ q = Least(t.y, s.y)
  BY <1>5 DEF Least
<1>7. /\ p \in Int /\ Wrap16(t.x - p) = t.x - p /\ Wrap16(s.x - p) = s.x - p
      /\ t.x - p \in Nat /\ s.x - p \in Nat /\ Least(t.x - p, s.x - p) = 0
      /\ t.x - p <= s.w \/ t.x - p <= r.w
      /\ s.x - p <= s.w \/ s.x - p <= r.w
  BY <1>4, <1>5, <1>6, Shifted
<1>8. /\ q \in Int /\ Wrap16(t.y - q) = t.y - q /\ Wrap16(s.y - q) = s.y - q
      /\ t.y - q \in Nat /\ s.y - q \in Nat /\ Least(t.y - q, s.y - q) = 0
      /\ t.y - q <= s.h \/ t.y - q <= r.h
      /\ s.y - q <= s.h \/ s.y - q <= r.h
  BY <1>4, <1>5, <1>6, Shifted
<1>9. PICK o : o = <<p, q>> /\ o[1] = p /\ o[2] = q
  <2>1. <<p, q>>[1] = p /\ <<p, q>>[2] = q
    OBVIOUS
  <2> QED
    BY <2>1
<1>10. BestMove(r, s, way) = <<Moved(t, o), Moved(s, o)>>
  BY <1>1, <1>2, <1>6, <1>9 DEF BestMove
<1>11. /\ Moved(t, o) = [x |-> t.x - p, y |-> t.y - q, w |-> r.w, h |-> r.h]
       /\ Moved(s, o) = [x |-> s.x - p, y |-> s.y - q, w |-> s.w, h |-> s.h]
  BY <1>3, <1>7, <1>8, <1>9, MovedBox DEF Apiece
<1>12. PICK b : b = BestMove(r, s, way)
  OBVIOUS
<1>13. /\ b[1] = [x |-> t.x - p, y |-> t.y - q, w |-> r.w, h |-> r.h]
       /\ b[2] = [x |-> s.x - p, y |-> s.y - q, w |-> s.w, h |-> s.h]
  BY <1>10, <1>11, <1>12
<1>14. /\ Least(b[1].x, b[2].x) = 0 /\ Least(b[1].y, b[2].y) = 0
       /\ \A k \in {1, 2} : /\ b[k].x \in Nat /\ b[k].y \in Nat
                            /\ b[k].x <= s.w \/ b[k].x <= r.w
                            /\ b[k].y <= s.h \/ b[k].y <= r.h
  BY <1>7, <1>8, <1>13
<1> QED
  <2>1. Lands(b, t, r, s, p, q)
    BY <1>3, <1>4, <1>13, <1>14 DEF Lands
  <2> QED
    BY <1>1, <1>2, <1>3, <1>12, <2>1

\* bestMovePosition (rect.go), which a custom mode is applied with: whatever
\* the places of two monitors of even sizes, and whatever way of placing them
\* is in force, they end without a gap and without an overlap, the left one
\* and the upper one at 0, and keep their sizes - as long as the second is in
\* reach: none of the sums in int16 wraps that may hide an overlap beside it.
THEOREM BestMoveJoins ==
    ASSUME NEW r \in Rectangle, NEW s \in Rectangle, NEW way \in Position,
           NoWrap(s.x, s.w, r.w), NoWrap(s.y, s.h, r.h)
    PROVE  LET b == BestMove(r, s, way)
           IN  /\ Beside(b[1], b[2])
               /\ Least(b[1].x, b[2].x) = 0 /\ Least(b[1].y, b[2].y) = 0
               /\ b[1].w = r.w /\ b[1].h = r.h /\ b[2].w = s.w /\ b[2].h = s.h
<1>1. /\ r.w \in Nat /\ r.h \in Nat
      /\ s.x \in Int /\ s.y \in Int /\ s.w \in Nat /\ s.h \in Nat
      /\ r \in Apiece /\ s \in Apiece
  BY PlaceType, EvenType DEF Rectangle, Apiece, Box
<1>2. InReachOf(s, r) /\ RoomFor(r, s)
  BY ReachRoom DEF InReachOf
<1>3. Joins(r, s, way) # {}
  BY <1>2, CanJoin
<1>4. r.w \in Int16 /\ r.h \in Int16 /\ s.w \in Int16 /\ s.h \in Int16
  <2>1. s.w + r.w \in Int16 /\ s.h + r.h \in Int16
    BY DEF NoWrap
  <2> QED
    BY <1>1, <2>1, InInt16
<1>5. PICK b : b = BestMove(r, s, way)
  OBVIOUS
<1>6. PICK t \in Apiece, p \in Int, q \in Int :
          t = Moved(r, Offset(r, s, BestPair(r, s, way))) /\ Lands(b, t, r, s, p, q)
  BY <1>1, <1>2, <1>3, <1>4, <1>5, BestMoveMoves
<1>7. ~Intersects(t, s)
  BY <1>1, <1>3, <1>6, BestPairJoins DEF Joins
<1>8. t.x \in Int /\ t.y \in Int /\ t \in Rectangle
  <2>1. r.w \in Even /\ r.h \in Even
    BY PlaceType, EvenType DEF Rectangle
  <2>2. t.x \in Int16 /\ t.y \in Int16 /\ t = [x |-> t.x, y |-> t.y, w |-> r.w, h |-> r.h]
    BY <1>6, PlaceType DEF Apiece, Lands
  <2> QED
    BY <2>1, <2>2, InInt16 DEF Rectangle, Box
<1>9. \/ t.x + r.w <= s.x \/ s.x + s.w <= t.x
      \/ t.y + r.h <= s.y \/ s.y + s.h <= t.y
  <2>1. InReachOf(s, t)
    BY <1>2, <1>6 DEF InReachOf, Lands
  <2> QED
    BY <1>6, <1>7, <1>8, <2>1, Apart DEF Lands
<1>10. /\ t.x <= s.x + s.w /\ s.x <= t.x + r.w
       /\ t.y <= s.y + s.h /\ s.y <= t.y + r.h
  BY <1>1, <1>6, <1>8 DEF Joint, Lands
<1>11. /\ b[1].x = t.x - p /\ b[1].y = t.y - q /\ b[1].w = r.w /\ b[1].h = r.h
       /\ b[2].x = s.x - p /\ b[2].y = s.y - q /\ b[2].w = s.w /\ b[2].h = s.h
  BY <1>6 DEF Lands
<1>12. Beside(b[1], b[2])
  BY <1>1, <1>8, <1>9, <1>10, <1>11 DEF Beside
<1> QED
  BY <1>5, <1>6, <1>11, <1>12 DEF Lands

-----------------------------------------------------------------------------
(* The widths of the monitors on the left are added up over a finite set:  *)
(* the recursive function that does it exists, and its values are numbers. *)

LEMMA SmallestSet ==
    ASSUME NEW T, IsFiniteSet(T), NEW B \in SUBSET SUBSET T, B # {}
    PROVE  \E u \in B : \A v \in B : v \subseteq u => v = u
<1> DEFINE R == StrictSubsetOrdering(T)
           F == FiniteSubsetsOf(T)
<1>1. B \subseteq F
  BY FS_Subset DEF FiniteSubsetsOf
<1>2. PICK u \in B : \A v \in B : <<v, u>> \notin R
  <2> HIDE DEF R, F
  <2>1. IsWellFoundedOn(R, F)
    BY FS_StrictSubsetOrderingWellFounded DEF R, F
  <2> QED
    BY <1>1, <2>1, WFMin
<1>3. ASSUME NEW v \in B, v \subseteq u, v # u PROVE FALSE
  BY <1>2, <1>3 DEF StrictSubsetOrdering
<1> QED
  BY <1>3

SmallestIn(T) == \A B \in SUBSET SUBSET T : B # {} => \E u \in B : \A v \in B : v \subseteq u => v = u

LEMMA SmallestAlways == \A T : IsFiniteSet(T) => SmallestIn(T)
BY SmallestSet DEF SmallestIn

Some(s) == CHOOSE x \in s : TRUE
Added(g, s) == IF s = {} THEN 0 ELSE g[s \ {Some(s)}] + Best(Some(s))
Sums(g, T) == g = [s \in SUBSET T |-> Added(g, s)]

LEMMA SumsUnique ==
    ASSUME NEW T, IsFiniteSet(T), NEW t \in SUBSET T, NEW s \in SUBSET T,
           NEW g, Sums(g, t), NEW h, Sums(h, s), NEW u \in SUBSET (t \cap s)
    PROVE  g[u] = h[u]
<1> DEFINE B == {v \in SUBSET (t \cap s) : g[v] # h[v]}
<1>1. SUFFICES ASSUME B # {} PROVE FALSE
  OBVIOUS
<1>2. PICK v \in B : \A w \in B : w \subseteq v => w = v
  <2>1. B \in SUBSET SUBSET T
    OBVIOUS
  <2> HIDE DEF B
  <2> QED
    BY <1>1, <2>1, SmallestSet
<1>3. g[v] = Added(g, v) /\ h[v] = Added(h, v)
  BY DEF Sums
<1>4. CASE v = {}
  BY <1>3, <1>4 DEF Added
<1>5. CASE v # {}
  <2>1. Some(v) \in v
    BY <1>5 DEF Some
  <2>2. v \ {Some(v)} \subseteq v /\ v \ {Some(v)} # v
    BY <2>1
  <2>3. g[v \ {Some(v)}] = h[v \ {Some(v)}]
    BY <1>2, <2>2
  <2> QED
    BY <1>3, <1>5, <2>3 DEF Added
<1> QED
  BY <1>4, <1>5

LEMMA SumsExist ==
    ASSUME NEW T, IsFiniteSet(T)
    PROVE  \E g : Sums(g, T)
<1> DEFINE B == {s \in SUBSET T : ~\E g : Sums(g, s)}
<1>1. SUFFICES ASSUME B # {} PROVE FALSE
  OBVIOUS
<1>2. PICK s \in B : \A v \in B : v \subseteq s => v = s
  <2> HIDE DEF B
  <2>1. B \in SUBSET SUBSET T
    BY DEF B
  <2> QED
    BY <1>1, <2>1, SmallestSet
<1> DEFINE of(u) == CHOOSE f : Sums(f, u)
           h == [u \in SUBSET s |-> IF u = {} THEN 0 ELSE of(u \ {Some(u)})[u \ {Some(u)}] + Best(Some(u))]
<1>3. ASSUME NEW u \in SUBSET s, u # s PROVE Sums(of(u), u)
  <2>1. \E g : Sums(g, u)
    BY <1>2, <1>3
  <2> QED
    BY <2>1
<1> HIDE DEF of
<1>4. ASSUME NEW u \in SUBSET s PROVE h[u] = Added(h, u)
  <2>1. CASE u = {}
    BY <2>1 DEF Added
  <2>2. CASE u # {}
    <3> DEFINE v == u \ {Some(u)}
    <3>1. Some(u) \in u
      BY <2>2 DEF Some
    <3>2. v \in SUBSET s /\ v # s
      BY <3>1
    <3>3. Sums(of(v), v)
      BY <1>3, <3>2
    <3> HIDE DEF v
    <3>4. h[v] = of(v)[v]
      <4>1. of(v)[v] = Added(of(v), v)
        BY <3>3 DEF Sums
      <4>2. CASE v = {}
        BY <3>2, <4>1, <4>2 DEF Added
      <4>3. CASE v # {}
        <5> DEFINE w == v \ {Some(v)}
        <5>1. Some(v) \in v
          BY <4>3 DEF Some
        <5>2. w \in SUBSET s /\ w # s /\ w \in SUBSET v
          BY <3>2, <5>1
        <5>3. Sums(of(w), w)
          BY <1>3, <5>2
        <5>4. h[v] = of(w)[w] + Best(Some(v))
          BY <3>2, <4>3
        <5>5. of(v)[v] = of(v)[w] + Best(Some(v))
          BY <4>1, <4>3 DEF Added
        <5> HIDE DEF w
        <5>6. of(v)[w] = of(w)[w]
          BY <1>2, <3>2, <3>3, <5>2, <5>3, SumsUnique
        <5> QED
          BY <5>4, <5>5, <5>6
      <4> QED
        BY <4>2, <4>3
    <3>5. h[u] = of(v)[v] + Best(Some(u))
      BY <2>2 DEF v
    <3>6. Added(h, u) = h[v] + Best(Some(u))
      BY <2>2 DEF Added, v
    <3> QED
      BY <3>4, <3>5, <3>6
  <2> QED
    BY <2>1, <2>2
<1>5. Sums(h, s)
  <2>1. h = [u \in SUBSET s |-> h[u]]
    OBVIOUS
  <2> HIDE DEF h
  <2> QED
    BY <1>4, <2>1 DEF Sums
<1> QED
  BY <1>2, <1>5

Widths(T) == FoldSet(LAMBDA j, n : n + Best(j), 0, T)

\* The sum of the widths of a finite set of monitors is a number.
LEMMA SumOfWidths ==
    ASSUME NEW T, IsFiniteSet(T), \A i \in T : Best(i) \in Nat
    PROVE  Widths(T) \in Nat
<1> DEFINE g == CHOOSE f : Sums(f, T)
           B == {s \in SUBSET T : g[s] \notin Nat}
<1>1. Widths(T) = g[T]
  BY DEF Widths, FoldSet, MapThenFoldSet, Sums, Added, Some
<1>2. Sums(g, T)
  BY SumsExist
<1> HIDE DEF g
<1>3. ASSUME B # {} PROVE FALSE
  <2>1. B \in SUBSET SUBSET T
    OBVIOUS
  <2>2. PICK s \in B : \A v \in B : v \subseteq s => v = s
    <3> HIDE DEF B
    <3> QED
      BY <1>3, <2>1, SmallestSet
  <2>3. g[s] = Added(g, s)
    BY <1>2 DEF Sums
  <2>4. CASE s = {}
    BY <2>2, <2>3, <2>4 DEF Added
  <2>5. CASE s # {}
    <3>1. Some(s) \in s
      BY <2>5 DEF Some
    <3>2. s \ {Some(s)} \subseteq s /\ s \ {Some(s)} # s
      BY <3>1
    <3>3. g[s \ {Some(s)}] \in Nat
      BY <2>2, <3>2
    <3>4. g[s] = g[s \ {Some(s)}] + Best(Some(s))
      BY <2>3, <2>5 DEF Added
    <3> QED
      BY <2>2, <3>1, <3>3, <3>4
  <2> QED
    BY <2>4, <2>5
<1>4. T \notin B
  BY <1>3
<1> QED
  BY <1>1, <1>4

-----------------------------------------------------------------------------
(* Type correctness.                                                       *)

\* What is said of places in reach is said of two monitors.
Near == Cardinality(Monitor) = 2 /\ InReach

\* The coordinates that occur: those in reach, once what is chosen and stored is.
Coord == IF Near THEN {x \in Int16 : \A v, w \in Sizes : NoWrap(x, v, w)} ELSE Int16
Place == Coord \X Coord
Side  == Sizes \cup {0}

Setting == [on : BOOLEAN, pos : Place, size : Sizes \cup {0}, w : Sizes \cup {0}]
Output  == [on : BOOLEAN, pos : Place, size : Sizes]
Signal  == [kind : AnyKind, m : Monitor, on : BOOLEAN, pos : Place, size : Sizes]

\* Functions of some of the elements of D
Partial(D, R) == UNION {[K -> R] : K \in SUBSET D}

Config  == [on : BOOLEAN, pos : Place, size : Nat, primary : BOOLEAN]
Configs == Partial(Monitor, Config)

\* Settings of the monitors, of which K are known
Settings(K) == {mm \in [Monitor -> Setting] : \A i \in Monitor : mm[i].size = 0 <=> i \notin K}

Op == {"none", "configs", "extend", "mirror", "custom", "only", "stored", "changes", "reset", "save", "check"}
Task == [op   : Op,
         by   : {"none", "ids", "init", "switch", "call"},
         mode : Mode, name : Name \cup {""}, scr : SUBSET Monitor, main : Monitor \cup {None},
         save : BOOLEAN, cmd : Partial(Monitor, Output), off : SUBSET Monitor]

ScreenConfig == [single : SUBSET Config, custom : Partial(Name \cup {""}, Configs),
                 extend : Configs, only : Configs]

\* A goroutine is at p with task t: it has something to run there, and the
\* monitor that is to become primary is enabled by its command.
AtWork(p, t) ==
    /\ t \in Task
    /\ p \in {"idle", "set", "unset", "end", "save"}
    /\ p = "idle" => t = Rest
    /\ p = "set" => DOMAIN t.cmd # {}
    /\ p = "unset" => t.off # {}
    /\ p \in {"set", "unset", "end"} /\ t.op # "mirror" /\ t.main # None => t.main \in DOMAIN t.cmd

OutsideType ==
    /\ kwin \in [Monitor -> Output] /\ plugged \subseteq Monitor
    /\ signals \in Seq(Signal)
    /\ life \in {"off", "listed", "on", "started", "ready", "dead"}
EditType ==
    /\ known \subseteq Monitor /\ unsent \subseteq known
    /\ backup \in [Monitor -> SUBSET Output]
    /\ \A i \in Monitor : backup[i] # {} => i \in known /\ \E b \in Output : backup[i] = {b}
    /\ hasChanged \in BOOLEAN /\ how \in Position
ShownType ==
    /\ mode \in Mode /\ customId \in Name \cup {""}
    /\ primary \in Monitor \cup {None} /\ rect \in Box(Coord, Side)
WorkType ==
    /\ mem \in Settings(known) /\ ids \subseteq Monitor
    /\ config \in [SUBSET Monitor -> ScreenConfig]
    /\ DOMAIN pc = Actor /\ DOMAIN task = Actor /\ \A a \in Actor : AtWork(pc[a], task[a])
BoundType == calls \in 0 .. MaxCall /\ others \in 0 .. MaxOther
Typed == OutsideType /\ EditType /\ ShownType /\ WorkType /\ BoundType

\* monitorsId is the set of monitors, but while the goroutine of the signals
\* applies what a new set asks for: so no edit is left of a monitor that is gone.
Numbered ==
    /\ \A a \in Actor \ {Loop} : task[a].by # "ids"
    /\ Listening => IF task[Loop].by = "ids" THEN task[Loop].scr = known ELSE ids = known

TypeInv == Typed /\ Numbered

\* A finite set of numbers has a greatest one.
LEMMA GreatestNumber ==
    ASSUME NEW S \in SUBSET Nat, IsFiniteSet(S), S # {}
    PROVE  \E m \in S : \A n \in S : n <= m
<1> DEFINE above(m) == {n \in S : m < n}
           B == {above(m) : m \in S}
<1>1. SmallestIn(S)
  BY SmallestAlways
<1>2. PICK u \in B : \A v \in B : v \subseteq u => v = u
  <2>1. B \in SUBSET SUBSET S /\ B # {}
    OBVIOUS
  <2> HIDE DEF B
  <2> QED
    BY <1>1, <2>1 DEF SmallestIn
<1>3. PICK m \in S : u = above(m)
  OBVIOUS
<1>4. ASSUME NEW n \in S, m < n PROVE FALSE
  <2>1. m \in Nat /\ n \in Nat
    OBVIOUS
  <2>2. ASSUME NEW k \in above(n) PROVE k \in above(m)
    <3>1. k \in S /\ k \in Nat /\ n < k
      OBVIOUS
    <3> QED
      BY <1>4, <2>1, <3>1
  <2>3. n \in above(m) /\ n \notin above(n)
    BY <1>4, <2>1
  <2>4. above(n) \in B
    OBVIOUS
  <2> QED
    BY <1>2, <1>3, <2>2, <2>3, <2>4
<1>5. \A n \in S : n <= m
  BY <1>4
<1> QED
  BY <1>5

LEMMA ModesType ==
    ASSUME NEW i \in Monitor
    PROVE  Modes[i] \in SUBSET (Nat \ {0}) /\ IsFiniteSet(Modes[i]) /\ Modes[i] # {}
<1>1. Edge \in Nat
  BY DEF Edge
<1>2. IsFiniteSet(Uint16) /\ Uint16 \subseteq Nat
  BY <1>1, FS_Interval DEF Uint16
<1>3. Modes[i] \subseteq Uint16 \ {0} /\ Modes[i] # {}
  BY ConstantsAssumption DEF ConstantsAssumption
<1>4. IsFiniteSet(Modes[i])
  BY <1>2, <1>3, FS_Subset
<1> QED
  BY <1>2, <1>3, <1>4

LEMMA SizeType == Sizes \subseteq Nat \ {0}
<1>1. ASSUME NEW z \in Sizes PROVE z \in Nat \ {0}
  <2>1. PICK i \in Monitor : z \in Modes[i]
    BY DEF Sizes
  <2> QED
    BY <2>1, ModesType
<1> QED
  BY <1>1

LEMMA BestSize ==
    ASSUME NEW i \in Monitor
    PROVE  Best(i) \in Modes[i] /\ Best(i) \in Sizes /\ Best(i) \in Nat \ {0}
<1>1. Modes[i] \in SUBSET Nat /\ IsFiniteSet(Modes[i]) /\ Modes[i] # {}
  BY ModesType
<1>2. \E m \in Modes[i] : \A n \in Modes[i] : n <= m
  BY <1>1, GreatestNumber
<1>3. Best(i) \in Modes[i]
  BY <1>2 DEF Best
<1> QED
  BY <1>3, SizeType DEF Sizes

LEMMA SelectSize ==
    ASSUME NEW i \in Monitor, NEW size
    PROVE  Select(i, size) \in Sizes
BY BestSize DEF Select, Sizes

LEMMA WantedSize ==
    ASSUME NEW i \in Monitor, NEW cfg
    PROVE  Wanted(i, cfg) \in Sizes
BY BestSize, SelectSize DEF Wanted

LEMMA CommonSize ==
    ASSUME NEW K \in SUBSET Monitor, K # {}, Common(K) # {}
    PROVE  (CHOOSE u \in Common(K) : \A t \in Common(K) : t <= u) \in Sizes
<1>1. PICK i \in K : TRUE
  OBVIOUS
<1>2. Modes[i] \in SUBSET Nat /\ IsFiniteSet(Modes[i])
  BY ModesType
<1>3. Common(K) \subseteq Modes[i]
  BY DEF Common
<1>4. IsFiniteSet(Common(K)) /\ Common(K) \in SUBSET Nat
  BY <1>2, <1>3, FS_Subset
<1>5. \E u \in Common(K) : \A t \in Common(K) : t <= u
  BY <1>4, GreatestNumber
<1>6. Common(K) \subseteq Sizes
  BY DEF Common
<1> QED
  BY <1>5, <1>6

LEMMA PartialIn ==
    ASSUME NEW D, NEW R, NEW K \in SUBSET D, NEW f \in [K -> R]
    PROVE  f \in Partial(D, R)
BY DEF Partial

LEMMA PartialOut ==
    ASSUME NEW D, NEW R, NEW f \in Partial(D, R)
    PROVE  DOMAIN f \in SUBSET D /\ f \in [DOMAIN f -> R]
BY DEF Partial

LEMMA MinMember ==
    ASSUME NEW K \in SUBSET Monitor
    PROVE  MinID(K) \in K \cup {None} /\ (MinID(K) = None <=> K = {})
<1>1. Monitor \subseteq Nat \ {None}
  BY ConstantsAssumption DEF ConstantsAssumption
<1>2. CASE K = {}
  BY <1>2 DEF MinID
<1>3. CASE K # {}
  <2> DEFINE C == IF Builtin(K) # {} THEN Builtin(K) ELSE K
  <2>1. C \in SUBSET Nat /\ C # {} /\ C \subseteq K
    BY <1>1, <1>3 DEF Builtin
  <2> HIDE DEF C
  <2>2. \E m \in C : \A n \in C : m <= n
    BY <2>1, LeastNumber
  <2>3. (CHOOSE i \in C : \A j \in C : i <= j) \in K
    BY <2>1, <2>2
  <2>4. MinID(K) = CHOOSE i \in C : \A j \in C : i <= j
    BY <1>3 DEF MinID, C
  <2> QED
    BY <1>1, <1>3, <2>3, <2>4
<1> QED
  BY <1>2, <1>3

LEMMA FirstPrimaryMember ==
    ASSUME NEW K \in SUBSET Monitor, NEW stored
    PROVE  FirstPrimary(K, stored) \subseteq Monitor \cup {None}
BY DEF FirstPrimary

\* The width of none, and of one
LEMMA WidthOfOne ==
    ASSUME NEW x \in Monitor
    PROVE  Widths({}) = 0 /\ Widths({x}) = Best(x)
<1> DEFINE g(T) == CHOOSE f : Sums(f, T)
<1>1. \A T : Widths(T) = g(T)[T]
  BY DEF Widths, FoldSet, MapThenFoldSet, Sums, Added, Some
<1>2. IsFiniteSet({}) /\ IsFiniteSet({x})
  BY FS_EmptySet, FS_Singleton
<1>3. Sums(g({}), {}) /\ Sums(g({x}), {x})
  BY <1>2, SumsExist
<1> HIDE DEF g
<1>4. g({})[{}] = 0
  BY <1>3 DEF Sums, Added
<1>5. PICK h : h = g({x})
  OBVIOUS
<1>6. h[{}] = 0 /\ h[{x}] = h[{x} \ {Some({x})}] + Best(Some({x}))
  BY <1>3, <1>5 DEF Sums, Added
<1>7. Some({x}) = x /\ {x} \ {x} = {}
  BY DEF Some
<1>8. Best(x) \in Nat
  BY BestSize
<1>9. h[{x}] = 0 + Best(x)
  <2>1. {x} \ {Some({x})} = {}
    BY <1>7
  <2> QED
    BY <1>6, <1>7, <2>1
<1>10. Widths({}) = 0
  BY <1>1, <1>4
<1>11. Widths({x}) = h[{x}]
  BY <1>1, <1>5
<1> QED
  BY <1>8, <1>9, <1>10, <1>11

-----------------------------------------------------------------------------
(* The coordinates that occur.                                             *)

LEMMA CoordType == Coord \in SUBSET Int16 /\ Coord \in SUBSET Int
<1>1. Coord \in SUBSET Int16
  BY DEF Coord
<1>2. \A x \in Coord : x \in Int
  BY <1>1, InInt16
<1> QED
  BY <1>1, <1>2

LEMMA PlaceCoords ==
    ASSUME NEW p \in Place
    PROVE  /\ p[1] \in Coord /\ p[2] \in Coord /\ p = <<p[1], p[2]>>
           /\ p[1] \in Int /\ p[2] \in Int /\ p \in Int16 \X Int16
<1>1. p[1] \in Coord /\ p[2] \in Coord /\ p = <<p[1], p[2]>>
  BY DEF Place
<1> QED
  BY <1>1, CoordType

LEMMA Reachable ==
    ASSUME Near, NEW x \in Int16, \A v, w \in Sizes : NoWrap(x, v, w)
    PROVE  x \in Coord
BY DEF Coord

LEMMA InReachThere ==
    ASSUME Near, NEW x \in Coord, NEW v \in Sizes, NEW w \in Sizes
    PROVE  NoWrap(x, v, w)
BY DEF Coord

LEMMA ZeroCoord == 0 \in Coord
<1>1. 0 \in Int16
  BY InInt16
<1>2. Near => \A v, w \in Sizes : NoWrap(0, v, w)
  BY DEF Near, InReach
<1>3. CASE Near
  BY <1>1, <1>2, <1>3, Reachable
<1>4. CASE ~Near
  BY <1>1, <1>4 DEF Coord
<1> QED
  BY <1>3, <1>4

LEMMA Origin == <<0, 0>> \in Place
BY ZeroCoord DEF Place

LEMMA SizeInReach ==
    ASSUME Near, NEW z \in Sizes
    PROVE  z \in Coord /\ z \in Int16
<1>1. NoWrap(0, z, z) /\ \A v, w \in Sizes : NoWrap(z, v, w)
  BY DEF Near, InReach
<1>2. z \in Nat
  BY SizeType
<1>3. z \in Int16
  <2>1. 0 + z \in Int16
    BY <1>1 DEF NoWrap
  <2> QED
    BY <1>2, <2>1
<1> QED
  BY <1>1, <1>3, Reachable

\* From 0 to a size, every coordinate is in reach.
LEMMA CoordBelow ==
    ASSUME Near, NEW z \in Side, NEW x \in Nat, x <= z
    PROVE  x \in Coord
<1>1. z \in Nat /\ z \in Coord /\ z \in Int16
  <2>1. CASE z \in Sizes
    BY <2>1, SizeInReach, SizeType
  <2>2. CASE z = 0
    BY <2>2, ZeroCoord, InInt16
  <2> QED
    BY <2>1, <2>2 DEF Side
<1>2. x \in Int16
  BY <1>1, InInt16
<1>3. ASSUME NEW v \in Sizes, NEW w \in Sizes PROVE NoWrap(x, v, w)
  <2>1. NoWrap(0, v, w) /\ NoWrap(z, v, w)
    BY <1>1, ZeroCoord, InReachThere
  <2>2. v \in Nat /\ w \in Nat
    BY SizeType
  <2>3. ASSUME NEW a \in Int, NEW b \in Int, NEW c \in Int, a <= b, b <= c, a \in Int16, c \in Int16
        PROVE  b \in Int16
    BY <2>3, InInt16
  <2>4. /\ 0 - w \in Int16 /\ 0 + v \in Int16 /\ v + w \in Int16
        /\ 2 * 0 + v \in Int16 /\ 2 * 0 + w \in Int16 /\ 2 * (0 + v) - w \in Int16
    BY <2>1 DEF NoWrap
  <2>5. /\ z - w \in Int16 /\ z + v \in Int16
        /\ 2 * z + v \in Int16 /\ 2 * z + w \in Int16 /\ 2 * (z + v) - w \in Int16
    BY <2>1 DEF NoWrap
  <2>6. /\ x - w \in Int16 /\ x + v \in Int16
    <3>1. 0 - w <= x - w /\ x - w <= z - w /\ 0 + v <= x + v /\ x + v <= z + v
      BY <1>1, <2>2
    <3> QED
      BY <1>1, <2>2, <2>3, <2>4, <2>5, <3>1
  <2>7. 2 * x + v \in Int16 /\ 2 * x + w \in Int16
    <3>1. 2 * 0 + v <= 2 * x + v /\ 2 * x + v <= 2 * z + v /\ 2 * 0 + w <= 2 * x + w /\ 2 * x + w <= 2 * z + w
      BY <1>1, <2>2
    <3> QED
      BY <1>1, <2>2, <2>3, <2>4, <2>5, <3>1
  <2>8. 2 * (x + v) - w \in Int16
    <3>1. 2 * (0 + v) - w <= 2 * (x + v) - w /\ 2 * (x + v) - w <= 2 * (z + v) - w
      BY <1>1, <2>2
    <3> QED
      BY <1>1, <2>2, <2>3, <2>4, <2>5, <3>1
  <2> QED
    BY <2>4, <2>6, <2>7, <2>8 DEF NoWrap
<1> QED
  BY <1>2, <1>3, Reachable

\* What is chosen by a user or the compositor, and what is stored, is in reach.
LEMMA PosPlace == Pos \subseteq Place
<1> SUFFICES ASSUME NEW p \in Pos PROVE p \in Place
  OBVIOUS
<1>1. p \in Int16 \X Int16
  BY ConstantsAssumption DEF ConstantsAssumption
<1>2. p[1] \in Int16 /\ p[2] \in Int16 /\ p = <<p[1], p[2]>>
  BY <1>1
<1>3. CASE Near
  <2>1. \A v, w \in Sizes : NoWrap(p[1], v, w) /\ NoWrap(p[2], v, w)
    BY <1>3 DEF Near, InReach
  <2>2. p[1] \in Coord /\ p[2] \in Coord
    BY <1>2, <1>3, <2>1, Reachable
  <2> QED
    BY <1>2, <2>2 DEF Place
<1>4. CASE ~Near
  BY <1>1, <1>4 DEF Coord, Place
<1> QED
  BY <1>3, <1>4

LEMMA StoredPlace ==
    ASSUME NEW c \in Custom, NEW n \in DOMAIN c.modes, NEW i \in DOMAIN c.modes[n],
           c.modes[n][i] \in MonitorConfig
    PROVE  c.modes[n][i] \in Config
<1>1. PICK s \in MonitorConfig : s = c.modes[n][i]
  OBVIOUS
<1>2. s.pos \in Int16 \X Int16
  BY DEF MonitorConfig
<1>3. PICK p \in Int16 \X Int16 : p = s.pos
  BY <1>2
<1>4. p[1] \in Int16 /\ p[2] \in Int16 /\ p = <<p[1], p[2]>>
  OBVIOUS
<1>5. p \in Place
  <2>1. CASE Near
    <3> DEFINE stored == UNION {UNION {{d.modes[m][j].pos : j \in DOMAIN d.modes[m]} : m \in DOMAIN d.modes} :
                                    d \in Custom}
    <3>1. p \in stored
      BY <1>1, <1>3
    <3>2. {p[1], p[2]} \subseteq UNION {{q[1], q[2]} : q \in Pos \cup stored}
      BY <3>1
    <3>3. \A v, w \in Sizes : NoWrap(p[1], v, w) /\ NoWrap(p[2], v, w)
      BY <2>1, <3>2 DEF Near, InReach
    <3>4. p[1] \in Coord /\ p[2] \in Coord
      BY <1>4, <2>1, <3>3, Reachable
    <3> QED
      BY <1>4, <3>4 DEF Place
  <2>2. CASE ~Near
    BY <2>2 DEF Coord, Place
  <2> QED
    BY <2>1, <2>2
<1>6. s \in Config
  BY <1>3, <1>5 DEF MonitorConfig, Config
<1> QED
  BY <1>1, <1>6

\* A monitor that is on is a rectangle.
LEMMA SquareBox ==
    ASSUME NEW p \in Place, NEW z \in Side
    PROVE  /\ Square(p, z) \in Box(Coord, Side)
           /\ z \in Sizes => Square(p, z) \in Box(Coord, Sizes)
BY PlaceCoords DEF Square, Box

LEMMA SideType == Side \in SUBSET Nat /\ Sizes \in SUBSET Nat
BY SizeType DEF Side

-----------------------------------------------------------------------------
(* The layouts have their types.                                           *)

LEMMA SettingsAt ==
    ASSUME NEW K, NEW mm \in Settings(K), NEW i \in Monitor
    PROVE  /\ mm[i] \in Setting
           /\ mm[i].on \in BOOLEAN /\ mm[i].pos \in Place /\ mm[i].w \in Sizes \cup {0} /\ mm[i].w \in Nat
           /\ mm[i].size \in Sizes \cup {0} /\ (mm[i].size = 0 <=> i \notin K)
           /\ i \in K => mm[i].size \in Sizes /\ mm[i].size \in Nat
<1>1. PICK v \in Setting : v = mm[i]
  BY DEF Settings
<1>2. v.on \in BOOLEAN /\ v.pos \in Place /\ v.w \in Sizes \cup {0} /\ v.size \in Sizes \cup {0}
  BY DEF Setting
<1>3. v.size = 0 <=> i \notin K
  BY <1>1 DEF Settings
<1>4. \A z \in Sizes \cup {0} : z \in Nat
  BY SizeType
<1>5. v.w \in Nat /\ v.size \in Nat /\ (i \in K => v.size \in Sizes)
  BY <1>2, <1>3, <1>4
<1> QED
  BY <1>1, <1>2, <1>3, <1>5

LEMMA OffSetting ==
    ASSUME NEW K, NEW mm \in Settings(K), NEW i \in Monitor
    PROVE  /\ [mm[i] EXCEPT !.on = FALSE] \in Setting
           /\ [mm[i] EXCEPT !.on = FALSE].size = mm[i].size
<1>1. PICK v \in Setting : v = mm[i]
  BY SettingsAt
<1>2. [v EXCEPT !.on = FALSE] \in Setting /\ [v EXCEPT !.on = FALSE].size = v.size
  BY DEF Setting
<1> QED
  BY <1>1, <1>2

LEMMA MirroredType ==
    ASSUME NEW K \in SUBSET Monitor, NEW mm \in Settings(K), Common(K) # {}
    PROVE  Mirrored(K, mm) \in Settings(K)
<1> DEFINE s == CHOOSE u \in Common(K) : \A t \in Common(K) : t <= u
           new == Mirrored(K, mm)
<1>1. ASSUME NEW i \in Monitor PROVE new[i] \in Setting /\ (new[i].size = 0 <=> i \notin K)
  <2>1. CASE i \in K
    <3>1. s \in Sizes
      BY <2>1, CommonSize
    <3>2. new[i] = [on |-> TRUE, pos |-> <<0, 0>>, size |-> s, w |-> s]
      BY <2>1 DEF Mirrored
    <3> HIDE DEF s, new
    <3> QED
      BY <2>1, <3>1, <3>2, SizeType, Origin DEF Setting
  <2>2. CASE i \notin K
    BY <2>2, SettingsAt DEF Mirrored
  <2> QED
    BY <2>1, <2>2
<1>2. new = [i \in Monitor |-> new[i]]
  BY DEF Mirrored
<1> HIDE DEF new
<1> QED
  BY <1>1, <1>2 DEF Settings, new

LEMMA FromLeftType ==
    ASSUME NEW K \in SUBSET Monitor, NEW cfg \in Configs, NEW i \in Monitor
    PROVE  FromLeft(i, K, cfg) \in Coord
<1>1. CASE i \in DOMAIN cfg
  <2>1. cfg[i] \in Config
    BY <1>1, PartialOut DEF Configs
  <2>2. PICK p \in Place : p = cfg[i].pos
    BY <2>1 DEF Config
  <2>3. FromLeft(i, K, cfg) = cfg[i].pos[1]
    BY <1>1 DEF FromLeft, Widths, FoldSet, MapThenFoldSet
  <2> QED
    BY <2>2, <2>3, PlaceCoords
<1>2. CASE i \notin DOMAIN cfg
  <2> DEFINE T == {j \in K \ DOMAIN cfg : Before(j, i) /\ j # i}
  <2>1. IsFiniteSet(T) /\ (\A j \in T : Best(j) \in Nat) /\ T \subseteq Monitor \ {i}
    BY ConstantsAssumption, FS_Subset, BestSize DEF ConstantsAssumption
  <2>2. FromLeft(i, K, cfg) = Least(Widths(T), 32767)
    BY <1>2 DEF FromLeft, T, Widths, FoldSet, MapThenFoldSet
  <2> HIDE DEF T
  <2>3. PICK z \in Nat : z = Widths(T)
    BY <2>1, SumOfWidths
  <2>4. PICK x \in Nat : x = Least(z, 32767) /\ x <= z /\ x <= 32767
    BY DEF Least
  <2>5. x \in Coord
    <3>1. CASE Near
      <4>1. IsFiniteSet(Monitor \ {i}) /\ Cardinality(Monitor \ {i}) = 1
        BY <3>1, FiniteMonitor, FS_RemoveElement DEF Near
      <4>2. PICK q : Monitor \ {i} = {q}
        BY <4>1, FS_Singleton
      <4>3. q \in Monitor /\ (T = {} \/ T = {q})
        BY <2>1, <4>2
      <4>4. z = 0 \/ z = Best(q)
        BY <2>3, <4>3, WidthOfOne
      <4>5. z \in Side
        BY <4>3, <4>4, BestSize DEF Side
      <4> QED
        BY <2>4, <3>1, <4>5, CoordBelow
    <3>2. CASE ~Near
      <4>1. x \in Int16
        BY <2>4, InInt16
      <4> QED
        BY <3>2, <4>1 DEF Coord
    <3> QED
      BY <3>1, <3>2
  <2> QED
    BY <2>2, <2>3, <2>4, <2>5
<1> QED
  BY <1>1, <1>2

LEMMA ExtendedType ==
    ASSUME NEW K \in SUBSET Monitor, NEW mm \in Settings(K), NEW cfg \in Configs
    PROVE  /\ Extended(K, mm, cfg) \in Settings(K)
           /\ \A i \in K : Extended(K, mm, cfg)[i].on
<1> DEFINE new == Extended(K, mm, cfg)
<1>1. ASSUME NEW i \in Monitor PROVE new[i] \in Setting /\ (new[i].size = 0 <=> i \notin K) /\ (i \in K => new[i].on)
  <2>1. CASE i \in K
    <3>1. PICK s \in Sizes : s = Wanted(i, cfg)
      BY WantedSize
    <3>2. PICK x \in Coord : x = FromLeft(i, K, cfg)
      BY FromLeftType
    <3>3. new[i] = [on |-> TRUE, pos |-> <<x, 0>>, size |-> s, w |-> s]
      BY <2>1, <3>1, <3>2 DEF Extended
    <3>4. <<x, 0>> \in Place
      BY ZeroCoord DEF Place
    <3> HIDE DEF new
    <3> QED
      BY <2>1, <3>3, <3>4, SizeType DEF Setting
  <2>2. CASE i \notin K
    BY <2>2, SettingsAt DEF Extended
  <2> QED
    BY <2>1, <2>2
<1>2. new = [i \in Monitor |-> new[i]]
  BY DEF Extended
<1> HIDE DEF new
<1> QED
  BY <1>1, <1>2 DEF Settings, new

LEMMA AloneType ==
    ASSUME NEW K \in SUBSET Monitor, NEW mm \in Settings(K), NEW cfg, NEW i \in K \cup {None}
    PROVE  /\ Alone(i, K, mm, cfg) \in Settings(K)
           /\ i \in K => Alone(i, K, mm, cfg)[i].on
<1> DEFINE new == Alone(i, K, mm, cfg)
<1>1. ASSUME NEW j \in Monitor PROVE new[j] \in Setting /\ (new[j].size = 0 <=> j \notin K) /\ (j = i => new[j].on)
  <2>1. CASE j = i
    <3>1. j \in K
      BY <2>1, ConstantsAssumption DEF ConstantsAssumption, None
    <3>2. PICK s \in Sizes : s = Wanted(i, cfg)
      BY <2>1, WantedSize
    <3>3. new[j] = [on |-> TRUE, pos |-> <<0, 0>>, size |-> s, w |-> s]
      BY <2>1, <3>2 DEF Alone
    <3> HIDE DEF new
    <3> QED
      BY <3>1, <3>3, SizeType, Origin DEF Setting
  <2>2. CASE j # i
    <3>1. new[j] = [mm[j] EXCEPT !.on = FALSE]
      BY <2>2 DEF Alone
    <3>2. [mm[j] EXCEPT !.on = FALSE] \in Setting /\ [mm[j] EXCEPT !.on = FALSE].size = mm[j].size
      BY OffSetting
    <3> HIDE DEF new
    <3> QED
      BY <2>2, <3>1, <3>2, SettingsAt
  <2> QED
    BY <2>1, <2>2
<1>2. new = [j \in Monitor |-> new[j]]
  BY DEF Alone
<1> HIDE DEF new
<1> QED
  BY <1>1, <1>2 DEF Settings, new

LEMMA ConfiguredType ==
    ASSUME NEW K \in SUBSET Monitor, NEW mm \in Settings(K), NEW cfg \in Configs
    PROVE  /\ Configured(K, mm, cfg) \in Settings(K)
           /\ \A i \in K \cap DOMAIN cfg : Configured(K, mm, cfg)[i].on = cfg[i].on
<1> DEFINE new == Configured(K, mm, cfg)
<1>1. ASSUME NEW i \in Monitor
      PROVE  /\ new[i] \in Setting /\ (new[i].size = 0 <=> i \notin K)
             /\ i \in K \cap DOMAIN cfg => new[i].on = cfg[i].on
  <2>1. CASE i \in K \cap DOMAIN cfg
    <3>1. cfg[i].on \in BOOLEAN /\ cfg[i].pos \in Place
      <4>1. cfg[i] \in Config
        BY <2>1, PartialOut DEF Configs
      <4> QED
        BY <4>1 DEF Config
    <3>2. PICK s \in Sizes : s = Select(i, cfg[i].size)
      BY SelectSize
    <3>3. new[i] = [on |-> cfg[i].on, pos |-> cfg[i].pos, size |-> s, w |-> s]
      BY <2>1, <3>2 DEF Configured
    <3> HIDE DEF new
    <3> QED
      BY <2>1, <3>1, <3>3, SizeType, Origin DEF Setting
  <2>2. CASE i \in K \ DOMAIN cfg
    <3>1. new[i] = [mm[i] EXCEPT !.on = FALSE]
      BY <2>2 DEF Configured
    <3>2. [mm[i] EXCEPT !.on = FALSE] \in Setting /\ [mm[i] EXCEPT !.on = FALSE].size = mm[i].size
      BY OffSetting
    <3>3. mm[i].size # 0
      BY <2>2, SettingsAt
    <3>4. new[i] \in Setting /\ new[i].size # 0
      BY <3>1, <3>2, <3>3
    <3> QED
      BY <2>2, <3>4
  <2>3. CASE i \notin K
    BY <2>3, SettingsAt DEF Configured
  <2> QED
    BY <2>1, <2>2, <2>3
<1>2. new = [i \in Monitor |-> new[i]]
  BY DEF Configured
<1> HIDE DEF new
<1> QED
  BY <1>1, <1>2 DEF Settings, new

\* Brought together, two monitors stay in reach.
LEMMA BestMoveType ==
    ASSUME NEW r \in Box(Coord, Side), NEW s \in Box(Coord, Sizes), NEW way
    PROVE  LET b == BestMove(r, s, way)
           IN  \A k \in {1, 2} : b[k].x \in Coord /\ b[k].y \in Coord /\ b[k].w \in Side
<1>0. PICK b : b = BestMove(r, s, way)
  OBVIOUS
<1>1. r.w \in Side /\ r.h \in Side /\ s.w \in Sizes /\ s.h \in Sizes /\ r.x \in Coord /\ r.y \in Coord
      /\ s.x \in Coord /\ s.y \in Coord
  BY DEF Box
<1>2. r \in Apiece /\ s \in Apiece
  <2>1. \A X \in SUBSET Int16, S \in SUBSET Nat : Box(X, S) \subseteq Apiece
    BY DEF Box, Apiece
  <2> QED
    BY <2>1, CoordType, SideType
<1>3. CASE Joins(r, s, way) = {}
  <2>1. b = <<Zero, Zero>>
    BY <1>0, <1>3 DEF BestMove
  <2>2. Zero.x = 0 /\ Zero.y = 0 /\ Zero.w = 0
    BY DEF Zero, Square
  <2> QED
    BY <1>0, <2>1, <2>2, ZeroCoord DEF Side
<1>4. CASE Joins(r, s, way) # {} /\ ~Near
  <2>1. PICK p : p = BestPair(r, s, way) /\ p \in Pairs
    BY <1>2, <1>4, BestPairJoins DEF Joins
  <2>2. PICK t : t = Moved(r, Offset(r, s, p)) /\ t \in Apiece /\ t.w = r.w
    <3>1. LET m == Moved(r, Offset(r, s, p)) IN m \in Apiece /\ m.w = r.w
      <4>1. r \in Apiece /\ s \in Apiece /\ p \in Pairs
        BY <1>2, <2>1
      <4> QED
        BY <4>1, MovedType, Zenon
    <3> QED
      BY <3>1
  <2>3. PICK x \in Int, y \in Int : x = Least(t.x, s.x) /\ y = Least(t.y, s.y)
    <3>1. t.x \in Int /\ s.x \in Int /\ t.y \in Int /\ s.y \in Int
      BY <1>2, <2>2, PlaceType DEF Apiece
    <3> QED
      BY <3>1 DEF Least
  <2>4. PICK o : o = <<x, y>> /\ o[1] = x /\ o[2] = y
    <3>1. <<x, y>>[1] = x /\ <<x, y>>[2] = y
      OBVIOUS
    <3> QED
      BY <3>1
  <2>5. b = <<Moved(t, o), Moved(s, o)>>
    BY <1>0, <1>4, <2>1, <2>2, <2>3, <2>4 DEF BestMove
  <2>6. \A u \in Apiece : Moved(u, o) \in Apiece /\ Moved(u, o).w = u.w
    BY <2>4, MovedBox DEF Apiece
  <2>7. b[1] \in Apiece /\ b[2] \in Apiece /\ b[1].w = r.w /\ b[2].w = s.w
    BY <1>2, <2>2, <2>5, <2>6
  <2>8. Coord = Int16
    BY <1>4 DEF Coord
  <2>9. \A k \in {1, 2} : b[k].x \in Int16 /\ b[k].y \in Int16
    BY <2>7, PlaceType DEF Apiece
  <2> QED
    BY <1>0, <1>1, <2>7, <2>8, <2>9 DEF Side
<1>5. CASE Joins(r, s, way) # {} /\ Near
  <2>1. ASSUME NEW x \in Coord, NEW v \in Sizes, NEW w \in Side
        PROVE  Room(x, v, w)
    <3>1. CASE w \in Sizes
      <4>1. NoWrap(x, v, w)
        BY <1>5, <3>1, InReachThere
      <4> QED
        BY <4>1 DEF NoWrap, Room
    <3>2. CASE w = 0
      <4>1. NoWrap(x, v, v)
        BY <1>5, InReachThere
      <4>2. x + v \in Int16 /\ x \in Int /\ x \in Int16
        BY <4>1, CoordType DEF NoWrap
      <4> QED
        BY <3>2, <4>2 DEF Room
    <3> QED
      BY <3>1, <3>2 DEF Side
  <2>2. RoomFor(r, s)
    BY <1>1, <2>1 DEF RoomFor
  <2>3. \A w \in Side : w \in Int16
    BY <1>5, SizeInReach, InInt16 DEF Side
  <2>4. PICK t : \E p, q \in Int : Lands(b, t, r, s, p, q)
    <3>1. r.w \in Int16 /\ r.h \in Int16 /\ s.w \in Int16 /\ s.h \in Int16
      BY <1>1, <2>3 DEF Side
    <3>2. LET t == Moved(r, Offset(r, s, BestPair(r, s, way)))
          IN  \E p, q \in Int : Lands(BestMove(r, s, way), t, r, s, p, q)
      BY <1>2, <1>5, <2>2, <3>1, BestMoveMoves
    <3> QED
      BY <1>0, <3>2
  <2>5. PICK p \in Int, q \in Int : Lands(b, t, r, s, p, q)
    BY <2>4
  <2>6. ASSUME NEW k \in {1, 2} PROVE b[k].x \in Coord /\ b[k].y \in Coord
    <3>1. /\ b[k].x \in Nat /\ b[k].y \in Nat
          /\ b[k].x <= s.w \/ b[k].x <= r.w
          /\ b[k].y <= s.h \/ b[k].y <= r.h
      BY <2>5 DEF Lands
    <3>2. s.w \in Side /\ s.h \in Side
      BY <1>1 DEF Side
    <3> QED
      BY <1>1, <1>5, <3>1, <3>2, CoordBelow
  <2>7. b[1].w = r.w /\ b[2].w = s.w
    BY <2>5 DEF Lands
  <2> QED
    BY <1>0, <1>1, <2>6, <2>7 DEF Side
<1> QED
  BY <1>3, <1>4, <1>5

\* The correction of the layout changes places only.
Corrects(new, mm, K) ==
    /\ new \in Settings(K)
    /\ \A i \in Monitor : new[i].on = mm[i].on /\ new[i].size = mm[i].size

LEMMA AdjustedType ==
    ASSUME NEW K \in SUBSET Monitor, NEW mm \in Settings(K), NEW way, rect \in Box(Coord, Side),
           NEW new \in Adjusted(K, mm, way)
    PROVE  Corrects(new, mm, K)
<1>1. CASE new = mm
  BY <1>1 DEF Corrects
<1>2. CASE new # mm
  <2> DEFINE of(s) == Square(s.pos, s.size)
             p     == IF primary \in K THEN of(mm[primary]) ELSE rect
             move(b) == [i \in Monitor |->
                 IF i \notin K THEN mm[i]
                 ELSE LET r == IF i = primary THEN b[1] ELSE b[2]
                      IN  [mm[i] EXCEPT !.pos = <<r.x, r.y>>, !.w = r.w]]
  <2>1. PICK j \in K \ {primary} : new = move(BestMove(p, of(mm[j]), way))
    BY <1>2 DEF Adjusted
  <2>2. ASSUME NEW k \in K PROVE of(mm[k]) \in Box(Coord, Sizes) /\ of(mm[k]) \in Box(Coord, Side)
    BY SettingsAt, SquareBox DEF Side
  <2>3. p \in Box(Coord, Side) /\ of(mm[j]) \in Box(Coord, Sizes)
    BY <2>2
  <2>4. PICK b : b = BestMove(p, of(mm[j]), way)
    OBVIOUS
  <2> HIDE DEF of, p
  <2>5. \A k \in {1, 2} : b[k].x \in Coord /\ b[k].y \in Coord /\ b[k].w \in Side
    BY <2>3, <2>4, BestMoveType
  <2>6. ASSUME NEW i \in Monitor
        PROVE  /\ new[i] \in Setting /\ new[i].on = mm[i].on /\ new[i].size = mm[i].size
    <3>1. CASE i \in K
      <4> DEFINE r == IF i = primary THEN b[1] ELSE b[2]
      <4>1. r.x \in Coord /\ r.y \in Coord /\ r.w \in Side
        BY <2>5
      <4>2. new[i] = [mm[i] EXCEPT !.pos = <<r.x, r.y>>, !.w = r.w]
        BY <2>1, <2>4, <3>1
      <4> HIDE DEF r
      <4>3. PICK v \in Setting : v = mm[i]
        BY SettingsAt
      <4>4. PICK x \in Coord, y \in Coord, z \in Side : r.x = x /\ r.y = y /\ r.w = z
        BY <4>1
      <4>5. new[i] = [v EXCEPT !.pos = <<x, y>>, !.w = z]
        BY <4>2, <4>3, <4>4
      <4>6. [v EXCEPT !.pos = <<x, y>>, !.w = z] \in Setting
        BY DEF Setting, Place, Side
      <4>7. new[i].on = v.on /\ new[i].size = v.size
        BY <4>5 DEF Setting
      <4> QED
        BY <4>3, <4>5, <4>6, <4>7
    <3>2. CASE i \notin K
      BY <2>1, <3>2, SettingsAt
    <3> QED
      BY <3>1, <3>2
  <2>7. new = [i \in Monitor |-> new[i]]
    BY <2>1
  <2>8. \A i \in Monitor : mm[i].size = 0 <=> i \notin K
    BY SettingsAt
  <2> HIDE DEF move
  <2> QED
    BY <2>6, <2>7, <2>8 DEF Corrects, Settings
<1> QED
  BY <1>1, <1>2

-----------------------------------------------------------------------------
(* What is stored has its type.                                            *)

LEMMA NothingStored == Nothing \in Configs /\ Nothing \in Partial(Monitor, Output)
<1>1. Nothing \in [{} -> Config] /\ Nothing \in [{} -> Output]
  BY DEF Nothing
<1> QED
  BY <1>1, PartialIn DEF Configs

LEMMA ToConfigType ==
    ASSUME NEW v \in Setting, NEW p \in BOOLEAN
    PROVE  ToConfig(v, p) \in Config
<1>1. v.on \in BOOLEAN /\ v.pos \in Place
  BY DEF Setting
<1>2. v.w \in Nat
  <2>1. v.w \in Side
    BY DEF Setting, Side
  <2> QED
    BY <2>1, SideType
<1> QED
  BY <1>1, <1>2 DEF ToConfig, Config

LEMMA ToConfigsType ==
    ASSUME NEW K \in SUBSET Monitor, NEW L, NEW mm \in Settings(L), NEW p
    PROVE  ToConfigs(K, mm, p) \in Configs
<1>1. ASSUME NEW i \in K PROVE ToConfig(mm[i], i = p) \in Config
  <2>1. mm[i].on \in BOOLEAN /\ mm[i].pos \in Place /\ mm[i].w \in Nat
    BY SettingsAt
  <2>2. (i = p) \in BOOLEAN
    OBVIOUS
  <2> QED
    BY <2>1, <2>2 DEF ToConfig, Config
<1>2. ToConfigs(K, mm, p) \in [K -> Config]
  BY <1>1 DEF ToConfigs
<1> QED
  BY <1>2, PartialIn DEF Configs

LEMMA MergeOnlyType ==
    ASSUME NEW old \in Configs, NEW new \in Configs
    PROVE  MergeOnly(old, new) \in Configs
<1> DEFINE K == {j \in DOMAIN new : new[j].on \/ j \in DOMAIN old}
           f == MergeOnly(old, new)
<1>1. /\ DOMAIN new \in SUBSET Monitor /\ \A i \in DOMAIN new : new[i] \in Config
      /\ \A i \in DOMAIN old : old[i] \in Config
  BY PartialOut DEF Configs
<1>2. ASSUME NEW i \in K PROVE f[i] \in Config
  <2>1. CASE new[i].on
    BY <1>1, <2>1 DEF MergeOnly
  <2>2. CASE ~new[i].on
    <3>1. PICK v \in Config, u \in Config : v = new[i] /\ u = old[i]
      BY <1>1, <2>2
    <3>2. f[i] = [v EXCEPT !.size = u.size]
      BY <2>2, <3>1 DEF MergeOnly
    <3> QED
      BY <3>2 DEF Config
  <2> QED
    BY <2>1, <2>2
<1>3. f = [i \in K |-> f[i]]
  BY DEF MergeOnly
<1> HIDE DEF f
<1>4. f \in [K -> Config] /\ K \in SUBSET Monitor
  BY <1>1, <1>2, <1>3
<1> QED
  BY <1>4, PartialIn DEF Configs, f

LEMMA ScreenAt ==
    ASSUME NEW sc \in ScreenConfig
    PROVE  /\ sc.single \in SUBSET Config /\ sc.extend \in Configs /\ sc.only \in Configs
           /\ DOMAIN sc.custom \in SUBSET (Name \cup {""})
           /\ \A n \in DOMAIN sc.custom : sc.custom[n] \in Configs
<1>1. /\ sc.custom \in Partial(Name \cup {""}, Configs)
      /\ sc.single \in SUBSET Config /\ sc.extend \in Configs /\ sc.only \in Configs
  BY DEF ScreenConfig
<1>2. DOMAIN sc.custom \in SUBSET (Name \cup {""}) /\ sc.custom \in [DOMAIN sc.custom -> Configs]
  BY <1>1, PartialOut
<1>3. ASSUME NEW n \in DOMAIN sc.custom PROVE sc.custom[n] \in Configs
  <2>1. PICK f \in [DOMAIN sc.custom -> Configs] : f = sc.custom
    BY <1>2
  <2>2. f[n] \in Configs
    BY <2>1
  <2> QED
    BY <2>1, <2>2
<1> QED
  BY <1>1, <1>2, <1>3

LEMMA StoredType ==
    ASSUME NEW sc \in ScreenConfig, NEW m \in Mode, NEW n
    PROVE  Stored(sc, m, n) \in Configs
BY ScreenAt, NothingStored DEF Stored, Mode

LEMMA NewCustom ==
    ASSUME NEW sc \in ScreenConfig, NEW N \in SUBSET (Name \cup {""}), NEW f \in [N -> Configs]
    PROVE  [sc EXCEPT !.custom = f] \in ScreenConfig
<1>1. f \in Partial(Name \cup {""}, Configs)
  BY PartialIn
<1> QED
  BY <1>1 DEF ScreenConfig

LEMMA StoreType ==
    ASSUME NEW sc \in ScreenConfig, NEW m \in Mode, NEW n \in Name \cup {""}, NEW new \in Configs
    PROVE  Store(sc, m, n, new) \in ScreenConfig
<1>1. CASE m = "custom"
  <2> DEFINE f == Merge(sc.custom, [x \in {n} |-> new])
             N == DOMAIN sc.custom \cup {n}
  <2>1. f \in [N -> Configs]
    <3>1. PICK old : old = sc.custom
      OBVIOUS
    <3>2. \A x \in DOMAIN old : old[x] \in Configs
      BY <3>1, ScreenAt
    <3>3. f = [x \in DOMAIN old \cup {n} |-> IF x \in {n} THEN new ELSE old[x]]
      BY <3>1 DEF Merge
    <3>4. N = DOMAIN old \cup {n}
      BY <3>1
    <3> HIDE DEF f, N
    <3> QED
      BY <3>2, <3>3, <3>4
  <2>2. N \in SUBSET (Name \cup {""})
    BY ScreenAt
  <2>3. Store(sc, m, n, new) = [sc EXCEPT !.custom = f]
    BY <1>1 DEF Store
  <2> HIDE DEF f, N
  <2>4. [sc EXCEPT !.custom = f] \in ScreenConfig
    BY <2>1, <2>2, NewCustom
  <2> QED
    BY <2>3, <2>4
<1>2. CASE m = "extend"
  BY <1>2 DEF Store, ScreenConfig
<1>3. CASE m = "only"
  <2>1. PICK f \in Configs : f = MergeOnly(sc.only, new)
    BY ScreenAt, MergeOnlyType
  <2>2. Store(sc, m, n, new) = [sc EXCEPT !.only = f]
    BY <1>3, <2>1 DEF Store
  <2> QED
    BY <2>2 DEF ScreenConfig
<1>4. CASE m = "mirror"
  BY <1>4 DEF Store
<1> QED
  BY <1>1, <1>2, <1>3, <1>4 DEF Mode

-----------------------------------------------------------------------------
(* What an operation of goroutine a with task t leaves, when K are known:  *)
(* a task that it goes on with, or the set of monitors noted.              *)

StoredConfigs == [SUBSET Monitor -> ScreenConfig]

AllBeside(S, cmd) == \A i, j \in S : i = j \/ Beside(Square(cmd[i].pos, cmd[i].size),
                                                     Square(cmd[j].pos, cmd[j].size))

\* A command that enables the monitors on, with their places in new
Enables(cmd, on, new, K) ==
    /\ on = {i \in K : new[i].on}
    /\ cmd = [i \in on |-> [on |-> TRUE, pos |-> new[i].pos, size |-> new[i].size]]

\* Of goroutine a, what Joined says of all
JoinedBy(a) ==
    LET cmd == task'[a].cmd
    IN  pc'[a] = "set" /\ pc[a] # "set" /\ mode = "custom" /\ Cardinality(DOMAIN cmd) = 2
            /\ primary \in DOMAIN cmd /\ RealMode(DOMAIN cmd, cmd) # "mirror"
        => AllBeside(DOMAIN cmd, cmd)

\* Where it is proved: two monitors, whose sizes are even and whose places are in reach.
TwoEven == Cardinality(Monitor) = 2 /\ Sizes \subseteq Even /\ InReach

Done(a, t, K) ==
    /\ TwoEven => JoinedBy(a)
    /\ mem' \in Settings(K)
    /\ config' \in StoredConfigs
    /\ DOMAIN pc' = Actor /\ DOMAIN task' = Actor
    /\ \A b \in Actor \ {a} : pc'[b] = pc[b] /\ task'[b] = task[b]
    /\ AtWork(pc'[a], task'[a])
    /\ \/ pc'[a] = "idle" /\ ids' = Ids(t, t.scr)
       \/ pc'[a] # "idle" /\ ids' = ids /\ task'[a].by = t.by /\ task'[a].scr = t.scr

\* t is u but for what an operation notes on its way.
Notes(t, u) == t \in Task /\ t.by = u.by /\ t.scr = u.scr /\ t.mode = u.mode /\ t.name = u.name

LEMMA RestTask == Rest \in Task
BY NothingStored DEF Rest, Task, Op, Mode, None

LEMMA ForTask ==
    ASSUME NEW by \in {"none", "ids", "init", "switch", "call"}, NEW m \in Mode,
           NEW n \in Name \cup {""}, NEW K \in SUBSET Monitor
    PROVE  /\ For(by, m, n, K) \in Task
           /\ For(by, m, n, K).by = by /\ For(by, m, n, K).mode = m /\ For(by, m, n, K).name = n
           /\ For(by, m, n, K).scr = K /\ For(by, m, n, K).main = None
BY RestTask DEF For, Rest, Task

LEMMA NotedOp ==
    ASSUME NEW t \in Task, NEW x \in Op
    PROVE  /\ Notes([t EXCEPT !.op = x], t) /\ [t EXCEPT !.op = x].op = x
           /\ [t EXCEPT !.op = x].main = t.main
BY DEF Task, Notes

LEMMA NotedSave ==
    ASSUME NEW t \in Task, NEW s \in BOOLEAN
    PROVE  /\ Notes([t EXCEPT !.save = s], t) /\ [t EXCEPT !.save = s].main = t.main
BY DEF Task, Notes

LEMMA NotedMain ==
    ASSUME NEW t \in Task, NEW i \in Monitor \cup {None}
    PROVE  /\ Notes([t EXCEPT !.main = i], t) /\ [t EXCEPT !.main = i].main = i
BY DEF Task, Notes

LEMMA NotedEnd ==
    ASSUME NEW t \in Task
    PROVE  Notes([t EXCEPT !.cmd = Nothing, !.off = {}], t)
BY NothingStored DEF Task, Notes

LEMMA NotedOpMain ==
    ASSUME NEW t \in Task, NEW x \in Op, NEW i \in Monitor \cup {None}
    PROVE  /\ Notes([t EXCEPT !.op = x, !.main = i], t) /\ [t EXCEPT !.op = x, !.main = i].main = i
BY DEF Task, Notes

LEMMA NotedOpSave ==
    ASSUME NEW t \in Task, NEW x \in Op, NEW s \in BOOLEAN
    PROVE  Notes([t EXCEPT !.op = x, !.save = s], t)
BY DEF Task, Notes

LEMMA NotedOpMainSave ==
    ASSUME NEW t \in Task, NEW x \in Op, NEW i \in Monitor \cup {None}, NEW s \in BOOLEAN
    PROVE  /\ Notes([t EXCEPT !.op = x, !.main = i, !.save = s], t)
           /\ [t EXCEPT !.op = x, !.main = i, !.save = s].main = i
BY DEF Task, Notes

LEMMA NotedTrans ==
    ASSUME NEW t, NEW u, NEW v, Notes(t, u), Notes(u, v)
    PROVE  Notes(t, v)
BY DEF Notes

LEMMA EvenBox ==
    ASSUME TwoEven, NEW p \in Place, NEW z \in Sizes
    PROVE  Square(p, z) \in Rectangle
BY PlaceCoords DEF Square, Rectangle, Box, TwoEven

LEMMA SquaresInReach ==
    ASSUME TwoEven, NEW p \in Place, NEW z \in Sizes, NEW q, NEW w \in Sizes
    PROVE  LET s == Square(p, z)
               r == Square(q, w)
           IN  NoWrap(s.x, s.w, r.w) /\ NoWrap(s.y, s.h, r.h)
<1>1. NoWrap(p[1], z, w) /\ NoWrap(p[2], z, w)
  BY PlaceCoords, InReachThere DEF TwoEven, Near
<1> QED
  BY <1>1 DEF Square

\* A layout for two monitors, with the command that applies it
LEMMA AdjustedJoins ==
    ASSUME TwoEven, NEW K \in SUBSET Monitor, NEW mm \in Settings(K), NEW way \in Position,
           NEW new \in Adjusted(K, mm, way), Corrects(new, mm, K),
           mode = "custom", NEW on, NEW cmd, Enables(cmd, on, new, K), Cardinality(on) = 2, primary \in on,
           RealMode(on, cmd) # "mirror"
    PROVE  AllBeside(on, cmd)
<1>1. IsFiniteSet(Monitor) /\ Cardinality(Monitor) = 2
  BY ConstantsAssumption DEF ConstantsAssumption, TwoEven
<1>2. on = Monitor /\ K = Monitor
  <2>1. on \in SUBSET Monitor /\ on \subseteq K
    BY DEF Enables
  <2>2. on = Monitor
    BY <1>1, <2>1, FS_Subset
  <2> QED
    BY <2>1, <2>2
<1>3. PICK q : Monitor = {primary, q} /\ primary # q
  <2>1. PICK p : p = primary /\ p \in Monitor
    BY <1>2
  <2>2. IsFiniteSet(Monitor \ {p}) /\ Cardinality(Monitor \ {p}) = 1
    BY <1>1, <2>1, FS_RemoveElement
  <2>3. PICK q : Monitor \ {p} = {q}
    BY <2>2, FS_Singleton
  <2>4. q # p /\ Monitor = {p, q}
    BY <2>1, <2>3
  <2> QED
    BY <2>1, <2>4
<1>4. \A i \in Monitor : /\ new[i].on /\ mm[i].on /\ new[i].size = mm[i].size
                        /\ cmd[i].pos = new[i].pos /\ cmd[i].size = new[i].size /\ cmd[i].on
  BY <1>2 DEF Corrects, Enables
<1>5. cmd[primary].pos # cmd[q].pos
  BY <1>2, <1>3, <1>4 DEF RealMode
<1>6. RealMode(K, mm) = "extend"
  <2>1. {i \in K : mm[i].on} = on
    BY <1>2, <1>4
  <2>2. CASE \E i, j \in on : i # j /\ mm[i].pos = mm[j].pos
    <3>1. mm[primary].pos = mm[q].pos
      BY <1>2, <1>3, <2>2
    <3>2. RealMode(K, mm) = "mirror"
      BY <2>1, <2>2 DEF RealMode
    <3>3. new = mm
      BY <3>2 DEF Adjusted
    <3> QED
      BY <1>3, <1>4, <1>5, <3>1, <3>3
  <2>3. CASE ~\E i, j \in on : i # j /\ mm[i].pos = mm[j].pos
    <3>1. on # {}
      OBVIOUS
    <3>2. ~(Cardinality(on) = 1)
      OBVIOUS
    <3> QED
      BY <2>1, <2>3, <3>1, <3>2 DEF RealMode
  <2> QED
    BY <2>2, <2>3
<1> DEFINE of(s) == Square(s.pos, s.size)
<1>7. PICK b : /\ b = BestMove(of(mm[primary]), of(mm[q]), way)
               /\ new[primary].pos = <<b[1].x, b[1].y>> /\ new[q].pos = <<b[2].x, b[2].y>>
  <2> DEFINE p == IF primary \in K THEN of(mm[primary]) ELSE rect
             move(b) == [i \in Monitor |->
                 IF i \notin K THEN mm[i]
                 ELSE LET r == IF i = primary THEN b[1] ELSE b[2]
                      IN  [mm[i] EXCEPT !.pos = <<r.x, r.y>>, !.w = r.w]]
  <2>1. PICK j \in K \ {primary} : new = move(BestMove(p, of(mm[j]), way))
    BY <1>6 DEF Adjusted
  <2>2. j = q /\ p = of(mm[primary])
    BY <1>2, <1>3
  <2>3. PICK b : b = BestMove(of(mm[primary]), of(mm[q]), way)
    OBVIOUS
  <2>4. new = move(b)
    BY <2>1, <2>2, <2>3
  <2>5. ASSUME NEW i \in Monitor PROVE new[i].pos = LET r == IF i = primary THEN b[1] ELSE b[2] IN <<r.x, r.y>>
    <3>1. PICK v \in Setting : v = mm[i]
      BY SettingsAt
    <3>2. PICK r : r = IF i = primary THEN b[1] ELSE b[2]
      OBVIOUS
    <3>3. new[i] = [v EXCEPT !.pos = <<r.x, r.y>>, !.w = r.w]
      BY <1>2, <2>4, <3>1, <3>2
    <3>4. new[i].pos = <<r.x, r.y>>
      BY <3>3 DEF Setting
    <3> QED
      BY <3>2, <3>4
  <2> QED
    BY <1>3, <2>3, <2>5
<1>8. ASSUME NEW i \in Monitor PROVE of(mm[i]) \in Rectangle
  <2>1. mm[i].pos \in Place /\ mm[i].size \in Sizes
    BY <1>2, SettingsAt
  <2> QED
    BY <2>1, EvenBox
<1>9. /\ NoWrap(of(mm[q]).x, of(mm[q]).w, of(mm[primary]).w)
      /\ NoWrap(of(mm[q]).y, of(mm[q]).h, of(mm[primary]).h)
  BY <1>2, <1>3, SettingsAt, SquaresInReach
<1>10. of(mm[primary]) \in Rectangle /\ of(mm[q]) \in Rectangle
  BY <1>3, <1>8
<1>11. Beside(b[1], b[2]) /\ b[1].w = mm[primary].size /\ b[1].h = mm[primary].size
       /\ b[2].w = mm[q].size /\ b[2].h = mm[q].size
  <2>1. PICK u \in Rectangle, v \in Rectangle : u = of(mm[primary]) /\ v = of(mm[q])
    BY <1>10
  <2>2. b = BestMove(u, v, way)
    BY <1>7, <2>1
  <2> HIDE DEF of
  <2>3. Beside(b[1], b[2]) /\ b[1].w = u.w /\ b[1].h = u.h /\ b[2].w = v.w /\ b[2].h = v.h
    <3>1. LET c == BestMove(u, v, way)
          IN  /\ Beside(c[1], c[2])
              /\ Least(c[1].x, c[2].x) = 0 /\ Least(c[1].y, c[2].y) = 0
              /\ c[1].w = u.w /\ c[1].h = u.h /\ c[2].w = v.w /\ c[2].h = v.h
      BY <1>9, <2>1, BestMoveJoins DEF of
    <3> QED
      BY <2>2, <3>1
  <2> USE DEF of
  <2> QED
    BY <2>1, <2>3 DEF Square
<1>12. ASSUME NEW x \in {1, 2}, NEW y \in {1, 2}, NEW i, NEW j,
              Beside(b[x], b[y]), cmd[i].pos = <<b[x].x, b[x].y>>, cmd[j].pos = <<b[y].x, b[y].y>>,
              b[x].w = cmd[i].size, b[x].h = cmd[i].size, b[y].w = cmd[j].size, b[y].h = cmd[j].size
       PROVE  Beside(of(cmd[i]), of(cmd[j]))
  <2>1. \A z \in {i, j} : /\ of(cmd[z]).w = cmd[z].size /\ of(cmd[z]).h = cmd[z].size
                          /\ of(cmd[z]).x = cmd[z].pos[1] /\ of(cmd[z]).y = cmd[z].pos[2]
    BY DEF Square
  <2>2. /\ of(cmd[i]).x = b[x].x /\ of(cmd[i]).y = b[x].y /\ of(cmd[i]).w = b[x].w /\ of(cmd[i]).h = b[x].h
        /\ of(cmd[j]).x = b[y].x /\ of(cmd[j]).y = b[y].y /\ of(cmd[j]).w = b[y].w /\ of(cmd[j]).h = b[y].h
    BY <1>12, <2>1
  <2> HIDE DEF of
  <2> QED
    BY <1>12, <2>2 DEF Beside
<1>13. Beside(b[2], b[1])
  BY <1>11 DEF Beside
<1>14. /\ cmd[primary].pos = <<b[1].x, b[1].y>> /\ cmd[q].pos = <<b[2].x, b[2].y>>
       /\ cmd[primary].size = mm[primary].size /\ cmd[q].size = mm[q].size
  BY <1>3, <1>4, <1>7
<1>15. Beside(of(cmd[primary]), of(cmd[q])) /\ Beside(of(cmd[q]), of(cmd[primary]))
  BY <1>11, <1>12, <1>13, <1>14
<1> QED
  BY <1>2, <1>3, <1>15 DEF AllBeside

LEMMA StartDone ==
    ASSUME Typed, NEW a \in Actor, NEW u, NEW t, Notes(t, u), NEW K \in SUBSET Monitor, NEW mm \in Settings(K),
           Start(a, t, K, mm),
           t.op = "mirror" \/ t.main = None \/ (t.main \in K /\ mm[t.main].on)
    PROVE  Done(a, u, K)
<1>1. PICK new \in Adjusted(K, mm, how) :
          LET on == {i \in K : new[i].on}
          IN  /\ mem' = new
              /\ task' = [task EXCEPT ![a] = [t EXCEPT
                              !.cmd = [i \in on |-> [on |-> TRUE, pos |-> new[i].pos, size |-> new[i].size]],
                              !.off = K \ on]]
              /\ pc' = [pc EXCEPT ![a] = IF on # {} THEN "set" ELSE IF K # {} THEN "unset" ELSE "end"]
              /\ UNCHANGED <<ids, config>>
  BY DEF Start
<1> DEFINE on == {i \in K : new[i].on}
           cmd == [i \in on |-> [on |-> TRUE, pos |-> new[i].pos, size |-> new[i].size]]
<1>2. Corrects(new, mm, K)
  BY AdjustedType DEF Typed, ShownType
<1>3. new \in Settings(K) /\ \A i \in Monitor : new[i].on = mm[i].on
  BY <1>2 DEF Corrects
<1>4. cmd \in Partial(Monitor, Output)
  <2>1. ASSUME NEW i \in on PROVE cmd[i] \in Output
    <3>1. new[i].pos \in Place /\ new[i].size \in Sizes
      BY <1>3, SettingsAt
    <3> QED
      BY <3>1 DEF Output
  <2>2. cmd \in [on -> Output] /\ on \in SUBSET Monitor
    BY <2>1
  <2> HIDE DEF cmd, on
  <2> QED
    BY <2>2, PartialIn
<1>5. DOMAIN cmd = on /\ K \ on \in SUBSET Monitor
  OBVIOUS
<1>6. DOMAIN pc = Actor /\ DOMAIN task = Actor /\ config \in StoredConfigs
  BY DEF Typed, WorkType, StoredConfigs
<1>7. task'[a] = [t EXCEPT !.cmd = cmd, !.off = K \ on]
  BY <1>1, <1>6
<1>8. pc'[a] = IF on # {} THEN "set" ELSE IF K # {} THEN "unset" ELSE "end"
  BY <1>1, <1>6
<1>9. t.op = "mirror" \/ t.main = None \/ t.main \in on
  BY <1>3
<1>10. /\ \A b \in Actor \ {a} : pc'[b] = pc[b] /\ task'[b] = task[b]
       /\ DOMAIN pc' = Actor /\ DOMAIN task' = Actor
       /\ mem' \in Settings(K) /\ ids' = ids /\ config' \in StoredConfigs
  BY <1>1, <1>3, <1>6
<1> HIDE DEF cmd, on
<1>11. /\ task'[a] \in Task
       /\ task'[a].cmd = cmd /\ task'[a].off = K \ on /\ task'[a].op = t.op /\ task'[a].main = t.main
       /\ task'[a].by = t.by /\ task'[a].scr = t.scr
  BY <1>4, <1>5, <1>7 DEF Task, Notes
<1>12. AtWork(pc'[a], task'[a])
  BY <1>5, <1>8, <1>9, <1>11 DEF AtWork
<1>13. TwoEven => JoinedBy(a)
  <2>1. how \in Position
    BY DEF Typed, EditType
  <2>2. Enables(cmd, on, new, K)
    BY DEF cmd, on, Enables
  <2>3. PICK c : c = task'[a].cmd
    OBVIOUS
  <2>4. c = cmd /\ DOMAIN c = on
    BY <1>5, <1>11, <2>3
  <2>5. SUFFICES ASSUME TwoEven, mode = "custom", Cardinality(on) = 2, primary \in on, RealMode(on, cmd) # "mirror"
                 PROVE  AllBeside(on, cmd)
    BY <2>3, <2>4 DEF JoinedBy
  <2> QED
    BY <1>1, <1>2, <2>1, <2>2, <2>5, AdjustedJoins
<1> QED
  BY <1>8, <1>10, <1>11, <1>12, <1>13 DEF Done, Notes

LEMMA ReturnDone ==
    ASSUME Typed, NEW a \in Actor, NEW u, NEW t, Notes(t, u), NEW K, NEW mm \in Settings(K),
           Return(a, t, u.scr, mm)
    PROVE  Done(a, u, K)
<1>1. /\ pc' = [pc EXCEPT ![a] = "idle"] /\ task' = [task EXCEPT ![a] = Rest]
      /\ mem' = mm /\ ids' = Ids(t, t.scr) /\ config' = config
  BY DEF Return, Notes
<1>2. DOMAIN pc = Actor /\ DOMAIN task = Actor /\ config \in StoredConfigs
  BY DEF Typed, WorkType, StoredConfigs
<1>3. pc'[a] = "idle" /\ task'[a] = Rest
  BY <1>1, <1>2
<1>4. AtWork("idle", Rest)
  BY RestTask DEF AtWork
<1>5. Ids(t, t.scr) = Ids(u, u.scr)
  BY DEF Ids, Notes
<1> QED
  BY <1>1, <1>2, <1>3, <1>4, <1>5 DEF Done, JoinedBy

LEMMA SaveDone ==
    ASSUME Typed, NEW a \in Actor, NEW u, NEW t, Notes(t, u), NEW K, mem' \in Settings(K),
           NEW cfg \in StoredConfigs, Save(a, t, cfg)
    PROVE  Done(a, u, K)
<1>1. /\ pc' = [pc EXCEPT ![a] = "save"] /\ config' = cfg /\ ids' = ids
      /\ task' = [task EXCEPT ![a] = [t EXCEPT !.cmd = Nothing, !.off = {}]]
  BY DEF Save
<1>2. DOMAIN pc = Actor /\ DOMAIN task = Actor
  BY DEF Typed, WorkType
<1>3. pc'[a] = "save" /\ task'[a] = [t EXCEPT !.cmd = Nothing, !.off = {}]
  BY <1>1, <1>2
<1>4. t \in Task
  BY DEF Notes
<1>5. Notes(task'[a], t)
  BY <1>3, <1>4, NotedEnd
<1>6. AtWork(pc'[a], task'[a])
  BY <1>3, <1>5 DEF AtWork, Notes
<1> QED
  BY <1>1, <1>2, <1>3, <1>5, <1>6 DEF Done, Notes, JoinedBy

-----------------------------------------------------------------------------
(* The operations that apply a layout.                                     *)

LEMMA ApplyConfigsDone ==
    ASSUME Typed, NEW a \in Actor, NEW u, NEW t, Notes(t, u), NEW K \in SUBSET Monitor,
           NEW mm \in Settings(K), NEW cfg \in Configs, ApplyConfigs(a, t, K, mm, cfg)
    PROVE  Done(a, u, K)
<1>1. PICK i \in OneOf({j \in Named(K, cfg) : cfg[j].on}) :
          Start(a, [t EXCEPT !.op = "configs", !.main = i], K, Configured(K, mm, cfg))
  BY DEF ApplyConfigs
<1>2. i = None \/ (i \in K \cap DOMAIN cfg /\ cfg[i].on)
  BY <1>1 DEF OneOf, Named
<1>3. PICK s : s = [t EXCEPT !.op = "configs", !.main = i]
  OBVIOUS
<1>4. Notes(s, t) /\ s.main = i
  <2>1. t \in Task /\ i \in Monitor \cup {None} /\ "configs" \in Op
    BY <1>2 DEF Notes, Op
  <2> QED
    BY <1>3, <2>1, NotedOpMain
<1>5. PICK new : new = Configured(K, mm, cfg)
  OBVIOUS
<1>6. new \in Settings(K) /\ (i # None => i \in K /\ new[i].on)
  BY <1>2, <1>5, ConfiguredType
<1>7. Start(a, s, K, new)
  BY <1>1, <1>3, <1>5
<1>8. Notes(s, u)
  BY <1>4, NotedTrans
<1> QED
  BY <1>4, <1>6, <1>7, <1>8, StartDone

LEMMA SwitchExtendDone ==
    ASSUME Typed, NEW a \in Actor, NEW u, NEW t, Notes(t, u), NEW K \in SUBSET Monitor,
           NEW mm \in Settings(K), SwitchExtend(a, t, K, mm)
    PROVE  Done(a, u, K)
<1> DEFINE cfg == config[K].extend
           first == {i \in Named(K, cfg) : \A j \in Named(K, cfg) : i = j \/ Before(i, j)}
           i0 == IF t.save /\ primary \in K THEN primary
                 ELSE IF first = {} THEN MinID(K) ELSE CHOOSE i \in first : TRUE
           s == [t EXCEPT !.op = "extend", !.main = i0]
           new == Extended(K, mm, cfg)
<1>1. Start(a, s, K, new)
  BY DEF SwitchExtend
<1>2. cfg \in Configs
  <2>1. config[K] \in ScreenConfig
    BY DEF Typed, WorkType
  <2> QED
    BY <2>1, ScreenAt
<1>3. i0 \in K \cup {None}
  <2>1. first \subseteq K
    BY DEF Named
  <2> HIDE DEF first
  <2>2. first # {} => (CHOOSE i \in first : TRUE) \in K
    BY <2>1
  <2>3. MinID(K) \in K \cup {None}
    BY MinMember
  <2> QED
    BY <2>2, <2>3
<1> HIDE DEF i0, cfg
<1>4. Notes(s, t) /\ s.main = i0
  <2>1. t \in Task /\ i0 \in Monitor \cup {None} /\ "extend" \in Op
    BY <1>3 DEF Notes, Op
  <2> QED
    BY <2>1, NotedOpMain
<1>5. new \in Settings(K) /\ \A i \in K : new[i].on
  BY <1>2, ExtendedType
<1> HIDE DEF s, new
<1>6. Notes(s, u)
  BY <1>4, NotedTrans
<1> QED
  BY <1>1, <1>3, <1>4, <1>5, <1>6, StartDone

LEMMA SwitchMirrorDone ==
    ASSUME Typed, NEW a \in Actor, NEW u, NEW t, Notes(t, u), NEW K \in SUBSET Monitor, K # {},
           u.scr = K, NEW mm \in Settings(K), SwitchMirror(a, t, K, mm)
    PROVE  Done(a, u, K)
<1>1. t \in Task /\ "mirror" \in Op /\ TRUE \in BOOLEAN
  BY DEF Notes, Op
<1>2. CASE Common(K) # {}
  <2>1. PICK s : s = [t EXCEPT !.op = "mirror"]
    OBVIOUS
  <2>2. Notes(s, t) /\ s.op = "mirror"
    BY <1>1, <2>1, NotedOp
  <2>3. PICK new : new = Mirrored(K, mm)
    OBVIOUS
  <2>4. new \in Settings(K)
    BY <1>2, <2>3, MirroredType
  <2>5. Start(a, s, K, new)
    BY <1>2, <2>1, <2>3 DEF SwitchMirror
  <2>6. Notes(s, u)
    BY <2>2, NotedTrans
  <2> QED
    BY <2>2, <2>4, <2>5, <2>6, StartDone
<1>3. CASE Common(K) = {} /\ t.op = "custom"
  <2>1. PICK s : s = [t EXCEPT !.save = TRUE]
    OBVIOUS
  <2>2. Notes(s, t)
    BY <1>1, <2>1, NotedSave
  <2>3. SwitchExtend(a, s, K, mm)
    BY <1>3, <2>1 DEF SwitchMirror
  <2>4. Notes(s, u)
    BY <2>2, NotedTrans
  <2> QED
    BY <2>3, <2>4, SwitchExtendDone
<1>4. CASE Common(K) = {} /\ t.op # "custom"
  <2>1. Return(a, t, K, mm)
    BY <1>4 DEF SwitchMirror
  <2>2. K = u.scr
    OBVIOUS
  <2> QED
    BY <2>1, <2>2, ReturnDone
<1> QED
  BY <1>2, <1>3, <1>4

LEMMA SwitchOnlyDone ==
    ASSUME Typed, NEW a \in Actor, NEW u, NEW t, Notes(t, u), NEW K \in SUBSET Monitor, K # {},
           u.scr = K, NEW mm \in Settings(K), NEW i, SwitchOnly(a, t, i, K, mm)
    PROVE  Done(a, u, K)
<1> DEFINE cfg == config[K].only
           kept == {j \in DOMAIN cfg : cfg[j].on}
           s(j, new) == [t EXCEPT !.op = "only", !.main = j, !.save = new]
           only(j, new) == Start(a, s(j, new), K, Alone(j, K, mm, cfg))
<1>1. ASSUME NEW j \in K, NEW save \in BOOLEAN, only(j, save) PROVE Done(a, u, K)
  <2>1. PICK v : v = s(j, save)
    OBVIOUS
  <2>2. Notes(v, t) /\ v.main = j
    <3>1. t \in Task /\ j \in Monitor \cup {None} /\ "only" \in Op
      BY DEF Notes, Op
    <3> QED
      BY <2>1, <3>1 DEF Task, Notes
  <2>3. PICK new : new = Alone(j, K, mm, cfg)
    OBVIOUS
  <2> HIDE DEF cfg
  <2>4. new \in Settings(K) /\ new[j].on
    BY <2>3, AloneType
  <2>5. Start(a, v, K, new)
    BY <1>1, <2>1, <2>3
  <2>6. Notes(v, u)
    BY <2>2, NotedTrans
  <2> QED
    BY <2>2, <2>4, <2>5, <2>6, StartDone
<1>2. CASE i # None /\ i \notin K
  <2>1. Return(a, t, K, mm)
    BY <1>2 DEF SwitchOnly
  <2>2. K = u.scr
    OBVIOUS
  <2> QED
    BY <2>1, <2>2, ReturnDone
<1>3. MinID(K) \in K
  BY MinMember, ConstantsAssumption DEF ConstantsAssumption
<1>4. (i # None /\ i \in K) \/ i = None => \E j \in K, save \in BOOLEAN : only(j, save)
  <2>1. CASE i # None /\ i \in K
    <3>1. only(i, TRUE)
      BY <2>1 DEF SwitchOnly
    <3> QED
      BY <2>1, <3>1
  <2>2. CASE i = None /\ kept # {}
    <3>1. PICK j \in kept : IF j \in K THEN only(j, FALSE) ELSE only(MinID(K), TRUE)
      BY <2>2 DEF SwitchOnly
    <3> HIDE DEF only, kept
    <3> QED
      BY <1>3, <3>1
  <2>3. CASE i = None /\ kept = {}
    <3>1. only(MinID(K), TRUE)
      BY <2>3 DEF SwitchOnly
    <3> HIDE DEF only
    <3> QED
      BY <1>3, <3>1
  <2> HIDE DEF only, kept
  <2> QED
    BY <2>1, <2>2, <2>3
<1> HIDE DEF only
<1> QED
  BY <1>1, <1>2, <1>4

LEMMA SaveCustomDone ==
    ASSUME Typed, NEW a \in Actor, NEW u, NEW t, Notes(t, u), NEW K \in SUBSET Monitor,
           NEW mm \in Settings(K), SaveCustom(a, t, K, mm)
    PROVE  Done(a, u, K)
<1>1. t \in Task /\ "stored" \in Op /\ t.scr \in SUBSET Monitor /\ t.name \in Name \cup {""}
  BY DEF Notes, Op, Task
<1>2. PICK s : s = [t EXCEPT !.op = "stored"]
  OBVIOUS
<1>3. Notes(s, u)
  BY <1>1, <1>2, NotedOp, NotedTrans
<1>4. PICK new \in ScreenConfig :
          new = Store(config[t.scr], "custom", t.name, ToConfigs(K, mm, primary))
  <2>1. ToConfigs(K, mm, primary) \in Configs
    BY ToConfigsType
  <2>2. config[t.scr] \in ScreenConfig /\ "custom" \in Mode
    BY <1>1 DEF Typed, WorkType, Mode
  <2> QED
    BY <1>1, <2>1, <2>2, StoreType
<1>5. PICK cfg : cfg = [config EXCEPT ![t.scr] = new]
  OBVIOUS
<1>6. cfg \in StoredConfigs
  BY <1>1, <1>5 DEF Typed, WorkType, StoredConfigs
<1>7. Save(a, s, cfg) /\ mem' = mm
  BY <1>1, <1>2, <1>4, <1>5 DEF SaveCustom, Typed, WorkType
<1> QED
  BY <1>3, <1>6, <1>7, SaveDone

LEMMA SwitchCustomDone ==
    ASSUME Typed, NEW a \in Actor, NEW u, NEW t, Notes(t, u), NEW K \in SUBSET Monitor, K # {},
           u.scr = K, NEW mm \in Settings(K), SwitchCustom(a, t, K, mm)
    PROVE  Done(a, u, K)
<1> DEFINE cfg == Stored(config[K], "custom", t.name)
<1>1. cfg \in Configs
  <2>1. config[K] \in ScreenConfig /\ "custom" \in Mode
    BY DEF Typed, WorkType, Mode
  <2> QED
    BY <2>1, StoredType
<1>2. CASE t.name = ""
  <2>1. Return(a, t, K, mm) /\ K = u.scr
    BY <1>2 DEF SwitchCustom
  <2> QED
    BY <2>1, ReturnDone
<1>3. CASE t.name # "" /\ cfg # Nothing
  <2>1. ApplyConfigs(a, t, K, mm, cfg)
    BY <1>3 DEF SwitchCustom
  <2> HIDE DEF cfg
  <2> QED
    BY <1>1, <2>1, ApplyConfigsDone
<1>4. CASE t.name # "" /\ cfg = Nothing
  <2>1. CASE \A i \in K : mm[i].on
    <3>1. SaveCustom(a, t, K, mm)
      BY <1>4, <2>1 DEF SwitchCustom
    <3> QED
      BY <3>1, SaveCustomDone
  <2>2. CASE ~\A i \in K : mm[i].on
    <3>1. PICK s : s = [t EXCEPT !.op = "custom", !.save = TRUE]
      OBVIOUS
    <3>2. SwitchMirror(a, s, K, mm)
      BY <1>4, <2>2, <3>1 DEF SwitchCustom
    <3>3. t \in Task /\ "custom" \in Op /\ TRUE \in BOOLEAN
      BY DEF Notes, Op
    <3>4. Notes(s, t)
      BY <3>1, <3>3, NotedOpSave
    <3>5. Notes(s, u)
      BY <3>4, NotedTrans
    <3> QED
      BY <3>2, <3>5, SwitchMirrorDone
  <2> QED
    BY <2>1, <2>2
<1> QED
  BY <1>2, <1>3, <1>4

LEMMA SwitchDone ==
    ASSUME Typed, NEW a \in Actor, NEW t \in Task, NEW K \in SUBSET Monitor, K # {},
           t.scr = K, NEW mm \in Settings(K), NEW i, Switch(a, t, i, K, mm)
    PROVE  Done(a, t, K)
<1>1. Notes(t, t)
  BY DEF Notes
<1>2. t.mode \in Mode
  BY DEF Task
<1>3. CASE t.mode = "mirror"
  <2>1. SwitchMirror(a, t, K, mm)
    BY <1>3 DEF Switch
  <2> QED
    BY <1>1, <2>1, SwitchMirrorDone
<1>4. CASE t.mode = "extend"
  <2>1. SwitchExtend(a, t, K, mm)
    BY <1>4 DEF Switch
  <2> QED
    BY <1>1, <2>1, SwitchExtendDone
<1>5. CASE t.mode = "only"
  <2>1. SwitchOnly(a, t, i, K, mm)
    BY <1>5 DEF Switch
  <2> QED
    BY <1>1, <2>1, SwitchOnlyDone
<1>6. CASE t.mode = "custom"
  <2>1. SwitchCustom(a, t, K, mm)
    BY <1>6 DEF Switch
  <2> QED
    BY <1>1, <2>1, SwitchCustomDone
<1> QED
  BY <1>2, <1>3, <1>4, <1>5, <1>6 DEF Mode

LEMMA ApplyDisplayModeDone ==
    ASSUME Typed, NEW a \in Actor, NEW by \in {"ids", "init"}, NEW K \in SUBSET Monitor,
           NEW mm \in Settings(K), ApplyDisplayMode(a, by, K, mm)
    PROVE  Done(a, For(by, mode, customId, K), K)
<1>1. PICK t : t = For(by, mode, customId, K)
  OBVIOUS
<1>2. t \in Task /\ t.scr = K
  <2>1. /\ by \in {"none", "ids", "init", "switch", "call"}
        /\ mode \in Mode /\ customId \in Name \cup {""}
    BY DEF Typed, ShownType
  <2>2. For(by, mode, customId, K) \in Task /\ For(by, mode, customId, K).scr = K
    <3>1. PICK m \in Mode, n \in Name \cup {""} : m = mode /\ n = customId
      BY <2>1
    <3>2. For(by, m, n, K) \in Task
      BY <2>1, ForTask
    <3>3. For(by, m, n, K).scr = K
      BY DEF For, Rest
    <3> QED
      BY <3>1, <3>2, <3>3
  <2> QED
    BY <1>1, <2>2
<1>3. Notes(t, t) /\ IsFiniteSet(K)
  <2>1. IsFiniteSet(Monitor)
    BY ConstantsAssumption DEF ConstantsAssumption
  <2>2. IsFiniteSet(K)
    BY <2>1, FS_Subset
  <2> QED
    BY <1>2, <2>2 DEF Notes
<1>4. CASE K = {}
  <2>1. Cardinality(K) = 0
    BY <1>4, FS_EmptySet
  <2>2. ~(Cardinality(K) = 1) /\ ~(Cardinality(K) > 1)
    BY <2>1
  <2>3. Return(a, t, K, mm)
    BY <1>1, <1>4, <2>2 DEF ApplyDisplayMode
  <2>4. K = t.scr
    BY <1>2
  <2>5. Return(a, t, t.scr, mm)
    BY <2>3, <2>4
  <2> QED
    BY <1>1, <1>3, <2>5, ReturnDone
<1>5. CASE K # {} /\ Cardinality(K) = 1
  <2> DEFINE best == [on |-> TRUE, pos |-> <<0, 0>>, size |-> Best(MinID(K)), primary |-> TRUE]
  <2>1. PICK c \in IF config[K].single = {} THEN {best} ELSE config[K].single :
             ApplyConfigs(a, t, K, mm, [j \in K |-> c])
    BY <1>1, <1>5 DEF ApplyDisplayMode
  <2>2. c \in Config
    <3>1. Best(MinID(K)) \in Nat
      BY <1>5, MinMember, BestSize
    <3>2. best \in Config
      BY <3>1, Origin DEF Config
    <3>3. config[K].single \in SUBSET Config
      <4>1. config[K] \in ScreenConfig
        BY DEF Typed, WorkType
      <4> QED
        BY <4>1, ScreenAt
    <3> HIDE DEF best
    <3> QED
      BY <2>1, <3>2, <3>3
  <2>3. PICK cfg : cfg = [j \in K |-> c]
    OBVIOUS
  <2>4. cfg \in Configs
    <3>1. cfg \in [K -> Config]
      BY <2>2, <2>3
    <3> QED
      BY <3>1, PartialIn DEF Configs
  <2>5. ApplyConfigs(a, t, K, mm, cfg)
    BY <2>1, <2>3
  <2> QED
    BY <1>1, <1>3, <2>4, <2>5, ApplyConfigsDone
<1>6. CASE K # {} /\ Cardinality(K) # 1
  <2>1. Cardinality(K) > 1
    BY <1>3, <1>6, FS_CardinalityType, FS_EmptySet
  <2>2. Switch(a, t, None, K, mm)
    BY <1>1, <1>6, <2>1 DEF ApplyDisplayMode
  <2> QED
    BY <1>1, <1>2, <1>6, <2>2, SwitchDone
<1> QED
  BY <1>4, <1>5, <1>6

LEMMA BrokenDone ==
    ASSUME Typed, NEW a \in Actor, Broken(a)
    PROVE  Done(a, task[a], known)
<1>1. PICK t : t = task[a]
  OBVIOUS
<1>2. t \in Task
  BY <1>1 DEF Typed, WorkType, AtWork
<1>3. Notes(t, t) /\ mem \in Settings(known) /\ known \in SUBSET Monitor
  BY <1>2 DEF Notes, Typed, WorkType, EditType
<1>4. CASE t.op = "mirror" /\ t.save
  <2>1. SwitchExtend(a, t, known, mem)
    BY <1>1, <1>4 DEF Broken
  <2> QED
    BY <1>1, <1>3, <2>1, SwitchExtendDone
<1>5. CASE ~(t.op = "mirror" /\ t.save)
  <2>1. Return(a, t, t.scr, mem)
    BY <1>1, <1>5 DEF Broken
  <2> QED
    BY <1>1, <1>3, <2>1, ReturnDone
<1> QED
  BY <1>4, <1>5

-----------------------------------------------------------------------------
(* The variables of an operation keep their types.                         *)

\* A task t that goroutine a goes on with, or takes up, when K are known.
Takes(a, t, K) ==
    /\ t.scr \in SUBSET Monitor
    /\ t.by = "ids" => a = Loop /\ (Listening' => t.scr = K)
    /\ a = Loop /\ t.by # "ids" /\ Listening' => ids = K

\* What every step has to keep: what is applied is joined, and the types; for
\* a step that changes the work alone, the types of the work.
Together == TwoEven => \A a \in Actor : JoinedBy(a)
WorkKept == WorkType' /\ Numbered' /\ Together
Kept     == TypeInv' /\ Together

LEMMA PcAlone ==
    ASSUME UNCHANGED pc
    PROVE  Together
BY DEF Together, JoinedBy

LEMMA DoneTyped ==
    ASSUME TypeInv, NEW a \in Actor, NEW t, Done(a, t, known'), Takes(a, t, known'),
           a = Loop \/ (UNCHANGED known /\ (UNCHANGED life \/ Listening))
    PROVE  WorkKept
<1>1. /\ \A b \in Actor \ {a} : AtWork(pc'[b], task'[b])
      /\ AtWork(pc'[a], task'[a])
  BY DEF Done, TypeInv, Typed, WorkType
<1>2. ids' \in SUBSET Monitor
  BY DEF Done, Takes, Ids, TypeInv, Typed, WorkType
<1>3. WorkType'
  BY <1>1, <1>2 DEF Done, WorkType, StoredConfigs
<1>4. Rest.by = "none"
  BY DEF Rest
<1>5. pc'[a] = "idle" => task'[a] = Rest
  BY <1>1 DEF AtWork
<1>6. \A b \in Actor \ {Loop} : task'[b].by # "ids"
  BY <1>4, <1>5 DEF Done, Takes, TypeInv, Numbered
<1>9. Together
  <2>1. ASSUME NEW b \in Actor, b # a PROVE JoinedBy(b)
    BY <2>1 DEF Done, JoinedBy
  <2> QED
    BY <2>1 DEF Done, Together
<1>7. CASE a = Loop
  <2>1. Listening' => IF task'[Loop].by = "ids" THEN task'[Loop].scr = known' ELSE ids' = known'
    BY <1>4, <1>5, <1>7 DEF Done, Takes, Ids
  <2> QED
    BY <1>3, <1>6, <1>9, <2>1 DEF Numbered, WorkKept
<1>8. CASE a # Loop
  <2>1. Loop \in Actor /\ UNCHANGED known /\ (UNCHANGED life \/ Listening) /\ t.by # "ids"
    BY <1>8 DEF Actor, Takes
  <2>2. ids' = ids /\ task'[Loop] = task[Loop]
    BY <1>8, <2>1 DEF Done, Ids
  <2>3. Listening' => Listening
    BY <2>1 DEF Listening
  <2>4. Listening' => IF task'[Loop].by = "ids" THEN task'[Loop].scr = known' ELSE ids' = known'
    BY <2>1, <2>2, <2>3 DEF TypeInv, Numbered
  <2> QED
    BY <1>3, <1>6, <1>9, <2>4 DEF Numbered, WorkKept
<1> QED
  BY <1>7, <1>8

\* Of its own task this holds.
LEMMA OwnTask ==
    ASSUME TypeInv, NEW a \in Actor, UNCHANGED <<known, life>>
    PROVE  task[a] \in Task /\ Notes(task[a], task[a]) /\ Takes(a, task[a], known')
<1>1. task[a] \in Task
  BY DEF TypeInv, Typed, WorkType, AtWork
<1>2. task[a].scr \in SUBSET Monitor
  BY <1>1 DEF Task
<1>3. Listening' <=> Listening
  BY DEF Listening
<1> QED
  BY <1>1, <1>2, <1>3 DEF Takes, Notes, TypeInv, Numbered

\* A step that leaves the work alone.
LEMMA WorkAlone ==
    ASSUME TypeInv, UNCHANGED <<mem, known, ids, config, pc, task>>, Listening' => Listening
    PROVE  WorkKept
<1>1. WorkType'
  BY DEF TypeInv, Typed, WorkType
<1>2. Numbered'
  BY DEF TypeInv, Numbered
<1> QED
  BY <1>1, <1>2, PcAlone DEF WorkKept

LEMMA AfterTyped ==
    ASSUME TypeInv, NEW a \in Actor, pc[a] \in {"set", "unset"}, NEW off, off \subseteq task[a].off,
           After(a, off), UNCHANGED <<known, life>>
    PROVE  WorkKept
<1>1. /\ UNCHANGED <<mem, ids, config>>
      /\ task' = [task EXCEPT ![a].off = off]
      /\ pc' = [pc EXCEPT ![a] = IF off = {} THEN "end" ELSE "unset"]
  BY DEF After
<1>2. DOMAIN pc = Actor /\ DOMAIN task = Actor /\ AtWork(pc[a], task[a])
  BY DEF TypeInv, Typed, WorkType
<1>3. PICK t \in Task : t = task[a]
  BY <1>2 DEF AtWork
<1>4. task'[a] = [t EXCEPT !.off = off] /\ pc'[a] = IF off = {} THEN "end" ELSE "unset"
  BY <1>1, <1>2, <1>3
<1>5. off \in SUBSET Monitor
  BY <1>3 DEF Task
<1>6. /\ task'[a] \in Task /\ task'[a].off = off /\ task'[a].cmd = t.cmd /\ task'[a].op = t.op
      /\ task'[a].main = t.main /\ task'[a].by = t.by /\ task'[a].scr = t.scr
  BY <1>4, <1>5 DEF Task
<1>7. AtWork(pc'[a], task'[a])
  BY <1>2, <1>3, <1>4, <1>6 DEF AtWork
<1>8. Done(a, task[a], known')
  <2>1. mem' \in Settings(known') /\ config' \in StoredConfigs
    BY <1>1 DEF TypeInv, Typed, WorkType, StoredConfigs
  <2>2. /\ DOMAIN pc' = Actor /\ DOMAIN task' = Actor
        /\ \A b \in Actor \ {a} : pc'[b] = pc[b] /\ task'[b] = task[b]
    BY <1>1, <1>2
  <2> QED
    BY <1>1, <1>3, <1>4, <1>6, <1>7, <2>1, <2>2 DEF Done, JoinedBy
<1> QED
  BY <1>8, OwnTask, DoneTyped

LEMMA BrokenTyped ==
    ASSUME TypeInv, NEW a \in Actor, Broken(a), UNCHANGED <<known, life>>
    PROVE  WorkKept
<1>1. Done(a, task[a], known')
  BY BrokenDone DEF TypeInv
<1> QED
  BY <1>1, OwnTask, DoneTyped

LEMMA AnnouncedType ==
    ASSUME NEW kind \in AnyKind, NEW S \in SUBSET Monitor, NEW k \in [Monitor -> Output]
    PROVE  Announced(kind, S, k) \in Seq(Signal)
<1> DEFINE q == Announced(kind, S, k)
           order == SetToSeq(S)
           of(i) == [kind |-> kind, m |-> i, on |-> k[i].on, pos |-> k[i].pos, size |-> k[i].size]
<1>1. IsFiniteSet(S)
  BY ConstantsAssumption, FS_Subset DEF ConstantsAssumption
<1>2. IsSeq(q) /\ \A n \in DOMAIN q : q[n].m \in S
  BY <1>1, AnnouncedTells DEF Tells
<1>3. ASSUME NEW n \in DOMAIN q PROVE q[n] \in Signal
  <2>1. q[n] = of(order[n])
    BY DEF Announced
  <2> HIDE DEF q, order
  <2>2. PICK i \in Monitor : i = order[n]
    <3>1. q[n].m = order[n]
      BY <2>1
    <3> QED
      BY <1>2, <3>1
  <2>3. k[i] \in Output
    BY <2>2
  <2>4. k[i].on \in BOOLEAN /\ k[i].pos \in Place /\ k[i].size \in Sizes
    BY <2>3 DEF Output
  <2>5. q[n] = of(i)
    BY <2>1, <2>2
  <2>6. of(i) \in Signal
    BY <2>4 DEF Signal
  <2> QED
    BY <2>5, <2>6
<1> HIDE DEF q
<1>4. Len(q) \in Nat /\ DOMAIN q = 1 .. Len(q)
  BY <1>2, SeqDomain
<1>5. q \in [DOMAIN q -> {q[n] : n \in DOMAIN q}]
  BY <1>2, <1>4, LenProperties DEF IsSeq
<1>6. q \in [1 .. Len(q) -> Signal]
  BY <1>3, <1>4, <1>5
<1>7. q \in Seq(Signal)
  BY <1>4, <1>6, SeqDef
<1> QED
  BY <1>7 DEF q

\* The outputs S change at the compositor, which announces it.
LEMMA SignalsType ==
    ASSUME signals \in Seq(Signal), NEW kind \in AnyKind, NEW S \in SUBSET Monitor,
           NEW k \in [Monitor -> Output], signals' = signals \o Announced(kind, S, k)
    PROVE  signals' \in Seq(Signal)
<1>1. PICK q \in Seq(Signal) : q = Announced(kind, S, k)
  BY AnnouncedType
<1> QED
  BY <1>1, ConcatProperties

-----------------------------------------------------------------------------
(* Every step keeps the types.                                             *)

LEMMA KwinSetType ==
    ASSUME OutsideType, NEW new \in [Monitor -> Output], KwinSet(new), UNCHANGED <<plugged, life>>
    PROVE  OutsideType'
<1> DEFINE S == {i \in plugged : new[i] # kwin[i]}
<1>1. S \in SUBSET Monitor
  BY DEF OutsideType
<1>2. kwin' = new /\ signals' = signals \o Announced("changed", S, new)
  BY DEF KwinSet
<1> HIDE DEF S
<1>3. signals' \in Seq(Signal)
  BY <1>1, <1>2, SignalsType DEF OutsideType, AnyKind
<1> QED
  BY <1>2, <1>3 DEF OutsideType

LEMMA EventType ==
    ASSUME BoundType, Event
    PROVE  BoundType'
<1>1. MaxCall \in Nat /\ MaxOther \in Nat
  BY ConstantsAssumption DEF ConstantsAssumption
<1>2. calls \in 0 .. MaxCall /\ others \in 0 .. MaxOther
  BY DEF BoundType
<1>3. others < MaxOther /\ others' = others + 1 /\ calls' = calls
  BY DEF Event, CanHappen
<1>4. others' \in 0 .. MaxOther
  BY <1>1, <1>2, <1>3
<1> QED
  BY <1>2, <1>3, <1>4 DEF BoundType

LEMMA SetTypes ==
    ASSUME TypeInv, NEW a \in Actor, Set(a)
    PROVE  Kept
<1> DEFINE cmd == task[a].cmd
           done == plugged \cap DOMAIN cmd
<1>1. pc[a] = "set" /\ UNCHANGED <<plugged, life, known, backup, hasChanged, how, mode, customId, primary, rect>>
  BY DEF Set, edit, shown
<1>2. OutsideType /\ EditType /\ ShownType /\ BoundType
  BY DEF TypeInv, Typed
<1>3. ShownType'
  BY <1>1, <1>2 DEF ShownType
<1>4. \/ /\ KwinSet([i \in Monitor |-> IF i \in done THEN cmd[i] ELSE kwin[i]])
         /\ After(a, task[a].off)
         /\ UNCHANGED bounds /\ unsent' \subseteq unsent
      \/ /\ Event
         /\ After(a, task[a].off) \/ Broken(a)
         /\ unsent' \subseteq unsent \cup known
         /\ UNCHANGED <<kwin, signals>>
  BY DEF Set
<1>5. EditType'
  BY <1>1, <1>2, <1>4 DEF EditType
<1>6. After(a, task[a].off) => WorkKept
  BY <1>1, AfterTyped
<1>7. Broken(a) => WorkKept
  BY <1>1, BrokenTyped
<1>8. CASE Event /\ UNCHANGED <<kwin, signals>>
  <2>1. OutsideType'
    BY <1>1, <1>2, <1>8 DEF OutsideType
  <2>2. BoundType'
    BY <1>2, <1>8, EventType
  <2> QED
    BY <1>3, <1>4, <1>5, <1>6, <1>7, <2>1, <2>2 DEF Kept, WorkKept, TypeInv, Typed
<1>9. CASE /\ KwinSet([i \in Monitor |-> IF i \in done THEN cmd[i] ELSE kwin[i]])
           /\ UNCHANGED bounds
  <2>1. PICK new : new = [i \in Monitor |-> IF i \in done THEN cmd[i] ELSE kwin[i]]
    OBVIOUS
  <2>2. cmd \in Partial(Monitor, Output)
    BY DEF TypeInv, Typed, WorkType, AtWork, Task
  <2>3. \A i \in DOMAIN cmd : cmd[i] \in Output
    BY <2>2, PartialOut
  <2>4. new \in [Monitor -> Output]
    BY <1>2, <2>1, <2>3 DEF OutsideType
  <2>5. KwinSet(new)
    BY <1>9, <2>1
  <2>6. OutsideType'
    BY <1>1, <1>2, <2>4, <2>5, KwinSetType
  <2>7. BoundType'
    BY <1>2, <1>9 DEF BoundType, bounds
  <2> QED
    BY <1>3, <1>4, <1>5, <1>6, <1>7, <2>6, <2>7 DEF Kept, WorkKept, TypeInv, Typed
<1> QED
  BY <1>4, <1>8, <1>9

LEMMA UnsetTypes ==
    ASSUME TypeInv, NEW a \in Actor, Unset(a)
    PROVE  Kept
<1>1. pc[a] = "unset" /\ UNCHANGED <<plugged, life, known, backup, hasChanged, how, mode, customId, primary, rect>>
  BY DEF Unset, edit, shown
<1>2. OutsideType /\ EditType /\ ShownType /\ BoundType
  BY DEF TypeInv, Typed
<1>3. ShownType'
  BY <1>1, <1>2 DEF ShownType
<1>4. PICK i \in task[a].off :
      \/ /\ KwinSet([kwin EXCEPT ![i].on = @ /\ i \notin plugged])
         /\ After(a, task[a].off \ {i})
         /\ UNCHANGED bounds /\ unsent' \subseteq unsent
      \/ /\ Event
         /\ After(a, task[a].off \ {i}) \/ Broken(a)
         /\ unsent' \subseteq unsent \cup known
         /\ UNCHANGED <<kwin, signals>>
  BY DEF Unset
<1>5. EditType'
  BY <1>1, <1>2, <1>4 DEF EditType
<1>6. After(a, task[a].off \ {i}) => WorkKept
  BY <1>1, AfterTyped
<1>7. Broken(a) => WorkKept
  BY <1>1, BrokenTyped
<1>8. CASE Event /\ UNCHANGED <<kwin, signals>>
  <2>1. OutsideType'
    BY <1>1, <1>2, <1>8 DEF OutsideType
  <2>2. BoundType'
    BY <1>2, <1>8, EventType
  <2> QED
    BY <1>3, <1>4, <1>5, <1>6, <1>7, <2>1, <2>2 DEF Kept, WorkKept, TypeInv, Typed
<1>9. CASE KwinSet([kwin EXCEPT ![i].on = @ /\ i \notin plugged]) /\ UNCHANGED bounds
  <2>1. PICK new : new = [kwin EXCEPT ![i].on = @ /\ i \notin plugged]
    OBVIOUS
  <2>2. i \in Monitor
    BY DEF TypeInv, Typed, WorkType, AtWork, Task
  <2>3. PICK k \in Output : k = kwin[i]
    BY <1>2, <2>2 DEF OutsideType
  <2>4. PICK on \in BOOLEAN : on = (k.on /\ i \notin plugged)
    OBVIOUS
  <2>5. [k EXCEPT !.on = on] \in Output
    BY DEF Output
  <2>6. new = [kwin EXCEPT ![i] = [k EXCEPT !.on = on]]
    BY <1>2, <2>1, <2>2, <2>3, <2>4 DEF OutsideType
  <2>7. new \in [Monitor -> Output]
    BY <1>2, <2>2, <2>5, <2>6 DEF OutsideType
  <2>8. KwinSet(new)
    BY <1>9, <2>1
  <2>9. OutsideType'
    BY <1>1, <1>2, <2>7, <2>8, KwinSetType
  <2>10. BoundType'
    BY <1>2, <1>9 DEF BoundType, bounds
  <2> QED
    BY <1>3, <1>4, <1>5, <1>6, <1>7, <2>9, <2>10 DEF Kept, WorkKept, TypeInv, Typed
<1> QED
  BY <1>4, <1>8, <1>9

\* The settings of a monitor give it a rectangle.
LEMMA RectType ==
    ASSUME NEW K, NEW mm \in Settings(K), NEW i \in Monitor
    PROVE  RectOf(mm[i]) \in Box(Coord, Side)
BY SettingsAt, SquareBox DEF RectOf, Side

LEMMA BecomeType ==
    ASSUME ShownType, WorkType, NEW i \in Monitor, NEW t, Become(i, t),
           i \in known \/ (i \in DOMAIN t.cmd /\ t.cmd \in Partial(Monitor, Output))
    PROVE  primary' \in Monitor \cup {None} /\ rect' \in Box(Coord, Side)
<1>1. RectOf(mem[i]) \in Box(Coord, Side)
  BY RectType DEF WorkType
<1>2. CASE i \in known
  BY <1>1, <1>2 DEF Become
<1>3. CASE i \notin known
  <2>1. t.cmd[i] \in Output
    BY <1>3, PartialOut
  <2>2. Square(t.cmd[i].pos, t.cmd[i].size) \in Box(Coord, Side)
    BY <2>1, SquareBox DEF Output, Side
  <2> QED
    BY <1>3, <2>2 DEF Become
<1> QED
  BY <1>2, <1>3

\* What an operation stores when it ends.
LEMMA StoredNew ==
    ASSUME Typed, NEW K \in SUBSET Monitor, NEW m \in Mode, NEW n \in Name \cup {""}, NEW p
    PROVE  Store(config[K], m, n, ToConfigs(known, mem, p)) \in ScreenConfig
<1>1. ToConfigs(known, mem, p) \in Configs
  BY ToConfigsType DEF Typed, EditType, WorkType
<1>2. config[K] \in ScreenConfig
  BY DEF Typed, WorkType
<1> QED
  BY <1>1, <1>2, StoreType

LEMMA EndTypes ==
    ASSUME TypeInv, NEW a \in Actor, End(a)
    PROVE  Kept
<1> DEFINE i == IF task[a].op = "mirror" \/ (task[a].op = "configs" /\ task[a].main = None) THEN MinID(known)
                ELSE task[a].main
<1>1. PICK t \in Task : t = task[a] /\ AtWork(pc[a], t)
  BY DEF TypeInv, Typed, WorkType, AtWork
<1>2. OutsideType /\ EditType /\ ShownType /\ WorkType /\ BoundType
  BY DEF TypeInv, Typed
<1>3. pc[a] = "end" /\ UNCHANGED <<kwin, plugged, signals, known, calls, others, unsent>>
  BY DEF End, compositor, bounds, history
<1>4. CASE t.op \in {"mirror", "configs"} /\ i = None
  <2>1. /\ life' = "dead"
        /\ UNCHANGED <<mode, customId, primary, rect, backup, hasChanged, how, mem, ids, config, pc, task>>
    BY <1>1, <1>4 DEF End, shown, edit, work
  <2>2. WorkKept
    <3>1. ~Listening'
      BY <2>1 DEF Listening
    <3> QED
      BY <1>3, <2>1, <3>1, WorkAlone
  <2> QED
    BY <1>2, <1>3, <2>1, <2>2 DEF Kept, WorkKept, TypeInv, Typed, OutsideType, EditType, ShownType, BoundType
<1>5. CASE ~(t.op \in {"mirror", "configs"} /\ i = None)
  <2>1. /\ IF i = None THEN UNCHANGED <<primary, rect>> ELSE Become(i, t)
        /\ hasChanged' = (hasChanged /\ t.op # "reset")
        /\ UNCHANGED <<life, backup, how, mem>>
        /\ \/ /\ Save(a, [t EXCEPT !.op = "stored"],
                      [config EXCEPT ![t.scr] = Store(@, "custom", t.name, ToConfigs(known, mem, primary'))])
              /\ UNCHANGED <<mode, customId>>
           \/ /\ Save(a, [t EXCEPT !.op = "stored"],
                      [config EXCEPT ![t.scr] = Store(@, "only", "", ToConfigs(known, mem, t.main))])
              /\ UNCHANGED <<mode, customId>>
           \/ Return(a, t, t.scr, mem) /\ Switched(t)
    BY <1>1, <1>5 DEF End, Return
  <2>2. i = None \/ i \in known \/ (i \in DOMAIN t.cmd /\ i \in Monitor)
    <3>1. MinID(known) \in known \cup {None}
      BY <1>2, MinMember DEF EditType
    <3>2. t.op # "mirror" /\ t.main # None => t.main \in DOMAIN t.cmd /\ t.main \in Monitor
      BY <1>1, <1>3 DEF AtWork, Task
    <3> QED
      BY <1>1, <3>1, <3>2
  <2>3. primary' \in Monitor \cup {None} /\ rect' \in Box(Coord, Side)
    <3>1. t.cmd \in Partial(Monitor, Output)
      BY DEF Task
    <3>2. i # None => i \in Monitor
      BY <1>2, <2>2 DEF EditType
    <3> HIDE DEF i
    <3>3. CASE i = None
      BY <1>2, <2>1, <3>3 DEF ShownType
    <3>4. CASE i # None
      BY <1>2, <2>1, <2>2, <3>1, <3>2, <3>4, BecomeType
    <3> QED
      BY <3>3, <3>4
  <2>4. mode' \in Mode /\ customId' \in Name \cup {""}
    BY <1>2, <2>1 DEF ShownType, Switched, Task
  <2>5. Done(a, t, known')
    <3>1. Notes(t, t) /\ t.scr \in SUBSET Monitor /\ t.name \in Name \cup {""} /\ "" \in Name \cup {""}
      BY DEF Notes, Task
    <3>2. mem \in Settings(known') /\ mem' \in Settings(known') /\ Typed
      BY <1>2, <1>3, <2>1 DEF WorkType, TypeInv
    <3>3. CASE Return(a, t, t.scr, mem)
      BY <3>1, <3>2, <3>3, ReturnDone
    <3>4. ASSUME NEW m \in Mode, NEW n \in Name \cup {""}, NEW p,
                 Save(a, [t EXCEPT !.op = "stored"],
                      [config EXCEPT ![t.scr] = Store(@, m, n, ToConfigs(known, mem, p))])
          PROVE  Done(a, t, known')
      <4>1. PICK s : s = [t EXCEPT !.op = "stored"]
        OBVIOUS
      <4>2. Notes(s, t)
        BY <4>1, NotedOp DEF Op
      <4>3. PICK new \in ScreenConfig : new = Store(config[t.scr], m, n, ToConfigs(known, mem, p))
        BY <3>1, <3>2, StoredNew
      <4>4. PICK cfg : cfg = [config EXCEPT ![t.scr] = new]
        OBVIOUS
      <4>5. cfg \in StoredConfigs
        BY <1>2, <3>1, <4>4 DEF WorkType, StoredConfigs
      <4>6. Save(a, s, cfg)
        BY <3>4, <4>1, <4>3, <4>4
      <4> QED
        BY <3>2, <4>2, <4>5, <4>6, SaveDone
    <3>5. {"custom", "only"} \subseteq Mode
      BY DEF Mode
    <3> QED
      BY <2>1, <3>1, <3>3, <3>4, <3>5
  <2>6. WorkKept
    <3>1. Takes(a, t, known')
      BY <1>1, <1>3, <2>1, OwnTask
    <3> QED
      BY <1>3, <2>1, <2>5, <3>1, DoneTyped
  <2>7. EditType'
    BY <1>2, <1>3, <2>1 DEF EditType
  <2>8. OutsideType' /\ BoundType' /\ ShownType'
    BY <1>2, <1>3, <2>1, <2>3, <2>4 DEF OutsideType, BoundType, ShownType
  <2> QED
    BY <2>6, <2>7, <2>8 DEF Kept, WorkKept, TypeInv, Typed
<1> QED
  BY <1>4, <1>5

LEMMA SavedTypes ==
    ASSUME TypeInv, NEW a \in Actor, Saved(a)
    PROVE  Kept
<1>1. PICK t \in Task : t = task[a]
  BY DEF TypeInv, Typed, WorkType, AtWork
<1>2. OutsideType /\ EditType /\ ShownType /\ WorkType /\ BoundType
  BY DEF TypeInv, Typed
<1>3. /\ UNCHANGED <<kwin, plugged, signals, life, known, primary, rect, how, unsent>>
      /\ Return(a, t, t.scr, mem)
      /\ \/ /\ Switched(t)
            /\ backup' = IF t.op = "save" THEN [i \in Monitor |-> {}] ELSE backup
            /\ hasChanged' = (hasChanged /\ t.op # "save")
            /\ UNCHANGED bounds
         \/ Event /\ UNCHANGED <<mode, customId, backup, hasChanged>>
  BY <1>1 DEF Saved, compositor
<1>4. WorkKept
  <2>1. Notes(t, t) /\ Takes(a, t, known')
    BY <1>1, <1>3, OwnTask
  <2>2. mem \in Settings(known') /\ Typed
    BY <1>2, <1>3 DEF WorkType, TypeInv
  <2>3. Done(a, t, known')
    BY <1>3, <2>1, <2>2, ReturnDone
  <2> QED
    BY <1>3, <2>1, <2>3, DoneTyped
<1>5. BoundType'
  <2>1. UNCHANGED bounds => BoundType'
    BY <1>2 DEF BoundType, bounds
  <2> QED
    BY <1>2, <1>3, <2>1, EventType
<1>6. EditType'
  BY <1>2, <1>3 DEF EditType
<1>7. OutsideType' /\ ShownType'
  BY <1>2, <1>3 DEF OutsideType, ShownType, Switched, Task
<1> QED
  BY <1>4, <1>5, <1>6, <1>7 DEF Kept, WorkKept, TypeInv, Typed

\* What a D-Bus call leaves alone.
LEMMA CallType ==
    ASSUME TypeInv, NEW c \in Caller, NEW op, Call(c, op), calls < MaxCall
    PROVE  /\ OutsideType' /\ BoundType' /\ UNCHANGED <<known, life>>
           /\ \A t : t.scr \in SUBSET Monitor /\ t.by \in {"switch", "call"} => Takes(c, t, known')
           /\ c \in Actor /\ c # Loop
<1>1. UNCHANGED <<kwin, plugged, signals, life, known, others>> /\ calls' = calls + 1
  BY DEF Call, compositor
<1>2. OutsideType /\ BoundType
  BY DEF TypeInv, Typed
<1>3. MaxCall \in Nat /\ c # Loop
  BY ConstantsAssumption DEF ConstantsAssumption
<1>4. calls \in 0 .. MaxCall /\ others \in 0 .. MaxOther
  BY <1>2 DEF BoundType
<1>5. calls' \in 0 .. MaxCall
  BY <1>1, <1>3, <1>4
<1>6. \A t : t.scr \in SUBSET Monitor /\ t.by \in {"switch", "call"} => Takes(c, t, known')
  BY <1>3 DEF Takes
<1> QED
  BY <1>1, <1>2, <1>3, <1>4, <1>5, <1>6 DEF OutsideType, BoundType, Actor

\* The task of a D-Bus call
LEMMA CallTask ==
    ASSUME TypeInv, NEW by \in {"switch", "call"}, NEW m \in Mode, NEW n \in Name \cup {""}
    PROVE  /\ For(by, m, n, known) \in Task
           /\ For(by, m, n, known).by = by /\ For(by, m, n, known).scr = known
           /\ For(by, m, n, known).main = None
           /\ For(by, m, n, known).scr \in SUBSET Monitor
           /\ For(by, m, n, known).by \in {"switch", "call"}
<1>1. known \in SUBSET Monitor
  BY DEF TypeInv, Typed, EditType
<1>2. For(by, m, n, known) \in Task
  BY <1>1, ForTask
<1> QED
  BY <1>1, <1>2 DEF For, Rest

LEMMA Several ==
    ASSUME NEW K, Cardinality(K) > 1
    PROVE  K # {}
<1>1. CASE K = {}
  <2>1. Cardinality(K) = 0
    BY <1>1, FS_EmptySet
  <2>2. ~(Cardinality(K) > 1)
    BY <2>1
  <2> QED
    BY <2>2
<1> QED
  BY <1>1

LEMMA SwitchModeTypes ==
    ASSUME TypeInv, NEW c \in Caller, calls < MaxCall, NEW m \in Mode, NEW n \in Name \cup {""}, NEW i,
           SwitchMode(c, m, n, i)
    PROVE  Kept
<1>1. /\ Call(c, "switch") /\ Cardinality(known) > 1
      /\ UNCHANGED <<backup, hasChanged, how, mode, customId, primary, rect, unsent>>
  BY DEF SwitchMode, edit, shown
<1>2. PICK t : t = For("switch", m, n, known)
  OBVIOUS
<1>3. Switch(c, t, i, known, mem)
  BY <1>2 DEF SwitchMode
<1>4. t \in Task /\ t.scr = known /\ t.scr \in SUBSET Monitor /\ t.by \in {"switch", "call"}
  BY <1>2, CallTask
<1>5. known # {}
  BY <1>1, Several
<1>6. /\ OutsideType' /\ BoundType' /\ UNCHANGED <<known, life>> /\ Takes(c, t, known')
      /\ c \in Actor
  BY <1>1, <1>4, CallType
<1>7. Typed /\ EditType /\ ShownType /\ mem \in Settings(known) /\ known \in SUBSET Monitor
  BY <1>4 DEF TypeInv, Typed, WorkType
<1>8. Done(c, t, known)
  BY <1>3, <1>4, <1>5, <1>6, <1>7, SwitchDone
<1>9. Done(c, t, known')
  BY <1>6, <1>8
<1>10. WorkKept
  BY <1>6, <1>9, DoneTyped
<1>11. EditType' /\ ShownType'
  BY <1>1, <1>6, <1>7 DEF EditType, ShownType
<1> QED
  BY <1>6, <1>10, <1>11 DEF Kept, WorkKept, TypeInv, Typed

LEMMA ApplyChangesTypes ==
    ASSUME TypeInv, NEW c \in Caller, calls < MaxCall, ApplyChanges(c)
    PROVE  Kept
<1>1. /\ Call(c, "edit")
      /\ UNCHANGED <<backup, hasChanged, how, mode, customId, primary, rect, unsent>>
  BY DEF ApplyChanges, edit, shown
<1>2. PICK t : t = For("call", mode, "", known)
  OBVIOUS
<1>3. PICK s : s = [t EXCEPT !.op = "changes"]
  OBVIOUS
<1>4. Start(c, s, known, mem)
  BY <1>2, <1>3 DEF ApplyChanges
<1>5. Typed /\ EditType /\ ShownType /\ mem \in Settings(known) /\ known \in SUBSET Monitor /\ mode \in Mode
  BY DEF TypeInv, Typed, WorkType, EditType, ShownType
<1>6. t \in Task /\ t.scr \in SUBSET Monitor /\ t.by \in {"switch", "call"} /\ t.main = None
  BY <1>2, <1>5, CallTask
<1>7. /\ OutsideType' /\ BoundType' /\ UNCHANGED <<known, life>> /\ Takes(c, t, known')
      /\ c \in Actor
  BY <1>1, <1>6, CallType
<1>8. Notes(s, t) /\ s.main = None
  BY <1>3, <1>6, NotedOp DEF Op
<1>9. Done(c, t, known)
  BY <1>4, <1>5, <1>7, <1>8, StartDone
<1>10. Done(c, t, known')
  BY <1>7, <1>9
<1>11. WorkKept
  BY <1>7, <1>10, DoneTyped
<1>12. EditType' /\ ShownType'
  BY <1>1, <1>5, <1>7 DEF EditType, ShownType
<1> QED
  BY <1>7, <1>11, <1>12 DEF Kept, WorkKept, TypeInv, Typed

LEMMA ResetChangesTypes ==
    ASSUME TypeInv, NEW c \in Caller, calls < MaxCall, ResetChanges(c)
    PROVE  Kept
<1> DEFINE mm == [i \in Monitor |-> IF backup[i] = {} THEN mem[i]
                                    ELSE Restored(CHOOSE b \in backup[i] : TRUE)]
<1>1. /\ Call(c, "edit") /\ backup' = [i \in Monitor |-> {}]
      /\ UNCHANGED <<hasChanged, how, mode, customId, primary, rect, unsent>>
  BY DEF ResetChanges, shown
<1>2. PICK t : t = For("call", mode, "", known)
  OBVIOUS
<1>3. PICK s : s = [t EXCEPT !.op = "reset"]
  OBVIOUS
<1>4. Start(c, s, known, mm)
  BY <1>2, <1>3 DEF ResetChanges
<1>5. Typed /\ EditType /\ ShownType /\ mem \in Settings(known) /\ known \in SUBSET Monitor /\ mode \in Mode
  BY DEF TypeInv, Typed, WorkType, EditType, ShownType
<1>6. t \in Task /\ t.scr \in SUBSET Monitor /\ t.by \in {"switch", "call"} /\ t.main = None
  BY <1>2, <1>5, CallTask
<1>7. /\ OutsideType' /\ BoundType' /\ UNCHANGED <<known, life>> /\ Takes(c, t, known')
      /\ c \in Actor
  BY <1>1, <1>6, CallType
<1>8. Notes(s, t) /\ s.main = None
  BY <1>3, <1>6, NotedOp DEF Op
<1>9. mm \in Settings(known)
  <2>1. ASSUME NEW i \in Monitor PROVE mm[i] \in Setting /\ (mm[i].size = 0 <=> i \notin known)
    <3>1. CASE backup[i] = {}
      BY <1>5, <3>1, SettingsAt
    <3>2. CASE backup[i] # {}
      <4>1. i \in known
        BY <1>5, <3>2 DEF EditType
      <4>2. PICK b \in Output : backup[i] = {b}
        BY <1>5, <3>2 DEF EditType
      <4>3. mm[i] = Restored(b)
        BY <3>2, <4>2
      <4>4. b.on \in BOOLEAN /\ b.pos \in Place /\ b.size \in Sizes /\ b.size \in Nat \ {0}
        BY SizeType DEF Output
      <4>5. Restored(b) \in Setting /\ Restored(b).size # 0
        BY <4>4 DEF Restored, Setting
      <4> HIDE DEF mm
      <4> QED
        BY <4>1, <4>3, <4>5
    <3> QED
      BY <3>1, <3>2
  <2>2. mm = [i \in Monitor |-> mm[i]]
    OBVIOUS
  <2> HIDE DEF mm
  <2> QED
    BY <2>1, <2>2 DEF Settings
<1> HIDE DEF mm
<1>10. Done(c, t, known)
  BY <1>4, <1>5, <1>7, <1>8, <1>9, StartDone
<1>11. Done(c, t, known')
  BY <1>7, <1>10
<1>12. WorkKept
  BY <1>7, <1>11, DoneTyped
<1>13. EditType' /\ ShownType'
  BY <1>1, <1>5, <1>7 DEF EditType, ShownType
<1> QED
  BY <1>7, <1>12, <1>13 DEF Kept, WorkKept, TypeInv, Typed

\* A D-Bus call that only stores something.
LEMMA StoringTypes ==
    ASSUME TypeInv, NEW c \in Caller, calls < MaxCall, NEW op, Call(c, op), NEW x \in Op, NEW new \in ScreenConfig,
           Save(c, [For("call", mode, "", known) EXCEPT !.op = x], [config EXCEPT ![known] = new]),
           UNCHANGED <<mem, backup, hasChanged, how, mode, unsent>>,
           customId' \in Name \cup {""},
           primary' \in Monitor \cup {None} /\ rect' \in Box(Coord, Side)
    PROVE  Kept
<1>1. PICK t : t = For("call", mode, "", known)
  OBVIOUS
<1>2. Typed /\ EditType /\ ShownType /\ mem \in Settings(known) /\ known \in SUBSET Monitor /\ mode \in Mode
  BY DEF TypeInv, Typed, WorkType, EditType, ShownType
<1>3. t \in Task /\ t.scr \in SUBSET Monitor /\ t.by \in {"switch", "call"}
  BY <1>1, <1>2, CallTask
<1>4. /\ OutsideType' /\ BoundType' /\ UNCHANGED <<known, life>> /\ Takes(c, t, known')
      /\ c \in Actor
  BY <1>3, CallType
<1>5. PICK s : s = [t EXCEPT !.op = x]
  OBVIOUS
<1>6. Notes(s, t)
  BY <1>3, <1>5, NotedOp
<1>7. PICK cfg : cfg = [config EXCEPT ![known] = new]
  OBVIOUS
<1>8. cfg \in StoredConfigs
  BY <1>2, <1>7 DEF Typed, WorkType, StoredConfigs
<1>9. Save(c, s, cfg)
  BY <1>1, <1>5, <1>7
<1>10. mem' \in Settings(known)
  BY <1>2
<1>11. Done(c, t, known)
  BY <1>2, <1>4, <1>6, <1>8, <1>9, <1>10, SaveDone
<1>12. Done(c, t, known')
  BY <1>4, <1>11
<1>13. WorkKept
  BY <1>4, <1>12, DoneTyped
<1>14. EditType' /\ ShownType'
  BY <1>2, <1>4 DEF EditType, ShownType
<1> QED
  BY <1>4, <1>13, <1>14 DEF Kept, WorkKept, TypeInv, Typed

LEMMA SaveCallTypes ==
    ASSUME TypeInv, NEW c \in Caller, calls < MaxCall, SaveCall(c)
    PROVE  Kept
<1> DEFINE one == ToConfig(mem[MinID(known)], FALSE)
           sc == config[known]
           new == IF Cardinality(known) = 1 THEN [sc EXCEPT !.single = {one}]
                  ELSE Store(sc, mode, customId, ToConfigs(known, mem, primary))
<1>1. /\ Call(c, "edit") /\ known # {}
      /\ UNCHANGED <<mem, backup, hasChanged, how, mode, customId, primary, rect, unsent>>
  BY DEF SaveCall, edit, shown
<1>2. Typed /\ EditType /\ ShownType /\ mem \in Settings(known) /\ known \in SUBSET Monitor
  BY DEF TypeInv, Typed, WorkType, EditType
<1>3. Save(c, [For("call", mode, "", known) EXCEPT !.op = "save"], [config EXCEPT ![known] = new])
  BY <1>2 DEF SaveCall, Typed, WorkType
<1>4. new \in ScreenConfig
  <2>1. sc \in ScreenConfig
    BY <1>2 DEF Typed, WorkType
  <2>2. one \in Config
    <3>1. MinID(known) \in Monitor
      BY <1>1, <1>2, MinMember
    <3>2. PICK v \in Setting : v = mem[MinID(known)]
      BY <1>2, <3>1, SettingsAt
    <3>3. ToConfig(v, FALSE) \in Config
      BY ToConfigType
    <3> QED
      BY <3>2, <3>3
  <2>3. Store(sc, mode, customId, ToConfigs(known, mem, primary)) \in ScreenConfig
    <3>1. mode \in Mode /\ customId \in Name \cup {""}
      BY <1>2 DEF ShownType
    <3> QED
      BY <1>2, <3>1, StoredNew
  <2> HIDE DEF one, sc
  <2>4. [sc EXCEPT !.single = {one}] \in ScreenConfig
    BY <2>1, <2>2 DEF ScreenConfig
  <2> QED
    BY <2>3, <2>4
<1> HIDE DEF new
<1>5. "save" \in Op
  BY DEF Op
<1>6. customId' \in Name \cup {""} /\ primary' \in Monitor \cup {None} /\ rect' \in Box(Coord, Side)
  BY <1>1, <1>2 DEF ShownType
<1> QED
  BY <1>1, <1>3, <1>4, <1>5, <1>6, StoringTypes

LEMMA SetPrimaryTypes ==
    ASSUME TypeInv, NEW c \in Caller, calls < MaxCall, NEW i, SetPrimary(c, i)
    PROVE  Kept
<1> DEFINE sc == config[known]
           old == Stored(sc, mode, customId)
           new == IF old = Nothing THEN ToConfigs(known, mem, i)
                  ELSE [j \in DOMAIN old |-> [old[j] EXCEPT !.primary = (j = i)]]
<1>1. /\ Call(c, "primary") /\ known # {} /\ i \in known \cup {None}
      /\ UNCHANGED <<backup, hasChanged, how, mode, customId, unsent>>
  BY DEF SetPrimary, edit
<1>2. Typed /\ EditType /\ ShownType /\ WorkType /\ mem \in Settings(known) /\ known \in SUBSET Monitor
  BY DEF TypeInv, Typed, WorkType, EditType
<1>3. PICK t : t = For("call", mode, "", known)
  OBVIOUS
<1>4. mode \in Mode /\ customId \in Name \cup {""}
  BY <1>2 DEF ShownType
<1>5. CASE /\ SwitchOnly(c, t, i, known, mem)
           /\ UNCHANGED <<primary, rect>>
  <2>1. t \in Task /\ t.scr = known /\ t.scr \in SUBSET Monitor /\ t.by \in {"switch", "call"}
    BY <1>3, <1>4, CallTask
  <2>2. /\ OutsideType' /\ BoundType' /\ UNCHANGED <<known, life>> /\ Takes(c, t, known')
        /\ c \in Actor
    BY <1>1, <2>1, CallType
  <2>3. Notes(t, t)
    BY <2>1 DEF Notes
  <2>4. Done(c, t, known)
    BY <1>1, <1>2, <1>5, <2>1, <2>2, <2>3, SwitchOnlyDone
  <2>5. Done(c, t, known')
    BY <2>2, <2>4
  <2>6. WorkKept
    BY <2>2, <2>5, DoneTyped
  <2>7. EditType' /\ ShownType'
    BY <1>1, <1>2, <1>5, <2>2 DEF EditType, ShownType
  <2> QED
    BY <2>2, <2>6, <2>7 DEF Kept, WorkKept, TypeInv, Typed
<1>6. CASE /\ i # None /\ Become(i, t)
           /\ Save(c, [t EXCEPT !.op = "stored"], [config EXCEPT ![known] = Store(@, mode, customId, new)])
           /\ UNCHANGED mem
  <2>1. sc \in ScreenConfig
    BY <1>2 DEF WorkType
  <2>2. old \in Configs
    BY <1>4, <2>1, StoredType
  <2>3. new \in Configs
    <3>1. ToConfigs(known, mem, i) \in Configs
      BY <1>2, ToConfigsType
    <3>2. PICK D \in SUBSET Monitor : D = DOMAIN old /\ \A j \in D : old[j] \in Config
      BY <2>2, PartialOut DEF Configs
    <3>3. PICK f : f = [j \in DOMAIN old |-> [old[j] EXCEPT !.primary = (j = i)]]
      OBVIOUS
    <3>4. ASSUME NEW j \in D PROVE f[j] \in Config
      <4>1. PICK v \in Config : v = old[j]
        BY <3>2
      <4>2. PICK p \in BOOLEAN : p = (j = i)
        OBVIOUS
      <4>3. f[j] = [v EXCEPT !.primary = p]
        BY <3>2, <3>3, <4>1, <4>2
      <4> QED
        BY <4>3 DEF Config
    <3>5. f \in [D -> Config]
      BY <3>2, <3>3, <3>4
    <3>6. f \in Configs
      BY <3>5, PartialIn DEF Configs
    <3> HIDE DEF old
    <3> QED
      BY <3>1, <3>3, <3>6
  <2> HIDE DEF new
  <2>4. PICK st \in ScreenConfig : st = Store(sc, mode, customId, new)
    BY <1>4, <2>1, <2>3, StoreType
  <2>5. Save(c, [For("call", mode, "", known) EXCEPT !.op = "stored"], [config EXCEPT ![known] = st])
    BY <1>2, <1>3, <1>6, <2>4 DEF WorkType
  <2>6. i \in known /\ i \in Monitor
    BY <1>1, <1>2, <1>6
  <2>7. primary' \in Monitor \cup {None} /\ rect' \in Box(Coord, Side)
    BY <1>2, <1>6, <2>6, BecomeType
  <2>8. "stored" \in Op /\ customId' \in Name \cup {""}
    BY <1>1, <1>4 DEF Op
  <2> QED
    BY <1>1, <1>6, <2>5, <2>7, <2>8, StoringTypes
<1> QED
  BY <1>3, <1>5, <1>6 DEF SetPrimary

LEMMA DeleteCustomModeTypes ==
    ASSUME TypeInv, NEW c \in Caller, calls < MaxCall, NEW n \in Name, DeleteCustomMode(c, n)
    PROVE  Kept
<1>1. /\ Call(c, "name")
      /\ customId' = IF customId = n THEN "" ELSE customId
      /\ Save(c, [For("call", mode, "", known) EXCEPT !.op = "stored"],
              [config EXCEPT ![known].custom = [x \in DOMAIN @ \ {n} |-> @[x]]])
      /\ UNCHANGED <<mem, backup, hasChanged, how, mode, primary, rect, unsent>>
  BY DEF DeleteCustomMode, edit
<1>2. Typed /\ EditType /\ ShownType /\ WorkType /\ known \in SUBSET Monitor
  BY DEF TypeInv, Typed, EditType
<1>3. PICK sc \in ScreenConfig : sc = config[known]
  BY <1>2 DEF WorkType
<1>4. PICK f : f = [x \in DOMAIN sc.custom \ {n} |-> sc.custom[x]]
  OBVIOUS
<1>5. PICK new \in ScreenConfig : new = [sc EXCEPT !.custom = f]
  <2>1. PICK D \in SUBSET (Name \cup {""}) : D = DOMAIN sc.custom \ {n}
    BY ScreenAt
  <2>2. f \in [D -> Configs]
    BY <1>4, <2>1, ScreenAt
  <2>3. [sc EXCEPT !.custom = f] \in ScreenConfig
    BY <2>2, NewCustom
  <2> QED
    BY <2>3
<1>6. [config EXCEPT ![known].custom = [x \in DOMAIN @ \ {n} |-> @[x]]] = [config EXCEPT ![known] = new]
  BY <1>2, <1>3, <1>4, <1>5 DEF WorkType
<1>7. Save(c, [For("call", mode, "", known) EXCEPT !.op = "stored"], [config EXCEPT ![known] = new])
  BY <1>1, <1>6
<1>8. "stored" \in Op /\ customId' \in Name \cup {""} /\ primary' \in Monitor \cup {None} /\ rect' \in Box(Coord, Side)
  BY <1>1, <1>2 DEF Op, ShownType
<1> QED
  BY <1>1, <1>7, <1>8, StoringTypes

LEMMA ModifyConfigNameTypes ==
    ASSUME TypeInv, NEW c \in Caller, calls < MaxCall, NEW n \in Name, NEW other \in Name,
           ModifyConfigName(c, n, other)
    PROVE  Kept
<1> DEFINE old == config[known].custom
           f == [x \in (DOMAIN old \ {n}) \cup {other} |-> IF x = other THEN old[n] ELSE old[x]]
<1>1. /\ Call(c, "name") /\ n \in DOMAIN old
      /\ customId' = IF customId = n THEN other ELSE customId
      /\ Save(c, [For("call", mode, "", known) EXCEPT !.op = "stored"],
              [config EXCEPT ![known].custom = f])
      /\ UNCHANGED <<mem, backup, hasChanged, how, mode, primary, rect, unsent>>
  BY DEF ModifyConfigName, edit
<1>2. Typed /\ EditType /\ ShownType /\ WorkType /\ known \in SUBSET Monitor
  BY DEF TypeInv, Typed, EditType
<1>3. PICK sc \in ScreenConfig : sc = config[known]
  BY <1>2 DEF WorkType
<1>4. PICK new \in ScreenConfig : new = [sc EXCEPT !.custom = f]
  <2>1. DOMAIN sc.custom \in SUBSET (Name \cup {""}) /\ \A x \in DOMAIN sc.custom : sc.custom[x] \in Configs
    BY ScreenAt
  <2>2. PICK D \in SUBSET (Name \cup {""}) : D = (DOMAIN old \ {n}) \cup {other}
    BY <1>3, <2>1
  <2>3. f \in [D -> Configs]
    BY <1>1, <1>3, <2>1, <2>2
  <2> HIDE DEF f
  <2>4. [sc EXCEPT !.custom = f] \in ScreenConfig
    BY <2>3, NewCustom
  <2> QED
    BY <2>4
<1> HIDE DEF f
<1>5. [config EXCEPT ![known].custom = f] = [config EXCEPT ![known] = new]
  BY <1>2, <1>3, <1>4 DEF WorkType
<1>6. Save(c, [For("call", mode, "", known) EXCEPT !.op = "stored"], [config EXCEPT ![known] = new])
  BY <1>1, <1>5
<1>7. "stored" \in Op /\ customId' \in Name \cup {""} /\ primary' \in Monitor \cup {None} /\ rect' \in Box(Coord, Side)
  BY <1>1, <1>2 DEF Op, ShownType
<1> QED
  BY <1>1, <1>6, <1>7, StoringTypes

\* A monitor is edited: its settings s are proper, and it was known.
LEMMA EditTypes ==
    ASSUME TypeInv, NEW c \in Caller, calls < MaxCall, NEW i \in known, NEW s \in Setting, s.size # 0,
           NEW h \in Position, Edit(c, i, s, h)
    PROVE  Kept
<1>1. /\ Call(c, "edit") /\ hasChanged' = TRUE /\ how' = h
      /\ backup' = [backup EXCEPT ![i] =
             IF @ = {} THEN {[on |-> mem[i].on, pos |-> mem[i].pos, size |-> mem[i].size]} ELSE @]
      /\ mem' = [mem EXCEPT ![i] = s] /\ unsent' = unsent \cup {i}
      /\ UNCHANGED <<mode, customId, primary, rect, ids, config, pc, task>>
  BY DEF Edit, shown
<1>2. Typed /\ EditType /\ ShownType /\ WorkType /\ mem \in Settings(known) /\ i \in Monitor
  BY DEF TypeInv, Typed, WorkType, EditType
<1>3. OutsideType' /\ BoundType' /\ UNCHANGED <<known, life>>
  BY <1>1, CallType
<1>4. mem' \in Settings(known')
  BY <1>1, <1>2, <1>3 DEF Settings
<1>5. WorkType'
  BY <1>1, <1>2, <1>4 DEF WorkType
<1>6. Numbered'
  BY <1>1, <1>3 DEF TypeInv, Numbered, Listening
<1>7. EditType'
  <2>1. PICK b \in Output : b = [on |-> mem[i].on, pos |-> mem[i].pos, size |-> mem[i].size]
    <3>1. [on |-> mem[i].on, pos |-> mem[i].pos, size |-> mem[i].size] \in Output
      BY <1>2, SettingsAt DEF Output
    <3> QED
      BY <3>1
  <2>2. backup' = [backup EXCEPT ![i] = IF backup[i] = {} THEN {b} ELSE backup[i]]
    BY <1>1, <1>2, <2>1 DEF EditType
  <2>3. backup' \in [Monitor -> SUBSET Output]
    BY <1>2, <2>2 DEF EditType
  <2>4. \A j \in Monitor : backup'[j] # {} => j \in known /\ \E o \in Output : backup'[j] = {o}
    BY <1>2, <2>2 DEF EditType
  <2> QED
    BY <1>1, <1>2, <1>3, <2>3, <2>4 DEF EditType
<1>8. ShownType'
  BY <1>1, <1>2 DEF ShownType
<1> QED
  BY <1>1, <1>3, <1>5, <1>6, <1>7, <1>8, PcAlone DEF Kept, WorkKept, TypeInv, Typed

LEMMA EditingTypes ==
    ASSUME TypeInv, NEW c \in Caller, calls < MaxCall,
           \/ \E i \in Monitor : Enable(c, i)
           \/ \E i \in Monitor, p \in Pos : SetPosition(c, i, p)
           \/ \E i \in Monitor, z \in Sizes : SetMode(c, i, z)
    PROVE  Kept
<1>1. mem \in Settings(known) /\ how \in Position
  BY DEF TypeInv, Typed, WorkType, EditType
<1>2. ASSUME NEW i \in Monitor, i \in known
      PROVE  \E v \in Setting : v = mem[i] /\ v.size # 0
  BY <1>1, <1>2, SettingsAt
<1>3. ASSUME NEW i \in Monitor, Enable(c, i) PROVE Kept
  <2>1. Edit(c, i, [mem[i] EXCEPT !.on = ~@], how) /\ i \in known
    BY <1>3 DEF Enable, Edit
  <2>2. PICK v \in Setting : v = mem[i] /\ v.size # 0
    BY <1>2, <2>1
  <2>3. PICK on \in BOOLEAN : on = ~v.on
    OBVIOUS
  <2>4. [v EXCEPT !.on = on] \in Setting /\ [v EXCEPT !.on = on].size # 0
    BY <2>2 DEF Setting
  <2>5. Edit(c, i, [v EXCEPT !.on = on], how)
    BY <2>1, <2>2, <2>3
  <2> QED
    BY <1>1, <2>1, <2>4, <2>5, EditTypes
<1>4. ASSUME NEW i \in Monitor, NEW p \in Pos, SetPosition(c, i, p) PROVE Kept
  <2>1. Edit(c, i, [mem[i] EXCEPT !.pos = p], "Unknow") /\ i \in known
    BY <1>4 DEF SetPosition, Edit
  <2>2. PICK v \in Setting : v = mem[i] /\ v.size # 0
    BY <1>2, <2>1
  <2>3. p \in Place /\ "Unknow" \in Position
    BY PosPlace DEF Position
  <2>4. [v EXCEPT !.pos = p] \in Setting /\ [v EXCEPT !.pos = p].size # 0
    BY <2>2, <2>3 DEF Setting
  <2>5. Edit(c, i, [v EXCEPT !.pos = p], "Unknow")
    BY <2>1, <2>2
  <2> QED
    BY <2>1, <2>3, <2>4, <2>5, EditTypes
<1>5. ASSUME NEW i \in Monitor, NEW z \in Sizes, SetMode(c, i, z) PROVE Kept
  <2>1. PICK h \in Position : Edit(c, i, [mem[i] EXCEPT !.size = z, !.w = z], h) /\ i \in known
    <3>1. \A q, r : PositionOf(q, r) \in Position
      BY DEF PositionOf, Position
    <3> QED
      BY <1>5, <3>1 DEF SetMode, Edit
  <2>2. PICK v \in Setting : v = mem[i] /\ v.size # 0
    BY <1>2, <2>1
  <2>3. z \in Nat \ {0}
    BY SizeType
  <2>4. [v EXCEPT !.size = z, !.w = z] \in Setting /\ [v EXCEPT !.size = z, !.w = z].size # 0
    BY <2>2, <2>3 DEF Setting
  <2>5. Edit(c, i, [v EXCEPT !.size = z, !.w = z], h)
    BY <2>1, <2>2
  <2> QED
    BY <2>1, <2>4, <2>5, EditTypes
<1> QED
  BY <1>3, <1>4, <1>5

LEMMA CallTypes ==
    ASSUME TypeInv, NEW c \in Caller, CallStep(c)
    PROVE  Kept
<1>1. calls < MaxCall
  BY DEF CallStep, Callable
<1>2. Mode = {"custom", "mirror", "extend", "only"}
  BY DEF Mode
<1>3. ASSUME NEW m \in Mode, NEW n \in Name \cup {""}, NEW i, SwitchMode(c, m, n, i) PROVE Kept
  BY <1>1, <1>3, SwitchModeTypes
<1>4. (\E m \in Mode \ {"custom", "only"} : SwitchMode(c, m, "", None)) => Kept
  BY <1>3
<1>5. (\E n \in Name : SwitchMode(c, "custom", n, None)) => Kept
  BY <1>2, <1>3
<1>6. (\E i \in Monitor \cup {None} : SwitchMode(c, "only", "", i)) => Kept
  BY <1>2, <1>3
<1>7. ApplyChanges(c) \/ ResetChanges(c) \/ SaveCall(c) => Kept
  BY <1>1, ApplyChangesTypes, ResetChangesTypes, SaveCallTypes
<1>8. (\E i \in Monitor \cup {None} : SetPrimary(c, i)) => Kept
  BY <1>1, SetPrimaryTypes
<1>9. (\E n \in Name : DeleteCustomMode(c, n)) \/ (\E n, new \in Name : ModifyConfigName(c, n, new)) => Kept
  BY <1>1, DeleteCustomModeTypes, ModifyConfigNameTypes
<1> QED
  BY <1>1, <1>4, <1>5, <1>6, <1>7, <1>8, <1>9, EditingTypes DEF CallStep

\* An output changes at the compositor.
LEMMA ChangeTypes ==
    ASSUME TypeInv, NEW i \in Monitor, NEW kind \in AnyKind, NEW on \in BOOLEAN, NEW p \in Place,
           NEW size \in Sizes, NEW why, Change(i, kind, on, p, size, why), plugged' \subseteq Monitor
    PROVE  Kept
<1> DEFINE new == [on |-> on, pos |-> p, size |-> size]
<1>1. /\ Event /\ kwin' = [kwin EXCEPT ![i] = new]
      /\ signals' = IF Listening THEN signals \o Announced(kind, {i}, kwin') ELSE signals
      /\ unsent' \subseteq known \cup unsent
      /\ UNCHANGED <<life, known, backup, hasChanged, how, mode, customId, primary, rect, mem, ids, config, pc, task>>
  BY DEF Change, edit, shown, work
<1>2. OutsideType /\ EditType /\ ShownType /\ BoundType
  BY DEF TypeInv, Typed
<1>3. kwin' \in [Monitor -> Output]
  <2>1. new \in Output
    BY DEF Output
  <2> HIDE DEF new
  <2> QED
    BY <1>1, <1>2, <2>1 DEF OutsideType
<1>4. signals' \in Seq(Signal)
  <2>1. PICK k \in [Monitor -> Output] : k = kwin'
    BY <1>3
  <2>2. CASE signals' = signals
    BY <1>2, <2>2 DEF OutsideType
  <2>3. CASE signals' = signals \o Announced(kind, {i}, k)
    BY <1>2, <2>3, SignalsType DEF OutsideType
  <2> QED
    BY <1>1, <2>1, <2>2, <2>3
<1>5. OutsideType'
  BY <1>1, <1>2, <1>3, <1>4 DEF OutsideType
<1>6. WorkKept
  BY <1>1, WorkAlone DEF Listening
<1>7. EditType' /\ ShownType'
  BY <1>1, <1>2 DEF EditType, ShownType
<1>8. BoundType'
  BY <1>1, <1>2, EventType
<1> QED
  BY <1>5, <1>6, <1>7, <1>8 DEF Kept, WorkKept, TypeInv, Typed

LEMMA CompositorTypes ==
    ASSUME TypeInv, CompositorStep
    PROVE  Kept
<1>1. plugged \subseteq Monitor /\ \A i \in Monitor : kwin[i].size \in Sizes
  BY DEF TypeInv, Typed, OutsideType, Output
<1>2. Pos \subseteq Place /\ <<0, 0>> \in Place
  <2>1. Pos \subseteq Place
    BY PosPlace
  <2>2. <<0, 0>> \in Place
    BY Origin
  <2> QED
    BY <2>1, <2>2
<1>3. \A i \in Monitor : Best(i) \in Sizes
  BY BestSize
<1>4. {"added", "removed", "changed"} \subseteq AnyKind
  BY DEF AnyKind
<1>5. ASSUME NEW i \in Monitor, NEW p \in Pos, Plug(i, p) PROVE Kept
  <2>1. Change(i, "added", TRUE, p, Best(i), {}) /\ plugged' \subseteq Monitor
    BY <1>1, <1>5 DEF Plug
  <2>2. p \in Place /\ Best(i) \in Sizes /\ "added" \in AnyKind
    BY <1>2, <1>3, <1>4
  <2> QED
    BY <2>1, <2>2, ChangeTypes
<1>6. ASSUME NEW i \in Monitor, Unplug(i) PROVE Kept
  <2>1. Change(i, "removed", FALSE, <<0, 0>>, Best(i), {}) /\ plugged' \subseteq Monitor
    BY <1>1, <1>6 DEF Unplug
  <2>2. Best(i) \in Sizes /\ "removed" \in AnyKind
    BY <1>3, <1>4
  <2> QED
    BY <1>2, <2>1, <2>2, ChangeTypes
<1>7. ASSUME NEW i \in Monitor, NEW on \in BOOLEAN, NEW p \in Pos, Move(i, on, p) PROVE Kept
  <2>1. PICK why : Change(i, "changed", on, p, kwin[i].size, why) /\ plugged' \subseteq Monitor
    BY <1>1, <1>7 DEF Move
  <2>2. p \in Place /\ kwin[i].size \in Sizes /\ "changed" \in AnyKind
    BY <1>1, <1>2, <1>4
  <2> QED
    BY <2>1, <2>2, ChangeTypes
<1> QED
  BY <1>5, <1>6, <1>7 DEF CompositorStep

\* The goroutine of the signals is at rest when it handles one.
LEMMA LoopRests ==
    ASSUME TypeInv, pc[Loop] = "idle"
    PROVE  task[Loop].by = "none" /\ (Listening => ids = known) /\ Loop \in Actor
<1>1. Loop \in Actor
  BY DEF Actor
<1>2. task[Loop] = Rest
  BY <1>1 DEF TypeInv, Typed, WorkType, AtWork
<1>3. task[Loop].by = "none"
  <2>1. Rest.by = "none"
    BY DEF Rest
  <2> QED
    BY <1>2, <2>1
<1> QED
  BY <1>1, <1>3 DEF TypeInv, Numbered

\* What the signals tell is taken over, and K are known then.
LEMMA UpdateTypes ==
    ASSUME TypeInv, pc[Loop] = "idle", Listening, UNCHANGED life,
           NEW K \in SUBSET Monitor, NEW mm \in Settings(K), known' = K, UpdateMonitorsId(K, mm)
    PROVE  /\ WorkKept
           /\ backup' \in [Monitor -> SUBSET Output] /\ hasChanged' \in BOOLEAN
           /\ \/ K = known /\ UNCHANGED backup
              \/ \A i \in Monitor : backup'[i] = {}
<1>1. ids = known /\ Loop \in Actor
  BY LoopRests
<1>2. Typed /\ EditType /\ ShownType /\ WorkType
  BY DEF TypeInv, Typed
<1>3. CASE K = ids
  <2>1. mem' = mm /\ UNCHANGED <<hasChanged, backup, ids, config, pc, task>>
    BY <1>3 DEF UpdateMonitorsId
  <2>2. WorkType'
    BY <1>2, <2>1 DEF WorkType
  <2>3. Numbered'
    BY <1>1, <1>3, <2>1 DEF TypeInv, Numbered, Listening
  <2> QED
    BY <1>1, <1>2, <1>3, <2>1, <2>2, <2>3, PcAlone DEF EditType, WorkKept
<1>4. CASE K # ids
  <2>1. /\ backup' = [i \in Monitor |-> {}] /\ hasChanged' = FALSE
        /\ ApplyDisplayMode(Loop, "ids", K, mm)
    BY <1>4 DEF UpdateMonitorsId
  <2>2. PICK t : t = For("ids", mode, customId, K)
    OBVIOUS
  <2>3. Done(Loop, For("ids", mode, customId, K), K)
    BY <1>1, <1>2, <2>1, ApplyDisplayModeDone
  <2>4. Done(Loop, t, known')
    BY <2>2, <2>3
  <2>5. t.by = "ids" /\ t.scr = K
    BY <2>2 DEF For, Rest
  <2>6. Takes(Loop, t, known')
    BY <2>5 DEF Takes
  <2>7. WorkKept
    BY <1>1, <2>4, <2>6, DoneTyped
  <2> QED
    BY <2>1, <2>7
<1> QED
  BY <1>3, <1>4

LEMMA SeenType ==
    ASSUME NEW s \in Signal, NEW K \in SUBSET Monitor, NEW mm \in Settings(K)
    PROVE  /\ [mm EXCEPT ![s.m] = Seen(s)] \in Settings(K \cup {s.m})
           /\ [mm EXCEPT ![s.m] = Off] \in Settings(K \ {s.m})
           /\ s.m \in Monitor
<1>1. s.m \in Monitor /\ s.on \in BOOLEAN /\ s.pos \in Place /\ s.size \in Sizes
  BY DEF Signal
<1>2. PICK i \in Monitor : i = s.m
  BY <1>1
<1>3. Seen(s) \in Setting /\ Seen(s).size # 0
  BY <1>1, SizeType, Origin DEF Seen, Setting
<1>4. Off \in Setting /\ Off.size = 0
  BY Origin DEF Off, Setting
<1>5. [mm EXCEPT ![i] = Seen(s)] \in Settings(K \cup {i})
  BY <1>3 DEF Settings
<1>6. [mm EXCEPT ![i] = Off] \in Settings(K \ {i})
  BY <1>4 DEF Settings
<1> QED
  BY <1>2, <1>5, <1>6

LEMMA SignalTypes ==
    ASSUME TypeInv, SignalStep
    PROVE  Kept
<1>1. PICK s : s = Head(signals)
  OBVIOUS
<1>2. /\ Listening /\ pc[Loop] = "idle" /\ signals # <<>> /\ signals' = Tail(signals)
      /\ UNCHANGED <<kwin, plugged, life, how, mode, customId, primary, calls, others>>
  BY DEF SignalStep, OutputAdded, OutputRemoved, OutputChanged, Handling, compositor, bounds
<1>3. OutsideType /\ EditType /\ ShownType /\ WorkType /\ BoundType /\ mem \in Settings(known)
      /\ known \in SUBSET Monitor
  BY DEF TypeInv, Typed, WorkType, EditType
<1>4. s \in Signal
  BY <1>1, <1>2, <1>3, HeadTailProperties DEF OutsideType
<1>5. OutsideType' /\ BoundType'
  <2>1. signals' \in Seq(Signal)
    BY <1>2, <1>3, HeadTailProperties DEF OutsideType
  <2> QED
    BY <1>2, <1>3, <2>1 DEF OutsideType, BoundType
<1>6. Loop \in Actor /\ ids = known
  BY <1>2, LoopRests
<1>7. ASSUME NEW K \in SUBSET Monitor, NEW mm \in Settings(K), known' = K, UpdateMonitorsId(K, mm),
             unsent' \subseteq K, UNCHANGED rect,
             known \subseteq K \/ K # known
      PROVE  Kept
  <2>1. /\ WorkKept
        /\ backup' \in [Monitor -> SUBSET Output] /\ hasChanged' \in BOOLEAN
        /\ \/ K = known /\ UNCHANGED backup
           \/ \A i \in Monitor : backup'[i] = {}
    BY <1>2, <1>7, UpdateTypes
  <2>2. EditType'
    BY <1>2, <1>3, <1>7, <2>1 DEF EditType
  <2>3. ShownType'
    BY <1>2, <1>3, <1>7 DEF ShownType
  <2> QED
    BY <1>5, <2>1, <2>2, <2>3 DEF Kept, WorkKept, TypeInv, Typed
<1>8. /\ [mem EXCEPT ![s.m] = Seen(s)] \in Settings(known \cup {s.m})
      /\ [mem EXCEPT ![s.m] = Off] \in Settings(known \ {s.m})
      /\ s.m \in Monitor
  BY <1>3, <1>4, SeenType
<1>9. CASE OutputAdded
  <2>0. PICK K \in SUBSET Monitor : K = known \cup {s.m}
    BY <1>3, <1>8
  <2>1. PICK mm \in Settings(K) : mm = [mem EXCEPT ![s.m] = Seen(s)]
    BY <1>8, <2>0
  <2>2. known' = K /\ UpdateMonitorsId(K, mm) /\ unsent' = unsent \ {s.m} /\ UNCHANGED rect
    BY <1>1, <1>9, <2>0, <2>1 DEF OutputAdded
  <2>3. unsent' \subseteq K /\ known \subseteq K
    BY <1>3, <2>0, <2>2 DEF EditType
  <2> QED
    BY <1>7, <2>2, <2>3
<1>10. CASE OutputRemoved /\ s.m \in known
  <2>0. PICK K \in SUBSET Monitor : K = known \ {s.m}
    BY <1>3, <1>8
  <2>1. PICK mm \in Settings(K) : mm = [mem EXCEPT ![s.m] = Off]
    BY <1>8, <2>0
  <2>2. known' = K /\ UpdateMonitorsId(K, mm) /\ unsent' = unsent \ {s.m} /\ UNCHANGED rect
    BY <1>1, <1>10, <2>0, <2>1 DEF OutputRemoved
  <2>3. unsent' \subseteq K /\ K # known
    BY <1>3, <1>10, <2>0, <2>2 DEF EditType
  <2> QED
    BY <1>7, <2>2, <2>3
<1>11. CASE OutputRemoved /\ s.m \notin known
  <2>1. UNCHANGED <<known, backup, hasChanged, mem, ids, config, pc, task, rect>> /\ unsent' = unsent \ {s.m}
    BY <1>1, <1>11 DEF OutputRemoved, work
  <2>2. WorkKept
    BY <1>2, <2>1, WorkAlone DEF Listening
  <2>3. EditType' /\ ShownType'
    BY <1>2, <1>3, <2>1 DEF EditType, ShownType
  <2> QED
    BY <1>5, <2>2, <2>3 DEF Kept, WorkKept, TypeInv, Typed
<1>12. CASE OutputChanged /\ s.m \notin known
  <2>0. PICK K \in SUBSET Monitor : K = known \cup {s.m}
    BY <1>3, <1>8
  <2>1. PICK mm \in Settings(K) : mm = [mem EXCEPT ![s.m] = Seen(s)]
    BY <1>8, <2>0
  <2>2. known' = K /\ UpdateMonitorsId(K, mm) /\ UNCHANGED <<rect, unsent>>
    BY <1>1, <1>12, <2>0, <2>1 DEF OutputChanged
  <2>3. unsent' \subseteq K /\ known \subseteq K
    BY <1>3, <2>0, <2>2 DEF EditType
  <2> QED
    BY <1>7, <2>2, <2>3
<1>13. CASE OutputChanged /\ s.m \in known /\ Confirms(s)
  <2>1. /\ mem' = [mem EXCEPT ![s.m] = Seen(s)]
        /\ rect' = IF s.m = primary THEN RectOf(mem'[s.m]) ELSE rect
        /\ unsent' = unsent \ {s.m}
        /\ UNCHANGED <<known, backup, hasChanged, ids, config, pc, task>>
    BY <1>1, <1>13 DEF OutputChanged
  <2>2. mem' \in Settings(known)
    <3>1. known \cup {s.m} = known
      BY <1>13
    <3> QED
      BY <1>8, <2>1, <3>1
  <2>3. WorkType'
    BY <1>3, <2>1, <2>2 DEF WorkType
  <2>4. Numbered'
    BY <1>2, <2>1 DEF TypeInv, Numbered, Listening
  <2>5. EditType'
    BY <1>2, <1>3, <2>1 DEF EditType
  <2>6. rect' \in Box(Coord, Side)
    <3>1. RectOf(mem'[s.m]) \in Box(Coord, Side)
      BY <1>8, <2>2, RectType
    <3> QED
      BY <1>3, <2>1, <3>1 DEF ShownType
  <2>7. ShownType'
    BY <1>2, <1>3, <2>6 DEF ShownType
  <2> QED
    BY <1>5, <2>1, <2>3, <2>4, <2>5, <2>7, PcAlone DEF Kept, WorkKept, TypeInv, Typed
<1>14. CASE OutputChanged /\ s.m \in known /\ ~Confirms(s)
  <2>1. /\ Start(Loop, [For("call", mode, "", known) EXCEPT !.op = "check"], known, mem)
        /\ UNCHANGED <<known, backup, hasChanged, rect, unsent>>
    BY <1>1, <1>14 DEF OutputChanged
  <2>2. PICK t : t = For("call", mode, "", known)
    OBVIOUS
  <2>3. t \in Task /\ t.by = "call" /\ t.main = None
    BY <1>3, <2>2, CallTask DEF ShownType
  <2>4. PICK u : u = [t EXCEPT !.op = "check"]
    OBVIOUS
  <2>5. Notes(u, t) /\ u.main = None
    BY <2>3, <2>4, NotedOp DEF Op
  <2>6. Start(Loop, u, known, mem) /\ Typed
    BY <2>1, <2>2, <2>4 DEF TypeInv
  <2>7. Done(Loop, t, known)
    BY <1>3, <1>6, <2>5, <2>6, StartDone
  <2>8. Done(Loop, t, known') /\ UNCHANGED <<known, life>>
    BY <1>2, <2>1, <2>7
  <2>9. Takes(Loop, t, known')
    BY <1>6, <2>1, <2>3 DEF Takes, Task
  <2>10. WorkKept
    BY <1>6, <2>8, <2>9, DoneTyped
  <2>11. EditType' /\ ShownType'
    BY <1>2, <1>3, <2>1 DEF EditType, ShownType
  <2> QED
    BY <1>5, <2>10, <2>11 DEF Kept, WorkKept, TypeInv, Typed
<1> QED
  BY <1>9, <1>10, <1>11, <1>12, <1>13, <1>14 DEF SignalStep

LEMMA StartTypes ==
    ASSUME TypeInv, AgreesInv, StartStep
    PROVE  Kept
<1>1. OutsideType /\ EditType /\ ShownType /\ WorkType /\ BoundType
  BY DEF TypeInv, Typed
<1>2. Main \in Actor /\ Main # Loop /\ Loop \in Actor
  BY TwoGoroutines DEF Actor
<1>3. ASSUME NEW stored, List(stored) PROVE Kept
  <2>1. /\ life' = "listed" /\ known' \subseteq plugged
        /\ UNCHANGED bounds \/ Event
        /\ mem' = [i \in Monitor |-> IF i \in known' THEN Seen(kwin[i]) ELSE Off]
        /\ primary' \in FirstPrimary(known', stored)
        /\ UNCHANGED <<kwin, plugged, signals, backup, hasChanged, how, mode, customId, rect, ids, config, pc, task, unsent>>
    BY <1>3 DEF List, compositor, edit
  <2>2. known = {} /\ life = "off"
    BY <1>3 DEF List, AgreesInv, Starting
  <2>3. known' \in SUBSET Monitor
    BY <1>1, <2>1 DEF OutsideType
  <2>4. mem' \in Settings(known')
    <3>1. ASSUME NEW i \in Monitor PROVE mem'[i] \in Setting /\ (mem'[i].size = 0 <=> i \notin known')
      <4>1. CASE i \in known'
        <5>1. kwin[i].on \in BOOLEAN /\ kwin[i].pos \in Place /\ kwin[i].size \in Sizes
          BY <1>1 DEF OutsideType, Output
        <5>2. Seen(kwin[i]) \in Setting /\ Seen(kwin[i]).size # 0
          BY <5>1, SizeType, Origin DEF Seen, Setting
        <5>3. mem'[i] = Seen(kwin[i])
          BY <2>1, <4>1
        <5> QED
          BY <4>1, <5>2, <5>3
      <4>2. CASE i \notin known'
        <5>1. Off \in Setting /\ Off.size = 0
          BY Origin DEF Off, Setting
        <5>2. mem'[i] = Off
          BY <2>1, <4>2
        <5> QED
          BY <4>2, <5>1, <5>2
      <4> QED
        BY <4>1, <4>2
    <3>2. mem' = [i \in Monitor |-> mem'[i]]
      BY <2>1
    <3> QED
      BY <3>1, <3>2 DEF Settings
  <2>5. WorkType'
    BY <1>1, <2>1, <2>4 DEF WorkType
  <2>6. Numbered'
    BY <2>1 DEF TypeInv, Numbered, Listening
  <2>7. EditType'
    BY <1>1, <2>1, <2>2, <2>3 DEF EditType
  <2>8. ShownType'
    <3>1. primary' \in Monitor \cup {None}
      BY <2>1, <2>3, FirstPrimaryMember
    <3> QED
      BY <1>1, <2>1, <3>1 DEF ShownType
  <2>9. OutsideType'
    BY <1>1, <2>1 DEF OutsideType
  <2>10. BoundType'
    <3>1. UNCHANGED bounds => BoundType'
      BY <1>1 DEF BoundType, bounds
    <3> QED
      BY <1>1, <2>1, <3>1, EventType
  <2> QED
    BY <2>1, <2>5, <2>6, <2>7, <2>8, <2>9, <2>10, PcAlone DEF Kept, WorkKept, TypeInv, Typed
<1>4. CASE Listen
  <2>1. /\ life = "listed" /\ life' = "on" /\ ids' = known
        /\ UNCHANGED <<kwin, plugged, signals, known, backup, hasChanged, how, mode, customId, primary, rect,
                       mem, config, pc, task, calls, others, unsent>>
    BY <1>4 DEF Listen, compositor, edit, shown, bounds, history
  <2>2. Idle
    BY <2>1 DEF AgreesInv, Starting
  <2>3. task[Loop].by = "none"
    BY <1>2, <2>2, LoopRests DEF Idle
  <2>4. WorkType'
    BY <1>1, <2>1 DEF WorkType, EditType
  <2>5. Numbered'
    BY <2>1, <2>3 DEF TypeInv, Numbered
  <2>6. OutsideType' /\ EditType' /\ ShownType' /\ BoundType'
    BY <1>1, <2>1 DEF OutsideType, EditType, ShownType, BoundType
  <2> QED
    BY <2>1, <2>4, <2>5, <2>6, PcAlone DEF Kept, WorkKept, TypeInv, Typed
<1>5. CASE Apply
  <2>1. /\ life = "on" /\ life' = "started" /\ ApplyDisplayMode(Main, "init", known, mem)
        /\ UNCHANGED <<kwin, plugged, signals, known, backup, hasChanged, how, mode, customId, primary, rect,
                       calls, others, unsent>>
    BY <1>5 DEF Apply, compositor, edit, shown, bounds
  <2>2. Typed /\ mem \in Settings(known) /\ known \in SUBSET Monitor
    BY <1>1 DEF TypeInv, WorkType, EditType
  <2>3. PICK t : t = For("init", mode, customId, known)
    OBVIOUS
  <2>4. Done(Main, For("init", mode, customId, known), known)
    BY <1>2, <2>1, <2>2, ApplyDisplayModeDone
  <2>5. Done(Main, t, known)
    BY <2>3, <2>4
  <2>6. t.by = "init" /\ t.scr = known
    BY <2>3 DEF For, Rest
  <2>7. WorkKept
    <3>1. Takes(Main, t, known')
      BY <1>2, <2>2, <2>6 DEF Takes
    <3>2. Done(Main, t, known') /\ UNCHANGED known /\ Listening
      BY <2>1, <2>5 DEF Listening
    <3> QED
      BY <1>2, <3>1, <3>2, DoneTyped
  <2>8. OutsideType' /\ EditType' /\ ShownType' /\ BoundType'
    BY <1>1, <2>1 DEF OutsideType, EditType, ShownType, BoundType
  <2> QED
    BY <2>7, <2>8 DEF Kept, WorkKept, TypeInv, Typed
<1>6. CASE Serve
  <2>1. /\ life = "started" /\ life' = "ready"
        /\ UNCHANGED <<kwin, plugged, signals, known, backup, hasChanged, how, mode, customId, primary, rect,
                       mem, ids, config, pc, task, calls, others, unsent>>
    BY <1>6 DEF Serve, compositor, edit, shown, work, bounds, history
  <2>2. WorkKept
    BY <2>1, WorkAlone DEF Listening
  <2>3. OutsideType' /\ EditType' /\ ShownType' /\ BoundType'
    BY <1>1, <2>1 DEF OutsideType, EditType, ShownType, BoundType
  <2> QED
    BY <2>2, <2>3 DEF Kept, WorkKept, TypeInv, Typed
<1> QED
  BY <1>3, <1>4, <1>5, <1>6 DEF StartStep

LEMMA InitTypes == Init => TypeInv
<1> SUFFICES ASSUME Init PROVE TypeInv
  OBVIOUS
<1>1. OutsideType
  <2>1. plugged \subseteq Monitor
    BY ConstantsAssumption DEF ConstantsAssumption, Init
  <2>2. ASSUME NEW i \in Monitor PROVE [on |-> i \in plugged, pos |-> <<0, 0>>, size |-> Best(i)] \in Output
    <3>1. PICK z \in Sizes : z = Best(i)
      BY BestSize
    <3>2. (i \in plugged) \in BOOLEAN
      OBVIOUS
    <3> QED
      BY <3>1, <3>2, Origin DEF Output
  <2>3. kwin \in [Monitor -> Output]
    BY <2>2 DEF Init
  <2>4. signals \in Seq(Signal) /\ life = "off"
    <3>1. signals = <<>> /\ life = "off"
      BY DEF Init
    <3>2. <<>> \in Seq(Signal)
      OBVIOUS
    <3> QED
      BY <3>1, <3>2
  <2> QED
    BY <2>1, <2>3, <2>4 DEF OutsideType
<1>2. EditType
  BY DEF Init, EditType, Position
<1>3. WorkType
  <2>1. mem \in Settings(known)
    <3>1. Off \in Setting /\ Off.size = 0
      BY Origin DEF Off, Setting
    <3>2. known = {} /\ mem = [i \in Monitor |-> Off]
      BY DEF Init
    <3> QED
      BY <3>1, <3>2 DEF Settings
  <2>2. PICK c \in Custom : config = [K \in SUBSET Monitor |-> IF K = Monitor THEN [Screen EXCEPT !.custom = c.modes]
                                                              ELSE Screen]
    BY DEF Init
  <2>3. Screen \in ScreenConfig
    <3>1. Nothing \in [{} -> Configs]
      BY DEF Nothing
    <3>2. Nothing \in Partial(Name \cup {""}, Configs)
      BY <3>1, PartialIn
    <3> QED
      BY <3>2, NothingStored DEF Screen, ScreenConfig
  <2>4. [Screen EXCEPT !.custom = c.modes] \in ScreenConfig
    <3> DEFINE f == c.modes
               N == DOMAIN f
    <3>1. /\ N \in SUBSET Name /\ f = [n \in N |-> f[n]]
          /\ \A n \in N : \E K \in SUBSET Monitor : f[n] \in [K -> MonitorConfig]
      BY ConstantsAssumption DEF ConstantsAssumption
    <3> HIDE DEF f
    <3>2. ASSUME NEW n \in N PROVE f[n] \in Configs
      <4>1. PICK K \in SUBSET Monitor : f[n] \in [K -> MonitorConfig]
        BY <3>1
      <4>2. ASSUME NEW i \in K PROVE f[n][i] \in Config
        BY <2>2, <4>1, StoredPlace DEF f
      <4>3. f[n] \in [K -> Config]
        BY <4>1, <4>2
      <4> QED
        BY <4>3, PartialIn DEF Configs
    <3>3. N \in SUBSET (Name \cup {""}) /\ f \in [N -> Configs]
      BY <3>1, <3>2
    <3>4. [Screen EXCEPT !.custom = f] \in ScreenConfig
      BY <2>3, <3>3, NewCustom
    <3> QED
      BY <3>4 DEF f
  <2>5. config \in [SUBSET Monitor -> ScreenConfig]
    BY <2>2, <2>3, <2>4
  <2>6. AtWork("idle", Rest)
    BY RestTask DEF AtWork
  <2> QED
    BY <2>1, <2>5, <2>6 DEF Init, WorkType
<1>4. ShownType
  <2>1. \A c \in Custom : c.id \in Name \cup {""}
    BY ConstantsAssumption DEF ConstantsAssumption
  <2>2. customId \in Name \cup {""}
    BY <2>1 DEF Init
  <2>3. Zero \in Box(Coord, Side)
    BY Origin, SquareBox DEF Zero, Side
  <2> QED
    BY <2>2, <2>3 DEF Init, ShownType, Mode
<1>5. BoundType
  <2>1. MaxCall \in Nat /\ MaxOther \in Nat
    BY ConstantsAssumption DEF ConstantsAssumption
  <2>2. calls = 0 /\ others = 0
    BY DEF Init
  <2> QED
    BY <2>1, <2>2 DEF BoundType
<1>6. Numbered
  <2>1. Rest.by = "none"
    BY DEF Rest
  <2>2. Loop \in Actor /\ ~Listening /\ \A a \in Actor : task[a] = Rest
    BY DEF Init, Actor, Listening
  <2> QED
    BY <2>1, <2>2 DEF Numbered
<1> QED
  BY <1>1, <1>2, <1>3, <1>4, <1>5, <1>6 DEF TypeInv, Typed

LEMMA TypesKeep == TypeInv /\ AgreesInv /\ [Next]_vars => Kept
<1> SUFFICES ASSUME TypeInv, AgreesInv, [Next]_vars PROVE Kept
  OBVIOUS
<1>1. CASE UNCHANGED vars
  BY <1>1, PcAlone DEF Kept, vars, compositor, edit, shown, work, bounds, history, TypeInv, Typed, OutsideType,
              EditType, ShownType, WorkType, BoundType, Numbered, Listening
<1>2. ASSUME NEW c \in Caller, CallStep(c) PROVE Kept
  BY <1>2, CallTypes
<1>3. CASE CommandStep
  BY <1>3, SetTypes, UnsetTypes, EndTypes, SavedTypes DEF CommandStep
<1>4. CASE SignalStep
  BY <1>4, SignalTypes
<1>5. CASE StartStep
  BY <1>5, StartTypes
<1>6. CASE CompositorStep
  BY <1>6, CompositorTypes
<1> QED
  BY <1>1, <1>2, <1>3, <1>4, <1>5, <1>6 DEF Next

LEMMA TypesSuffice == TypeInv => TypeOK
<1> SUFFICES ASSUME TypeInv PROVE TypeOK
  OBVIOUS
<1>1. OutsideType /\ EditType /\ ShownType /\ WorkType /\ BoundType
  BY DEF TypeInv, Typed
<1>2. kwin \in [Monitor -> [on : BOOLEAN, pos : Int16 \X Int16, size : Sizes]]
  BY <1>1, PlaceCoords DEF OutsideType, Output
<1>3. \A i \in 1 .. Len(signals) : signals[i].kind \in {"added", "changed", "removed"} /\ signals[i].m \in Monitor
  <2>1. \A i \in 1 .. Len(signals) : signals[i] \in Signal
    BY <1>1, LenProperties, ElementOfSeq DEF OutsideType
  <2> QED
    BY <2>1 DEF Signal, AnyKind
<1>4. /\ mem \in [Monitor -> [on : BOOLEAN, pos : Int16 \X Int16, size : Sizes \cup {0}, w : Nat]]
      /\ \A i \in Monitor : (mem[i].size = 0) = (i \notin known)
  BY <1>1, PlaceCoords, SizeType DEF WorkType, Settings, Setting
<1>5. \A i \in Monitor : backup[i] # {} => i \in known /\ Cardinality(backup[i]) = 1
  BY <1>1, FS_Singleton DEF EditType
<1>6. \A a \in Actor : /\ pc[a] \in {"idle", "set", "unset", "end", "save"}
                       /\ pc[a] = "idle" => task[a] = Rest
                       /\ pc[a] = "set" => DOMAIN task[a].cmd # {}
                       /\ pc[a] = "unset" => task[a].off # {}
  BY <1>1 DEF WorkType, AtWork
<1> QED
  BY <1>1, <1>2, <1>3, <1>4, <1>5, <1>6 DEF TypeOK, OutsideType, EditType, ShownType, WorkType, BoundType

\* Whatever is called, fails, comes, goes or is changed by others: the settings,
\* the stored configurations, the tasks and the signals keep their types, a
\* monitor has a size exactly while it is known, and no edit is kept of one
\* that is gone.
THEOREM TypeCorrect == Spec => []TypeOK
<1>1. TypeInv /\ AgreesInv /\ [Next]_vars => TypeInv'
  BY TypesKeep DEF Kept
<1> QED
  BY <1>1, InitTypes, TypesSuffice, AgreesAlways, PTL DEF Spec

\* Two monitors with even sizes, whose places are in reach, are always applied side by
\* side when a custom mode extends the desktop over them, without a gap or an overlap: at the start, by
\* every call, and when an output comes, goes or is changed.
THEOREM AppliedJoined == TwoEven => (Spec => Joined)
<1> SUFFICES ASSUME TwoEven PROVE Spec => Joined
  OBVIOUS
<1>1. TypeInv /\ AgreesInv /\ [Next]_vars => TypeInv'
  BY TypesKeep DEF Kept
<1>2. TypeInv /\ AgreesInv /\ [Next]_vars =>
          [\A a \in Actor :
              LET cmd == task'[a].cmd
              IN  InReach /\ pc'[a] = "set" /\ pc[a] # "set" /\ mode = "custom" /\ Cardinality(DOMAIN cmd) = 2
                      /\ primary \in DOMAIN cmd /\ RealMode(DOMAIN cmd, cmd) # "mirror"
                  => \A i, j \in DOMAIN cmd : i = j \/ Beside(Square(cmd[i].pos, cmd[i].size),
                                                              Square(cmd[j].pos, cmd[j].size))]_vars
  <2> SUFFICES ASSUME TypeInv, AgreesInv, [Next]_vars
               PROVE  \A a \in Actor :
              LET cmd == task'[a].cmd
              IN  InReach /\ pc'[a] = "set" /\ pc[a] # "set" /\ mode = "custom" /\ Cardinality(DOMAIN cmd) = 2
                      /\ primary \in DOMAIN cmd /\ RealMode(DOMAIN cmd, cmd) # "mirror"
                  => \A i, j \in DOMAIN cmd : i = j \/ Beside(Square(cmd[i].pos, cmd[i].size),
                                                              Square(cmd[j].pos, cmd[j].size))
    OBVIOUS
  <2>1. Together
    BY TypesKeep DEF Kept
  <2> QED
    BY <2>1 DEF Together, JoinedBy, AllBeside
<1> QED
  BY <1>1, <1>2, InitTypes, AgreesAlways, PTL DEF Spec, Joined

-----------------------------------------------------------------------------
(* What Honoured needs.  An operation that sets the whole layout prepares   *)
(* the settings of all the monitors at once and runs alone (or free says    *)
(* so): until it ends it is what those settings are prepared for, and when  *)
(* it ends they show the mode it ends in.  The signals that come meanwhile  *)
(* tell of its own commands.                                                *)

\* What Honoured says of the settings s of the monitors K, for the mode m and
\* the custom mode n
Shows(K, m, n, s) ==
    LET cfg == Stored(config[K], m, n)
    IN  CASE m = "mirror" -> RealMode(K, s) = "mirror" /\ \A i \in K : s[i].on
          [] m = "extend" -> /\ \A i \in K : s[i].on
                             /\ cfg = Nothing => RealMode(K, s) = "extend"
          [] m = "only"   -> RealMode(K, s) = "only"
          [] m = "custom" -> /\ cfg # Nothing
                             /\ \A i \in K \cap DOMAIN cfg : s[i].on = cfg[i].on

\* Goroutine a sets the whole layout.
Rules(a) == pc[a] # "idle" /\ (task[a].by = "switch" \/ task[a].op \in {"configs", "extend", "mirror", "only"})

\* The settings s of the monitors K are prepared for what task t is to end in.
Prepared(t, K, s) ==
    IF t.save /\ t.op \in {"mirror", "extend"}
    THEN t.mode = "custom" /\ t.name # "" /\ \A i \in K : s[i].on
    ELSE Shows(K, t.mode, t.name, s)

\* What a ruling goroutine is at, for the monitors K
InOrder(a, K) ==
    LET t == task[a]
        on == DOMAIN t.cmd
    IN  /\ t.scr = K
        /\ t.by # "switch" => t.mode = mode /\ (mode = "custom" => t.name = customId)
        /\ pc[a] = "set" => /\ on \subseteq K /\ K \subseteq on \cup t.off
                            /\ \A i \in on : /\ mem[i].on /\ mem[i].w = mem[i].size
                                             /\ t.cmd[i] = [on |-> TRUE, pos |-> mem[i].pos, size |-> mem[i].size]
        /\ pc[a] \in {"set", "unset"} => t.off \subseteq K /\ \A i \in t.off : ~mem[i].on
        /\ pc[a] = "save" => t.op = "stored"
        /\ Cardinality(K) > 1 => Prepared(t, K, mem)

\* A signal brings what is known; or it fits it, or changes what is there.
Says(s)     == s.kind = "changed" /\ s.m \in known /\ (s.on <=> mem[s.m].on) /\ Confirms(s)
Expected(s) == IF s.kind = "changed" THEN s.m \in known => (s.on <=> mem[s.m].on)
               ELSE s.kind = "added" <=> s.m \notin known

Ruled == \A a \in Actor : Rules(a) => /\ Calm(a)
                                      /\ \A n \in DOMAIN signals : Says(signals[n])
                                      /\ InOrder(a, known)
Unapplied == \A i \in unsent \ missed : \E a \in Actor :
    Rules(a) /\ (pc[a] = "set" \/ (pc[a] = "unset" /\ i \in task[a].off))
Foretold == \A n \in DOMAIN signals :
    (\A k \in DOMAIN signals : k < n => signals[k].kind = "changed") => Expected(signals[n])
Obeying == \A a \in Actor :
    /\ pc[a] = "set" => \A i \in DOMAIN task[a].cmd \cap known : mem[i].on /\ task[a].cmd[i].on
    /\ pc[a] \in {"set", "unset"} => \A i \in task[a].off \cap known : ~mem[i].on
Settling == life \in {"started", "ready"} /\ Cardinality(known) > 1 /\ (\A a \in Actor : ~Rules(a))
            => Shows(known, mode, customId, mem)
Ordered == free = {} => Ruled /\ Unapplied /\ (missed = {} => Foretold /\ Obeying /\ Settling)
-----------------------------------------------------------------------------
(* The layouts show the modes.                                             *)

\* The two monitors
LEMMA TwoMonitors ==
    ASSUME TwoEven, NEW K \in SUBSET Monitor, Cardinality(K) > 1
    PROVE  K = Monitor /\ \E p \in Monitor, q \in Monitor : p # q /\ Monitor = {p, q}
<1>1. IsFiniteSet(Monitor) /\ Cardinality(Monitor) = 2
  BY ConstantsAssumption DEF ConstantsAssumption, TwoEven
<1>2. IsFiniteSet(K) /\ Cardinality(K) \in Nat /\ Cardinality(K) <= 2
  BY <1>1, FS_Subset, FS_CardinalityType
<1>3. K = Monitor
  <2>1. Cardinality(K) = Cardinality(Monitor)
    BY <1>1, <1>2
  <2> QED
    BY <1>1, <2>1, FS_Subset
<1>4. PICK p : p \in Monitor
  BY <1>1, FS_EmptySet
<1>5. IsFiniteSet(Monitor \ {p}) /\ Cardinality(Monitor \ {p}) = 1
  BY <1>1, <1>4, FS_RemoveElement
<1>6. PICK q : Monitor \ {p} = {q}
  BY <1>5, FS_Singleton
<1>7. q # p /\ q \in Monitor /\ Monitor = {p, q}
  BY <1>4, <1>6
<1> QED
  BY <1>3, <1>4, <1>7

\* The real mode of two monitors
LEMMA RealOfTwo ==
    ASSUME NEW p, NEW q, p # q, NEW s, s[p].on, s[q].on
    PROVE  RealMode({p, q}, s) = IF s[p].pos = s[q].pos THEN "mirror" ELSE "extend"
<1> DEFINE on == {i \in {p, q} : s[i].on}
<1>1. on = {p, q}
  OBVIOUS
<1>2. Cardinality(on) # 1
  <2>1. SUFFICES ASSUME Cardinality(on) = 1 PROVE FALSE
    OBVIOUS
  <2>2. IsFiniteSet(on)
    <3>1. IsFiniteSet({p})
      BY FS_Singleton
    <3>2. IsFiniteSet({p} \cup {q})
      BY <3>1, FS_AddElement
    <3>3. on = {p} \cup {q}
      BY <1>1
    <3> QED
      BY <3>2, <3>3
  <2>3. PICK x : on = {x}
    BY <2>1, <2>2, FS_Singleton
  <2> QED
    BY <1>1, <2>3
<1> HIDE DEF on
<1>3. CASE s[p].pos = s[q].pos
  BY <1>1, <1>3 DEF RealMode, on
<1>4. CASE s[p].pos # s[q].pos
  <2>1. ~(\E i, j \in on : i # j /\ s[i].pos = s[j].pos) /\ on # {}
    BY <1>1, <1>4
  <2> QED
    BY <1>2, <1>4, <2>1 DEF RealMode, on
<1> QED
  BY <1>3, <1>4

\* Settings that enable the same monitors, at the same places, have the same
\* real mode.
LEMMA RealSame ==
    ASSUME NEW K, NEW s, NEW v,
           \A i \in K : (s[i].on <=> v[i].on) /\ (v[i].on => s[i].pos = v[i].pos)
    PROVE  RealMode(K, s) = RealMode(K, v)
<1> DEFINE on(u) == {i \in K : u[i].on}
<1>1. on(s) = on(v)
  OBVIOUS
<1>2. (\E i, j \in on(s) : i # j /\ s[i].pos = s[j].pos) <=> (\E i, j \in on(v) : i # j /\ v[i].pos = v[j].pos)
  BY <1>1
<1> QED
  BY <1>1, <1>2 DEF RealMode

\* What is shown rests on which monitors are enabled, and on the real mode.
LEMMA ShowsSame ==
    ASSUME NEW K, NEW m, NEW n, NEW s, NEW v, \A i \in K : s[i].on = v[i].on,
           RealMode(K, s) = RealMode(K, v), Shows(K, m, n, s)
    PROVE  Shows(K, m, n, v)
BY DEF Shows

LEMMA ShowsAlike ==
    ASSUME NEW K, NEW m, NEW n, NEW s, NEW v, Shows(K, m, n, s),
           \A i \in K : s[i].on = v[i].on /\ (v[i].on => s[i].pos = v[i].pos)
    PROVE  Shows(K, m, n, v)
<1>1. RealMode(K, s) = RealMode(K, v)
  BY RealSame
<1> QED
  BY <1>1, ShowsSame

\* An enabled monitor of K is as wide as its size.
Wide(K, mm) == \A i \in K : mm[i].on => mm[i].w = mm[i].size

LEMMA MirroredShows ==
    ASSUME TwoEven, NEW K \in SUBSET Monitor, NEW mm
    PROVE  LET new == Mirrored(K, mm)
           IN  /\ \A i \in K : new[i].on
               /\ Wide(K, new)
               /\ Cardinality(K) > 1 => RealMode(K, new) = "mirror"
<1> DEFINE z == CHOOSE u \in Common(K) : \A t \in Common(K) : t <= u
           new == Mirrored(K, mm)
<1>1. \A i \in K : new[i] = [on |-> TRUE, pos |-> <<0, 0>>, size |-> z, w |-> z]
  BY DEF Mirrored
<1> HIDE DEF new, z
<1>2. \A i \in K : new[i].on /\ new[i].w = new[i].size /\ new[i].pos = <<0, 0>>
  BY <1>1
<1>3. ASSUME Cardinality(K) > 1 PROVE RealMode(K, new) = "mirror"
  <2>1. PICK p \in Monitor, q \in Monitor : p # q /\ K = {p, q}
    BY <1>3, TwoMonitors
  <2>2. new[p].on /\ new[q].on /\ new[p].pos = new[q].pos
    BY <1>2, <2>1
  <2> QED
    BY <2>1, <2>2, RealOfTwo
<1> QED
  BY <1>2, <1>3 DEF new, Wide

LEMMA ExtendedShows ==
    ASSUME TwoEven, NEW K \in SUBSET Monitor, NEW mm, NEW cfg
    PROVE  LET new == Extended(K, mm, cfg)
           IN  /\ \A i \in K : new[i].on
               /\ Wide(K, new)
               /\ Cardinality(K) > 1 /\ cfg = Nothing => RealMode(K, new) = "extend"
<1> DEFINE new == Extended(K, mm, cfg)
<1>1. \A i \in K : new[i] = [on |-> TRUE, pos |-> <<FromLeft(i, K, cfg), 0>>,
                             size |-> Wanted(i, cfg), w |-> Wanted(i, cfg)]
  BY DEF Extended
<1> HIDE DEF new
<1>2. ASSUME NEW i \in K
      PROVE  new[i].on /\ new[i].w = new[i].size /\ new[i].pos = <<FromLeft(i, K, cfg), 0>>
  <2>1. PICK z, x : z = Wanted(i, cfg) /\ x = FromLeft(i, K, cfg)
    OBVIOUS
  <2>2. new[i] = [on |-> TRUE, pos |-> <<x, 0>>, size |-> z, w |-> z]
    BY <1>1, <2>1
  <2> QED
    BY <2>1, <2>2
<1>3. ASSUME Cardinality(K) > 1, cfg = Nothing PROVE RealMode(K, new) = "extend"
  <2>1. PICK p \in Monitor, q \in Monitor : p # q /\ K = {p, q}
    BY <1>3, TwoMonitors
  <2> DEFINE T(i) == {j \in K \ DOMAIN cfg : Before(j, i) /\ j # i}
  <2>2. DOMAIN cfg = {}
    BY <1>3 DEF Nothing
  <2>3. \A i \in K : FromLeft(i, K, cfg) = Least(Widths(T(i)), 32767)
    BY <2>2 DEF FromLeft, Widths, FoldSet, MapThenFoldSet
  <2>4. ASSUME NEW i \in K, NEW j \in K, K = {i, j}, i # j, Before(i, j), ~Before(j, i)
        PROVE  FromLeft(i, K, cfg) = 0 /\ FromLeft(j, K, cfg) = Best(i) /\ Best(i) # 0
    <3>1. T(i) = {} /\ T(j) = {i}
      BY <2>2, <2>4
    <3>2. FromLeft(i, K, cfg) = Least(Widths({}), 32767) /\ FromLeft(j, K, cfg) = Least(Widths({i}), 32767)
      BY <2>3, <3>1
    <3>3. i \in Monitor
      OBVIOUS
    <3>4. Best(i) # 0
      BY <3>3, BestSize
    <3>5. Widths({}) = 0 /\ Widths({i}) = Best(i)
      BY <3>3, WidthOfOne
    <3>6. Best(i) \in Nat /\ Best(i) <= 32767
      BY <3>3, BestSize, SizeInReach, InInt16 DEF TwoEven, Near
    <3> QED
      BY <3>2, <3>4, <3>5, <3>6 DEF Least
  <2>5. p \in Nat /\ q \in Nat
    BY ConstantsAssumption DEF ConstantsAssumption
  <2>6. (Before(p, q) /\ ~Before(q, p)) \/ (Before(q, p) /\ ~Before(p, q))
    BY <2>1, <2>5 DEF Before
  <2>7. FromLeft(p, K, cfg) # FromLeft(q, K, cfg)
    <3>1. CASE Before(p, q) /\ ~Before(q, p)
      <4>1. p \in K /\ q \in K
        BY <2>1
      <4>2. FromLeft(p, K, cfg) = 0 /\ FromLeft(q, K, cfg) = Best(p) /\ Best(p) # 0
        BY <2>1, <2>4, <3>1, <4>1
      <4> QED
        BY <4>2
    <3>2. CASE Before(q, p) /\ ~Before(p, q)
      <4>1. p \in K /\ q \in K /\ K = {q, p}
        BY <2>1
      <4>2. FromLeft(q, K, cfg) = 0 /\ FromLeft(p, K, cfg) = Best(q) /\ Best(q) # 0
        BY <2>1, <2>4, <3>2, <4>1
      <4> QED
        BY <4>2
    <3> QED
      BY <2>6, <3>1, <3>2
  <2>8. new[p].pos # new[q].pos /\ new[p].on /\ new[q].on
    <3>1. PICK x, y : x = FromLeft(p, K, cfg) /\ y = FromLeft(q, K, cfg)
      OBVIOUS
    <3>2. p \in K /\ q \in K
      BY <2>1
    <3>3. new[p].pos = <<x, 0>> /\ new[q].pos = <<y, 0>> /\ new[p].on /\ new[q].on
      BY <1>2, <3>1, <3>2
    <3> QED
      BY <2>7, <3>1, <3>3
  <2>9. RealMode({p, q}, new) = "extend"
    BY <2>1, <2>8, RealOfTwo
  <2> QED
    BY <2>1, <2>9
<1> QED
  BY <1>2, <1>3 DEF new, Wide

LEMMA AloneShows ==
    ASSUME NEW K \in SUBSET Monitor, NEW mm \in Settings(K), NEW cfg, NEW i \in K
    PROVE  LET new == Alone(i, K, mm, cfg)
           IN  Wide(K, new) /\ RealMode(K, new) = "only"
<1> DEFINE new == Alone(i, K, mm, cfg)
<1>1. new[i] = [on |-> TRUE, pos |-> <<0, 0>>, size |-> Wanted(i, cfg), w |-> Wanted(i, cfg)]
  BY DEF Alone
<1>2. ASSUME NEW j \in K, j # i PROVE ~new[j].on
  <2>1. new[j] = [mm[j] EXCEPT !.on = FALSE]
    BY <1>2 DEF Alone
  <2>2. PICK v \in Setting : v = mm[j]
    BY SettingsAt
  <2>3. new[j] = [v EXCEPT !.on = FALSE]
    BY <2>1, <2>2
  <2> QED
    BY <2>3 DEF Setting
<1> HIDE DEF new
<1>3. new[i].on /\ new[i].w = new[i].size
  BY <1>1
<1>4. {j \in K : new[j].on} = {i}
  BY <1>2, <1>3
<1>5. Cardinality({i}) = 1
  BY FS_Singleton
<1>6. RealMode(K, new) = "only"
  BY <1>4, <1>5 DEF RealMode
<1>7. Wide(K, new)
  BY <1>2, <1>3 DEF Wide
<1> QED
  BY <1>6, <1>7 DEF new

LEMMA ConfiguredShows ==
    ASSUME NEW K \in SUBSET Monitor, NEW mm \in Settings(K), NEW cfg \in Configs
    PROVE  Wide(K, Configured(K, mm, cfg))
<1> DEFINE new == Configured(K, mm, cfg)
<1>1. ASSUME NEW i \in K, new[i].on PROVE new[i].w = new[i].size
  <2>1. CASE i \in DOMAIN cfg
    <3>1. PICK z : z = Select(i, cfg[i].size)
      OBVIOUS
    <3>2. new[i] = [on |-> cfg[i].on, pos |-> cfg[i].pos, size |-> z, w |-> z]
      BY <2>1, <3>1 DEF Configured
    <3> QED
      BY <3>2
  <2>2. CASE i \notin DOMAIN cfg
    <3>1. new[i] = [mm[i] EXCEPT !.on = FALSE]
      BY <2>2 DEF Configured
    <3>2. PICK v \in Setting : v = mm[i]
      BY SettingsAt
    <3>3. new[i] = [v EXCEPT !.on = FALSE]
      BY <3>1, <3>2
    <3>4. ~new[i].on
      BY <3>3 DEF Setting
    <3> QED
      BY <1>1, <3>4
  <2> QED
    BY <2>1, <2>2
<1> QED
  BY <1>1 DEF Wide

\* Beside each other, two rectangles that are not empty have distinct places.
LEMMA BesideApart ==
    ASSUME NEW a, NEW b, a.x \in Int, a.y \in Int, a.w \in Nat \ {0}, a.h \in Nat \ {0},
           b.x = a.x, b.y = a.y, b.w \in Nat \ {0}, b.h \in Nat \ {0}
    PROVE  ~Beside(a, b)
<1>1. PICK x \in Int, y \in Int, w \in Nat \ {0}, h \in Nat \ {0}, z \in Nat \ {0}, l \in Nat \ {0} :
          a.x = x /\ a.y = y /\ a.w = w /\ a.h = h /\ b.w = z /\ b.h = l
  OBVIOUS
<1>2. ~(x + w <= x) /\ ~(x + z <= x) /\ ~(y + h <= y) /\ ~(y + l <= y)
  OBVIOUS
<1> QED
  BY <1>1, <1>2 DEF Beside

\* Two monitors that a custom mode extends the desktop with stay apart, and as
\* wide as they are.
LEMMA AdjustedApart ==
    ASSUME TwoEven, NEW mm \in Settings(Monitor), NEW way \in Position, primary \in Monitor,
           NEW new \in Adjusted(Monitor, mm, way), RealMode(Monitor, mm) = "extend", mode = "custom",
           NEW q \in Monitor, q # primary, Monitor = {primary, q}, mm[primary].on, mm[q].on
    PROVE  /\ new[primary].pos # new[q].pos
           /\ new[primary].w = new[primary].size /\ new[q].w = new[q].size
<1> DEFINE of(s) == Square(s.pos, s.size)
<1>1. PICK b : /\ b = BestMove(of(mm[primary]), of(mm[q]), way)
               /\ \A i \in Monitor : LET r == IF i = primary THEN b[1] ELSE b[2]
                                     IN  new[i] = [mm[i] EXCEPT !.pos = <<r.x, r.y>>, !.w = r.w]
  <2> DEFINE p == IF primary \in Monitor THEN of(mm[primary]) ELSE rect
             move(b) == [i \in Monitor |->
                 IF i \notin Monitor THEN mm[i]
                 ELSE LET r == IF i = primary THEN b[1] ELSE b[2]
                      IN  [mm[i] EXCEPT !.pos = <<r.x, r.y>>, !.w = r.w]]
  <2>1. PICK j \in Monitor \ {primary} : new = move(BestMove(p, of(mm[j]), way))
    BY DEF Adjusted
  <2>2. j = q /\ p = of(mm[primary])
    OBVIOUS
  <2>3. PICK b : b = BestMove(of(mm[primary]), of(mm[q]), way)
    OBVIOUS
  <2>4. new = move(b)
    BY <2>1, <2>2, <2>3
  <2> QED
    BY <2>3, <2>4
<1>2. ASSUME NEW i \in Monitor PROVE of(mm[i]) \in Rectangle /\ mm[i].size \in Nat \ {0}
  <2>1. mm[i].pos \in Place /\ mm[i].size \in Sizes /\ mm[i].size \in Nat \ {0}
    BY SettingsAt, SizeType
  <2> QED
    BY <2>1, EvenBox
<1>3. /\ NoWrap(of(mm[q]).x, of(mm[q]).w, of(mm[primary]).w)
      /\ NoWrap(of(mm[q]).y, of(mm[q]).h, of(mm[primary]).h)
  BY SettingsAt, SquaresInReach
<1>4. PICK u \in Rectangle, v \in Rectangle : u = of(mm[primary]) /\ v = of(mm[q])
  BY <1>2
<1>5. /\ u.w = mm[primary].size /\ u.h = mm[primary].size /\ v.w = mm[q].size /\ v.h = mm[q].size
  BY <1>4 DEF Square
<1>6. b = BestMove(u, v, way)
  BY <1>1, <1>4
<1> HIDE DEF of
<1>7. Beside(b[1], b[2]) /\ b[1].w = u.w /\ b[1].h = u.h /\ b[2].w = v.w /\ b[2].h = v.h
  <2>1. LET c == BestMove(u, v, way)
        IN  /\ Beside(c[1], c[2])
            /\ Least(c[1].x, c[2].x) = 0 /\ Least(c[1].y, c[2].y) = 0
            /\ c[1].w = u.w /\ c[1].h = u.h /\ c[2].w = v.w /\ c[2].h = v.h
    BY <1>4, <1>3, BestMoveJoins DEF of
  <2> QED
    BY <1>6, <2>1
<1>8. b[1].x \in Int /\ b[1].y \in Int
  <2>1. of(mm[primary]) \in Box(Coord, Side) /\ of(mm[q]) \in Box(Coord, Sizes)
    <3>1. \A i \in {primary, q} : mm[i].pos \in Place /\ mm[i].size \in Sizes /\ mm[i].size \in Side
      BY SettingsAt DEF Side
    <3> QED
      BY <3>1, SquareBox DEF of
  <2>2. b[1].x \in Coord /\ b[1].y \in Coord
    BY <1>1, <2>1, BestMoveType
  <2> QED
    BY <2>2, CoordType
<1>9. <<b[1].x, b[1].y>> # <<b[2].x, b[2].y>>
  <2>1. SUFFICES ASSUME b[2].x = b[1].x, b[2].y = b[1].y PROVE FALSE
    OBVIOUS
  <2>2. b[1].x \in Int /\ b[1].y \in Int
    BY <1>8
  <2>3. b[1].w \in Nat \ {0} /\ b[1].h \in Nat \ {0} /\ b[2].w \in Nat \ {0} /\ b[2].h \in Nat \ {0}
    BY <1>2, <1>5, <1>7
  <2>4. ~Beside(b[1], b[2])
    BY <2>1, <2>2, <2>3, BesideApart
  <2> QED
    BY <1>7, <2>4
<1>10. ASSUME NEW i \in Monitor, NEW r, new[i] = [mm[i] EXCEPT !.pos = <<r.x, r.y>>, !.w = r.w]
      PROVE  new[i].pos = <<r.x, r.y>> /\ new[i].w = r.w /\ new[i].size = mm[i].size
  <2>1. PICK w \in Setting : w = mm[i]
    BY SettingsAt
  <2>2. PICK x : x = <<r.x, r.y>>
    OBVIOUS
  <2>3. PICK z : z = r.w
    OBVIOUS
  <2>4. new[i] = [w EXCEPT !.pos = x, !.w = z]
    BY <1>10, <2>1, <2>2, <2>3
  <2>5. new[i].pos = x /\ new[i].w = z /\ new[i].size = w.size
    BY <2>4 DEF Setting
  <2> QED
    BY <2>1, <2>2, <2>3, <2>5
<1>11. /\ new[primary] = [mm[primary] EXCEPT !.pos = <<b[1].x, b[1].y>>, !.w = b[1].w]
       /\ new[q] = [mm[q] EXCEPT !.pos = <<b[2].x, b[2].y>>, !.w = b[2].w]
  BY <1>1
<1>12. /\ new[primary].pos = <<b[1].x, b[1].y>> /\ new[primary].w = b[1].w /\ new[primary].size = mm[primary].size
       /\ new[q].pos = <<b[2].x, b[2].y>> /\ new[q].w = b[2].w /\ new[q].size = mm[q].size
  BY <1>10, <1>11
<1> QED
  BY <1>5, <1>7, <1>9, <1>12

\* The correction of a layout keeps what it shows, when there is a primary
\* monitor.
LEMMA AdjustedShows ==
    ASSUME TwoEven, NEW K \in SUBSET Monitor, NEW mm \in Settings(K), NEW way \in Position,
           rect \in Box(Coord, Side), NEW new \in Adjusted(K, mm, way), Wide(K, mm),
           mode = "custom" => primary \in K
    PROVE  /\ Corrects(new, mm, K) /\ Wide(K, new)
           /\ RealMode(K, new) = RealMode(K, mm)
<1>1. Corrects(new, mm, K)
  BY AdjustedType
<1>2. CASE new = mm
  BY <1>1, <1>2
<1>3. CASE new # mm
  <2>1. mode = "custom" /\ RealMode(K, mm) = "extend" /\ primary \in K
    BY <1>3 DEF Adjusted
  <2> DEFINE on == {i \in K : mm[i].on}
  <2>2. on # {} /\ Cardinality(on) # 1 /\ on \in SUBSET Monitor
    BY <2>1 DEF RealMode
  <2>3. IsFiniteSet(on)
    BY <2>2, ConstantsAssumption, FS_Subset DEF ConstantsAssumption
  <2>4. Cardinality(on) > 1
    BY <2>2, <2>3, FS_CardinalityType, FS_EmptySet
  <2>5. on = Monitor /\ \E p \in Monitor, q \in Monitor : p # q /\ Monitor = {p, q}
    BY <2>2, <2>4, TwoMonitors
  <2>6. K = Monitor /\ \A i \in Monitor : mm[i].on
    BY <2>5
  <2>7. PICK q \in Monitor : q # primary /\ Monitor = {primary, q}
    BY <2>1, <2>5
  <2> HIDE DEF on
  <2>8. /\ new[primary].pos # new[q].pos
        /\ new[primary].w = new[primary].size /\ new[q].w = new[q].size
    BY <2>1, <2>6, <2>7, AdjustedApart
  <2>9. new[primary].on /\ new[q].on
    BY <1>1, <2>1, <2>6, <2>7 DEF Corrects
  <2>10. RealMode({primary, q}, new) = "extend"
    <3>1. RealMode({primary, q}, new) = IF new[primary].pos = new[q].pos THEN "mirror" ELSE "extend"
      BY <2>7, <2>9, RealOfTwo
    <3> QED
      BY <2>8, <3>1
  <2>11. RealMode(K, new) = "extend"
    BY <2>6, <2>7, <2>10
  <2>12. Wide(K, new)
    BY <2>6, <2>7, <2>8 DEF Wide
  <2> QED
    BY <1>1, <2>1, <2>11, <2>12
<1> QED
  BY <1>2, <1>3

-----------------------------------------------------------------------------
(* What an operation that sets the whole layout comes to.                  *)

\* Task u sets the layout of the monitors K; the mode stays for now.
Sets(u, K) ==
    /\ u.scr = K /\ K # {}
    /\ u.by # "switch" => u.mode = mode /\ (mode = "custom" => u.name = customId)
    /\ mode = "custom" => primary \in K
    /\ UNCHANGED <<mode, customId>>

\* It gets commands, stores what is there as a custom mode, or does nothing.
Outcome(a, u, K, mm) ==
    \/ /\ pc'[a] \in {"set", "unset"} /\ Rules(a)' /\ InOrder(a, K)'
       /\ pc'[a] = "unset" => task'[a].off = K
    \/ /\ pc'[a] = "save" /\ task'[a].op = "stored" /\ Notes(task'[a], u)
       /\ u.mode = "custom" /\ Shows(K, "custom", u.name, mem)'
       /\ mem' = mm
    \/ pc'[a] = "idle" /\ mem' = mm /\ config' = config

LEMMA StartOrders ==
    ASSUME TwoEven, Typed, NEW a \in Actor, NEW u, NEW t, Notes(t, u), NEW K \in SUBSET Monitor,
           NEW mm \in Settings(K), NEW mo, Start(a, t, K, mm), Sets(u, K), Wide(K, mm),
           t.op \in {"configs", "extend", "mirror", "only"},
           Cardinality(K) > 1 => Prepared(t, K, mm)
    PROVE  Outcome(a, u, K, mo)
<1>1. PICK new \in Adjusted(K, mm, how) :
          LET on == {i \in K : new[i].on}
          IN  /\ mem' = new
              /\ task' = [task EXCEPT ![a] = [t EXCEPT
                              !.cmd = [i \in on |-> [on |-> TRUE, pos |-> new[i].pos, size |-> new[i].size]],
                              !.off = K \ on]]
              /\ pc' = [pc EXCEPT ![a] = IF on # {} THEN "set" ELSE IF K # {} THEN "unset" ELSE "end"]
              /\ UNCHANGED <<ids, config>>
  BY DEF Start
<1> DEFINE on == {i \in K : new[i].on}
           cmd == [i \in on |-> [on |-> TRUE, pos |-> new[i].pos, size |-> new[i].size]]
<1>2. Corrects(new, mm, K) /\ Wide(K, new) /\ RealMode(K, new) = RealMode(K, mm)
  <2>1. how \in Position /\ rect \in Box(Coord, Side) /\ (mode = "custom" => primary \in K)
    BY DEF Typed, EditType, ShownType, Sets
  <2> QED
    BY <1>1, <2>1, AdjustedShows
<1>3. DOMAIN pc = Actor /\ DOMAIN task = Actor
  BY DEF Typed, WorkType
<1>4. pc'[a] = IF on # {} THEN "set" ELSE "unset"
  BY <1>1, <1>3 DEF Sets
<1>5. task'[a] = [t EXCEPT !.cmd = cmd, !.off = K \ on]
  BY <1>1, <1>3
<1>6. mem' = new /\ config' = config /\ mode' = mode /\ customId' = customId
  BY <1>1 DEF Sets
<1>7. DOMAIN cmd = on /\ \A i \in on : cmd[i] = [on |-> TRUE, pos |-> new[i].pos, size |-> new[i].size]
  OBVIOUS
<1>8. /\ on \in SUBSET K /\ \A i \in on : new[i].on /\ new[i].w = new[i].size
      /\ \A i \in K \ on : ~new[i].on
  BY <1>2 DEF Wide
<1> HIDE DEF on, cmd
<1>9. /\ task'[a].cmd = cmd /\ task'[a].off = K \ on /\ task'[a].op = t.op /\ task'[a].save = t.save
      /\ task'[a].by = u.by /\ task'[a].scr = u.scr /\ task'[a].mode = u.mode /\ task'[a].name = u.name
      /\ t.mode = u.mode /\ t.name = u.name
  BY <1>5 DEF Task, Notes
<1>10. ASSUME Cardinality(K) > 1 PROVE Prepared(task[a], K, mem)'
  <2>1. Prepared(t, K, mm)
    BY <1>10
  <2>2. \A i \in K : mm[i].on = new[i].on
    BY <1>2 DEF Corrects
  <2>3. CASE t.save /\ t.op \in {"mirror", "extend"}
    <3>1. t.mode = "custom" /\ t.name # "" /\ \A i \in K : new[i].on
      BY <2>1, <2>2, <2>3 DEF Prepared
    <3> QED
      BY <1>6, <1>9, <2>3, <3>1 DEF Prepared
  <2>4. CASE ~(t.save /\ t.op \in {"mirror", "extend"})
    <3>1. Shows(K, t.mode, t.name, mm)
      BY <2>1, <2>4 DEF Prepared
    <3>2. Shows(K, t.mode, t.name, new)
      BY <1>2, <2>2, <3>1, ShowsSame
    <3>3. Shows(K, t.mode, t.name, mem)'
      BY <1>6, <3>2 DEF Shows
    <3>4. task'[a].mode = t.mode /\ task'[a].name = t.name
      BY <1>9
    <3> QED
      BY <1>9, <2>4, <3>3, <3>4 DEF Prepared
  <2> QED
    BY <2>3, <2>4
<1>11. InOrder(a, K)'
  <2>1. /\ task'[a].scr = K
        /\ task'[a].by # "switch" => task'[a].mode = mode' /\ (mode' = "custom" => task'[a].name = customId')
    BY <1>6, <1>9 DEF Sets
  <2>2. /\ on \subseteq K /\ K \subseteq on \cup (K \ on)
        /\ \A i \in on : mem'[i].on /\ mem'[i].w = mem'[i].size
                         /\ cmd[i] = [on |-> TRUE, pos |-> mem'[i].pos, size |-> mem'[i].size]
        /\ K \ on \subseteq K /\ \A i \in K \ on : ~mem'[i].on
    BY <1>6, <1>7, <1>8
  <2>3. PICK c : c = task'[a].cmd
    OBVIOUS
  <2>4. c = cmd /\ DOMAIN c = on
    BY <1>7, <1>9, <2>3
  <2> QED
    BY <1>4, <1>9, <1>10, <2>1, <2>2, <2>3, <2>4 DEF InOrder
<1>12. Rules(a)'
  BY <1>4, <1>9 DEF Rules
<1>13. pc'[a] = "unset" => task'[a].off = K
  BY <1>4, <1>9
<1> QED
  BY <1>4, <1>11, <1>12, <1>13 DEF Outcome

LEMMA ReturnOrders ==
    ASSUME Typed, NEW a \in Actor, NEW u, NEW t, NEW K, NEW mm, Return(a, t, K, mm)
    PROVE  Outcome(a, u, K, mm)
BY DEF Return, Outcome, Typed, WorkType

LEMMA ApplyConfigsOrders ==
    ASSUME TwoEven, Typed, NEW a \in Actor, NEW u, NEW t, Notes(t, u), NEW K \in SUBSET Monitor,
           NEW mm \in Settings(K), NEW mo, NEW cfg \in Configs, ApplyConfigs(a, t, K, mm, cfg), Sets(u, K),
           Cardinality(K) > 1 => u.mode = "custom" /\ cfg = Stored(config[K], "custom", u.name) /\ cfg # Nothing
    PROVE  Outcome(a, u, K, mo)
<1>1. PICK i \in OneOf({j \in Named(K, cfg) : cfg[j].on}) :
          Start(a, [t EXCEPT !.op = "configs", !.main = i], K, Configured(K, mm, cfg))
  BY DEF ApplyConfigs
<1>2. i \in Monitor \cup {None}
  BY <1>1 DEF OneOf, Named
<1>3. PICK s : s = [t EXCEPT !.op = "configs", !.main = i]
  OBVIOUS
<1>4. Notes(s, t) /\ s.op = "configs"
  <2>1. t \in Task /\ "configs" \in Op
    BY DEF Notes, Op
  <2>2. Notes(s, t)
    BY <1>2, <1>3, <2>1, NotedOpMain
  <2> QED
    BY <1>3, <2>1, <2>2 DEF Task
<1>5. PICK new : new = Configured(K, mm, cfg)
  OBVIOUS
<1>6. new \in Settings(K) /\ \A i_1 \in K \cap DOMAIN cfg : new[i_1].on = cfg[i_1].on
  BY <1>5, ConfiguredType
<1>7. Wide(K, new)
  BY <1>5, ConfiguredShows
<1>8. Start(a, s, K, new)
  BY <1>1, <1>3, <1>5
<1>9. Notes(s, u)
  BY <1>4, NotedTrans
<1>10. ASSUME Cardinality(K) > 1 PROVE Prepared(s, K, new)
  <2>1. s.mode = "custom" /\ s.name = u.name
    BY <1>9, <1>10 DEF Notes
  <2>2. Shows(K, "custom", u.name, new)
    BY <1>6, <1>10 DEF Shows
  <2> QED
    BY <1>4, <2>1, <2>2 DEF Prepared
<1> QED
  BY <1>4, <1>6, <1>7, <1>8, <1>9, <1>10, StartOrders

LEMMA SwitchExtendOrders ==
    ASSUME TwoEven, Typed, NEW a \in Actor, NEW u, NEW t, Notes(t, u), NEW K \in SUBSET Monitor,
           NEW mm \in Settings(K), NEW mo, SwitchExtend(a, t, K, mm), Sets(u, K),
           IF t.save THEN u.mode = "custom" /\ u.name # "" ELSE u.mode = "extend"
    PROVE  Outcome(a, u, K, mo)
<1> DEFINE cfg == config[K].extend
           new == Extended(K, mm, cfg)
<1>1. PICK i \in Monitor \cup {None} : Start(a, [t EXCEPT !.op = "extend", !.main = i], K, new)
  <2> DEFINE first == {i \in Named(K, cfg) : \A j \in Named(K, cfg) : i = j \/ Before(i, j)}
             i0 == IF t.save /\ primary \in K THEN primary
                   ELSE IF first = {} THEN MinID(K) ELSE CHOOSE i \in first : TRUE
  <2>1. Start(a, [t EXCEPT !.op = "extend", !.main = i0], K, new)
    BY DEF SwitchExtend
  <2>2. first \subseteq K
    BY DEF Named
  <2> HIDE DEF first
  <2>3. first # {} => (CHOOSE i \in first : TRUE) \in K
    BY <2>2
  <2>4. MinID(K) \in K \cup {None}
    BY MinMember
  <2>5. i0 \in Monitor \cup {None}
    BY <2>3, <2>4
  <2> HIDE DEF i0
  <2> QED
    BY <2>1, <2>5
<1>2. cfg \in Configs
  <2>1. config[K] \in ScreenConfig
    BY DEF Typed, WorkType
  <2> QED
    BY <2>1, ScreenAt
<1>3. new \in Settings(K)
  BY <1>2, ExtendedType
<1>4. /\ \A j \in K : new[j].on
      /\ Wide(K, new)
      /\ Cardinality(K) > 1 /\ cfg = Nothing => RealMode(K, new) = "extend"
  BY ExtendedShows
<1>5. cfg = Stored(config[K], "extend", u.name)
  BY DEF Stored
<1> HIDE DEF cfg, new
<1>6. PICK s : s = [t EXCEPT !.op = "extend", !.main = i]
  OBVIOUS
<1>7. Notes(s, t) /\ s.op = "extend" /\ s.save = t.save
  <2>1. t \in Task /\ "extend" \in Op
    BY DEF Notes, Op
  <2>2. Notes(s, t)
    BY <1>6, <2>1, NotedOpMain
  <2> QED
    BY <1>6, <2>1, <2>2 DEF Task
<1>8. Notes(s, u)
  BY <1>7, NotedTrans
<1>9. Start(a, s, K, new)
  BY <1>1, <1>6
<1>10. ASSUME Cardinality(K) > 1 PROVE Prepared(s, K, new)
  <2>1. s.mode = u.mode /\ s.name = u.name
    BY <1>8 DEF Notes
  <2>2. Shows(K, "extend", u.name, new)
    BY <1>4, <1>5, <1>10 DEF Shows
  <2> QED
    BY <1>4, <1>7, <2>1, <2>2 DEF Prepared
<1> QED
  BY <1>3, <1>4, <1>7, <1>8, <1>9, <1>10, StartOrders

LEMMA SwitchMirrorOrders ==
    ASSUME TwoEven, Typed, NEW a \in Actor, NEW u, NEW t, Notes(t, u), NEW K \in SUBSET Monitor,
           NEW mm \in Settings(K), SwitchMirror(a, t, K, mm), Sets(u, K),
           IF t.op = "custom" THEN t.save = TRUE /\ u.mode = "custom" /\ u.name # ""
           ELSE t.save = FALSE /\ u.mode = "mirror"
    PROVE  Outcome(a, u, K, mm)
<1>1. t \in Task /\ "mirror" \in Op /\ TRUE \in BOOLEAN
  BY DEF Notes, Op
<1>2. CASE Common(K) # {}
  <2>1. PICK s : s = [t EXCEPT !.op = "mirror"]
    OBVIOUS
  <2>2. Notes(s, t) /\ s.op = "mirror"
    BY <1>1, <2>1, NotedOp
  <2>3. s.save = t.save
    BY <1>1, <2>1 DEF Task
  <2>4. PICK new : new = Mirrored(K, mm)
    OBVIOUS
  <2>5. new \in Settings(K)
    BY <1>2, <2>4, MirroredType
  <2>6. /\ \A i \in K : new[i].on
        /\ Wide(K, new)
        /\ Cardinality(K) > 1 => RealMode(K, new) = "mirror"
    BY <2>4, MirroredShows
  <2>7. Start(a, s, K, new)
    BY <1>2, <2>1, <2>4 DEF SwitchMirror
  <2>8. Notes(s, u)
    BY <2>2, NotedTrans
  <2>9. ASSUME Cardinality(K) > 1 PROVE Prepared(s, K, new)
    <3>1. s.mode = u.mode /\ s.name = u.name
      BY <2>8 DEF Notes
    <3>2. Shows(K, "mirror", u.name, new)
      BY <2>6, <2>9 DEF Shows
    <3> QED
      BY <2>2, <2>3, <2>6, <3>1, <3>2 DEF Prepared
  <2> QED
    BY <2>2, <2>5, <2>6, <2>7, <2>8, <2>9, StartOrders
<1>3. CASE Common(K) = {} /\ t.op = "custom"
  <2>1. PICK s : s = [t EXCEPT !.save = TRUE]
    OBVIOUS
  <2>2. Notes(s, t)
    BY <1>1, <2>1, NotedSave
  <2>3. s.save = TRUE
    BY <1>1, <2>1 DEF Task
  <2>4. SwitchExtend(a, s, K, mm)
    BY <1>3, <2>1 DEF SwitchMirror
  <2>5. Notes(s, u)
    BY <2>2, NotedTrans
  <2> QED
    BY <1>3, <2>3, <2>4, <2>5, SwitchExtendOrders
<1>4. CASE Common(K) = {} /\ t.op # "custom"
  <2>1. Return(a, t, K, mm)
    BY <1>4 DEF SwitchMirror
  <2> QED
    BY <2>1, ReturnOrders
<1> QED
  BY <1>2, <1>3, <1>4

LEMMA SwitchOnlyOrders ==
    ASSUME TwoEven, Typed, NEW a \in Actor, NEW u, NEW t, Notes(t, u), NEW K \in SUBSET Monitor,
           NEW mm \in Settings(K), NEW i, SwitchOnly(a, t, i, K, mm), Sets(u, K), u.mode = "only"
    PROVE  Outcome(a, u, K, mm)
<1> DEFINE cfg == config[K].only
           kept == {j \in DOMAIN cfg : cfg[j].on}
           s(j, new) == [t EXCEPT !.op = "only", !.main = j, !.save = new]
           only(j, new) == Start(a, s(j, new), K, Alone(j, K, mm, cfg))
<1>1. ASSUME NEW j \in K, NEW save \in BOOLEAN, only(j, save) PROVE Outcome(a, u, K, mm)
  <2>1. PICK v : v = s(j, save)
    OBVIOUS
  <2>2. Notes(v, t) /\ v.op = "only"
    <3>1. t \in Task /\ j \in Monitor \cup {None} /\ "only" \in Op
      BY DEF Notes, Op
    <3> QED
      BY <2>1, <3>1 DEF Task, Notes
  <2>3. PICK new : new = Alone(j, K, mm, cfg)
    OBVIOUS
  <2> HIDE DEF cfg
  <2>4. new \in Settings(K)
    BY <2>3, AloneType
  <2>5. Wide(K, new) /\ RealMode(K, new) = "only"
    BY <2>3, AloneShows
  <2>6. Start(a, v, K, new)
    BY <1>1, <2>1, <2>3
  <2>7. Notes(v, u)
    BY <2>2, NotedTrans
  <2>8. Prepared(v, K, new)
    <3>1. v.mode = "only" /\ v.name = u.name
      BY <2>7 DEF Notes
    <3>2. Shows(K, "only", u.name, new)
      BY <2>5 DEF Shows
    <3> QED
      BY <2>2, <3>1, <3>2 DEF Prepared
  <2> QED
    BY <2>2, <2>4, <2>5, <2>6, <2>7, <2>8, StartOrders
<1>2. CASE i # None /\ i \notin K
  <2>1. Return(a, t, K, mm)
    BY <1>2 DEF SwitchOnly
  <2> QED
    BY <2>1, ReturnOrders
<1>3. MinID(K) \in K
  BY MinMember, ConstantsAssumption DEF ConstantsAssumption, Sets
<1>4. (i # None /\ i \in K) \/ i = None => \E j \in K, save \in BOOLEAN : only(j, save)
  <2>1. CASE i # None /\ i \in K
    <3>1. only(i, TRUE)
      BY <2>1 DEF SwitchOnly
    <3> QED
      BY <2>1, <3>1
  <2>2. CASE i = None /\ kept # {}
    <3>1. PICK j \in kept : IF j \in K THEN only(j, FALSE) ELSE only(MinID(K), TRUE)
      BY <2>2 DEF SwitchOnly
    <3> HIDE DEF only, kept
    <3> QED
      BY <1>3, <3>1
  <2>3. CASE i = None /\ kept = {}
    <3>1. only(MinID(K), TRUE)
      BY <2>3 DEF SwitchOnly
    <3> HIDE DEF only
    <3> QED
      BY <1>3, <3>1
  <2> HIDE DEF only, kept
  <2> QED
    BY <2>1, <2>2, <2>3
<1> HIDE DEF only
<1> QED
  BY <1>1, <1>2, <1>4

LEMMA SaveCustomOrders ==
    ASSUME Typed, NEW a \in Actor, NEW u, NEW t, Notes(t, u), NEW K \in SUBSET Monitor,
           NEW mm \in Settings(K), SaveCustom(a, t, K, mm), Sets(u, K), u.mode = "custom"
    PROVE  Outcome(a, u, K, mm)
<1>1. t \in Task /\ "stored" \in Op /\ t.scr = K /\ t.name = u.name
  BY DEF Notes, Op, Sets
<1>2. PICK s : s = [t EXCEPT !.op = "stored"]
  OBVIOUS
<1>3. Notes(s, u) /\ s.op = "stored"
  BY <1>1, <1>2, NotedOp, NotedTrans
<1> DEFINE new == ToConfigs(K, mm, primary)
           sc == Store(config[K], "custom", u.name, new)
<1>4. /\ mem' = mm
      /\ config' = [config EXCEPT ![K] = sc]
      /\ pc' = [pc EXCEPT ![a] = "save"]
      /\ task' = [task EXCEPT ![a] = [s EXCEPT !.cmd = Nothing, !.off = {}]]
  BY <1>1, <1>2 DEF SaveCustom, Save, Typed, WorkType
<1>5. pc'[a] = "save" /\ task'[a] = [s EXCEPT !.cmd = Nothing, !.off = {}]
  BY <1>4 DEF Typed, WorkType
<1>6. task'[a].op = "stored" /\ Notes(task'[a], u)
  <2>1. s \in Task
    BY <1>3 DEF Notes
  <2>2. Notes(task'[a], s)
    BY <1>5, <2>1, NotedEnd
  <2>3. task'[a].op = s.op
    BY <1>5, <2>1 DEF Task
  <2> QED
    BY <1>3, <2>2, <2>3, NotedTrans
<1>7. config'[K] = sc
  <2>1. config \in [SUBSET Monitor -> ScreenConfig]
    BY DEF Typed, WorkType
  <2> HIDE DEF sc
  <2> QED
    BY <1>4, <2>1
<1>8. Stored(sc, "custom", u.name) = new
  <2>1. PICK c \in ScreenConfig : c = config[K]
    BY DEF Typed, WorkType
  <2>2. sc = [c EXCEPT !.custom = Merge(@, [x \in {u.name} |-> new])]
    BY <2>1 DEF Store
  <2> HIDE DEF new
  <2>3. sc.custom = Merge(c.custom, [x \in {u.name} |-> new])
    BY <2>1, <2>2 DEF ScreenConfig
  <2>4. u.name \in DOMAIN sc.custom /\ sc.custom[u.name] = new
    BY <2>3 DEF Merge
  <2> QED
    BY <2>4 DEF Stored
<1>9. DOMAIN new = K /\ \A i \in K : new[i].on = mm[i].on
  BY DEF ToConfigs, ToConfig
<1> HIDE DEF new, sc
<1>10. new # Nothing
  BY <1>9 DEF Nothing, Sets
<1>11. Shows(K, "custom", u.name, mem)'
  BY <1>4, <1>7, <1>8, <1>9, <1>10 DEF Shows
<1> QED
  BY <1>4, <1>5, <1>6, <1>11 DEF Outcome

LEMMA SwitchCustomOrders ==
    ASSUME TwoEven, Typed, NEW a \in Actor, NEW u, NEW t, Notes(t, u), NEW K \in SUBSET Monitor,
           NEW mm \in Settings(K), SwitchCustom(a, t, K, mm), Sets(u, K), u.mode = "custom"
    PROVE  Outcome(a, u, K, mm)
<1> DEFINE cfg == Stored(config[K], "custom", t.name)
<1>1. cfg \in Configs
  <2>1. config[K] \in ScreenConfig /\ "custom" \in Mode
    BY DEF Typed, WorkType, Mode
  <2> QED
    BY <2>1, StoredType
<1>2. CASE t.name = ""
  <2>1. Return(a, t, K, mm)
    BY <1>2 DEF SwitchCustom
  <2> QED
    BY <2>1, ReturnOrders
<1>3. CASE t.name # "" /\ cfg # Nothing
  <2>1. ApplyConfigs(a, t, K, mm, cfg)
    BY <1>3 DEF SwitchCustom
  <2>2. cfg = Stored(config[K], "custom", u.name)
    BY DEF Notes
  <2> HIDE DEF cfg
  <2> QED
    BY <1>1, <1>3, <2>1, <2>2, ApplyConfigsOrders
<1>4. CASE t.name # "" /\ cfg = Nothing
  <2>1. CASE \A i \in K : mm[i].on
    <3>1. SaveCustom(a, t, K, mm)
      BY <1>4, <2>1 DEF SwitchCustom
    <3> QED
      BY <3>1, SaveCustomOrders
  <2>2. CASE ~\A i \in K : mm[i].on
    <3>1. PICK s : s = [t EXCEPT !.op = "custom", !.save = TRUE]
      OBVIOUS
    <3>2. SwitchMirror(a, s, K, mm)
      BY <1>4, <2>2, <3>1 DEF SwitchCustom
    <3>3. t \in Task /\ "custom" \in Op /\ TRUE \in BOOLEAN
      BY DEF Notes, Op
    <3>4. Notes(s, t)
      BY <3>1, <3>3, NotedOpSave
    <3>5. Notes(s, u)
      BY <3>4, NotedTrans
    <3>6. s.op = "custom" /\ s.save = TRUE /\ u.name # ""
      BY <1>4, <3>1, <3>3 DEF Task, Notes
    <3> QED
      BY <3>2, <3>5, <3>6, SwitchMirrorOrders
  <2> QED
    BY <2>1, <2>2
<1> QED
  BY <1>2, <1>3, <1>4

LEMMA SwitchOrders ==
    ASSUME TwoEven, Typed, NEW a \in Actor, NEW t \in Task, NEW K \in SUBSET Monitor,
           NEW mm \in Settings(K), NEW i, Switch(a, t, i, K, mm), Sets(t, K), t.op = "none", t.save = FALSE
    PROVE  Outcome(a, t, K, mm)
<1>1. Notes(t, t)
  BY DEF Notes
<1>2. t.mode \in Mode
  BY DEF Task
<1>3. CASE t.mode = "mirror"
  <2>1. SwitchMirror(a, t, K, mm)
    BY <1>3 DEF Switch
  <2>2. t.op # "custom"
    OBVIOUS
  <2> QED
    BY <1>1, <1>3, <2>1, <2>2, SwitchMirrorOrders
<1>4. CASE t.mode = "extend"
  <2>1. SwitchExtend(a, t, K, mm)
    BY <1>4 DEF Switch
  <2> QED
    BY <1>1, <1>4, <2>1, SwitchExtendOrders
<1>5. CASE t.mode = "only"
  <2>1. SwitchOnly(a, t, i, K, mm)
    BY <1>5 DEF Switch
  <2> QED
    BY <1>1, <1>5, <2>1, SwitchOnlyOrders
<1>6. CASE t.mode = "custom"
  <2>1. SwitchCustom(a, t, K, mm)
    BY <1>6 DEF Switch
  <2> QED
    BY <1>1, <1>6, <2>1, SwitchCustomOrders
<1> QED
  BY <1>2, <1>3, <1>4, <1>5, <1>6 DEF Mode

\* A task that nothing is noted of but what it is for.
Fresh(t, by, m, n, K) ==
    /\ t \in Task /\ t.by = by /\ t.mode = m /\ t.name = n /\ t.scr = K
    /\ t.op = "none" /\ t.save = FALSE

LEMMA ForFresh ==
    ASSUME NEW by \in {"none", "ids", "init", "switch", "call"}, NEW m \in Mode,
           NEW n \in Name \cup {""}, NEW K \in SUBSET Monitor
    PROVE  Fresh(For(by, m, n, K), by, m, n, K)
BY RestTask DEF For, Rest, Task, Fresh

LEMMA ApplyDisplayModeOrders ==
    ASSUME TwoEven, Typed, NEW a \in Actor, NEW by \in {"ids", "init"}, NEW K \in SUBSET Monitor,
           NEW mm \in Settings(K), ApplyDisplayMode(a, by, K, mm), UNCHANGED <<mode, customId>>,
           mode = "custom" => primary \in K
    PROVE  Outcome(a, For(by, mode, customId, K), K, mm)
<1>1. PICK t : t = For(by, mode, customId, K)
  OBVIOUS
<1>2. /\ t \in Task /\ t.scr = K /\ t.by = by /\ t.mode = mode /\ t.name = customId
      /\ t.op = "none" /\ t.save = FALSE
  <2>1. PICK m \in Mode, n \in Name \cup {""} : m = mode /\ n = customId
    BY DEF Typed, ShownType
  <2>2. by \in {"none", "ids", "init", "switch", "call"}
    OBVIOUS
  <2>3. t = For(by, m, n, K)
    BY <1>1, <2>1
  <2>4. Fresh(For(by, m, n, K), by, m, n, K)
    BY <2>2, ForFresh
  <2> QED
    BY <2>1, <2>3, <2>4 DEF Fresh
<1>3. Notes(t, t)
  BY <1>2 DEF Notes
<1>4. K # {} => Sets(t, K)
  BY <1>2 DEF Sets
<1>5. IsFiniteSet(K) /\ Cardinality(K) \in Nat /\ (Cardinality(K) = 0 <=> K = {})
  <2>1. IsFiniteSet(K)
    BY ConstantsAssumption, FS_Subset DEF ConstantsAssumption
  <2> QED
    BY <2>1, FS_CardinalityType, FS_EmptySet
<1>6. CASE K = {}
  <2>1. Cardinality(K) = 0 /\ ~(Cardinality(K) = 1) /\ ~(Cardinality(K) > 1)
    BY <1>5, <1>6
  <2>2. Return(a, t, K, mm)
    BY <1>1, <1>6, <2>1 DEF ApplyDisplayMode
  <2> QED
    BY <1>1, <2>2, ReturnOrders
<1>7. CASE K # {} /\ Cardinality(K) = 1
  <2> DEFINE best == [on |-> TRUE, pos |-> <<0, 0>>, size |-> Best(MinID(K)), primary |-> TRUE]
  <2>1. PICK c \in IF config[K].single = {} THEN {best} ELSE config[K].single :
             ApplyConfigs(a, t, K, mm, [j \in K |-> c])
    BY <1>1, <1>7 DEF ApplyDisplayMode
  <2>2. c \in Config
    <3>1. Best(MinID(K)) \in Nat
      BY <1>7, MinMember, BestSize
    <3>2. best \in Config
      BY <3>1, Origin DEF Config
    <3>3. config[K].single \in SUBSET Config
      <4>1. config[K] \in ScreenConfig
        BY DEF Typed, WorkType
      <4> QED
        BY <4>1, ScreenAt
    <3> HIDE DEF best
    <3> QED
      BY <2>1, <3>2, <3>3
  <2>3. PICK cfg : cfg = [j \in K |-> c]
    OBVIOUS
  <2>4. cfg \in Configs
    <3>1. cfg \in [K -> Config]
      BY <2>2, <2>3
    <3> QED
      BY <3>1, PartialIn DEF Configs
  <2>5. ApplyConfigs(a, t, K, mm, cfg)
    BY <2>1, <2>3
  <2>6. ~(Cardinality(K) > 1)
    BY <1>7
  <2> QED
    BY <1>1, <1>3, <1>4, <1>7, <2>4, <2>5, <2>6, ApplyConfigsOrders
<1>8. CASE K # {} /\ Cardinality(K) # 1
  <2>1. Cardinality(K) > 1
    BY <1>5, <1>8
  <2>2. Switch(a, t, None, K, mm)
    BY <1>1, <1>8, <2>1 DEF ApplyDisplayMode
  <2> QED
    BY <1>1, <1>2, <1>4, <1>8, <2>2, SwitchOrders
<1> QED
  BY <1>6, <1>7, <1>8

-----------------------------------------------------------------------------
(* The steps keep Ordered.  First an operation that sets the whole layout, *)
(* then one that does not.                                                 *)

LEMMA RulingOrdered ==
    ASSUME TwoEven, Typed, Ordered, NEW a \in Actor, pc[a] = "idle", NEW u, NEW K, NEW mm, NEW calm,
           known' = K, Done(a, u, K), u.scr = K, UNCHANGED <<mode, customId>>,
           calm => Calm(a) /\ signals' = <<>>,
           Ruling(a, K, calm),
           (mode = "custom" => primary \in K) => Outcome(a, u, K, mm),
           u.by # "switch" => u.mode = mode /\ (mode = "custom" => u.name = customId),
           unsent' \subseteq K, unsent' \ missed' \subseteq unsent \ missed,
           a \in Caller => mm = mem /\ UNCHANGED <<known, life, missed>>
    PROVE  Ordered'
<1> SUFFICES ASSUME free' = {}
             PROVE  Ruled' /\ Unapplied' /\ (missed' = {} => Foretold' /\ Obeying' /\ Settling')
  BY DEF Ordered
<1>1. calm /\ (mode = "custom" => primary \in K)
  BY DEF Ruling
<1>2. signals' = <<>> /\ Outcome(a, u, K, mm) /\ \A b \in Actor \ {a} : pc[b] = "idle"
  BY <1>1 DEF Calm
<1>3. \A b \in Actor \ {a} : pc'[b] = "idle" /\ pc'[b] = pc[b] /\ task'[b] = task[b]
  BY <1>2 DEF Done
<1>4. Calm(a)' /\ (\A n : n \notin DOMAIN signals') /\ (\A b \in Actor \ {a} : ~Rules(b)')
  BY <1>2, <1>3 DEF Calm, Rules
<1>5. Foretold'
  BY <1>4 DEF Foretold
<1>6. CASE pc'[a] \in {"set", "unset"}
  <2>1. Rules(a)' /\ InOrder(a, K)' /\ (pc'[a] = "unset" => task'[a].off = K)
    BY <1>2, <1>6 DEF Outcome
  <2>2. Ruled'
    BY <1>4, <2>1 DEF Ruled
  <2>3. Unapplied'
    BY <1>6, <2>1 DEF Unapplied
  <2>4. Obeying'
    <3>1. /\ pc'[a] = "set" => \A i \in DOMAIN task'[a].cmd : mem'[i].on /\ task'[a].cmd[i].on
          /\ \A i \in task'[a].off : ~mem'[i].on
      <4>1. PICK c : c = task'[a].cmd
        OBVIOUS
      <4>2. ASSUME pc'[a] = "set", NEW i \in DOMAIN c PROVE mem'[i].on /\ c[i].on
        <5>1. mem'[i].on /\ c[i] = [on |-> TRUE, pos |-> mem'[i].pos, size |-> mem'[i].size]
          BY <2>1, <4>1, <4>2 DEF InOrder
        <5> QED
          BY <5>1
      <4>3. \A i \in task'[a].off : ~mem'[i].on
        BY <1>6, <2>1 DEF InOrder
      <4> QED
        BY <4>1, <4>2, <4>3
    <3> QED
      BY <1>3, <3>1 DEF Obeying
  <2>5. Settling'
    BY <2>1 DEF Settling
  <2> QED
    BY <1>5, <2>2, <2>3, <2>4, <2>5
<1>7. CASE pc'[a] \notin {"set", "unset"}
  <2>1. free = {} /\ ~(pc'[a] = "idle" /\ a \notin Caller)
    BY <1>1, <1>7 DEF Ruling
  <2>2. \A b \in Actor : ~Rules(b)
    BY <1>2 DEF Rules
  <2>3. unsent \ missed = {}
    BY <2>1, <2>2 DEF Ordered, Unapplied
  <2>4. Unapplied'
    BY <2>3 DEF Unapplied
  <2>5. Obeying'
    BY <1>3, <1>7 DEF Obeying
  <2>6. CASE pc'[a] = "idle"
    <3>1. mem' = mem /\ config' = config /\ UNCHANGED <<known, life, missed>>
      BY <1>2, <1>7, <2>1, <2>6 DEF Outcome
    <3>2. \A b \in Actor : ~Rules(b)'
      BY <1>4, <2>6 DEF Rules
    <3>3. missed' = {} => Settling'
      <4>1. missed = {} => Settling
        BY <2>1 DEF Ordered
      <4> QED
        BY <2>2, <3>1, <4>1 DEF Settling, Shows
    <3> QED
      BY <1>5, <2>4, <2>5, <3>2, <3>3 DEF Ruled
  <2>7. CASE pc'[a] # "idle"
    <3>1. /\ pc'[a] = "save" /\ task'[a].op = "stored" /\ Notes(task'[a], u)
          /\ u.mode = "custom" /\ Shows(K, "custom", u.name, mem)'
      BY <1>2, <1>7, <2>7 DEF Outcome
    <3>2. /\ task'[a].by = u.by /\ task'[a].scr = K /\ task'[a].mode = "custom" /\ task'[a].name = u.name
      BY <3>1 DEF Notes
    <3>3. InOrder(a, K)'
      <4>1. Prepared(task[a], K, mem)'
        BY <3>1, <3>2 DEF Prepared
      <4> QED
        BY <3>1, <3>2, <4>1 DEF InOrder
    <3>4. Ruled'
      BY <1>4, <3>3 DEF Ruled
    <3>5. Settling'
      <4>1. SUFFICES ASSUME ~Rules(a)' PROVE Shows(K, mode, customId, mem)'
        BY DEF Settling
      <4>2. u.by # "switch"
        BY <3>1, <3>2, <4>1 DEF Rules
      <4>3. mode' = "custom" /\ customId' = u.name
        BY <3>1, <4>2
      <4> QED
        BY <3>1, <4>3 DEF Shows
    <3> QED
      BY <1>5, <2>4, <2>5, <3>4, <3>5
  <2> QED
    BY <2>6, <2>7
<1> QED
  BY <1>6, <1>7

\* Nobody sets the whole layout, before or after.
LEMMA PlainOrdered ==
    ASSUME Ordered, NEW a \in Actor,
           free' = {} => free = {} /\ \A b \in Actor : ~Rules(b),
           ~Rules(a)', \A b \in Actor \ {a} : pc'[b] = pc[b] /\ task'[b] = task[b],
           UNCHANGED <<known, missed>>, life' \in {"started", "ready"} => life \in {"started", "ready"},
           unsent' \ missed' \subseteq unsent \ missed,
           \A i \in known : mem'[i].on <=> mem[i].on,
           free = {} /\ missed = {} /\ Foretold /\ Obeying =>
               /\ Foretold'
               /\ pc'[a] = "set" => \A i \in DOMAIN task'[a].cmd \cap known : mem'[i].on /\ task'[a].cmd[i].on
               /\ pc'[a] \in {"set", "unset"} => \A i \in task'[a].off \cap known : ~mem'[i].on,
           free = {} /\ missed = {} /\ Shows(known, mode, customId, mem) => Shows(known, mode, customId, mem)'
    PROVE  Ordered'
<1> SUFFICES ASSUME free' = {}
             PROVE  Ruled' /\ Unapplied' /\ (missed' = {} => Foretold' /\ Obeying' /\ Settling')
  BY DEF Ordered
<1>1. free = {} /\ \A b \in Actor : ~Rules(b)
  OBVIOUS
<1>2. \A b \in Actor : ~Rules(b)'
  BY <1>1 DEF Rules
<1>3. Unapplied'
  BY <1>1 DEF Ordered, Unapplied
<1>4. missed' = {} => Foretold'
  BY <1>1 DEF Ordered
<1>5. missed' = {} => Obeying'
  BY <1>1 DEF Ordered, Obeying
<1>6. missed' = {} => Settling'
  BY <1>1 DEF Ordered, Settling
<1> QED
  BY <1>2, <1>3, <1>4, <1>5, <1>6 DEF Ruled

-----------------------------------------------------------------------------
(* The D-Bus calls keep Ordered.                                           *)

LEMMA SwitchModeOrdered ==
    ASSUME TwoEven, TypeInv, Ordered, NEW c \in Caller, pc[c] = "idle", NEW m \in Mode,
           NEW n \in Name \cup {""}, NEW i, SwitchMode(c, m, n, i)
    PROVE  Ordered'
<1>1. /\ Call(c, "switch") /\ Cardinality(known) > 1
      /\ UNCHANGED <<mode, customId, primary, unsent>>
      /\ Ruling(c, known, Beginning(c))
  BY DEF SwitchMode, shown
<1>2. UNCHANGED <<signals, life, known, missed>>
  BY <1>1 DEF Call
<1>3. PICK t : t = For("switch", m, n, known)
  OBVIOUS
<1>4. Typed /\ mem \in Settings(known) /\ known \in SUBSET Monitor /\ unsent \subseteq known /\ c \in Actor
  BY DEF TypeInv, Typed, WorkType, EditType, Actor
<1>5. Fresh(t, "switch", m, n, known)
  <2>1. "switch" \in {"none", "ids", "init", "switch", "call"}
    OBVIOUS
  <2> QED
    BY <1>3, <1>4, <2>1, ForFresh
<1>6. t \in Task /\ t.scr = known /\ t.by = "switch" /\ t.op = "none" /\ t.save = FALSE
  BY <1>5 DEF Fresh
<1>7. known # {}
  BY <1>1, Several
<1>8. Switch(c, t, i, known, mem)
  BY <1>3 DEF SwitchMode
<1>9. Done(c, t, known)
  BY <1>4, <1>6, <1>7, <1>8, SwitchDone
<1>10. ASSUME mode = "custom" => primary \in known PROVE Outcome(c, t, known, mem)
  <2>1. Sets(t, known)
    BY <1>1, <1>6, <1>7, <1>10 DEF Sets
  <2> QED
    BY <1>4, <1>6, <1>8, <2>1, SwitchOrders
<1>11. Beginning(c) => Calm(c) /\ signals' = <<>>
  BY <1>2 DEF Beginning
<1> QED
  BY <1>1, <1>2, <1>4, <1>6, <1>9, <1>10, <1>11, RulingOrdered

LEMMA SetOnlyOrdered ==
    ASSUME TwoEven, TypeInv, Ordered, NEW c \in Caller, pc[c] = "idle", NEW i,
           Call(c, "primary"), known # {}, mode = "only", UNCHANGED <<mode, customId, primary, unsent>>,
           SwitchOnly(c, For("call", mode, "", known), i, known, mem),
           Ruling(c, known, Beginning(c))
    PROVE  Ordered'
<1>1. UNCHANGED <<signals, life, known, missed>>
  BY DEF Call
<1>2. PICK t : t = For("call", mode, "", known)
  OBVIOUS
<1>3. Typed /\ mem \in Settings(known) /\ known \in SUBSET Monitor /\ unsent \subseteq known /\ c \in Actor
  BY DEF TypeInv, Typed, WorkType, EditType, Actor
<1>4. Fresh(t, "call", "only", "", known)
  <2>1. "call" \in {"none", "ids", "init", "switch", "call"} /\ "only" \in Mode /\ "" \in Name \cup {""}
    BY DEF Mode
  <2> QED
    BY <1>2, <1>3, <2>1, ForFresh
<1>5. t \in Task /\ t.scr = known /\ t.by = "call" /\ t.mode = "only"
  BY <1>4 DEF Fresh
<1>6. Notes(t, t)
  BY <1>5 DEF Notes
<1>7. SwitchOnly(c, t, i, known, mem)
  BY <1>2
<1>8. Done(c, t, known)
  BY <1>3, <1>5, <1>6, <1>7, SwitchOnlyDone
<1>9. Sets(t, known)
  BY <1>5 DEF Sets
<1>10. Outcome(c, t, known, mem)
  BY <1>3, <1>5, <1>6, <1>7, <1>9, SwitchOnlyOrders
<1>11. Beginning(c) => Calm(c) /\ signals' = <<>>
  BY <1>1 DEF Beginning
<1> QED
  BY <1>1, <1>3, <1>5, <1>8, <1>10, <1>11, RulingOrdered

\* A layout that keeps what is enabled is applied, for no mode.
LEMMA StartPlain ==
    ASSUME Typed, NEW a \in Actor, NEW t \in Task, NEW K \in SUBSET Monitor, NEW mm \in Settings(K),
           Start(a, t, K, mm)
    PROVE  /\ \A i \in Monitor : mem'[i].on = mm[i].on
           /\ mode # "custom" => mem' = mm
           /\ config' = config /\ task'[a].op = t.op /\ task'[a].by = t.by
           /\ pc'[a] = "set" => \A i \in DOMAIN task'[a].cmd : mem'[i].on /\ task'[a].cmd[i].on
           /\ \A i \in task'[a].off : ~mem'[i].on
<1>1. PICK new \in Adjusted(K, mm, how) :
          LET on == {i \in K : new[i].on}
          IN  /\ mem' = new
              /\ task' = [task EXCEPT ![a] = [t EXCEPT
                              !.cmd = [i \in on |-> [on |-> TRUE, pos |-> new[i].pos, size |-> new[i].size]],
                              !.off = K \ on]]
              /\ UNCHANGED <<ids, config>>
  BY DEF Start
<1> DEFINE on == {i \in K : new[i].on}
           cmd == [i \in on |-> [on |-> TRUE, pos |-> new[i].pos, size |-> new[i].size]]
<1>2. Corrects(new, mm, K)
  BY AdjustedType DEF Typed, ShownType
<1>3. \A i \in Monitor : new[i].on = mm[i].on
  BY <1>2 DEF Corrects
<1>4. mode # "custom" => new = mm
  BY <1>1 DEF Adjusted
<1>5. task'[a] = [t EXCEPT !.cmd = cmd, !.off = K \ on]
  BY <1>1 DEF Typed, WorkType
<1>6. DOMAIN cmd = on /\ (\A i \in on : new[i].on /\ cmd[i].on) /\ \A i \in K \ on : ~new[i].on
  OBVIOUS
<1> HIDE DEF cmd, on
<1>7. task'[a].op = t.op /\ task'[a].by = t.by /\ task'[a].cmd = cmd /\ task'[a].off = K \ on
  BY <1>5 DEF Task
<1>8. PICK c : c = task'[a].cmd
  OBVIOUS
<1>9. c = cmd /\ DOMAIN c = on
  BY <1>6, <1>7, <1>8
<1> QED
  BY <1>1, <1>3, <1>4, <1>6, <1>7, <1>8, <1>9

LEMMA ShowsKept ==
    ASSUME mode \in Mode, Shows(known, mode, customId, mem), UNCHANGED <<known, mode, customId, config>>,
           \A i \in known : mem'[i].on = mem[i].on, mode # "custom" => mem' = mem
    PROVE  Shows(known, mode, customId, mem)'
BY DEF Shows, Mode

\* A call that sets no layout.
LEMMA CallOrdered ==
    ASSUME TypeInv, Ordered, NEW c \in Caller, pc[c] = "idle", NEW op, Call(c, op), Note(c), UNCHANGED unsent,
           NEW t, Done(c, t, known), task'[c].by = "call", task'[c].op \in {"changes", "stored", "save"},
           \A i \in Monitor : mem'[i].on = mem[i].on,
           pc'[c] = "set" => \A i \in DOMAIN task'[c].cmd : mem'[i].on /\ task'[c].cmd[i].on,
           pc'[c] \in {"set", "unset"} => \A i \in task'[c].off : ~mem'[i].on,
           free = {} /\ missed = {} /\ Shows(known, mode, customId, mem) => Shows(known, mode, customId, mem)'
    PROVE  Ordered'
<1>1. c \in Actor /\ known \subseteq Monitor
  BY DEF Actor, TypeInv, Typed, EditType
<1>2. UNCHANGED <<signals, life, known, missed>>
  BY DEF Call
<1>3. free' = {} => free = {} /\ \A b \in Actor : ~Rules(b)
  BY DEF Note, Beginning, Calm, Rules
<1>4. ~Rules(c)' /\ \A b \in Actor \ {c} : pc'[b] = pc[b] /\ task'[b] = task[b]
  BY DEF Rules, Done
<1>5. \A i \in known : mem'[i].on <=> mem[i].on
  BY <1>1
<1>6. Foretold => Foretold'
  BY <1>2, <1>5 DEF Foretold, Expected
<1> QED
  BY <1>1, <1>2, <1>3, <1>4, <1>5, <1>6, PlainOrdered

LEMMA ApplyChangesOrdered ==
    ASSUME TypeInv, Ordered, NEW c \in Caller, pc[c] = "idle", ApplyChanges(c)
    PROVE  Ordered'
<1>1. /\ Call(c, "edit") /\ Note(c)
      /\ UNCHANGED <<mode, customId, unsent>>
  BY DEF ApplyChanges, shown
<1>2. PICK t : t = For("call", mode, "", known)
  OBVIOUS
<1>3. PICK s : s = [t EXCEPT !.op = "changes"]
  OBVIOUS
<1>4. Start(c, s, known, mem)
  BY <1>2, <1>3 DEF ApplyChanges
<1>5. Typed /\ mem \in Settings(known) /\ known \in SUBSET Monitor /\ mode \in Mode /\ c \in Actor
  BY DEF TypeInv, Typed, WorkType, EditType, ShownType, Actor
<1>6. t \in Task /\ t.by = "call" /\ t.main = None
  BY <1>2, <1>5, CallTask
<1>7. Notes(s, t) /\ s.main = None /\ s.op = "changes"
  BY <1>3, <1>6, NotedOp DEF Op
<1>8. s \in Task /\ s.by = "call"
  BY <1>6, <1>7 DEF Notes
<1>9. Done(c, t, known)
  BY <1>4, <1>5, <1>7, StartDone
<1>10. /\ \A i \in Monitor : mem'[i].on = mem[i].on
       /\ mode # "custom" => mem' = mem
       /\ config' = config /\ task'[c].op = "changes" /\ task'[c].by = "call"
       /\ pc'[c] = "set" => \A i \in DOMAIN task'[c].cmd : mem'[i].on /\ task'[c].cmd[i].on
       /\ \A i \in task'[c].off : ~mem'[i].on
  BY <1>4, <1>5, <1>7, <1>8, StartPlain
<1>11. UNCHANGED known
  BY <1>1 DEF Call
<1>12. Shows(known, mode, customId, mem) => Shows(known, mode, customId, mem)'
  <2>1. \A i \in known : mem'[i].on = mem[i].on
    BY <1>5, <1>10
  <2> QED
    BY <1>1, <1>5, <1>10, <1>11, <2>1, ShowsKept
<1> QED
  BY <1>1, <1>9, <1>10, <1>12, CallOrdered

\* What is stored for the known monitors may change, when what is to be shown
\* does not.
LEMMA ShowsStored ==
    ASSUME Typed, UNCHANGED <<known, mode, mem>>, NEW sc,
           config' = [config EXCEPT ![known] = sc],
           Shows(known, mode, customId, mem),
           mode = "extend" /\ sc.extend = Nothing => config[known].extend = Nothing,
           LET cfg == Stored(sc, "custom", customId')
           IN  mode = "custom" => cfg # Nothing /\ \A i \in known \cap DOMAIN cfg : mem[i].on = cfg[i].on
    PROVE  Shows(known, mode, customId, mem)'
<1>1. config'[known] = sc /\ mode \in Mode
  BY DEF Typed, EditType, WorkType, ShownType
<1>2. CASE mode = "mirror"
  BY <1>2 DEF Shows
<1>3. CASE mode = "only"
  BY <1>3 DEF Shows
<1>4. CASE mode = "extend"
  <2>1. /\ \A i \in known : mem[i].on
        /\ config[known].extend = Nothing => RealMode(known, mem) = "extend"
    BY <1>4 DEF Shows, Stored
  <2>2. sc.extend = Nothing => RealMode(known, mem) = "extend"
    BY <1>4, <2>1
  <2> QED
    BY <1>1, <1>4, <2>1, <2>2 DEF Shows, Stored
<1>5. CASE mode = "custom"
  BY <1>1, <1>5 DEF Shows
<1> QED
  BY <1>1, <1>2, <1>3, <1>4, <1>5 DEF Mode

\* A call that only stores something.
LEMMA StoringOrdered ==
    ASSUME TypeInv, Ordered, NEW c \in Caller, pc[c] = "idle", NEW op, Call(c, op), Note(c), UNCHANGED <<unsent, mem>>,
           NEW x \in {"stored", "save"}, NEW new \in ScreenConfig,
           Save(c, [For("call", mode, "", known) EXCEPT !.op = x], [config EXCEPT ![known] = new]),
           Shows(known, mode, customId, mem) => Shows(known, mode, customId, mem)'
    PROVE  Ordered'
<1>1. PICK t : t = For("call", mode, "", known)
  OBVIOUS
<1>2. Typed /\ mem \in Settings(known) /\ known \in SUBSET Monitor /\ mode \in Mode /\ c \in Actor
  BY DEF TypeInv, Typed, WorkType, EditType, ShownType, Actor
<1>3. t \in Task /\ t.by = "call"
  BY <1>1, <1>2, CallTask
<1>4. PICK s : s = [t EXCEPT !.op = x]
  OBVIOUS
<1>5. Notes(s, t) /\ s.op = x
  <2>1. x \in Op
    BY DEF Op
  <2> QED
    BY <1>3, <1>4, <2>1, NotedOp
<1>6. PICK cfg : cfg = [config EXCEPT ![known] = new]
  OBVIOUS
<1>7. cfg \in StoredConfigs
  BY <1>2, <1>6 DEF Typed, WorkType, StoredConfigs
<1>8. Save(c, s, cfg)
  BY <1>1, <1>4, <1>6
<1>9. mem' \in Settings(known)
  BY <1>2
<1>10. Done(c, t, known)
  BY <1>2, <1>5, <1>7, <1>8, <1>9, SaveDone
<1>11. pc'[c] = "save" /\ task'[c] = [s EXCEPT !.cmd = Nothing, !.off = {}]
  BY <1>2, <1>8 DEF Save, Typed, WorkType
<1>12. task'[c].by = "call" /\ task'[c].op = x
  <2>1. s \in Task /\ s.by = "call"
    BY <1>3, <1>5 DEF Notes
  <2> QED
    BY <1>5, <1>11, <2>1 DEF Task
<1> QED
  BY <1>10, <1>11, <1>12, CallOrdered

\* What is stored is found again.
LEMMA StoredFound ==
    ASSUME NEW sc \in ScreenConfig, NEW n, NEW new
    PROVE  /\ Store(sc, "extend", n, new).extend = new
           /\ Stored(Store(sc, "custom", n, new), "custom", n) = new
<1>1. Store(sc, "extend", n, new) = [sc EXCEPT !.extend = new]
  BY DEF Store
<1>2. PICK f : f = Merge(sc.custom, [x \in {n} |-> new])
  OBVIOUS
<1>3. Store(sc, "custom", n, new) = [sc EXCEPT !.custom = f]
  BY <1>2 DEF Store
<1>4. n \in DOMAIN f /\ f[n] = new
  BY <1>2 DEF Merge
<1>5. [sc EXCEPT !.custom = f].custom = f /\ [sc EXCEPT !.extend = new].extend = new
  BY DEF ScreenConfig
<1> QED
  BY <1>1, <1>3, <1>4, <1>5 DEF Stored

LEMMA SaveCallOrdered ==
    ASSUME TypeInv, Ordered, NEW c \in Caller, pc[c] = "idle", SaveCall(c)
    PROVE  Ordered'
<1> DEFINE one == ToConfig(mem[MinID(known)], FALSE)
           sc == config[known]
           all == ToConfigs(known, mem, primary)
           new == IF Cardinality(known) = 1 THEN [sc EXCEPT !.single = {one}] ELSE Store(sc, mode, customId, all)
<1>1. /\ Call(c, "edit") /\ known # {} /\ Note(c)
      /\ UNCHANGED <<mem, mode, customId, unsent, known>>
  BY DEF SaveCall, Call, shown
<1>2. Typed /\ mem \in Settings(known) /\ known \in SUBSET Monitor /\ mode \in Mode /\ customId \in Name \cup {""}
  BY DEF TypeInv, Typed, WorkType, EditType, ShownType
<1>3. Save(c, [For("call", mode, "", known) EXCEPT !.op = "save"], [config EXCEPT ![known] = new])
  BY <1>2 DEF SaveCall, Typed, WorkType
<1>4. sc \in ScreenConfig
  BY <1>2 DEF Typed, WorkType
<1>5. new \in ScreenConfig
  <2>1. one \in Config
    <3>1. MinID(known) \in Monitor
      BY <1>1, <1>2, MinMember
    <3>2. PICK v \in Setting : v = mem[MinID(known)]
      BY <1>2, <3>1, SettingsAt
    <3>3. ToConfig(v, FALSE) \in Config
      BY ToConfigType
    <3> QED
      BY <3>2, <3>3
  <2>2. Store(sc, mode, customId, all) \in ScreenConfig
    BY <1>2, StoredNew
  <2> HIDE DEF one, sc, all
  <2>3. [sc EXCEPT !.single = {one}] \in ScreenConfig
    BY <1>4, <2>1 DEF ScreenConfig
  <2> QED
    BY <2>2, <2>3
<1>6. DOMAIN all = known /\ \A i \in known : all[i].on = mem[i].on
  BY DEF ToConfigs, ToConfig
<1>7. all # Nothing
  BY <1>1, <1>6 DEF Nothing
<1>8. PICK st : st = new
  OBVIOUS
<1>9. ASSUME Shows(known, mode, customId, mem)
      PROVE  Shows(known, mode, customId, mem)'
  <2>1. config' = [config EXCEPT ![known] = st]
    BY <1>3, <1>8 DEF Save
  <2>2. CASE Cardinality(known) = 1
    <3>1. st = [sc EXCEPT !.single = {one}]
      BY <1>8, <2>2
    <3> HIDE DEF one, sc, all
    <3>2. st.extend = sc.extend /\ st.custom = sc.custom
      BY <1>4, <3>1 DEF ScreenConfig
    <3>3. Stored(st, "custom", customId) = Stored(sc, "custom", customId)
      BY <3>2 DEF Stored
    <3>4. LET cfg == Stored(st, "custom", customId')
          IN  mode = "custom" => cfg # Nothing /\ \A i \in known \cap DOMAIN cfg : mem[i].on = cfg[i].on
      BY <1>1, <1>9, <3>3 DEF Shows, sc
    <3>5. mode = "extend" /\ st.extend = Nothing => config[known].extend = Nothing
      BY <3>2 DEF sc
    <3> QED
      BY <1>1, <1>2, <1>9, <2>1, <3>4, <3>5, ShowsStored
  <2>3. CASE Cardinality(known) # 1
    <3>1. st = Store(sc, mode, customId, all)
      BY <1>8, <2>3
    <3> HIDE DEF one, sc, all
    <3>2. mode = "extend" => st.extend = all
      BY <1>4, <3>1, StoredFound
    <3>3. mode = "custom" => Stored(st, "custom", customId) = all
      BY <1>4, <3>1, StoredFound
    <3>4. LET cfg == Stored(st, "custom", customId')
          IN  mode = "custom" => cfg # Nothing /\ \A i \in known \cap DOMAIN cfg : mem[i].on = cfg[i].on
      BY <1>1, <1>6, <1>7, <3>3
    <3>5. mode = "extend" /\ st.extend = Nothing => config[known].extend = Nothing
      BY <1>7, <3>2
    <3> QED
      BY <1>1, <1>2, <1>9, <2>1, <3>4, <3>5, ShowsStored
  <2> QED
    BY <2>2, <2>3
<1> HIDE DEF new
<1> QED
  BY <1>1, <1>3, <1>5, <1>9, StoringOrdered

LEMMA SetPrimaryOrdered ==
    ASSUME TwoEven, TypeInv, Ordered, NEW c \in Caller, pc[c] = "idle", NEW i, SetPrimary(c, i)
    PROVE  Ordered'
<1> DEFINE sc == config[known]
           old == Stored(sc, mode, customId)
           named == [j \in DOMAIN old |-> [old[j] EXCEPT !.primary = (j = i)]]
           new == IF old = Nothing THEN ToConfigs(known, mem, i) ELSE named
<1>1. /\ Call(c, "primary") /\ known # {} /\ i \in known \cup {None} /\ mode # "mirror"
      /\ UNCHANGED <<mode, customId, unsent, known>>
      /\ \/ /\ mode = "only"
            /\ SwitchOnly(c, For("call", mode, "", known), i, known, mem)
            /\ Ruling(c, known, Beginning(c))
            /\ UNCHANGED primary
         \/ /\ mode = "extend" \/ (mode = "custom" /\ old # Nothing)
            /\ Save(c, [For("call", mode, "", known) EXCEPT !.op = "stored"],
                    [config EXCEPT ![known] = Store(@, mode, customId, new)])
            /\ Note(c)
            /\ UNCHANGED mem
  BY DEF SetPrimary, Call
<1>2. CASE /\ mode = "only"
           /\ SwitchOnly(c, For("call", mode, "", known), i, known, mem)
           /\ Ruling(c, known, Beginning(c))
           /\ UNCHANGED primary
  BY <1>1, <1>2, SetOnlyOrdered
<1>3. CASE /\ mode = "extend" \/ (mode = "custom" /\ old # Nothing)
           /\ Save(c, [For("call", mode, "", known) EXCEPT !.op = "stored"],
                   [config EXCEPT ![known] = Store(@, mode, customId, new)])
           /\ Note(c)
           /\ UNCHANGED mem
  <2>1. Typed /\ mem \in Settings(known) /\ known \in SUBSET Monitor /\ mode \in Mode /\ customId \in Name \cup {""}
    BY DEF TypeInv, Typed, WorkType, EditType, ShownType
  <2>2. sc \in ScreenConfig
    BY <2>1 DEF Typed, WorkType
  <2>3. PICK D \in SUBSET Monitor : D = DOMAIN old /\ old = [j \in D |-> old[j]] /\ \A j \in D : old[j] \in Config
    <3>1. old \in Configs
      BY <2>1, <2>2, StoredType
    <3> HIDE DEF old
    <3> QED
      BY <3>1, PartialOut DEF Configs
  <2> HIDE DEF sc, old
  <2>4. ASSUME NEW j \in D PROVE named[j] \in Config /\ named[j].on = old[j].on
    <3>1. PICK v \in Config : v = old[j]
      BY <2>3
    <3>2. PICK p \in BOOLEAN : p = (j = i)
      OBVIOUS
    <3>3. named[j] = [v EXCEPT !.primary = p]
      BY <2>3, <3>1, <3>2
    <3> QED
      BY <3>1, <3>3 DEF Config
  <2>5. DOMAIN named = D /\ named \in [D -> Config]
    BY <2>3, <2>4
  <2> HIDE DEF named
  <2>6. old # Nothing => named # Nothing
    <3>1. SUFFICES ASSUME D = {} PROVE old = Nothing
      BY <2>5 DEF Nothing
    <3> QED
      BY <2>3, <3>1 DEF Nothing
  <2>7. new \in Configs /\ new # Nothing
    <3>1. ToConfigs(known, mem, i) \in Configs
      BY <2>1, ToConfigsType
    <3>2. ToConfigs(known, mem, i) # Nothing
      BY <1>1 DEF ToConfigs, Nothing
    <3>3. named \in Configs
      BY <2>5, PartialIn DEF Configs
    <3> QED
      BY <2>6, <3>1, <3>2, <3>3
  <2>8. PICK st \in ScreenConfig : st = Store(sc, mode, customId, new)
    BY <2>1, <2>2, <2>7, StoreType
  <2>9. Save(c, [For("call", mode, "", known) EXCEPT !.op = "stored"], [config EXCEPT ![known] = st])
    BY <1>3, <2>1, <2>8 DEF sc, Typed, WorkType
  <2>10. ASSUME Shows(known, mode, customId, mem)
         PROVE  Shows(known, mode, customId, mem)'
    <3>1. config' = [config EXCEPT ![known] = st]
      BY <2>9 DEF Save
    <3>2. (mode = "extend" => st.extend = new) /\ (mode = "custom" => Stored(st, "custom", customId) = new)
      BY <2>2, <2>8, StoredFound
    <3>3. mode = "extend" /\ st.extend = Nothing => config[known].extend = Nothing
      BY <2>7, <3>2
    <3>4. ASSUME mode = "custom"
          PROVE  /\ Stored(st, "custom", customId') # Nothing
                 /\ \A j \in known \cap DOMAIN Stored(st, "custom", customId') :
                        mem[j].on = Stored(st, "custom", customId')[j].on
      <4>1. Stored(st, "custom", customId') = named /\ old # Nothing
        BY <1>1, <1>3, <3>2, <3>4
      <4>2. \A j \in known \cap D : mem[j].on = old[j].on
        BY <2>3, <2>10, <3>4 DEF Shows, old, sc
      <4> QED
        BY <2>4, <2>5, <2>6, <4>1, <4>2
    <3> QED
      BY <1>1, <1>3, <2>1, <2>10, <3>1, <3>3, <3>4, ShowsStored
  <2> QED
    BY <1>1, <1>3, <2>9, <2>10, StoringOrdered
<1> QED
  BY <1>1, <1>2, <1>3

LEMMA DeleteCustomModeOrdered ==
    ASSUME TypeInv, Ordered, NEW c \in Caller, pc[c] = "idle", NEW n \in Name, DeleteCustomMode(c, n)
    PROVE  Ordered'
<1>1. /\ Call(c, "name") /\ Note(c) /\ ~(mode = "custom" /\ customId = n)
      /\ customId' = IF customId = n THEN "" ELSE customId
      /\ Save(c, [For("call", mode, "", known) EXCEPT !.op = "stored"],
              [config EXCEPT ![known].custom = [x \in DOMAIN @ \ {n} |-> @[x]]])
      /\ UNCHANGED <<mem, mode, unsent, known>>
  BY DEF DeleteCustomMode, Call
<1>2. Typed /\ known \in SUBSET Monitor
  BY DEF TypeInv, Typed, EditType
<1>3. PICK sc \in ScreenConfig : sc = config[known]
  BY <1>2 DEF Typed, WorkType
<1>4. PICK f : f = [x \in DOMAIN sc.custom \ {n} |-> sc.custom[x]]
  OBVIOUS
<1>5. PICK new \in ScreenConfig : new = [sc EXCEPT !.custom = f]
  <2>1. PICK D \in SUBSET (Name \cup {""}) : D = DOMAIN sc.custom \ {n}
    BY ScreenAt
  <2>2. f \in [D -> Configs]
    BY <1>4, <2>1, ScreenAt
  <2>3. [sc EXCEPT !.custom = f] \in ScreenConfig
    BY <2>2, NewCustom
  <2> QED
    BY <2>3
<1>6. [config EXCEPT ![known].custom = [x \in DOMAIN @ \ {n} |-> @[x]]] = [config EXCEPT ![known] = new]
  BY <1>2, <1>3, <1>4, <1>5 DEF Typed, WorkType
<1>7. Save(c, [For("call", mode, "", known) EXCEPT !.op = "stored"], [config EXCEPT ![known] = new])
  BY <1>1, <1>6
<1>8. new.custom = f /\ new.extend = sc.extend
  BY <1>5 DEF ScreenConfig
<1>9. mode = "custom" => Stored(new, "custom", customId') = Stored(sc, "custom", customId)
  BY <1>1, <1>4, <1>8 DEF Stored
<1>10. ASSUME Shows(known, mode, customId, mem)
       PROVE  Shows(known, mode, customId, mem)'
  <2>1. config' = [config EXCEPT ![known] = new]
    BY <1>7 DEF Save
  <2>2. mode = "extend" /\ new.extend = Nothing => config[known].extend = Nothing
    BY <1>3, <1>8
  <2>3. LET cfg == Stored(new, "custom", customId')
        IN  mode = "custom" => cfg # Nothing /\ \A i \in known \cap DOMAIN cfg : mem[i].on = cfg[i].on
    BY <1>3, <1>9, <1>10 DEF Shows
  <2> QED
    BY <1>1, <1>2, <1>10, <2>1, <2>2, <2>3, ShowsStored
<1> QED
  BY <1>1, <1>7, <1>10, StoringOrdered

LEMMA ModifyConfigNameOrdered ==
    ASSUME TypeInv, Ordered, NEW c \in Caller, pc[c] = "idle", NEW n \in Name, NEW other \in Name,
           ModifyConfigName(c, n, other)
    PROVE  Ordered'
<1> DEFINE old == config[known].custom
           f == [x \in (DOMAIN old \ {n}) \cup {other} |-> IF x = other THEN old[n] ELSE old[x]]
<1>1. /\ Call(c, "name") /\ Note(c) /\ n \in DOMAIN old /\ other \notin DOMAIN old
      /\ customId' = IF customId = n THEN other ELSE customId
      /\ Save(c, [For("call", mode, "", known) EXCEPT !.op = "stored"],
              [config EXCEPT ![known].custom = f])
      /\ UNCHANGED <<mem, mode, unsent, known>>
  BY DEF ModifyConfigName, Call
<1>2. Typed /\ known \in SUBSET Monitor
  BY DEF TypeInv, Typed, EditType
<1>3. PICK sc \in ScreenConfig : sc = config[known]
  BY <1>2 DEF Typed, WorkType
<1>4. PICK new \in ScreenConfig : new = [sc EXCEPT !.custom = f]
  <2>1. DOMAIN sc.custom \in SUBSET (Name \cup {""}) /\ \A x \in DOMAIN sc.custom : sc.custom[x] \in Configs
    BY ScreenAt
  <2>2. PICK D \in SUBSET (Name \cup {""}) : D = (DOMAIN old \ {n}) \cup {other}
    BY <1>3, <2>1
  <2>3. f \in [D -> Configs]
    BY <1>1, <1>3, <2>1, <2>2
  <2> HIDE DEF f
  <2>4. [sc EXCEPT !.custom = f] \in ScreenConfig
    BY <2>3, NewCustom
  <2> QED
    BY <2>4
<1>5. /\ DOMAIN f = (DOMAIN old \ {n}) \cup {other}
      /\ f[other] = old[n] /\ \A x \in DOMAIN old \ {n} : x # other => f[x] = old[x]
  OBVIOUS
<1> HIDE DEF f
<1>6. [config EXCEPT ![known].custom = f] = [config EXCEPT ![known] = new]
  BY <1>2, <1>3, <1>4 DEF Typed, WorkType
<1>7. Save(c, [For("call", mode, "", known) EXCEPT !.op = "stored"], [config EXCEPT ![known] = new])
  BY <1>1, <1>6
<1>8. new.custom = f /\ new.extend = sc.extend
  BY <1>4 DEF ScreenConfig
<1>9. ASSUME customId \in DOMAIN old
      PROVE  Stored(new, "custom", customId') = Stored(sc, "custom", customId)
  <2>1. customId' \in DOMAIN f /\ f[customId'] = old[customId]
    BY <1>1, <1>5, <1>9
  <2> QED
    BY <1>3, <1>8, <1>9, <2>1 DEF Stored
<1>10. ASSUME Shows(known, mode, customId, mem)
       PROVE  Shows(known, mode, customId, mem)'
  <2>1. config' = [config EXCEPT ![known] = new]
    BY <1>7 DEF Save
  <2>2. mode = "extend" /\ new.extend = Nothing => config[known].extend = Nothing
    BY <1>3, <1>8
  <2>3. LET cfg == Stored(new, "custom", customId')
        IN  mode = "custom" => cfg # Nothing /\ \A i \in known \cap DOMAIN cfg : mem[i].on = cfg[i].on
    <3>1. mode = "custom" => customId \in DOMAIN old
      BY <1>10 DEF Shows, Stored
    <3> QED
      BY <1>3, <1>9, <1>10, <3>1 DEF Shows
  <2> QED
    BY <1>1, <1>2, <1>10, <2>1, <2>2, <2>3, ShowsStored
<1> QED
  BY <1>1, <1>7, <1>10, StoringOrdered

LEMMA CallsOrdered ==
    ASSUME TwoEven, TypeInv, Ordered, NEW c \in Caller, CallStep(c)
    PROVE  Ordered'
<1>1. pc[c] = "idle"
  BY DEF CallStep, Callable
<1>2. ASSUME free' # {} PROVE Ordered'
  BY <1>2 DEF Ordered
<1>3. ASSUME ResetChanges(c) PROVE Ordered'
  BY <1>2, <1>3 DEF ResetChanges
<1>4. ASSUME NEW i, NEW s, NEW h, Edit(c, i, s, h) PROVE Ordered'
  BY <1>2, <1>4 DEF Edit
<1>5. {"custom", "only"} \subseteq Mode
  BY DEF Mode
<1>6. ASSUME NEW m \in Mode, NEW n \in Name \cup {""}, NEW i, SwitchMode(c, m, n, i) PROVE Ordered'
  BY <1>1, <1>6, SwitchModeOrdered
<1>7. CASE \E m \in Mode \ {"custom", "only"} : SwitchMode(c, m, "", None)
  BY <1>6, <1>7
<1>8. CASE \E n \in Name : SwitchMode(c, "custom", n, None)
  BY <1>5, <1>6, <1>8
<1>9. CASE \E i \in Monitor \cup {None} : SwitchMode(c, "only", "", i)
  BY <1>5, <1>6, <1>9
<1>10. CASE ApplyChanges(c)
  BY <1>1, <1>10, ApplyChangesOrdered
<1>11. CASE SaveCall(c)
  BY <1>1, <1>11, SaveCallOrdered
<1>12. CASE \E i \in Monitor \cup {None} : SetPrimary(c, i)
  BY <1>1, <1>12, SetPrimaryOrdered
<1>13. CASE \E n \in Name : DeleteCustomMode(c, n)
  BY <1>1, <1>13, DeleteCustomModeOrdered
<1>14. CASE \E n, new \in Name : ModifyConfigName(c, n, new)
  BY <1>1, <1>14, ModifyConfigNameOrdered
<1>15. CASE \E i \in Monitor : Enable(c, i)
  BY <1>4, <1>15 DEF Enable
<1>16. CASE \E i \in Monitor, p \in Pos : SetPosition(c, i, p)
  BY <1>4, <1>16 DEF SetPosition
<1>17. CASE \E i \in Monitor, z \in Sizes : SetMode(c, i, z)
  BY <1>4, <1>17 DEF SetMode
<1> QED
  BY <1>3, <1>7, <1>8, <1>9, <1>10, <1>11, <1>12, <1>13, <1>14, <1>15, <1>16, <1>17 DEF CallStep

-----------------------------------------------------------------------------
(* The commands keep Ordered.                                              *)

\* In s, the signals q are followed by what the compositor tells of the outputs S.
Appends(q, s, kind, S, k) ==
    /\ \A l \in DOMAIN q : l \in DOMAIN s /\ s[l] = q[l]
    /\ \A n \in DOMAIN s : n \in DOMAIN q \/ (/\ s[n].m \in S /\ s[n].kind = kind /\ Like(s[n], k[s[n].m])
                                              /\ \A l \in DOMAIN q : l < n)

LEMMA Appended ==
    ASSUME NEW q, IsSeq(q), NEW kind, NEW S \in SUBSET Monitor, NEW k
    PROVE  Appends(q, q \o Announced(kind, S, k), kind, S, k)
<1> DEFINE s == q \o Announced(kind, S, k)
<1>1. IsFiniteSet(S)
  BY ConstantsAssumption, FS_Subset DEF ConstantsAssumption
<1>2. PICK r : r = Announced(kind, S, k)
  OBVIOUS
<1>3. Tells(r, kind, S, k)
  BY <1>1, <1>2, AnnouncedTells
<1>4. IsSeq(r)
  BY <1>3 DEF Tells
<1>5. Follows(q, r, s)
  BY <1>2, <1>4, Concatenation
<1>6. \A l \in DOMAIN q : l \in DOMAIN s /\ s[l] = q[l]
  BY <1>5 DEF Follows
<1>7. ASSUME NEW n \in DOMAIN s, n \notin DOMAIN q
      PROVE  s[n].m \in S /\ s[n].kind = kind /\ Like(s[n], k[s[n].m]) /\ \A l \in DOMAIN q : l < n
  <2>1. PICK l \in DOMAIN r : n = Len(q) + l /\ s[n] = r[l]
    BY <1>5, <1>7 DEF Follows
  <2>2. s[n].m \in S /\ s[n].kind = kind /\ Like(s[n], k[s[n].m])
    BY <1>3, <2>1 DEF Tells
  <2>3. Len(q) \in Nat /\ DOMAIN q = 1 .. Len(q) /\ Len(r) \in Nat /\ DOMAIN r = 1 .. Len(r)
    BY <1>4, SeqDomain
  <2>4. \A j \in DOMAIN q : j < n
    BY <2>1, <2>3
  <2> QED
    BY <2>2, <2>4
<1> QED
  BY <1>6, <1>7 DEF Appends

LEMMA ForetoldAppended ==
    ASSUME IsSeq(signals), NEW kind, NEW S \in SUBSET Monitor, NEW k,
           signals' = signals \o Announced(kind, S, k), UNCHANGED <<known, mem>>, Foretold,
           (\A n \in DOMAIN signals : signals[n].kind = "changed") =>
               \A s : s.m \in S /\ s.kind = kind /\ Like(s, k[s.m]) => Expected(s)
    PROVE  Foretold'
<1>1. \A s : Expected(s) => Expected(s)'
  BY DEF Expected, Confirms
<1>2. SUFFICES ASSUME NEW n \in DOMAIN signals',
                      \A l \in DOMAIN signals' : l < n => signals'[l].kind = "changed"
               PROVE  Expected(signals[n])'
  BY DEF Foretold
<1>3. PICK q : q = signals'
  OBVIOUS
<1>4. Appends(signals, q, kind, S, k) /\ n \in DOMAIN q
  BY <1>2, <1>3, Appended
<1>5. CASE n \in DOMAIN signals
  <2>1. \A l \in DOMAIN signals : l < n => signals[l].kind = "changed"
    BY <1>2, <1>3, <1>4 DEF Appends
  <2>2. Expected(signals[n]) /\ q[n] = signals[n]
    BY <1>4, <1>5, <2>1 DEF Foretold, Appends
  <2> QED
    BY <1>1, <1>3, <2>2
<1>6. CASE n \notin DOMAIN signals
  <2>1. /\ q[n].m \in S /\ q[n].kind = kind /\ Like(q[n], k[q[n].m])
        /\ \A l \in DOMAIN signals : l < n /\ l \in DOMAIN q /\ q[l] = signals[l]
    BY <1>4, <1>6 DEF Appends
  <2>2. \A l \in DOMAIN signals : signals[l].kind = "changed"
    BY <1>2, <1>3, <2>1
  <2>3. Expected(q[n])
    BY <2>1, <2>2
  <2> QED
    BY <1>1, <1>3, <2>3
<1> QED
  BY <1>5, <1>6

\* A command of goroutine a is done: the compositor announces what it changed.
LEMMA CommandOrdered ==
    ASSUME TypeInv, Shape, Ordered, NEW a \in Actor, pc[a] \in {"set", "unset"},
           NEW off, off \subseteq task[a].off, After(a, off),
           UNCHANGED <<known, life, mode, customId, missed, free>>, unsent' \subseteq unsent,
           NEW S \in SUBSET Monitor, NEW new, signals' = signals \o Announced("changed", S, new),
           ASSUME missed = {}, Obeying PROVE \A i \in S \cap known : new[i].on <=> mem[i].on,
           ASSUME InOrder(a, known) PROVE S \subseteq known /\ \A i \in S :
               /\ new[i].on <=> mem[i].on
               /\ mem[i].on => mem[i].pos = new[i].pos /\ mem[i].w = new[i].size,
           ASSUME free = {}, Rules(a), Calm(a), InOrder(a, known), \A n \in DOMAIN signals : signals[n].kind = "changed"
           PROVE  unsent' \ missed \subseteq off
    PROVE  Ordered'
<1>1. /\ UNCHANGED <<mem, config>>
      /\ task' = [task EXCEPT ![a].off = off]
      /\ pc' = [pc EXCEPT ![a] = IF off = {} THEN "end" ELSE "unset"]
  BY DEF After
<1>2. DOMAIN pc = Actor /\ DOMAIN task = Actor /\ IsSeq(signals)
  BY DEF Shape
<1>3. PICK t \in Task : t = task[a]
  BY DEF TypeInv, Typed, WorkType, AtWork
<1>4. task'[a] = [t EXCEPT !.off = off] /\ pc'[a] = IF off = {} THEN "end" ELSE "unset"
  BY <1>1, <1>2, <1>3
<1>5. /\ task'[a].by = t.by /\ task'[a].op = t.op /\ task'[a].scr = t.scr /\ task'[a].mode = t.mode
      /\ task'[a].name = t.name /\ task'[a].save = t.save /\ task'[a].off = off
  BY <1>4 DEF Task
<1>6. \A b \in Actor \ {a} : pc'[b] = pc[b] /\ task'[b] = task[b]
  BY <1>1, <1>2
<1>7. SUFFICES ASSUME free = {} PROVE Ordered'
  BY DEF Ordered
<1>8. Rules(a)' <=> Rules(a)
  BY <1>3, <1>4, <1>5 DEF Rules
<1>9. CASE Rules(a)
  <2>1. Calm(a) /\ (\A n \in DOMAIN signals : Says(signals[n])) /\ InOrder(a, known)
    BY <1>7, <1>9 DEF Ordered, Ruled
  <2>2. \A n \in DOMAIN signals : signals[n].kind = "changed"
    BY <2>1 DEF Says
  <2>3. /\ S \subseteq known /\ unsent' \ missed \subseteq off
        /\ \A i \in S : /\ new[i].on <=> mem[i].on
                        /\ mem[i].on => mem[i].pos = new[i].pos /\ mem[i].w = new[i].size
    BY <1>7, <1>9, <2>1, <2>2
  <2>4. Calm(a)' /\ (\A b \in Actor : Rules(b)' => b = a)
    BY <1>6, <2>1 DEF Calm, Rules
  <2>5. \A s : Says(s) => Says(s)'
    BY <1>1 DEF Says, Confirms
  <2>6. \A n \in DOMAIN signals' : Says(signals[n])'
    <3>1. SUFFICES ASSUME NEW n \in DOMAIN signals' PROVE Says(signals[n])'
      OBVIOUS
    <3>2. PICK q : q = signals'
      OBVIOUS
    <3>3. Appends(signals, q, "changed", S, new) /\ n \in DOMAIN q
      BY <1>2, <3>1, <3>2, Appended
    <3>4. CASE n \in DOMAIN signals
      <4>1. Says(q[n])
        BY <2>1, <3>3, <3>4 DEF Appends
      <4> QED
        BY <2>5, <3>2, <4>1
    <3>5. CASE n \notin DOMAIN signals
      <4>1. q[n].m \in S /\ q[n].kind = "changed" /\ Like(q[n], new[q[n].m])
        BY <3>3, <3>5 DEF Appends
      <4>2. Says(q[n])
        BY <2>3, <4>1 DEF Says, Confirms, Like
      <4> QED
        BY <2>5, <3>2, <4>2
    <3> QED
      BY <3>4, <3>5
  <2>7. InOrder(a, known)'
    <3>1. ASSUME Prepared(t, known, mem) PROVE Prepared(task[a], known, mem)'
      <4>1. CASE t.save /\ t.op \in {"mirror", "extend"}
        <5>1. t.mode = "custom" /\ t.name # "" /\ \A i \in known : mem[i].on
          BY <3>1, <4>1 DEF Prepared
        <5>2. PICK u : u = task'[a]
          OBVIOUS
        <5>3. u.save /\ u.op \in {"mirror", "extend"} /\ u.mode = "custom" /\ u.name # ""
          BY <1>5, <4>1, <5>1, <5>2
        <5> QED
          BY <1>1, <5>1, <5>2, <5>3 DEF Prepared
      <4>2. CASE ~(t.save /\ t.op \in {"mirror", "extend"})
        <5>1. Shows(known, t.mode, t.name, mem)'
          BY <1>1, <3>1, <4>2 DEF Prepared, Shows
        <5> QED
          BY <1>5, <4>2, <5>1 DEF Prepared
      <4> QED
        BY <4>1, <4>2
    <3>2. pc'[a] # "set" /\ pc'[a] # "save" /\ off \subseteq t.off
      BY <1>3, <1>4
    <3>3. PICK u : u = task'[a]
      OBVIOUS
    <3>4. u.scr = known /\ (u.by # "switch" => u.mode = mode /\ (mode = "custom" => u.name = customId))
      BY <1>3, <1>5, <2>1, <3>3 DEF InOrder
    <3>5. u.off \subseteq known /\ \A i \in u.off : ~mem[i].on
      BY <1>3, <1>5, <2>1, <3>2, <3>3 DEF InOrder
    <3>6. Cardinality(known) > 1 => Prepared(task[a], known, mem)'
      BY <1>3, <2>1, <3>1 DEF InOrder
    <3> QED
      BY <1>1, <3>2, <3>3, <3>4, <3>5, <3>6 DEF InOrder
  <2>8. Ruled'
    BY <2>4, <2>6, <2>7 DEF Ruled
  <2>9. Unapplied'
    <3>1. \A i \in unsent' \ missed' : i \in off /\ pc'[a] = "unset"
      BY <1>4, <2>3
    <3> QED
      BY <1>5, <1>8, <1>9, <3>1 DEF Unapplied
  <2>10. Foretold'
    BY <2>6 DEF Foretold, Says, Expected
  <2>11. Obeying'
    <3>1. pc'[a] = "unset" => \A i \in task'[a].off : ~mem'[i].on
      BY <2>7 DEF InOrder
    <3>2. \A b \in Actor \ {a} : pc'[b] = "idle"
      BY <2>4 DEF Calm
    <3> QED
      BY <1>4, <3>1, <3>2 DEF Obeying
  <2>12. Settling'
    BY <1>8, <1>9 DEF Settling
  <2> QED
    BY <2>8, <2>9, <2>10, <2>11, <2>12 DEF Ordered
<1>10. CASE ~Rules(a)
  <2>1. \A b \in Actor : ~Rules(b)
    BY <1>7, <1>10 DEF Ordered, Ruled, Calm
  <2>2. ASSUME missed = {}, Foretold, Obeying
        PROVE  /\ Foretold'
               /\ pc'[a] = "unset" => \A i \in task'[a].off \cap known : ~mem'[i].on
    <3>1. \A i \in S \cap known : new[i].on <=> mem[i].on
      BY <2>2
    <3>2. Foretold'
      <4>1. \A s : s.m \in S /\ s.kind = "changed" /\ Like(s, new[s.m]) => Expected(s)
        BY <3>1 DEF Expected, Like
      <4> QED
        BY <1>1, <1>2, <2>2, <4>1, ForetoldAppended
    <3>3. \A i \in task[a].off \cap known : ~mem[i].on
      BY <2>2 DEF Obeying
    <3> QED
      BY <1>1, <1>5, <3>2, <3>3
  <2>3. pc'[a] # "set"
    BY <1>4
  <2>4. Shows(known, mode, customId, mem) => Shows(known, mode, customId, mem)'
    BY <1>1 DEF Shows
  <2> QED
    BY <1>1, <1>6, <1>7, <1>8, <1>10, <2>1, <2>2, <2>3, <2>4, PlainOrdered
<1> QED
  BY <1>9, <1>10

\* A failure ends what was said of the layout.
LEMMA Failing ==
    ASSUME TypeInv, free' = free \cup (IF others' > others THEN {"failed"} ELSE {})
    PROVE  /\ Event => Ordered'
           /\ UNCHANGED bounds => free' = free
<1>1. MaxOther \in Nat /\ others \in 0 .. MaxOther
  BY ConstantsAssumption DEF ConstantsAssumption, TypeInv, Typed, BoundType
<1>2. Event => others' = others + 1
  BY DEF Event
<1>3. Event => free' # {}
  BY <1>1, <1>2
<1>4. UNCHANGED bounds => ~(others' > others)
  BY <1>1 DEF bounds
<1> QED
  BY <1>3, <1>4 DEF Ordered

LEMMA PresentPlugged ==
    ASSUME Starting, Present, NEW i \in known \ missed, \A n \in DOMAIN signals : signals[n].kind = "changed"
    PROVE  i \in plugged
BY DEF Starting, Present, Coming

LEMMA SetOrdered ==
    ASSUME TypeInv, AgreesInv, Ordered, NEW a \in Actor, Set(a)
    PROVE  Ordered'
<1> DEFINE cmd == task[a].cmd
           done == plugged \cap DOMAIN cmd
           given == [i \in Monitor |-> IF i \in done THEN cmd[i] ELSE kwin[i]]
<1>1. /\ pc[a] = "set" /\ UNCHANGED <<known, life, mode, customId, missed>>
      /\ free' = free \cup (IF others' > others THEN {"failed"} ELSE {})
      /\ \/ /\ KwinSet(given)
            /\ After(a, task[a].off)
            /\ unsent' = {i \in unsent : i \notin done \/ cmd[i] # [on |-> mem[i].on, pos |-> mem[i].pos, size |-> mem[i].size]}
            /\ UNCHANGED bounds
         \/ Event
  BY DEF Set, shown
<1>2. CASE Event
  BY <1>1, <1>2, Failing
<1>3. CASE /\ KwinSet(given)
           /\ After(a, task[a].off)
           /\ unsent' = {i \in unsent : i \notin done \/ cmd[i] # [on |-> mem[i].on, pos |-> mem[i].pos, size |-> mem[i].size]}
           /\ UNCHANGED bounds
  <2>1. free' = free
    BY <1>1, <1>3, Failing
  <2>2. Shape /\ Starting /\ Present
    BY DEF AgreesInv
  <2>3. /\ plugged \subseteq Monitor /\ kwin \in [Monitor -> Output] /\ unsent \subseteq known
        /\ known \in SUBSET Monitor /\ mem \in Settings(known)
    BY DEF TypeInv, Typed, OutsideType, EditType, WorkType
  <2>4. PICK new : new = given
    OBVIOUS
  <2>5. PICK S \in SUBSET Monitor : S = {i \in plugged : new[i] # kwin[i]}
    BY <2>3
  <2>6. signals' = signals \o Announced("changed", S, new)
    BY <1>3, <2>4, <2>5 DEF KwinSet
  <2>7. \A i \in S : i \in done /\ new[i] = cmd[i]
    BY <2>3, <2>4, <2>5
  <2>8. ASSUME missed = {}, Obeying PROVE \A i \in S \cap known : new[i].on <=> mem[i].on
    <3>1. \A i \in DOMAIN cmd \cap known : mem[i].on /\ cmd[i].on
      BY <1>1, <2>8 DEF Obeying
    <3> QED
      BY <2>7, <3>1
  <2>9. ASSUME InOrder(a, known)
        PROVE  /\ DOMAIN cmd \subseteq known
               /\ known \subseteq DOMAIN cmd \cup task[a].off
               /\ \A i \in DOMAIN cmd : /\ mem[i].on /\ mem[i].w = mem[i].size
                                        /\ cmd[i] = [on |-> TRUE, pos |-> mem[i].pos, size |-> mem[i].size]
    BY <1>1, <2>9 DEF InOrder
  <2> HIDE DEF cmd
  <2>10. ASSUME InOrder(a, known)
         PROVE  S \subseteq known /\ \A i \in S :
                    /\ new[i].on <=> mem[i].on
                    /\ mem[i].on => mem[i].pos = new[i].pos /\ mem[i].w = new[i].size
    <3>1. \A i \in S : i \in DOMAIN cmd /\ new[i] = cmd[i]
      BY <2>7
    <3>2. \A i \in DOMAIN cmd : mem[i].on /\ cmd[i].on /\ cmd[i].pos = mem[i].pos /\ cmd[i].size = mem[i].w
      BY <2>9, <2>10
    <3> QED
      BY <2>9, <2>10, <3>1, <3>2
  <2>11. ASSUME InOrder(a, known), \A n \in DOMAIN signals : signals[n].kind = "changed"
         PROVE  unsent' \ missed \subseteq task[a].off
    <3>1. SUFFICES ASSUME NEW i \in unsent' \ missed, i \notin task[a].off PROVE FALSE
      OBVIOUS
    <3>2. i \in known \ missed
      BY <1>3, <2>3, <3>1
    <3>3. i \in plugged
      BY <2>2, <2>11, <3>2, PresentPlugged
    <3>4. i \in DOMAIN cmd
      BY <2>9, <2>11, <3>1, <3>2
    <3>5. cmd[i] = [on |-> TRUE, pos |-> mem[i].pos, size |-> mem[i].size] /\ mem[i].on
      BY <2>9, <2>11, <3>4
    <3>6. cmd[i] # [on |-> mem[i].on, pos |-> mem[i].pos, size |-> mem[i].size]
      BY <1>3, <3>1, <3>3, <3>4
    <3>7. mem[i].on = TRUE
      BY <2>3, <3>2, <3>5, SettingsAt
    <3> QED
      BY <3>5, <3>6, <3>7
  <2>12. After(a, task[a].off) /\ unsent' \subseteq unsent
    BY <1>3
  <2> QED
    BY <1>1, <2>1, <2>2, <2>6, <2>8, <2>10, <2>11, <2>12, CommandOrdered
<1> QED
  BY <1>1, <1>2, <1>3

LEMMA UnsetOrdered ==
    ASSUME TypeInv, AgreesInv, Ordered, NEW a \in Actor, Unset(a)
    PROVE  Ordered'
<1>1. /\ pc[a] = "unset" /\ UNCHANGED <<plugged, known, life, mode, customId, missed>>
      /\ free' = free \cup (IF others' > others THEN {"failed"} ELSE {})
  BY DEF Unset, shown
<1>2. PICK i \in task[a].off :
      \/ /\ KwinSet([kwin EXCEPT ![i].on = @ /\ i \notin plugged])
         /\ After(a, task[a].off \ {i})
         /\ unsent' = IF i \in known /\ ~mem[i].on THEN unsent \ {i} ELSE unsent
         /\ UNCHANGED bounds
      \/ Event
  BY DEF Unset
<1>3. CASE Event
  BY <1>1, <1>3, Failing
<1>4. CASE /\ KwinSet([kwin EXCEPT ![i].on = @ /\ i \notin plugged])
           /\ After(a, task[a].off \ {i})
           /\ unsent' = IF i \in known /\ ~mem[i].on THEN unsent \ {i} ELSE unsent
           /\ UNCHANGED bounds
  <2>1. free' = free
    BY <1>1, <1>4, Failing
  <2>2. Shape
    BY DEF AgreesInv
  <2>3. plugged \subseteq Monitor /\ kwin \in [Monitor -> Output]
    BY DEF TypeInv, Typed, OutsideType
  <2>4. i \in Monitor
    BY DEF TypeInv, Typed, WorkType, AtWork, Task
  <2>5. PICK new : new = [kwin EXCEPT ![i].on = @ /\ i \notin plugged]
    OBVIOUS
  <2>6. PICK S \in SUBSET Monitor : S = {j \in plugged : new[j] # kwin[j]}
    BY <2>3
  <2>7. signals' = signals \o Announced("changed", S, new)
    BY <1>4, <2>5, <2>6 DEF KwinSet
  <2>8. \A j \in S : j = i
    BY <2>3, <2>5, <2>6
  <2>9. i \in S => ~new[i].on
    <3>1. PICK k \in Output : k = kwin[i]
      BY <2>3, <2>4
    <3>2. PICK on : on = (k.on /\ i \notin plugged)
      OBVIOUS
    <3>3. new[i] = [k EXCEPT !.on = on]
      BY <2>3, <2>4, <2>5, <3>1, <3>2
    <3>4. i \in S => ~on
      BY <2>6, <3>2
    <3> QED
      BY <3>3, <3>4 DEF Output
  <2>10. ASSUME missed = {}, Obeying PROVE \A j \in S \cap known : new[j].on <=> mem[j].on
    <3>1. i \in known => ~mem[i].on
      BY <1>1, <2>10 DEF Obeying
    <3> QED
      BY <2>8, <2>9, <3>1
  <2>11. ASSUME InOrder(a, known)
         PROVE  i \in known /\ ~mem[i].on
    BY <1>1, <2>11 DEF InOrder
  <2>12. ASSUME InOrder(a, known)
         PROVE  S \subseteq known /\ \A j \in S :
                    /\ new[j].on <=> mem[j].on
                    /\ mem[j].on => mem[j].pos = new[j].pos /\ mem[j].w = new[j].size
    BY <2>8, <2>9, <2>11, <2>12
  <2>13. After(a, task[a].off \ {i}) /\ unsent' \subseteq unsent
    BY <1>4
  <2>14. ASSUME free = {}, Rules(a), Calm(a), InOrder(a, known), \A n \in DOMAIN signals : signals[n].kind = "changed"
         PROVE  unsent' \ missed \subseteq task[a].off \ {i}
    <3>1. unsent' = unsent \ {i}
      BY <1>4, <2>11, <2>14
    <3>2. SUFFICES ASSUME NEW j \in unsent \ missed PROVE j \in task[a].off
      BY <3>1
    <3>3. PICK b \in Actor : Rules(b) /\ (pc[b] = "set" \/ (pc[b] = "unset" /\ j \in task[b].off))
      BY <2>14, <3>2 DEF Ordered, Unapplied
    <3>4. b = a
      BY <2>14, <3>3 DEF Calm, Rules
    <3> QED
      BY <1>1, <3>3, <3>4
  <2> QED
    BY <1>1, <2>1, <2>2, <2>7, <2>10, <2>12, <2>13, <2>14, CommandOrdered
<1> QED
  BY <1>2, <1>3, <1>4

-----------------------------------------------------------------------------
(* The end of an operation keeps Ordered.                                  *)

\* The name is that of a custom mode.
LEMMA ShowsName ==
    ASSUME NEW K, NEW m \in Mode, NEW n, NEW l, NEW s, Shows(K, m, n, s), m = "custom" => n = l
    PROVE  Shows(K, m, l, s)
BY DEF Shows, Stored, Mode

LEMMA ShowsWith ==
    ASSUME NEW mm, mem' = mm, UNCHANGED <<known, mode, customId, config>>, Shows(known, mode, customId, mm)
    PROVE  Shows(known, mode, customId, mem)'
BY DEF Shows

LEMMA ShowsNameNext ==
    ASSUME NEW m \in Mode, NEW n, NEW l, Shows(known, m, n, mem)', m = "custom" => n = l
    PROVE  Shows(known, m, l, mem)'
BY DEF Shows, Stored, Mode

\* An operation that sets the whole layout is through, but for the file.
LEMMA RuledOrdered ==
    ASSUME Ordered, free = {}, NEW a \in Actor, Rules(a), pc[a] \in {"end", "save"},
           UNCHANGED <<known, signals, mem, unsent, missed>>,
           \A b \in Actor \ {a} : pc'[b] = pc[b] /\ task'[b] = task[b],
           NEW t \in Task, t = task[a],
           \/ /\ pc'[a] = "save" /\ task'[a].op = "stored" /\ UNCHANGED <<mode, customId>>
              /\ task'[a].by = t.by /\ task'[a].scr = t.scr /\ task'[a].mode = t.mode /\ task'[a].name = t.name
           \/ pc'[a] = "idle" /\ Switched(t),
           Cardinality(known) > 1 => Shows(known, t.mode, t.name, mem)'
    PROVE  Ordered'
<1>1. Calm(a) /\ (\A n \in DOMAIN signals : Says(signals[n])) /\ InOrder(a, known)
  BY DEF Ordered, Ruled
<1>2. t.scr = known /\ (t.by # "switch" => t.mode = mode /\ (mode = "custom" => t.name = customId))
  BY <1>1 DEF InOrder
<1>3. Calm(a)' /\ (\A b \in Actor : Rules(b)' => b = a) /\ \A b \in Actor \ {a} : pc'[b] = "idle"
  BY <1>1 DEF Calm, Rules
<1>4. \A n \in DOMAIN signals' : Says(signals[n])'
  BY <1>1 DEF Says, Confirms
<1>5. Foretold'
  BY <1>4 DEF Foretold, Says, Expected
<1>6. Unapplied'
  <2>1. unsent \ missed = {}
    BY <1>1 DEF Ordered, Unapplied, Calm, Rules
  <2> QED
    BY <2>1 DEF Unapplied
<1>7. Obeying'
  BY <1>3 DEF Obeying
<1>8. CASE /\ pc'[a] = "save" /\ task'[a].op = "stored" /\ UNCHANGED <<mode, customId>>
           /\ task'[a].by = t.by /\ task'[a].scr = t.scr /\ task'[a].mode = t.mode /\ task'[a].name = t.name
  <2>1. Cardinality(known) > 1 => Prepared(task[a], known, mem)'
    BY <1>8 DEF Prepared
  <2>2. InOrder(a, known)'
    BY <1>2, <1>8, <2>1 DEF InOrder
  <2>3. Ruled'
    BY <1>3, <1>4, <2>2 DEF Ruled
  <2>4. Settling'
    <3>1. SUFFICES ASSUME Cardinality(known') > 1, ~Rules(a)' PROVE Shows(known, mode, customId, mem)'
      BY DEF Settling
    <3>2. t.mode = mode /\ (mode = "custom" => t.name = customId)
      BY <1>2, <1>8, <3>1 DEF Rules
    <3>3. Shows(known, t.mode, t.name, mem)'
      BY <3>1
    <3>4. PICK l : l = customId
      OBVIOUS
    <3>5. t.mode \in Mode
      BY DEF Task
    <3>6. Shows(known, t.mode, l, mem)'
      BY <3>2, <3>3, <3>4, <3>5, ShowsNameNext
    <3> QED
      BY <1>8, <3>2, <3>4, <3>6 DEF Shows
  <2> QED
    BY <1>5, <1>6, <1>7, <2>3, <2>4 DEF Ordered
<1>9. CASE pc'[a] = "idle" /\ Switched(t)
  <2>1. \A b \in Actor : ~Rules(b)'
    BY <1>3, <1>9 DEF Rules
  <2>2. Ruled'
    BY <2>1 DEF Ruled
  <2>3. mode' = t.mode /\ (t.mode = "custom" => t.name = customId')
    BY <1>2, <1>9 DEF Switched
  <2>4. Settling'
    <3>1. SUFFICES ASSUME Cardinality(known') > 1 PROVE Shows(known, mode, customId, mem)'
      BY DEF Settling
    <3>2. PICK l : l = customId'
      OBVIOUS
    <3>3. Shows(known, t.mode, t.name, mem)'
      BY <3>1
    <3>4. t.mode \in Mode
      BY DEF Task
    <3>5. Shows(known, t.mode, l, mem)'
      BY <2>3, <3>2, <3>3, <3>4, ShowsNameNext
    <3> QED
      BY <2>3, <3>2, <3>5 DEF Shows
  <2> QED
    BY <1>5, <1>6, <1>7, <2>2, <2>4 DEF Ordered
<1> QED
  BY <1>8, <1>9

\* A step that ends an operation that set no layout.
LEMMA PlainReturn ==
    ASSUME Ordered, NEW a \in Actor, pc[a] # "idle", ~Rules(a), DOMAIN pc = Actor, DOMAIN task = Actor,
           UNCHANGED <<known, signals, life, unsent, missed>>,
           NEW t, t = task[a], NEW K, Return(a, t, K, mem), Switched(t), free' = free
    PROVE  Ordered'
<1>1. SUFFICES ASSUME free = {} PROVE Ordered'
  BY DEF Ordered
<1>2. \A b \in Actor : ~Rules(b)
  BY <1>1 DEF Ordered, Ruled, Calm
<1>3. /\ pc'[a] = "idle" /\ \A b \in Actor \ {a} : pc'[b] = pc[b] /\ task'[b] = task[b]
      /\ mem' = mem /\ config' = config
  BY DEF Return
<1>4. t.by # "switch"
  BY DEF Rules
<1>5. mode' = mode /\ customId' = customId
  BY <1>4 DEF Switched
<1>6. ~Rules(a)'
  BY <1>3 DEF Rules
<1>7. Foretold => Foretold'
  BY <1>3 DEF Foretold, Expected
<1>8. Shows(known, mode, customId, mem) => Shows(known, mode, customId, mem)'
  BY <1>3, <1>5 DEF Shows
<1> QED
  BY <1>1, <1>2, <1>3, <1>6, <1>7, <1>8, PlainOrdered

LEMMA SavedOrdered ==
    ASSUME TypeInv, Ordered, NEW a \in Actor, Saved(a)
    PROVE  Ordered'
<1>1. PICK t \in Task : t = task[a]
  BY DEF TypeInv, Typed, WorkType, AtWork
<1>2. /\ pc[a] = "save" /\ UNCHANGED <<signals, life, known, unsent, missed>>
      /\ Return(a, t, t.scr, mem)
      /\ (Switched(t) /\ UNCHANGED free) \/ free' # {}
  BY <1>1 DEF Saved
<1>3. DOMAIN pc = Actor /\ DOMAIN task = Actor
  BY DEF TypeInv, Typed, WorkType
<1>4. CASE free' # {}
  BY <1>4 DEF Ordered
<1>5. CASE Switched(t) /\ UNCHANGED free /\ free = {} /\ Rules(a)
  <2>1. /\ pc'[a] = "idle" /\ \A b \in Actor \ {a} : pc'[b] = pc[b] /\ task'[b] = task[b]
        /\ mem' = mem /\ config' = config
    BY <1>2, <1>3 DEF Return
  <2>2. InOrder(a, known)
    BY <1>5 DEF Ordered, Ruled
  <2>3. Cardinality(known) > 1 => Prepared(t, known, mem) /\ t.op = "stored"
    BY <1>1, <1>2, <2>2 DEF InOrder
  <2>4. Cardinality(known) > 1 => Shows(known, t.mode, t.name, mem)
    BY <2>3 DEF Prepared
  <2>5. Cardinality(known) > 1 => Shows(known, t.mode, t.name, mem)'
    BY <1>2, <2>1, <2>4 DEF Shows
  <2> QED
    BY <1>1, <1>2, <1>5, <2>1, <2>5, RuledOrdered
<1>6. CASE Switched(t) /\ UNCHANGED free /\ ~Rules(a)
  BY <1>1, <1>2, <1>3, <1>6, PlainReturn
<1> QED
  BY <1>2, <1>4, <1>5, <1>6 DEF Ordered

\* Storing what is known of "only" changes no other configuration.
LEMMA OnlyStored ==
    ASSUME NEW sc \in ScreenConfig, NEW new
    PROVE  LET st == Store(sc, "only", "", new) IN st.custom = sc.custom /\ st.extend = sc.extend
<1>1. PICK f : f = MergeOnly(sc.only, new)
  OBVIOUS
<1>2. Store(sc, "only", "", new) = [sc EXCEPT !.only = f]
  BY <1>1 DEF Store
<1> QED
  BY <1>2 DEF ScreenConfig

\* The two ways to store what is there when an operation ends
LEMMA EndStored ==
    ASSUME Typed, NEW t \in Task, t.scr = known, Prepared(t, known, mem), Cardinality(known) > 1,
           UNCHANGED <<known, mem>>, NEW p,
           \/ /\ t.save /\ t.op \in {"mirror", "extend"}
              /\ config' = [config EXCEPT ![t.scr] = Store(@, "custom", t.name, ToConfigs(known, mem, p))]
           \/ /\ t.op = "only"
              /\ config' = [config EXCEPT ![t.scr] = Store(@, "only", "", ToConfigs(known, mem, p))]
    PROVE  Shows(known, t.mode, t.name, mem)'
<1>0. PICK all : all = ToConfigs(known, mem, p)
  OBVIOUS
<1>1. PICK sc \in ScreenConfig : sc = config[known]
  BY DEF Typed, EditType, WorkType
<1>2. config \in [SUBSET Monitor -> ScreenConfig] /\ known \in SUBSET Monitor
  BY DEF Typed, EditType, WorkType
<1>3. DOMAIN all = known /\ \A i \in known : all[i].on = mem[i].on
  BY <1>0 DEF ToConfigs, ToConfig
<1>4. all # Nothing
  BY <1>3, Several DEF Nothing
<1>5. CASE /\ t.save /\ t.op \in {"mirror", "extend"}
           /\ config' = [config EXCEPT ![t.scr] = Store(@, "custom", t.name, ToConfigs(known, mem, p))]
  <2>1. config'[known] = Store(sc, "custom", t.name, all)
    BY <1>0, <1>1, <1>2, <1>5
  <2>2. Stored(config'[known], "custom", t.name) = all
    <3>1. Stored(Store(sc, "custom", t.name, all), "custom", t.name) = all
      BY StoredFound
    <3> QED
      BY <2>1, <3>1
  <2>3. t.mode = "custom"
    BY <1>5 DEF Prepared
  <2>4. PICK cfg : cfg = Stored(config'[known], "custom", t.name)
    OBVIOUS
  <2>5. cfg # Nothing /\ \A i \in known \cap DOMAIN cfg : mem[i].on = cfg[i].on
    BY <1>3, <1>4, <2>2, <2>4
  <2>6. known' = known /\ mem' = mem
    OBVIOUS
  <2> QED
    BY <2>3, <2>4, <2>5, <2>6 DEF Shows
<1>6. CASE /\ t.op = "only"
           /\ config' = [config EXCEPT ![t.scr] = Store(@, "only", "", ToConfigs(known, mem, p))]
  <2>1. config'[known] = Store(sc, "only", "", all)
    BY <1>0, <1>1, <1>2, <1>6
  <2>2. PICK st : st = config'[known]
    OBVIOUS
  <2>3. st.custom = sc.custom /\ st.extend = sc.extend
    <3>1. st = Store(sc, "only", "", all)
      BY <2>1, <2>2
    <3>2. LET s == Store(sc, "only", "", all) IN s.custom = sc.custom /\ s.extend = sc.extend
      BY OnlyStored
    <3> QED
      BY <3>1, <3>2
  <2>4. t.mode \in {"custom", "extend"} => Stored(st, t.mode, t.name) = Stored(sc, t.mode, t.name)
    BY <2>3 DEF Stored
  <2>5. Shows(known, t.mode, t.name, mem)
    BY <1>6 DEF Prepared
  <2>6. t.mode \in {"custom", "mirror", "extend", "only"}
    BY DEF Task, Mode
  <2>7. known' = known /\ mem' = mem
    OBVIOUS
  <2>8. CASE t.mode \in {"mirror", "only"}
    BY <2>5, <2>7, <2>8 DEF Shows
  <2>9. CASE t.mode \in {"custom", "extend"}
    <3>1. Stored(config'[known], t.mode, t.name) = Stored(config[known], t.mode, t.name)
      BY <1>1, <2>2, <2>4, <2>9
    <3> QED
      BY <2>5, <2>7, <2>9, <3>1 DEF Shows
  <2> QED
    BY <2>6, <2>8, <2>9
<1> QED
  BY <1>5, <1>6

LEMMA EndOrdered ==
    ASSUME TypeInv, Ordered, NEW a \in Actor, End(a)
    PROVE  Ordered'
<1> DEFINE i == IF task[a].op = "mirror" \/ (task[a].op = "configs" /\ task[a].main = None) THEN MinID(known)
                ELSE task[a].main
<1>1. PICK t \in Task : t = task[a]
  BY DEF TypeInv, Typed, WorkType, AtWork
<1>2. pc[a] = "end" /\ UNCHANGED <<signals, known, unsent, missed, free>>
  BY DEF End, history
<1>3. DOMAIN pc = Actor /\ DOMAIN task = Actor /\ Typed
  BY DEF TypeInv, Typed, WorkType
<1>4. SUFFICES ASSUME free = {} PROVE Ordered'
  BY <1>2 DEF Ordered
<1>5. CASE t.op \in {"mirror", "configs"} /\ i = None
  <2>1. life' = "dead" /\ UNCHANGED <<mem, config, pc, task>> /\ UNCHANGED <<mode, customId>>
    BY <1>1, <1>5 DEF End, shown, work
  <2>2. Ruled'
    <3>1. Ruled
      BY <1>4 DEF Ordered
    <3>2. ASSUME NEW b, InOrder(b, known) PROVE InOrder(b, known)'
      <4>1. \A u : Prepared(u, known, mem) => Prepared(u, known, mem)'
        BY <1>2, <2>1 DEF Prepared, Shows
      <4> QED
        BY <1>2, <2>1, <3>2, <4>1 DEF InOrder
    <3>3. \A s : Says(s) => Says(s)'
      BY <1>2, <2>1 DEF Says, Confirms
    <3> QED
      BY <1>2, <2>1, <3>1, <3>2, <3>3 DEF Ruled, Rules, Calm
  <2>3. Unapplied' /\ (missed' = {} => Foretold' /\ Obeying')
    <3>1. Unapplied /\ (missed = {} => Foretold /\ Obeying)
      BY <1>4 DEF Ordered
    <3> QED
      BY <1>2, <2>1, <3>1 DEF Unapplied, Rules, Foretold, Expected, Obeying
  <2>4. Settling'
    BY <2>1 DEF Settling
  <2> QED
    BY <2>2, <2>3, <2>4 DEF Ordered
<1>6. CASE ~(t.op \in {"mirror", "configs"} /\ i = None)
  <2>1. /\ UNCHANGED <<life, mem>>
        /\ \/ /\ t.op \in {"mirror", "extend"} /\ t.save
              /\ Save(a, [t EXCEPT !.op = "stored"],
                      [config EXCEPT ![t.scr] = Store(@, "custom", t.name, ToConfigs(known, mem, primary'))])
              /\ UNCHANGED <<mode, customId>>
           \/ /\ t.op = "only" /\ t.save
              /\ Save(a, [t EXCEPT !.op = "stored"],
                      [config EXCEPT ![t.scr] = Store(@, "only", "", ToConfigs(known, mem, t.main))])
              /\ UNCHANGED <<mode, customId>>
           \/ /\ ~(t.save /\ t.op \in {"mirror", "extend", "only"})
              /\ Return(a, t, t.scr, mem) /\ Switched(t)
    BY <1>1, <1>6 DEF End, Return
  <2>2. ASSUME NEW cfg, Save(a, [t EXCEPT !.op = "stored"], cfg)
        PROVE  /\ pc'[a] = "save" /\ config' = cfg
               /\ task'[a].op = "stored" /\ task'[a].by = t.by /\ task'[a].scr = t.scr
               /\ task'[a].mode = t.mode /\ task'[a].name = t.name
               /\ \A b \in Actor \ {a} : pc'[b] = pc[b] /\ task'[b] = task[b]
    <3>1. PICK s : s = [t EXCEPT !.op = "stored"]
      OBVIOUS
    <3>2. Notes(s, t) /\ s.op = "stored"
      BY <3>1, NotedOp DEF Op
    <3>3. Save(a, s, cfg)
      BY <2>2, <3>1
    <3>4. /\ pc'[a] = "save" /\ config' = cfg /\ task'[a] = [s EXCEPT !.cmd = Nothing, !.off = {}]
          /\ \A b \in Actor \ {a} : pc'[b] = pc[b] /\ task'[b] = task[b]
      BY <1>3, <3>3 DEF Save
    <3>5. s \in Task /\ s.by = t.by /\ s.scr = t.scr /\ s.mode = t.mode /\ s.name = t.name
      BY <3>2 DEF Notes
    <3> QED
      BY <3>2, <3>4, <3>5 DEF Task
  <2>3. CASE Rules(a)
    <3>1. InOrder(a, known)
      BY <1>4, <2>3 DEF Ordered, Ruled
    <3>2. t.scr = known /\ (Cardinality(known) > 1 => Prepared(t, known, mem))
      BY <1>1, <3>1 DEF InOrder
    <3>3. CASE /\ t.op \in {"mirror", "extend"} /\ t.save
               /\ Save(a, [t EXCEPT !.op = "stored"],
                       [config EXCEPT ![t.scr] = Store(@, "custom", t.name, ToConfigs(known, mem, primary'))])
               /\ UNCHANGED <<mode, customId>>
      <4>1. PICK p : p = primary'
        OBVIOUS
      <4>2. PICK cfg : cfg = [config EXCEPT ![t.scr] = Store(@, "custom", t.name, ToConfigs(known, mem, p))]
        OBVIOUS
      <4>3. Save(a, [t EXCEPT !.op = "stored"], cfg)
        BY <3>3, <4>1, <4>2
      <4>4. /\ pc'[a] = "save" /\ config' = cfg
            /\ task'[a].op = "stored" /\ task'[a].by = t.by /\ task'[a].scr = t.scr
            /\ task'[a].mode = t.mode /\ task'[a].name = t.name
            /\ \A b \in Actor \ {a} : pc'[b] = pc[b] /\ task'[b] = task[b]
        BY <2>2, <4>3
      <4>5. Cardinality(known) > 1 => Shows(known, t.mode, t.name, mem)'
        BY <1>2, <1>3, <2>1, <3>2, <3>3, <4>2, <4>4, EndStored
      <4> QED
        BY <1>1, <1>2, <1>4, <2>1, <2>3, <3>3, <4>4, <4>5, RuledOrdered
    <3>4. CASE /\ t.op = "only" /\ t.save
               /\ Save(a, [t EXCEPT !.op = "stored"],
                       [config EXCEPT ![t.scr] = Store(@, "only", "", ToConfigs(known, mem, t.main))])
               /\ UNCHANGED <<mode, customId>>
      <4>1. PICK p : p = t.main
        OBVIOUS
      <4>2. PICK cfg : cfg = [config EXCEPT ![t.scr] = Store(@, "only", "", ToConfigs(known, mem, p))]
        OBVIOUS
      <4>3. Save(a, [t EXCEPT !.op = "stored"], cfg)
        BY <3>4, <4>1, <4>2
      <4>4. /\ pc'[a] = "save" /\ config' = cfg
            /\ task'[a].op = "stored" /\ task'[a].by = t.by /\ task'[a].scr = t.scr
            /\ task'[a].mode = t.mode /\ task'[a].name = t.name
            /\ \A b \in Actor \ {a} : pc'[b] = pc[b] /\ task'[b] = task[b]
        BY <2>2, <4>3
      <4>5. Cardinality(known) > 1 => Shows(known, t.mode, t.name, mem)'
        BY <1>2, <1>3, <2>1, <3>2, <3>4, <4>2, <4>4, EndStored
      <4> QED
        BY <1>1, <1>2, <1>4, <2>1, <2>3, <3>4, <4>4, <4>5, RuledOrdered
    <3>5. CASE /\ ~(t.save /\ t.op \in {"mirror", "extend", "only"})
               /\ Return(a, t, t.scr, mem) /\ Switched(t)
      <4>1. /\ pc'[a] = "idle" /\ \A b \in Actor \ {a} : pc'[b] = pc[b] /\ task'[b] = task[b]
            /\ config' = config
        BY <1>3, <3>5 DEF Return
      <4>2. Cardinality(known) > 1 => Shows(known, t.mode, t.name, mem)
        BY <3>2, <3>5 DEF Prepared
      <4>3. Cardinality(known) > 1 => Shows(known, t.mode, t.name, mem)'
        BY <1>2, <2>1, <4>1, <4>2 DEF Shows
      <4> QED
        BY <1>1, <1>2, <1>4, <2>1, <2>3, <3>5, <4>1, <4>3, RuledOrdered
    <3> QED
      BY <2>1, <3>3, <3>4, <3>5
  <2>4. CASE ~Rules(a)
    <3>1. t.op \notin {"mirror", "extend", "only"}
      BY <1>1, <1>2, <2>4 DEF Rules
    <3>2. Return(a, t, t.scr, mem) /\ Switched(t)
      BY <2>1, <3>1
    <3> QED
      BY <1>1, <1>2, <1>3, <2>1, <2>4, <3>2, PlainReturn
  <2> QED
    BY <2>3, <2>4
<1> QED
  BY <1>5, <1>6

-----------------------------------------------------------------------------
(* The changes of the outputs by others keep Ordered.                      *)

\* The last signal of an output tells the settings that it has.
LEMMA LastSignal ==
    ASSUME IsSeq(signals), Truthful, NEW i, NEW l \in DOMAIN signals, signals[l].m = i,
           \A n \in DOMAIN signals : signals[n].kind \in AnyKind
    PROVE  \E n \in DOMAIN signals : signals[n].m = i /\ Like(signals[n], kwin[i])
<1>1. PICK S : S = {n \in DOMAIN signals : signals[n].m = i}
  OBVIOUS
<1>2. Len(signals) \in Nat /\ DOMAIN signals = 1 .. Len(signals)
  BY SeqDomain
<1>3. S \in SUBSET Nat /\ S # {}
  BY <1>1, <1>2
<1>4. IsFiniteSet(S)
  <2>1. IsFiniteSet(1 .. Len(signals)) /\ S \subseteq 1 .. Len(signals)
    BY <1>1, <1>2, FS_Interval
  <2> QED
    BY <2>1, FS_Subset
<1>5. PICK n \in S : \A k \in S : k <= n
  BY <1>3, <1>4, GreatestNumber
<1>6. n \in DOMAIN signals /\ signals[n].m = i
  BY <1>1
<1>7. ASSUME Coming(signals, n, i, AnyKind) PROVE FALSE
  <2>1. PICK k \in DOMAIN signals : n < k /\ signals[k].m = i
    BY <1>7 DEF Coming
  <2>2. k \in S /\ k \in Nat /\ n \in Nat
    BY <1>1, <1>3, <2>1
  <2> QED
    BY <1>5, <2>1, <2>2
<1> QED
  BY <1>6, <1>7 DEF Truthful

\* At rest, the outputs that are on are those that are known to be.
LEMMA KnownShown ==
    ASSUME AgreesInv, Idle, Foretold, \A n \in DOMAIN signals : signals[n].kind = "changed",
           NEW i \in (known \cap plugged) \ unsent
    PROVE  mem[i].on <=> kwin[i].on
<1>1. Shape /\ Truthful /\ Due(i)
  BY DEF AgreesInv, Settled
<1>2. CASE Fits(mem[i], kwin[i])
  BY <1>2 DEF Fits
<1>3. CASE Coming(signals, 0, i, AnyKind)
  <2>1. PICK l \in DOMAIN signals : signals[l].m = i
    BY <1>3 DEF Coming
  <2>2. PICK n \in DOMAIN signals : signals[n].m = i /\ Like(signals[n], kwin[i])
    BY <1>1, <2>1, LastSignal DEF Shape
  <2>3. signals[n].on <=> mem[i].on
    BY <2>2 DEF Foretold, Expected
  <2> QED
    BY <2>2, <2>3 DEF Like
<1>4. CASE \E a \in Actor : Pending(a, i)
  BY <1>4 DEF Idle, Pending
<1> QED
  BY <1>1, <1>2, <1>3, <1>4 DEF Due

LEMMA ChangeOrdered ==
    ASSUME TypeInv, AgreesInv, Ordered, life # "dead", NEW i \in Monitor, NEW kind \in AnyKind,
           NEW on \in BOOLEAN, NEW p, NEW size, NEW why, Change(i, kind, on, p, size, why),
           kind = "changed" => i \in plugged /\ (why = {} => (on <=> kwin[i].on)),
           kind = "added" => i \notin plugged, kind = "removed" => i \in plugged
    PROVE  Ordered'
<1> SUFFICES ASSUME free' = {}
             PROVE  Ruled' /\ Unapplied' /\ (missed' = {} => Foretold' /\ Obeying' /\ Settling')
  BY DEF Ordered
<1>1. /\ free = {} /\ why = {} /\ Idle
      /\ UNCHANGED <<known, life, mode, customId, mem, config, pc, task>>
  BY DEF Change, shown, work
<1>2. \A a \in Actor : pc[a] = "idle" /\ pc'[a] = "idle"
  BY <1>1 DEF Idle
<1>3. \A a \in Actor : ~Rules(a) /\ ~Rules(a)'
  BY <1>2 DEF Rules
<1>4. unsent \ missed = {}
  BY <1>1, <1>2 DEF Ordered, Unapplied
<1>5. Unapplied'
  <2>1. unsent' \ missed' \subseteq unsent \ missed
    BY DEF Change
  <2> QED
    BY <1>4, <2>1 DEF Unapplied
<1>6. ASSUME missed' = {} PROVE Foretold'
  <2>1. /\ Listening /\ signals' = signals \o Announced(kind, {i}, kwin') /\ missed = {}
        /\ kwin' = [kwin EXCEPT ![i] = [on |-> on, pos |-> p, size |-> size]]
    BY <1>6 DEF Change
  <2>2. Foretold /\ unsent = {} /\ Shape
    BY <1>1, <1>4, <2>1 DEF Ordered, AgreesInv
  <2>3. PICK k : k = kwin'
    OBVIOUS
  <2>4. k[i].on = on
    BY <2>1, <2>2, <2>3 DEF Shape
  <2>5. ASSUME \A n \in DOMAIN signals : signals[n].kind = "changed",
               NEW s, s.m \in {i}, s.kind = kind, Like(s, k[s.m])
        PROVE  Expected(s)
    <3>1. i \in known <=> i \in plugged
      BY <2>1, <2>5 DEF AgreesInv, Present, Coming, Listening
    <3>2. CASE kind = "changed"
      <4>1. i \in known => (mem[i].on <=> kwin[i].on)
        BY <1>1, <2>2, <2>5, <3>1, KnownShown
      <4> QED
        BY <1>1, <2>4, <2>5, <3>2, <4>1 DEF Expected, Like
    <3>3. CASE kind = "added"
      BY <2>5, <3>1, <3>3 DEF Expected
    <3>4. CASE kind = "removed"
      BY <2>5, <3>1, <3>4 DEF Expected
    <3> QED
      BY <3>2, <3>3, <3>4 DEF AnyKind
  <2>6. signals' = signals \o Announced(kind, {i}, k) /\ {i} \in SUBSET Monitor /\ IsSeq(signals)
    BY <2>1, <2>2, <2>3 DEF Shape
  <2>7. (\A n \in DOMAIN signals : signals[n].kind = "changed") =>
            \A s : s.m \in {i} /\ s.kind = kind /\ Like(s, k[s.m]) => Expected(s)
    BY <2>5
  <2>8. UNCHANGED <<known, mem>> /\ Foretold
    BY <1>1, <2>2
  <2> QED
    BY <2>6, <2>7, <2>8, ForetoldAppended
<1>7. Obeying'
  BY <1>2 DEF Obeying
<1>8. missed' = {} => Settling'
  <2>1. missed' = {} => missed = {}
    BY DEF Change
  <2>2. missed = {} => Settling
    BY <1>1 DEF Ordered
  <2> QED
    BY <1>1, <1>3, <2>1, <2>2 DEF Settling, Shows
<1>9. Ruled'
  BY <1>3 DEF Ruled
<1> QED
  BY <1>5, <1>6, <1>7, <1>8, <1>9

LEMMA CompositorOrdered ==
    ASSUME TypeInv, AgreesInv, Ordered, life # "dead", CompositorStep
    PROVE  Ordered'
<1>1. {"added", "removed", "changed"} \subseteq AnyKind
  BY DEF AnyKind
<1>2. ASSUME NEW i \in Monitor, NEW p \in Pos, Plug(i, p) PROVE Ordered'
  <2>1. i \notin plugged /\ Change(i, "added", TRUE, p, Best(i), {})
    BY <1>2 DEF Plug
  <2> QED
    BY <1>1, <2>1, ChangeOrdered
<1>3. ASSUME NEW i \in Monitor, Unplug(i) PROVE Ordered'
  <2>1. i \in plugged /\ Change(i, "removed", FALSE, <<0, 0>>, Best(i), {})
    BY <1>3 DEF Unplug
  <2> QED
    BY <1>1, <2>1, ChangeOrdered
<1>4. ASSUME NEW i \in Monitor, NEW on \in BOOLEAN, NEW p \in Pos, Move(i, on, p) PROVE Ordered'
  <2>1. PICK why : why = IF on = kwin[i].on THEN {} ELSE {"taken"}
    OBVIOUS
  <2>2. i \in plugged /\ Change(i, "changed", on, p, kwin[i].size, why)
    BY <1>4, <2>1 DEF Move
  <2>3. why = {} => (on <=> kwin[i].on)
    BY <2>1
  <2> QED
    BY <1>1, <2>2, <2>3, ChangeOrdered
<1> QED
  BY <1>2, <1>3, <1>4 DEF CompositorStep

-----------------------------------------------------------------------------
(* The signals keep Ordered.                                               *)

\* Other monitors are known now: the display mode is applied.
LEMMA UpdateOrdered ==
    ASSUME TwoEven, TypeInv, Ordered, pc[Loop] = "idle", Listening, UNCHANGED <<mode, customId>>,
           NEW K \in SUBSET Monitor, NEW mm \in Settings(K), known' = K, K # known, UpdateMonitorsId(K, mm),
           unsent' \subseteq K, unsent' \ missed' \subseteq unsent \ missed
    PROVE  Ordered'
<1>1. ids = known /\ Loop \in Actor /\ Loop \notin Caller
  BY LoopRests, ConstantsAssumption DEF ConstantsAssumption
<1>2. ApplyDisplayMode(Loop, "ids", K, mm) /\ Ruling(Loop, K, Calm(Loop) /\ signals' = <<>>)
  BY <1>1 DEF UpdateMonitorsId
<1>3. Typed
  BY DEF TypeInv
<1>4. PICK u : u = For("ids", mode, customId, K)
  OBVIOUS
<1>5. u.by = "ids" /\ u.scr = K /\ u.mode = mode /\ u.name = customId
  BY <1>4 DEF For, Rest
<1>6. Done(Loop, u, K)
  BY <1>1, <1>2, <1>3, <1>4, ApplyDisplayModeDone
<1>7. ASSUME mode = "custom" => primary \in K PROVE Outcome(Loop, u, K, mm)
  <2>1. "ids" \in {"ids", "init"}
    OBVIOUS
  <2> QED
    BY <1>1, <1>2, <1>3, <1>4, <1>7, <2>1, ApplyDisplayModeOrders
<1>8. PICK calm \in BOOLEAN : calm = (Calm(Loop) /\ signals' = <<>>)
  OBVIOUS
<1>9. Ruling(Loop, K, calm) /\ (calm => Calm(Loop) /\ signals' = <<>>)
  BY <1>2, <1>8 DEF Ruling
<1> QED
  BY <1>1, <1>3, <1>5, <1>6, <1>7, <1>9, RulingOrdered

\* A signal brings what is known, or brings nothing that can be removed.
LEMMA StrangeOrdered ==
    ASSUME AgreesInv, Ordered, signals # <<>>, NEW s, s = Head(signals),
           s.kind \in {"added", "removed"}, s.kind = "added" <=> s.m \in known,
           UNCHANGED <<pc, task, free, missed>>, unsent' \subseteq unsent
    PROVE  Ordered'
<1> SUFFICES ASSUME free = {}
             PROVE  Ruled' /\ Unapplied' /\ (missed' = {} => Foretold' /\ Obeying' /\ Settling')
  BY DEF Ordered
<1>1. IsSeq(signals)
  BY DEF AgreesInv, Shape
<1>2. 1 \in DOMAIN signals /\ s = signals[1] /\ \A k \in DOMAIN signals : ~(k < 1)
  <2>1. 1 \in DOMAIN signals /\ s = signals[1]
    BY <1>1, Rested
  <2>2. Len(signals) \in Nat /\ DOMAIN signals = 1 .. Len(signals)
    BY <1>1, SeqDomain
  <2> QED
    BY <2>1, <2>2
<1>3. \A a \in Actor : ~Rules(a) /\ ~Rules(a)'
  <2>1. \A a \in Actor : ~Rules(a)
    BY <1>2 DEF Ordered, Ruled, Says
  <2> QED
    BY <2>1 DEF Rules
<1>4. missed # {}
  <2>1. ~Expected(s)
    BY DEF Expected
  <2> QED
    BY <1>2, <2>1 DEF Ordered, Foretold
<1>5. Unapplied'
  BY <1>3 DEF Ordered, Unapplied
<1> QED
  BY <1>3, <1>4, <1>5 DEF Ruled

\* A change of a known monitor is handled.
LEMMA ForetoldHandled ==
    ASSUME IsSeq(signals), signals # <<>>, signals' = Tail(signals), signals[1].kind = "changed",
           known' = known, \A i \in known : mem'[i].on <=> mem[i].on, Foretold
    PROVE  Foretold'
<1>1. SUFFICES ASSUME NEW n \in DOMAIN signals', \A k \in DOMAIN signals' : k < n => signals'[k].kind = "changed"
               PROVE  Expected(signals[n])'
  BY DEF Foretold
<1>2. PICK q : q = signals'
  OBVIOUS
<1>3. /\ \A l \in DOMAIN q : l \in Nat \ {0} /\ l + 1 \in DOMAIN signals /\ q[l] = signals[l + 1]
      /\ \A l \in DOMAIN signals : l = 1 \/ (l - 1 \in DOMAIN q /\ q[l - 1] = signals[l])
  BY <1>2, Rested
<1>4. DOMAIN signals \subseteq Nat
  BY SeqDomain
<1>5. n \in DOMAIN q /\ \A k \in DOMAIN q : k < n => q[k].kind = "changed"
  BY <1>1, <1>2
<1>6. ASSUME NEW k \in DOMAIN signals, k < n + 1 PROVE signals[k].kind = "changed"
  <2>1. CASE k = 1
    BY <2>1
  <2>2. CASE k # 1
    <3>1. k \in Nat /\ n \in Nat
      BY <1>3, <1>4, <1>5
    <3>2. k - 1 < n
      BY <1>6, <3>1
    <3>3. k - 1 \in DOMAIN q /\ q[k - 1] = signals[k]
      BY <1>3, <2>2
    <3> QED
      BY <1>5, <3>2, <3>3
  <2> QED
    BY <2>1, <2>2
<1>7. Expected(q[n])
  <2>1. n + 1 \in DOMAIN signals /\ q[n] = signals[n + 1]
    BY <1>3, <1>5
  <2>2. Expected(signals[n + 1])
    BY <1>6, <2>1 DEF Foretold
  <2> QED
    BY <2>1, <2>2
<1>8. \A s : Expected(s) => Expected(s)'
  BY DEF Expected
<1> QED
  BY <1>2, <1>7, <1>8

\* A signal tells of a monitor what is known.
LEMMA ConfirmedOrdered ==
    ASSUME TypeInv, Ordered, signals # <<>>, signals' = Tail(signals), NEW s \in Signal, s = Head(signals),
           s.kind = "changed", s.m \in known, Confirms(s), mem' = [mem EXCEPT ![s.m] = Seen(s)],
           unsent' \subseteq unsent,
           UNCHANGED <<known, life, mode, customId, config, pc, task, missed, free>>
    PROVE  Ordered'
<1> SUFFICES ASSUME free = {}
             PROVE  Ruled' /\ Unapplied' /\ (missed' = {} => Foretold' /\ Obeying' /\ Settling')
  BY DEF Ordered
<1>1. mem \in Settings(known) /\ known \subseteq Monitor /\ IsSeq(signals)
  <2>1. signals \in Seq(Signal)
    BY DEF TypeInv, Typed, OutsideType
  <2> QED
    BY <2>1, SeqOfOwn DEF TypeInv, Typed, WorkType, EditType
<1>2. /\ 1 \in DOMAIN signals /\ s = signals[1]
      /\ \A n \in DOMAIN signals' : n + 1 \in DOMAIN signals /\ signals'[n] = signals[n + 1]
      /\ \A k \in DOMAIN signals : ~(k < 1)
  <2>1. Len(signals) \in Nat /\ DOMAIN signals = 1 .. Len(signals)
    BY <1>1, SeqDomain
  <2>2. /\ 1 \in DOMAIN signals /\ s = signals[1]
        /\ \A n \in DOMAIN signals' : n + 1 \in DOMAIN signals /\ signals'[n] = signals[n + 1]
    BY <1>1, Rested
  <2> QED
    BY <2>1, <2>2
<1>3. PICK v : v = Seen(s)
  OBVIOUS
<1>4. v.on = s.on /\ v.pos = s.pos /\ v.size = s.size /\ v.w = s.size /\ s.on \in BOOLEAN
  BY <1>3 DEF Seen, Signal
<1>5. mem'[s.m] = v /\ \A i \in Monitor \ {s.m} : mem'[i] = mem[i]
  BY <1>1, <1>3 DEF Settings
<1>6. mem[s.m].on \in BOOLEAN
  BY <1>1 DEF Settings, Setting
<1>7. mem[s.m].on => mem[s.m].pos = s.pos /\ mem[s.m].w = s.size
  BY DEF Confirms
<1>8. ASSUME s.on <=> mem[s.m].on
      PROVE  \A i \in Monitor : /\ mem'[i].on = mem[i].on
                                /\ mem[i].on => mem'[i].pos = mem[i].pos /\ mem'[i].w = mem[i].w
                                /\ mem[i].on /\ mem[i].w = mem[i].size => mem'[i].size = mem[i].size
  BY <1>4, <1>5, <1>6, <1>7, <1>8
<1>9. ASSUME s.on <=> mem[s.m].on, NEW m, NEW n, Shows(known, m, n, mem)
      PROVE  Shows(known, m, n, mem)'
  <2>1. PICK mm : mm = mem'
    OBVIOUS
  <2>2. \A i \in known : mem[i].on = mm[i].on /\ (mm[i].on => mem[i].pos = mm[i].pos)
    BY <1>1, <1>8, <1>9, <2>1
  <2>3. Shows(known, m, n, mm)
    BY <1>9, <2>2, ShowsAlike
  <2> QED
    BY <2>1, <2>3 DEF Shows
<1>10. Ruled'
  <2>1. SUFFICES ASSUME NEW a \in Actor, Rules(a)
                 PROVE  Calm(a)' /\ (\A n \in DOMAIN signals' : Says(signals[n])') /\ InOrder(a, known)'
    BY DEF Ruled, Rules
  <2>2. Calm(a) /\ (\A n \in DOMAIN signals : Says(signals[n])) /\ InOrder(a, known)
    BY <2>1 DEF Ordered, Ruled
  <2>3. s.on <=> mem[s.m].on
    BY <1>2, <2>2 DEF Says
  <2>4. /\ \A i \in Monitor : /\ mem'[i].on = mem[i].on
                              /\ mem[i].on => mem'[i].pos = mem[i].pos /\ mem'[i].w = mem[i].w
                              /\ mem[i].on /\ mem[i].w = mem[i].size => mem'[i].size = mem[i].size
    BY <1>8, <2>3
  <2>5. ASSUME NEW n \in DOMAIN signals' PROVE Says(signals[n])'
    <3>1. PICK q : q = signals'
      OBVIOUS
    <3>2. Says(q[n])
      BY <1>2, <2>2, <2>5, <3>1
    <3>3. PICK i, x : x = q[n] /\ i = x.m
      OBVIOUS
    <3>4. x.kind = "changed" /\ i \in known /\ (x.on <=> mem[i].on) /\ (~mem[i].on \/ (mem[i].pos = x.pos /\ mem[i].w = x.size))
      BY <3>2, <3>3 DEF Says, Confirms
    <3>5. (x.on <=> mem'[i].on) /\ (~mem'[i].on \/ (mem'[i].pos = x.pos /\ mem'[i].w = x.size)) /\ i \in known'
      BY <1>1, <2>4, <3>4
    <3>6. Says(x)'
      BY <3>3, <3>4, <3>5 DEF Says, Confirms
    <3> QED
      BY <3>1, <3>3, <3>6
  <2>6. InOrder(a, known)'
    <3>1. PICK t \in Task : t = task[a]
      BY DEF TypeInv, Typed, WorkType, AtWork
    <3>2. Prepared(t, known, mem) => Prepared(t, known, mem)'
      <4>1. Shows(known, t.mode, t.name, mem) => Shows(known, t.mode, t.name, mem)'
        BY <1>9, <2>3
      <4> QED
        BY <1>1, <2>4, <4>1 DEF Prepared
    <3>3. ASSUME pc[a] = "set"
          PROVE  LET on == DOMAIN t.cmd
                 IN  /\ on \subseteq known /\ known \subseteq on \cup t.off
                     /\ \A i \in on : /\ mem'[i].on /\ mem'[i].w = mem'[i].size
                                      /\ t.cmd[i] = [on |-> TRUE, pos |-> mem'[i].pos, size |-> mem'[i].size]
      <4>1. PICK c : c = t.cmd
        OBVIOUS
      <4>2. /\ DOMAIN c \subseteq known /\ known \subseteq DOMAIN c \cup t.off
            /\ \A i \in DOMAIN c : /\ mem[i].on /\ mem[i].w = mem[i].size
                                   /\ c[i] = [on |-> TRUE, pos |-> mem[i].pos, size |-> mem[i].size]
        BY <2>2, <3>1, <3>3, <4>1 DEF InOrder
      <4>3. \A i \in DOMAIN c : mem'[i].on /\ mem'[i].pos = mem[i].pos /\ mem'[i].w = mem[i].w /\ mem'[i].size = mem[i].size
        BY <1>1, <2>4, <4>2
      <4> QED
        BY <4>1, <4>2, <4>3
    <3>4. \A i \in t.off : i \in Monitor
      BY <3>1 DEF Task
    <3> QED
      BY <2>2, <2>4, <3>1, <3>2, <3>3, <3>4 DEF InOrder
  <2> QED
    BY <2>2, <2>5, <2>6 DEF Calm
<1>11. Unapplied'
  BY DEF Ordered, Unapplied, Rules
<1>12. ASSUME missed = {} PROVE Foretold' /\ Obeying' /\ Settling'
  <2>1. Foretold /\ Obeying /\ Settling
    BY <1>12 DEF Ordered
  <2>2. s.on <=> mem[s.m].on
    BY <1>2, <2>1 DEF Foretold, Expected
  <2>3. \A i \in known : mem'[i].on <=> mem[i].on
    BY <1>1, <1>8, <2>2
  <2>4. Foretold'
    BY <1>1, <1>2, <2>1, <2>3, ForetoldHandled
  <2>5. Obeying'
    BY <2>1, <2>3 DEF Obeying
  <2>6. Shows(known, mode, customId, mem) => Shows(known, mode, customId, mem)'
    <3>1. PICK mm : mm = mem'
      OBVIOUS
    <3>2. \A i \in known : mem[i].on = mm[i].on /\ (mm[i].on => mem[i].pos = mm[i].pos)
      BY <1>1, <1>8, <2>2, <3>1
    <3>3. Shows(known, mode, customId, mem) => Shows(known, mode, customId, mm)
      BY <3>2, ShowsAlike
    <3> QED
      BY <3>1, <3>3, ShowsWith
  <2>7. Settling'
    BY <2>1, <2>6 DEF Settling, Rules
  <2> QED
    BY <2>4, <2>5, <2>7
<1> QED
  BY <1>10, <1>11, <1>12

\* A signal tells something else: what is known is applied again.
LEMMA CheckOrdered ==
    ASSUME TypeInv, Ordered, pc[Loop] = "idle", signals # <<>>, signals' = Tail(signals),
           NEW s, s = Head(signals), s.kind = "changed", ~Confirms(s),
           NEW u \in Task, u.by = "call", u.op = "check", Start(Loop, u, known, mem),
           UNCHANGED <<known, life, mode, customId, unsent, missed, free>>
    PROVE  Ordered'
<1>1. /\ Typed /\ mem \in Settings(known) /\ known \in SUBSET Monitor /\ IsSeq(signals) /\ mode \in Mode
      /\ DOMAIN pc = Actor /\ DOMAIN task = Actor /\ Loop \in Actor
  <2>1. signals \in Seq(Signal)
    BY DEF TypeInv, Typed, OutsideType
  <2> QED
    BY <2>1, SeqOfOwn DEF TypeInv, Typed, WorkType, EditType, ShownType, Actor
<1>2. 1 \in DOMAIN signals /\ s = signals[1] /\ \A k \in DOMAIN signals : ~(k < 1)
  <2>1. Len(signals) \in Nat /\ DOMAIN signals = 1 .. Len(signals)
    BY <1>1, SeqDomain
  <2>2. 1 \in DOMAIN signals /\ s = signals[1]
    BY <1>1, Rested
  <2> QED
    BY <2>1, <2>2
<1>3. /\ \A i \in Monitor : mem'[i].on = mem[i].on
      /\ mode # "custom" => mem' = mem
      /\ config' = config /\ task'[Loop].op = "check" /\ task'[Loop].by = "call"
      /\ pc'[Loop] = "set" => \A i \in DOMAIN task'[Loop].cmd : mem'[i].on /\ task'[Loop].cmd[i].on
      /\ \A i \in task'[Loop].off : ~mem'[i].on
  <2>1. /\ \A i \in Monitor : mem'[i].on = mem[i].on
        /\ mode # "custom" => mem' = mem
        /\ config' = config /\ task'[Loop].op = u.op /\ task'[Loop].by = u.by
        /\ pc'[Loop] = "set" => \A i \in DOMAIN task'[Loop].cmd : mem'[i].on /\ task'[Loop].cmd[i].on
        /\ \A i \in task'[Loop].off : ~mem'[i].on
    BY <1>1, StartPlain
  <2> QED
    BY <2>1
<1>4. \A b \in Actor \ {Loop} : pc'[b] = pc[b] /\ task'[b] = task[b]
  BY <1>1 DEF Start
<1>5. free' = {} => free = {} /\ \A b \in Actor : ~Rules(b)
  <2>1. ~Says(s)
    BY DEF Says
  <2> QED
    BY <1>2, <2>1 DEF Ordered, Ruled
<1>6. ~Rules(Loop)'
  BY <1>3 DEF Rules
<1>7. \A i \in known : mem'[i].on <=> mem[i].on
  BY <1>1, <1>3
<1>8. Foretold => Foretold'
  BY <1>1, <1>2, <1>7, ForetoldHandled
<1>9. Shows(known, mode, customId, mem) => Shows(known, mode, customId, mem)'
  BY <1>1, <1>3, ShowsKept
<1> QED
  BY <1>1, <1>3, <1>4, <1>5, <1>6, <1>7, <1>8, <1>9, PlainOrdered

LEMMA SignalOrdered ==
    ASSUME TwoEven, TypeInv, AgreesInv, Ordered, SignalStep
    PROVE  Ordered'
<1>1. PICK s : s = Head(signals)
  OBVIOUS
<1>2. /\ Listening /\ pc[Loop] = "idle" /\ signals # <<>> /\ signals' = Tail(signals)
      /\ UNCHANGED <<life, mode, customId>>
  BY DEF SignalStep, OutputAdded, OutputRemoved, OutputChanged, Handling
<1>3. mem \in Settings(known) /\ known \in SUBSET Monitor /\ unsent \subseteq known /\ signals \in Seq(Signal)
  BY DEF TypeInv, Typed, WorkType, EditType, OutsideType
<1>4. s \in Signal
  BY <1>1, <1>2, <1>3, HeadTailProperties
<1>5. /\ [mem EXCEPT ![s.m] = Seen(s)] \in Settings(known \cup {s.m})
      /\ [mem EXCEPT ![s.m] = Off] \in Settings(known \ {s.m})
      /\ s.m \in Monitor
  BY <1>3, <1>4, SeenType
<1>6. ids = known
  BY <1>2, LoopRests
<1>7. CASE OutputAdded
  <2>1. PICK K \in SUBSET Monitor : K = known \cup {s.m}
    BY <1>3, <1>5
  <2>2. PICK mm \in Settings(K) : mm = [mem EXCEPT ![s.m] = Seen(s)]
    BY <1>5, <2>1
  <2>3. /\ s.kind = "added" /\ known' = K /\ UpdateMonitorsId(K, mm)
        /\ unsent' = unsent \ {s.m} /\ UNCHANGED missed
    BY <1>1, <1>7, <2>1, <2>2 DEF OutputAdded, Handling
  <2>4. CASE s.m \in known
    <3>1. UNCHANGED <<pc, task, free>>
      BY <1>6, <2>1, <2>3, <2>4 DEF UpdateMonitorsId
    <3> QED
      BY <1>1, <1>2, <2>3, <2>4, <3>1, StrangeOrdered
  <2>5. CASE s.m \notin known
    <3>1. K # known /\ unsent' \subseteq K /\ unsent' \ missed' \subseteq unsent \ missed
      BY <1>3, <2>1, <2>3, <2>5
    <3> QED
      BY <1>2, <2>3, <3>1, UpdateOrdered
  <2> QED
    BY <2>4, <2>5
<1>8. CASE OutputRemoved
  <2>1. PICK K \in SUBSET Monitor : K = known \ {s.m}
    BY <1>3
  <2>2. PICK mm \in Settings(K) : mm = [mem EXCEPT ![s.m] = Off]
    BY <1>5, <2>1
  <2>3. /\ s.kind = "removed" /\ unsent' = unsent \ {s.m} /\ UNCHANGED missed
        /\ IF s.m \in known THEN known' = K /\ UpdateMonitorsId(K, mm) ELSE UNCHANGED <<pc, task, free>>
    BY <1>1, <1>8, <2>1, <2>2 DEF OutputRemoved, Handling, work
  <2>4. CASE s.m \notin known
    BY <1>1, <1>2, <2>3, <2>4, StrangeOrdered
  <2>5. CASE s.m \in known
    <3>1. K # known /\ unsent' \subseteq K /\ unsent' \ missed' \subseteq unsent \ missed
      BY <1>3, <2>1, <2>3, <2>5
    <3> QED
      BY <1>2, <2>3, <2>5, <3>1, UpdateOrdered
  <2> QED
    BY <2>4, <2>5
<1>9. CASE OutputChanged /\ s.m \notin known
  <2>1. PICK K \in SUBSET Monitor : K = known \cup {s.m}
    BY <1>3, <1>5
  <2>2. PICK mm \in Settings(K) : mm = [mem EXCEPT ![s.m] = Seen(s)]
    BY <1>5, <2>1
  <2>3. known' = K /\ UpdateMonitorsId(K, mm) /\ missed' = missed \ {s.m} /\ UNCHANGED unsent
    BY <1>1, <1>9, <2>1, <2>2 DEF OutputChanged
  <2>4. K # known /\ unsent' \subseteq K /\ unsent' \ missed' \subseteq unsent \ missed
    BY <1>3, <1>9, <2>1, <2>3
  <2> QED
    BY <1>2, <2>3, <2>4, UpdateOrdered
<1>10. CASE OutputChanged /\ s.m \in known /\ Confirms(s)
  <2>1. /\ s.kind = "changed" /\ mem' = [mem EXCEPT ![s.m] = Seen(s)] /\ unsent' = unsent \ {s.m}
        /\ UNCHANGED <<known, config, pc, task, missed, free>>
    BY <1>1, <1>10 DEF OutputChanged, Handling
  <2> QED
    BY <1>1, <1>2, <1>4, <1>10, <2>1, ConfirmedOrdered
<1>11. CASE OutputChanged /\ s.m \in known /\ ~Confirms(s)
  <2>1. /\ s.kind = "changed"
        /\ Start(Loop, [For("call", mode, "", known) EXCEPT !.op = "check"], known, mem)
        /\ UNCHANGED <<known, unsent, missed, free>>
    BY <1>1, <1>11 DEF OutputChanged, Handling
  <2>2. PICK t : t = For("call", mode, "", known)
    OBVIOUS
  <2>3. t \in Task /\ t.by = "call"
    BY <2>2, CallTask DEF TypeInv, Typed, ShownType
  <2>4. PICK u : u = [t EXCEPT !.op = "check"]
    OBVIOUS
  <2>5. u \in Task /\ u.by = "call" /\ u.op = "check"
    BY <2>3, <2>4, NotedOp DEF Op, Notes
  <2>6. Start(Loop, u, known, mem)
    BY <2>1, <2>2, <2>4
  <2> QED
    BY <1>1, <1>2, <1>11, <2>1, <2>5, <2>6, CheckOrdered
<1> QED
  BY <1>7, <1>8, <1>9, <1>10, <1>11 DEF SignalStep

-----------------------------------------------------------------------------
(* Ordered is an invariant, and what Honoured needs.                       *)

\* A step that changes nothing of this but how far main has come.
LEMMA SameOrdered ==
    ASSUME Ordered, life' \in {"started", "ready"} => life \in {"started", "ready"},
           UNCHANGED <<signals, known, mem, config, mode, customId, pc, task, unsent, missed, free>>
    PROVE  Ordered'
<1> SUFFICES ASSUME free = {}
             PROVE  Ruled' /\ Unapplied' /\ (missed' = {} => Foretold' /\ Obeying' /\ Settling')
  BY DEF Ordered
<1>1. Ruled /\ Unapplied /\ (missed = {} => Foretold /\ Obeying /\ Settling)
  BY DEF Ordered
<1>2. \A m, n : Shows(known, m, n, mem) => Shows(known, m, n, mem)'
  BY DEF Shows
<1>3. \A a \in Actor : InOrder(a, known) => InOrder(a, known)'
  <2>1. \A t : Prepared(t, known, mem) => Prepared(t, known, mem)'
    BY <1>2 DEF Prepared
  <2> QED
    BY <2>1 DEF InOrder
<1>4. \A s : (Says(s) => Says(s)') /\ (Expected(s) => Expected(s)')
  BY DEF Says, Confirms, Expected
<1>5. \A a \in Actor : (Rules(a)' <=> Rules(a)) /\ (Calm(a)' <=> Calm(a))
  BY DEF Rules, Calm
<1>6. Ruled'
  BY <1>1, <1>3, <1>4, <1>5 DEF Ruled
<1>7. Unapplied'
  BY <1>1, <1>5 DEF Unapplied
<1>8. missed' = {} => Foretold'
  BY <1>1, <1>4 DEF Foretold
<1>9. missed' = {} => Obeying'
  BY <1>1 DEF Obeying
<1>10. missed' = {} => Settling'
  <2>1. Shows(known, mode, customId, mem) => Shows(known, mode, customId, mem)'
    BY DEF Shows
  <2> QED
    BY <1>1, <1>5, <2>1 DEF Settling
<1> QED
  BY <1>6, <1>7, <1>8, <1>9, <1>10

\* Nothing runs, and nothing is applied yet.
LEMMA EarlyOrdered ==
    ASSUME Idle', signals' = <<>>, unsent' = {}, life' \notin {"started", "ready"}
    PROVE  Ordered'
<1>1. \A a \in Actor : pc'[a] = "idle"
  BY DEF Idle
<1>2. DOMAIN signals' = {}
  OBVIOUS
<1> QED
  BY <1>1, <1>2 DEF Ordered, Ruled, Unapplied, Foretold, Obeying, Settling, Rules

LEMMA StartOrdered ==
    ASSUME TwoEven, TypeInv, AgreesInv, Ordered, StartStep
    PROVE  Ordered'
<1>1. ASSUME NEW stored, List(stored) PROVE Ordered'
  <2>1. /\ life = "off" /\ life' = "listed" /\ known = {} /\ Idle /\ signals = <<>>
        /\ UNCHANGED <<signals, pc, unsent>>
    BY <1>1 DEF List, AgreesInv, Starting
  <2>2. unsent = {}
    BY <2>1 DEF TypeInv, Typed, EditType
  <2>3. Idle'
    BY <2>1 DEF Idle
  <2> QED
    BY <2>1, <2>2, <2>3, EarlyOrdered
<1>2. CASE Listen \/ Serve
  <2>1. /\ UNCHANGED <<signals, known, mem, config, mode, customId, pc, task, unsent, missed, free>>
        /\ life' \in {"started", "ready"} => life \in {"started", "ready"}
    BY <1>2 DEF Listen, Serve, shown, work, history
  <2> QED
    BY <2>1, SameOrdered
<1>3. CASE Apply
  <2>1. /\ life = "on" /\ ApplyDisplayMode(Main, "init", known, mem)
        /\ Ruling(Main, known, Calm(Main) /\ signals = <<>>)
        /\ UNCHANGED <<signals, known, mode, customId, primary, unsent, missed>>
    BY <1>3 DEF Apply, shown
  <2>2. Main \in Actor /\ Main \notin Caller /\ pc[Main] = "idle"
    BY <2>1, ConstantsAssumption DEF ConstantsAssumption, AgreesInv, Starting, Actor
  <2>3. Typed /\ mem \in Settings(known) /\ known \in SUBSET Monitor /\ unsent \subseteq known
    BY DEF TypeInv, Typed, WorkType, EditType
  <2>4. PICK u : u = For("init", mode, customId, known)
    OBVIOUS
  <2>5. u.by = "init" /\ u.scr = known /\ u.mode = mode /\ u.name = customId
    BY <2>4 DEF For, Rest
  <2>6. "init" \in {"ids", "init"}
    OBVIOUS
  <2>7. Done(Main, u, known)
    BY <2>1, <2>2, <2>3, <2>4, <2>6, ApplyDisplayModeDone
  <2>8. ASSUME mode = "custom" => primary \in known PROVE Outcome(Main, u, known, mem)
    BY <2>1, <2>2, <2>3, <2>4, <2>6, <2>8, ApplyDisplayModeOrders
  <2>9. PICK calm \in BOOLEAN : calm = (Calm(Main) /\ signals = <<>>)
    OBVIOUS
  <2>10. Ruling(Main, known, calm) /\ (calm => Calm(Main) /\ signals' = <<>>)
    BY <2>1, <2>9 DEF Ruling
  <2> QED
    BY <2>1, <2>2, <2>3, <2>5, <2>7, <2>8, <2>10, RulingOrdered
<1> QED
  BY <1>1, <1>2, <1>3 DEF StartStep

LEMMA OrderedKeep == TwoEven /\ TypeInv /\ AgreesInv /\ Ordered /\ [Next]_vars => Ordered'
<1> SUFFICES ASSUME TwoEven, TypeInv, AgreesInv, Ordered, [Next]_vars PROVE Ordered'
  OBVIOUS
<1>1. CASE UNCHANGED vars
  <2>1. UNCHANGED <<life, signals, known, mem, config, mode, customId, pc, task, unsent, missed, free>>
    BY <1>1 DEF vars, shown, work, history
  <2> QED
    BY <2>1, SameOrdered
<1>2. ASSUME NEW c \in Caller, CallStep(c) PROVE Ordered'
  BY <1>2, CallsOrdered
<1>3. CASE CommandStep
  BY <1>3, SetOrdered, UnsetOrdered, EndOrdered, SavedOrdered DEF CommandStep
<1>4. CASE SignalStep
  BY <1>4, SignalOrdered
<1>5. CASE StartStep
  BY <1>5, StartOrdered
<1>6. CASE life # "dead" /\ CompositorStep
  BY <1>6, CompositorOrdered
<1> QED
  BY <1>1, <1>2, <1>3, <1>4, <1>5, <1>6 DEF Next

LEMMA InitOrdered == Init => Ordered
<1> SUFFICES ASSUME Init PROVE Ordered
  OBVIOUS
<1>1. (\A a \in Actor : pc[a] = "idle") /\ signals = <<>> /\ unsent = {} /\ life = "off"
  BY DEF Init
<1>2. DOMAIN signals = {}
  BY <1>1
<1> QED
  BY <1>1, <1>2 DEF Ordered, Ruled, Unapplied, Foretold, Obeying, Settling, Rules

\* At rest the compositor shows what the daemon has of the monitors.
LEMMA OrderedSuffices == TypeInv /\ AgreesInv /\ Ordered => Honoured
<1> SUFFICES ASSUME TypeInv, AgreesInv, Ordered, Quiet, free = {}, missed = {}, Cardinality(known) > 1
             PROVE  Shows(known, mode, customId, kwin)
  BY DEF Honoured, Shows
<1>1. life = "ready" /\ Idle /\ signals = <<>> /\ \A a \in Actor : pc[a] = "idle"
  BY DEF Quiet, Idle
<1>2. \A a \in Actor : ~Rules(a)
  BY <1>1 DEF Rules
<1>3. unsent = {}
  BY <1>2 DEF Ordered, Unapplied
<1>4. Shows(known, mode, customId, mem)
  BY <1>1, <1>2 DEF Ordered, Settling
<1>5. \A i, W : ~Coming(signals, 0, i, W)
  <2>1. DOMAIN signals = {}
    BY <1>1
  <2> QED
    BY <2>1 DEF Coming
<1>6. known \subseteq plugged
  BY <1>1, <1>5 DEF AgreesInv, Present
<1>7. \A i \in known : Fits(mem[i], kwin[i])
  BY <1>1, <1>3, <1>5, <1>6 DEF AgreesInv, Settled, Due, Pending
<1>8. \A i \in known : mem[i].on \in BOOLEAN /\ kwin[i].on \in BOOLEAN
  BY DEF TypeInv, Typed, OutsideType, EditType, WorkType, Settings, Setting, Output
<1>9. \A i \in known : mem[i].on = kwin[i].on /\ (kwin[i].on => mem[i].pos = kwin[i].pos)
  BY <1>7, <1>8 DEF Fits
<1> QED
  BY <1>4, <1>9, ShowsAlike

\* Two monitors with even sizes, whose places are in reach: once every call, command
\* and signal is done, the compositor shows the display mode, however they followed each other, unless, since an operation last set the whole layout alone, a command or a
\* write failed, two operations overlapped, monitors were edited or restored,
\* another enabled or disabled an output, or a custom mode was applied without
\* a primary monitor (free), or an output was missed at the start (missed).
THEOREM ModeHonoured == TwoEven => (Spec => []Honoured)
<1> SUFFICES ASSUME TwoEven PROVE Spec => []Honoured
  OBVIOUS
<1>1. TypeInv /\ AgreesInv /\ [Next]_vars => TypeInv'
  BY TypesKeep DEF Kept
<1>2. TypeInv /\ AgreesInv /\ Ordered /\ [Next]_vars => Ordered'
  BY OrderedKeep
<1> QED
  BY <1>1, <1>2, InitTypes, InitOrdered, OrderedSuffices, AgreesAlways, PTL DEF Spec
=============================================================================
