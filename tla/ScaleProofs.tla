----------------------------- MODULE ScaleProofs -----------------------------
(***************************************************************************)
(* Proofs about Scale, for every set of goroutines and of maps that are    *)
(* asked for, and any number of logins, changes and failures.              *)
(***************************************************************************)
EXTENDS Scale, FiniteSetTheorems, TLAPS

USE ConstantsAssumption DEF ConstantsAssumption

-----------------------------------------------------------------------------
(* The maps there are: those that are asked for, the recommended one and   *)
(* what two decimals leave of them, which need not be valid.               *)

Known == {Recommendation} \cup {f \in Factors : f # None}
Maps == {None} \cup Known \cup {Rounded(f) : f \in Known}

\* Two decimals of two decimals.
LEMMA RoundedNumber ==
  ASSUME NEW n \in Nat
  PROVE  LET r == ((n + 5) \div 10) * 10
         IN  /\ r \in Nat
             /\ ((r + 5) \div 10) * 10 = r
  OBVIOUS

\* What is written of a map with two decimals is read as a map with the same names.
LEMMA RoundedMap ==
  ASSUME NEW f, Map(f)
  PROVE  /\ Map(Rounded(f)) /\ DOMAIN Rounded(f) = DOMAIN f
         /\ Rounded(Rounded(f)) = Rounded(f)
<1> DEFINE r(n) == ((n + 5) \div 10) * 10
<1>1. \A n \in Nat : r(n) \in Nat /\ r(r(n)) = r(n)
  BY RoundedNumber
<1>2. \A g : Rounded(g) = [x \in DOMAIN g |-> r(g[x])]
  BY DEF Rounded
<1>3. f = [x \in DOMAIN f |-> f[x]] /\ \A x \in DOMAIN f : f[x] \in Nat
  BY DEF Map
<1> HIDE DEF r
<1>4. Rounded(f) = [x \in DOMAIN f |-> r(f[x])]
  BY <1>2
<1>5. Map(Rounded(f)) /\ DOMAIN Rounded(f) = DOMAIN f
  BY <1>1, <1>3, <1>4 DEF Map
<1>6. Rounded(Rounded(f)) = Rounded(f)
  <2>1. Rounded(Rounded(f)) = [x \in DOMAIN f |-> r(Rounded(f)[x])]
    BY <1>2, <1>5
  <2>2. \A x \in DOMAIN f : r(Rounded(f)[x]) = r(f[x])
    BY <1>1, <1>3, <1>4
  <2> QED
    BY <1>4, <2>1, <2>2
<1> QED
  BY <1>5, <1>6

\* A map without a name is the empty one.
LEMMA NoneMap ==
  /\ Map(None) /\ DOMAIN None = {} /\ Rounded(None) = None
  /\ \A f : Map(f) /\ DOMAIN f = {} => f = None
BY DEF None, Map, Rounded

LEMMA KnownType ==
  /\ \A f \in Known : Map(f) /\ f # None
  /\ Recommendation \in Known /\ Valid(Recommendation)
  /\ \A f \in Known : f \in Factors \cup {Recommendation}
<1>1. DOMAIN Recommendation = {"ALL"} /\ Recommendation["ALL"] = Recommended /\ Map(Recommendation)
  BY DEF Recommendation, Map
<1>2. Recommendation # None
  BY <1>1, NoneMap
<1>3. \A f \in Factors : Map(f)
  BY DEF Map
<1> QED
  BY <1>1, <1>2, <1>3 DEF Known, Valid

\* Every map there is has factors, and is one that is asked for, the recommended one or
\* one that two decimals can tell.
LEMMA MapsType ==
  ASSUME NEW f \in Maps
  PROVE  /\ Map(f)
         /\ Rounded(f) \in Maps
         /\ Rounded(Rounded(f)) = Rounded(f)
         /\ f \in Factors \cup {Recommendation} \/ Rounded(f) = f
         /\ Rounded(f) = None => f = None
<1>1. CASE f = None
  BY <1>1, NoneMap DEF Maps
<1>2. CASE f \in Known
  <2>1. Map(f) /\ f # None /\ f \in Factors \cup {Recommendation}
    BY <1>2, KnownType
  <2>2. DOMAIN Rounded(f) = DOMAIN f /\ Rounded(Rounded(f)) = Rounded(f)
    BY <2>1, RoundedMap
  <2>3. Rounded(f) # None
    BY <2>1, <2>2, NoneMap
  <2> QED
    BY <1>2, <2>1, <2>2, <2>3 DEF Maps
<1>3. CASE \E g \in Known : f = Rounded(g)
  <2>1. PICK g \in Known : f = Rounded(g)
    BY <1>3
  <2>2. Rounded(f) = f /\ Map(f)
    BY <2>1, KnownType, RoundedMap
  <2> QED
    BY <2>2
<1> QED
  BY <1>1, <1>2, <1>3 DEF Maps

\* The single factor of a map that is valid is positive, and what follows from it are
\* numbers.
LEMMA OfType ==
  ASSUME NEW f \in Maps, f # None
  PROVE  /\ Single(f) \in Nat
         /\ Valid(f) => Single(f) > 0
         /\ \A p \in {"sf", "ws", "cs"} : Of(p, f) \in Nat
         /\ Of("sf", f) = Single(f)
         /\ Of("ws", f) = WindowScale(Single(f))
         /\ Of("cs", f) = (24 * Single(f)) \div 1000
         /\ \A p \in {"ind", "qt"} : Of(p, f) = Rounded(f)
<1>1. Map(f) /\ (Valid(f) => \A x \in DOMAIN f : f[x] > 0)
  BY MapsType DEF Valid
<1>2. Single(f) \in Nat /\ (Valid(f) => Single(f) > 0)
  <2>1. CASE Cardinality(DOMAIN f) = 1
    <3>1. DOMAIN f # {}
      <4>1. Cardinality({}) = 0
        BY FS_EmptySet, Zenon
      <4> QED
        BY <2>1, <4>1
    <3>2. (CHOOSE x \in DOMAIN f : TRUE) \in DOMAIN f
      BY <3>1
    <3> QED
      BY <1>1, <2>1, <3>2 DEF Single, Map
  <2>2. CASE Cardinality(DOMAIN f) # 1
    BY <1>1, <2>2 DEF Single, Map
  <2> QED
    BY <2>1, <2>2
<1>3. WindowScale(Single(f)) \in Nat
  BY <1>2 DEF WindowScale
<1>4. (24 * Single(f)) \div 1000 \in Nat
  BY <1>2
<1>5. /\ Of("sf", f) = Single(f)
      /\ Of("ws", f) = WindowScale(Single(f))
      /\ Of("cs", f) = (24 * Single(f)) \div 1000
      /\ Of("ind", f) = Rounded(f) /\ Of("qt", f) = Rounded(f)
  BY DEF Of
<1> QED
  BY <1>2, <1>3, <1>4, <1>5

LEMMA SetType ==
  /\ Set(None) = Unset
  /\ DOMAIN Unset = Local
  /\ Unset["sf"] = 0 /\ Unset["ws"] = 1 /\ Unset["cs"] = 24 /\ Unset["ind"] = None /\ Unset["qt"] = None
  /\ \A f : f # None => \A p \in Local : Set(f)[p] = Of(p, f)
  /\ \A f : DOMAIN Set(f) = Local
BY DEF Set, Unset, Local

-----------------------------------------------------------------------------
(* Types.  TypeOK is not inductive: that a map which is written is valid   *)
(* follows from where it comes from.                                       *)

SimpleType ==
    /\ \A f \in cache : cache = {f}
    /\ DOMAIN place = Local
    /\ \A p \in {"sf", "ws", "cs"} : place[p] \in Nat
    /\ Map(place["qt"])
    /\ shown \in [{"dpi", "ws", "unscaled", "cs"} -> Nat]
    /\ life \in Life
    /\ signal \in BOOLEAN
    /\ pc \in [Actor -> {"idle"} \cup Place]
    /\ asks \in 0 .. MaxAsk
    /\ logins \in 0 .. MaxLogin
    /\ fails \in 0 .. MaxFail
    /\ alone \in [Actor -> BOOLEAN]
    /\ bad \in [Actor -> SUBSET Place]
    /\ off \in SUBSET Place

\* Every map is one of Maps, and individual-scaling has two decimals.
MapsInv ==
    /\ centre \in Maps /\ mem \in Maps /\ newest \in Maps
    /\ cache \subseteq Maps \ {None}
    /\ arg \in [Actor -> Maps]
    /\ \A a \in Actor : pc[a] # "idle" => Valid(arg[a])
    /\ place["ind"] \in Maps /\ Rounded(place["ind"]) = place["ind"]

\* Who is at work at which time of the life of the process.
LifeInv ==
    /\ signal => life = "on" /\ centre # None
    /\ life = "off" => cache = {} /\ mem = None /\ pc[Main] = "idle"
    /\ life \in {"off", "sync", "adjusted"} => \A w \in Worker : pc[w] = "idle"
    /\ life \notin {"sync", "adjusted"} => pc[Main] = "idle"

BaseInv == SimpleType /\ MapsInv /\ LifeInv

LEMMA BaseType == SimpleType /\ MapsInv => TypeOK
<1> SUFFICES ASSUME SimpleType, MapsInv PROVE TypeOK
  OBVIOUS
<1>1. Map(centre) /\ Map(mem) /\ Map(newest)
  BY MapsType DEF MapsInv
<1>2. \A f \in cache : Map(f) /\ cache = {f}
  BY MapsType DEF MapsInv, SimpleType
<1>3. \A p \in {"ind", "qt"} : Map(place[p])
  BY MapsType DEF MapsInv, SimpleType
<1>4. \A a \in Actor : pc[a] # "idle" => Valid(arg[a])
  BY MapsType DEF MapsInv
<1> QED
  BY <1>1, <1>2, <1>3, <1>4 DEF SimpleType, TypeOK

\* What Begin does to the goroutine and to the others.
LEMMA BeginForm ==
  ASSUME BaseInv, NEW a \in Actor, NEW f \in Maps, Valid(f), NEW d \in SUBSET Place, Begin(a, f, d)
  PROVE  /\ pc \in [Actor -> {"idle"} \cup Place] /\ pc[a] = "idle"
         /\ pc' \in [Actor -> {"idle"} \cup Place]
         /\ pc'[a] = "centre" /\ \A b \in Actor \ {a} : pc'[b] = pc[b]
         /\ arg' \in [Actor -> Maps]
         /\ arg'[a] = f /\ \A b \in Actor \ {a} : arg'[b] = arg[b]
         /\ \A b \in Actor : pc'[b] # "idle" => Valid(arg'[b])
         /\ alone' \in [Actor -> BOOLEAN]
         /\ alone'[a] = (Busy = {})
         /\ \A b \in Actor \ {a} : alone'[b] = (alone[b] /\ b \notin Busy)
         /\ bad' \in [Actor -> SUBSET Place]
         /\ bad'[a] = {} /\ \A b \in Actor \ {a} : bad'[b] = bad[b]
         /\ off' = IF Busy = {} THEN d ELSE Place
         /\ off' \in SUBSET Place
<1>1. pc[a] = "idle" /\ pc \in [Actor -> {"idle"} \cup Place] /\ arg \in [Actor -> Maps]
      /\ alone \in [Actor -> BOOLEAN] /\ bad \in [Actor -> SUBSET Place]
  BY DEF Begin, BaseInv, SimpleType, MapsInv
<1>2. pc' = [pc EXCEPT ![a] = "centre"] /\ arg' = [arg EXCEPT ![a] = f] /\ bad' = [bad EXCEPT ![a] = {}]
  BY DEF Begin
<1>3. alone' = [b \in Actor |-> IF b = a THEN Busy = {} ELSE alone[b] /\ b \notin Busy]
  BY DEF Begin
<1>4. off' = IF Busy = {} THEN d ELSE Place
  BY DEF Begin
<1>5. pc' \in [Actor -> {"idle"} \cup Place] /\ pc'[a] = "centre" /\ \A b \in Actor \ {a} : pc'[b] = pc[b]
  BY <1>1, <1>2 DEF Place
<1>6. arg' \in [Actor -> Maps] /\ arg'[a] = f /\ \A b \in Actor \ {a} : arg'[b] = arg[b]
  BY <1>1, <1>2
<1>7. \A b \in Actor : pc'[b] # "idle" => Valid(arg'[b])
  BY <1>5, <1>6 DEF BaseInv, MapsInv
<1>8. alone' \in [Actor -> BOOLEAN]
  BY <1>1, <1>3, Zenon
<1>9. alone'[a] = (Busy = {}) /\ \A b \in Actor \ {a} : alone'[b] = (alone[b] /\ b \notin Busy)
  BY <1>3
<1>10. bad' \in [Actor -> SUBSET Place] /\ bad'[a] = {} /\ \A b \in Actor \ {a} : bad'[b] = bad[b]
  BY <1>1, <1>2
<1> QED
  BY <1>1, <1>4, <1>5, <1>6, <1>7, <1>8, <1>9, <1>10

\* What a write does to the goroutine and to the others.
LEMMA AdvanceForm ==
  ASSUME BaseInv, NEW a \in Actor, NEW p \in Place, Advance(a, p)
  PROVE  /\ pc[a] = p /\ p # "idle"
         /\ pc' \in [Actor -> {"idle"} \cup Place]
         /\ pc'[a] = After(p) /\ \A b \in Actor \ {a} : pc'[b] = pc[b]
         /\ UNCHANGED <<arg, alone>>
         /\ arg[a] \in Maps /\ arg[a] # None /\ Valid(arg[a])
         /\ \A b \in Actor : pc'[b] # "idle" => Valid(arg'[b])
<1>1. pc[a] = p /\ pc \in [Actor -> {"idle"} \cup Place] /\ pc' = [pc EXCEPT ![a] = After(p)]
      /\ UNCHANGED <<arg, alone>>
  BY DEF Advance, BaseInv, SimpleType
<1>2. After(p) \in {"idle"} \cup Place /\ p # "idle"
  BY DEF After, Place, Local
<1>3. arg[a] \in Maps /\ arg[a] # None /\ Valid(arg[a])
  BY <1>1, <1>2 DEF BaseInv, MapsInv, Valid
<1>4. pc'[a] = After(p) /\ \A b \in Actor \ {a} : pc'[b] = pc[b]
  BY <1>1
<1> QED
  BY <1>1, <1>2, <1>3, <1>4 DEF BaseInv, MapsInv

\* A place of the user's own after a write.
LEMMA WriteLocalForm ==
  ASSUME BaseInv, NEW a \in Actor, NEW p \in Local, WriteLocal(a, p)
  PROVE  /\ \/ place' = place /\ fails' = fails + 1 /\ fails < MaxFail
               /\ bad' = [bad EXCEPT ![a] = @ \cup {p}]
            \/ /\ place'[p] = Of(p, arg[a]) /\ \A q \in Local \ {p} : place'[q] = place[q]
               /\ fails' = fails /\ bad' = bad
         /\ DOMAIN place' = Local
<1>1. DOMAIN place = Local
  BY DEF BaseInv, SimpleType
<1>2. CASE place' = place
  BY <1>1, <1>2 DEF WriteLocal, Fine, Fail
<1>3. CASE place' = [place EXCEPT ![p] = Of(p, arg[a])]
  BY <1>1, <1>3 DEF WriteLocal, Fine, Fail
<1> QED
  BY <1>2, <1>3 DEF WriteLocal

LEMMA SimpleTypeStep == BaseInv /\ [Next]_vars => SimpleType'
<1> SUFFICES ASSUME BaseInv, [Next]_vars PROVE SimpleType'
  OBVIOUS
<1>0. SimpleType
  BY DEF BaseInv
<1> USE DEF settings, process, run, bounds
<1>1. CASE Sync
  <2>1. off' \in SUBSET Place /\ fails' \in 0 .. MaxFail /\ logins' \in 0 .. MaxLogin
        /\ UNCHANGED <<place, shown, signal, asks>> /\ life' \in Life /\ \A f \in cache' : cache' = {f}
    BY <1>0, <1>1 DEF Sync, Begin, SimpleType, Fine, Fail, Life, Place
  <2>2. pc' \in [Actor -> {"idle"} \cup Place] /\ alone' \in [Actor -> BOOLEAN]
        /\ bad' \in [Actor -> SUBSET Place]
    <3>1. CASE Valid(centre) /\ Begin(Main, centre, off)
      BY <1>0, <3>1, BeginForm DEF Actor, BaseInv, MapsInv, SimpleType
    <3>2. CASE UNCHANGED run
      BY <1>0, <3>2 DEF SimpleType
    <3> QED
      BY <1>1, <3>1, <3>2 DEF Sync
  <2> QED
    BY <1>0, <2>1, <2>2 DEF SimpleType
<1>2. CASE Adjust
  <2> DEFINE f == Recommendation
  <2>1. UNCHANGED <<place, shown, signal, asks, logins, cache>> /\ life' \in Life
    BY <1>2 DEF Adjust, Life
  <2>2. CASE UNCHANGED <<run, off, fails>>
    BY <1>0, <2>1, <2>2 DEF SimpleType
  <2>3. CASE ~ UNCHANGED <<run, off, fails>>
    <3>1. /\ IF place["sf"] <= 0 THEN Fine ELSE Fail
          /\ Begin(Main, f, IF centre = None /\ place["sf"] <= 0 THEN off ELSE Place)
      BY <1>2, <2>3 DEF Adjust
    <3>2. f \in Maps /\ Valid(f)
      BY KnownType DEF Maps
    <3>3. PICK d \in SUBSET Place : Begin(Main, f, d)
      BY <1>0, <3>1 DEF SimpleType
    <3>4. fails' \in 0 .. MaxFail
      BY <1>0, <3>1 DEF Fine, Fail, SimpleType
    <3> HIDE DEF f
    <3>5. pc' \in [Actor -> {"idle"} \cup Place] /\ alone' \in [Actor -> BOOLEAN]
          /\ bad' \in [Actor -> SUBSET Place] /\ off' \in SUBSET Place
      BY <3>2, <3>3, BeginForm DEF Actor
    <3> QED
      BY <1>0, <2>1, <3>4, <3>5 DEF SimpleType
  <2> QED
    BY <2>2, <2>3
<1>3. CASE UpdateDPI
  <2>1. place["sf"] \in Nat /\ place["ws"] \in Nat /\ place["cs"] \in Nat
    BY <1>0 DEF SimpleType
  <2>2. (98304 * place["sf"]) \div 1000 \in Nat
    BY <2>1
  <2>3. shown' \in [{"dpi", "ws", "unscaled", "cs"} -> Nat]
    BY <1>3, <2>1, <2>2 DEF UpdateDPI
  <2>4. life' \in Life
    BY <1>3 DEF UpdateDPI, Life
  <2> QED
    BY <1>0, <1>3, <2>3, <2>4 DEF UpdateDPI, SimpleType
<1>4. CASE Load
  BY <1>0, <1>4 DEF Load, SimpleType, Fine, Fail, Life
<1>5. CASE Send
  <2>1. off' \in SUBSET Place /\ fails' \in 0 .. MaxFail
    <3>1. off' \in {off, off \cup {"centre"}} /\ off \in SUBSET Place
      BY <1>0, <1>5 DEF Send, SimpleType
    <3>2. fails \in 0 .. MaxFail /\ (Fine \/ Fail)
      BY <1>0, <1>5 DEF Send, SimpleType
    <3> QED
      BY <3>1, <3>2 DEF Fine, Fail, Place
  <2> QED
    BY <1>0, <1>5, <2>1 DEF Send, SimpleType, Life
<1>6. CASE StartDisplay
  <2>1. off' \in SUBSET Place /\ life' \in Life
    BY <1>0, <1>6 DEF StartDisplay, SimpleType, Place, Life
  <2> QED
    BY <1>0, <1>6, <2>1 DEF StartDisplay, SimpleType
<1>7. CASE Quit
  <2>1. off' \in SUBSET Place
    BY <1>0, <1>7 DEF Quit, SimpleType, Place, Unrepaired
  <2>2. pc' \in [Actor -> {"idle"} \cup Place] /\ alone' \in [Actor -> BOOLEAN]
        /\ bad' \in [Actor -> SUBSET Place]
    BY <1>7 DEF Quit
  <2> QED
    BY <1>0, <1>7, <2>1, <2>2 DEF Quit, SimpleType, Life
<1>8. ASSUME NEW a \in Actor, WriteCentre(a) PROVE SimpleType'
  <2>1. pc' \in [Actor -> {"idle"} \cup Place] /\ UNCHANGED alone
    BY <1>8, AdvanceForm DEF WriteCentre, Place
  <2>2. off' \in SUBSET Place /\ fails' \in 0 .. MaxFail
    <3>1. off' \in {off, off \cup {"centre"}, off \ {"centre"}} /\ off \in SUBSET Place
      BY <1>0, <1>8 DEF WriteCentre, SimpleType
    <3>2. fails \in 0 .. MaxFail /\ (Fine \/ Fail)
      BY <1>0, <1>8 DEF WriteCentre, SimpleType
    <3> QED
      BY <3>1, <3>2 DEF Fine, Fail, Place
  <2>3. \A f \in cache' : cache' = {f}
    BY <1>0, <1>8 DEF WriteCentre, SimpleType
  <2> QED
    BY <1>0, <1>8, <2>1, <2>2, <2>3 DEF WriteCentre, SimpleType
<1>9. ASSUME NEW a \in Actor, NEW p \in Local, WriteLocal(a, p) PROVE SimpleType'
  <2>1. Advance(a, p)
    BY <1>9 DEF WriteLocal
  <2>2. /\ pc' \in [Actor -> {"idle"} \cup Place] /\ UNCHANGED alone
        /\ arg[a] \in Maps /\ arg[a] # None /\ Valid(arg[a])
    BY <2>1, AdvanceForm DEF Place
  <2>3. Map(Of("qt", arg[a])) /\ \A q \in {"sf", "ws", "cs"} : Of(q, arg[a]) \in Nat
    BY <2>2, OfType, MapsType
  <2>4. bad' \in [Actor -> SUBSET Place] /\ fails' \in 0 .. MaxFail
    BY <1>0, <1>9, WriteLocalForm DEF SimpleType, Place
  <2>5. DOMAIN place' = Local /\ Map(place'["qt"]) /\ \A q \in {"sf", "ws", "cs"} : place'[q] \in Nat
    BY <1>0, <1>9, <2>3, WriteLocalForm DEF SimpleType, Local
  <2>6. off' \in SUBSET Place
    BY <1>0, <1>9, <2>4 DEF WriteLocal, SimpleType
  <2> QED
    BY <1>0, <1>9, <2>2, <2>4, <2>5, <2>6 DEF WriteLocal, SimpleType
<1>10. ASSUME NEW f \in Factors, OtherUser(f) PROVE SimpleType'
  <2>1. off' \in SUBSET Place /\ asks' \in 0 .. MaxAsk /\ signal' \in BOOLEAN
    BY <1>0, <1>10 DEF OtherUser, Ask, SimpleType, Place
  <2> QED
    BY <1>0, <1>10, <2>1 DEF OtherUser, Ask, SimpleType
<1>11. ASSUME NEW f \in Factors, NEW w \in Worker, Call(w, f) PROVE SimpleType'
  <2>1. asks' \in 0 .. MaxAsk /\ UNCHANGED <<logins, process, settings, fails>>
    BY <1>0, <1>11 DEF Call, Ask, SimpleType
  <2>2. CASE Valid(f)
    <3>1. f \in Maps /\ Valid(f)
      BY <2>2 DEF Maps, Known, Valid
    <3>2. Begin(w, f, off) /\ off \in SUBSET Place
      BY <1>0, <1>11, <2>2 DEF Call, SimpleType
    <3>3. pc' \in [Actor -> {"idle"} \cup Place] /\ alone' \in [Actor -> BOOLEAN]
          /\ bad' \in [Actor -> SUBSET Place] /\ off' \in SUBSET Place
      BY <3>1, <3>2, BeginForm DEF Actor
    <3> QED
      BY <1>0, <2>1, <3>3 DEF SimpleType
  <2>3. CASE ~Valid(f)
    BY <1>0, <1>11, <2>1, <2>3 DEF Call, SimpleType
  <2> QED
    BY <2>2, <2>3
<1>12. ASSUME NEW w \in Worker, Adopt(w) PROVE SimpleType'
  <2>1. UNCHANGED <<life, cache, place, shown, asks, logins>> /\ signal' \in BOOLEAN
    BY <1>12 DEF Adopt
  <2>2. fails' \in 0 .. MaxFail
    BY <1>0, <1>12 DEF Adopt, Fine, Fail, SimpleType
  <2>3. CASE Valid(centre) /\ Begin(w, centre, off \ {"centre"})
    <3>1. pc' \in [Actor -> {"idle"} \cup Place] /\ alone' \in [Actor -> BOOLEAN]
          /\ bad' \in [Actor -> SUBSET Place] /\ off' \in SUBSET Place
      <4>1. centre \in Maps /\ off \ {"centre"} \in SUBSET Place
        BY <1>0, <1>12 DEF Adopt, BaseInv, LifeInv, MapsInv, SimpleType
      <4> QED
        BY <2>3, <4>1, BeginForm DEF Actor
    <3> QED
      BY <1>0, <2>1, <2>2, <3>1 DEF SimpleType
  <2>4. CASE UNCHANGED run /\ off' \in SUBSET Place
    BY <1>0, <2>1, <2>2, <2>4 DEF SimpleType
  <2>5. CASE UNCHANGED run /\ off' = off
    BY <1>0, <2>1, <2>2, <2>5 DEF SimpleType
  <2> QED
    BY <1>0, <1>12, <2>3, <2>4, <2>5 DEF Adopt, SimpleType, Place
<1>13. CASE UNCHANGED vars
  BY <1>0, <1>13 DEF vars, SimpleType
<1> QED
  BY <1>1, <1>2, <1>3, <1>4, <1>5, <1>6, <1>7, <1>8, <1>9, <1>10, <1>11, <1>12, <1>13 DEF Next

LEMMA MapsStep == BaseInv /\ [Next]_vars => MapsInv'
<1> SUFFICES ASSUME BaseInv, [Next]_vars PROVE MapsInv'
  OBVIOUS
<1>0. MapsInv /\ SimpleType /\ LifeInv /\ Main \in Actor /\ Worker \subseteq Actor
  BY DEF BaseInv, Actor
<1> USE DEF settings, process, run, bounds
<1>1. CASE Sync
  <2>1. centre' \in Maps /\ mem' \in Maps /\ newest' \in Maps /\ place' = place
    BY <1>0, <1>1 DEF Sync, MapsInv
  <2>2. cache' \subseteq Maps \ {None}
    BY <1>0, <1>1 DEF Sync, MapsInv
  <2>3. arg' \in [Actor -> Maps] /\ \A a \in Actor : pc'[a] # "idle" => Valid(arg'[a])
    <3>1. CASE Valid(centre) /\ Begin(Main, centre, off)
      BY <1>0, <3>1, BeginForm DEF MapsInv, SimpleType
    <3>2. CASE UNCHANGED run
      BY <1>0, <3>2 DEF MapsInv
    <3> QED
      BY <1>1, <3>1, <3>2 DEF Sync
  <2> QED
    BY <1>0, <2>1, <2>2, <2>3 DEF MapsInv
<1>2. CASE Adjust
  <2> DEFINE f == Recommendation
  <2>1. f \in Maps /\ Valid(f)
    BY KnownType DEF Maps
  <2>2. UNCHANGED <<centre, mem, cache, place>> /\ newest' \in {f, newest}
    BY <1>2 DEF Adjust
  <2>3. UNCHANGED run \/ \E d \in SUBSET Place : Begin(Main, f, d)
    BY <1>0, <1>2 DEF Adjust, SimpleType
  <2> HIDE DEF f
  <2>4. arg' \in [Actor -> Maps] /\ \A a \in Actor : pc'[a] # "idle" => Valid(arg'[a])
    BY <1>0, <2>1, <2>3, BeginForm DEF MapsInv
  <2> QED
    BY <1>0, <2>1, <2>2, <2>4 DEF MapsInv
<1>3. CASE UpdateDPI
  BY <1>0, <1>3 DEF UpdateDPI, MapsInv
<1>4. CASE Load
  BY <1>0, <1>4 DEF Load, MapsInv, Maps
<1>5. CASE Send
  BY <1>0, <1>5 DEF Send, SaveCentre, MapsInv
<1>6. CASE StartDisplay
  BY <1>0, <1>6 DEF StartDisplay, MapsInv
<1>7. CASE Quit
  BY <1>0, <1>7 DEF Quit, MapsInv, Maps
<1>8. ASSUME NEW a \in Actor, WriteCentre(a) PROVE MapsInv'
  <2>1. Advance(a, "centre")
    BY <1>8 DEF WriteCentre
  <2>2. /\ arg' = arg /\ arg[a] \in Maps /\ arg[a] # None /\ Valid(arg[a])
        /\ \A b \in Actor : pc'[b] # "idle" => Valid(arg'[b])
    BY <2>1, AdvanceForm DEF Place
  <2>3. place' = place /\ newest' \in Maps
    BY <1>0, <1>8, <2>2 DEF WriteCentre, MapsInv
  <2>4. centre' \in Maps /\ mem' \in Maps /\ cache' \subseteq Maps \ {None}
    BY <1>0, <1>8, <2>2 DEF WriteCentre, SaveCentre, MapsInv
  <2> QED
    BY <1>0, <2>2, <2>3, <2>4 DEF MapsInv
<1>9. ASSUME NEW a \in Actor, NEW p \in Local, WriteLocal(a, p) PROVE MapsInv'
  <2>1. Advance(a, p)
    BY <1>9 DEF WriteLocal
  <2>2. /\ arg' = arg /\ arg[a] \in Maps /\ arg[a] # None /\ Valid(arg[a])
        /\ \A b \in Actor : pc'[b] # "idle" => Valid(arg'[b])
    BY <2>1, AdvanceForm DEF Place
  <2>3. UNCHANGED <<centre, mem, cache, newest>>
    BY <1>9 DEF WriteLocal
  <2>4. Of("ind", arg[a]) \in Maps /\ Rounded(Of("ind", arg[a])) = Of("ind", arg[a])
    BY <2>2, OfType, MapsType
  <2>5. place'["ind"] \in {place["ind"], Of("ind", arg[a])}
    BY <1>9, WriteLocalForm DEF Local
  <2> QED
    BY <1>0, <2>2, <2>3, <2>4, <2>5 DEF MapsInv
<1>10. ASSUME NEW f \in Factors, OtherUser(f) PROVE MapsInv'
  <2>1. f \in Maps
    BY <1>10 DEF OtherUser, Maps, Known
  <2> QED
    BY <1>0, <1>10, <2>1 DEF OtherUser, MapsInv
<1>11. ASSUME NEW f \in Factors, NEW w \in Worker, Call(w, f) PROVE MapsInv'
  <2>1. UNCHANGED <<centre, mem, cache, newest, place>>
    BY <1>11 DEF Call
  <2>2. CASE Valid(f)
    <3>1. f \in Maps /\ Valid(f)
      BY <2>2 DEF Maps, Known, Valid
    <3>2. Begin(w, f, off) /\ off \in SUBSET Place
      BY <1>0, <1>11, <2>2 DEF Call, SimpleType
    <3> QED
      BY <1>0, <2>1, <3>1, <3>2, BeginForm DEF MapsInv
  <2>3. CASE ~Valid(f)
    BY <1>0, <1>11, <2>1, <2>3 DEF Call, MapsInv
  <2> QED
    BY <2>2, <2>3
<1>12. ASSUME NEW w \in Worker, Adopt(w) PROVE MapsInv'
  <2>1. UNCHANGED <<centre, cache, newest, place>> /\ mem' \in {mem, centre}
    BY <1>12 DEF Adopt
  <2>2. CASE Valid(centre) /\ Begin(w, centre, off \ {"centre"})
    <3>1. centre \in Maps /\ off \ {"centre"} \in SUBSET Place
      BY <1>0, <1>12 DEF Adopt, LifeInv, MapsInv, SimpleType
    <3> QED
      BY <1>0, <2>1, <2>2, <3>1, BeginForm DEF MapsInv
  <2>3. CASE UNCHANGED run
    BY <1>0, <2>1, <2>3 DEF MapsInv
  <2> QED
    BY <1>12, <2>2, <2>3 DEF Adopt
<1>13. CASE UNCHANGED vars
  BY <1>0, <1>13 DEF vars, MapsInv
<1> QED
  BY <1>1, <1>2, <1>3, <1>4, <1>5, <1>6, <1>7, <1>8, <1>9, <1>10, <1>11, <1>12, <1>13 DEF Next

LEMMA LifeStep == BaseInv /\ [Next]_vars => LifeInv'
<1> SUFFICES ASSUME BaseInv, [Next]_vars PROVE LifeInv'
  OBVIOUS
<1>0. MapsInv /\ SimpleType /\ LifeInv /\ Main \in Actor /\ Worker \subseteq Actor
      /\ Actor = Worker \cup {Main} /\ pc \in [Actor -> {"idle"} \cup Place]
  BY DEF BaseInv, SimpleType, Actor
<1> USE DEF settings, process, run, bounds
<1>1. CASE Sync
  <2>1. UNCHANGED <<centre, mem, signal>> /\ life = "off" /\ life' = "sync"
    BY <1>1 DEF Sync
  <2>2. \A w \in Worker : pc'[w] = pc[w]
    BY <1>0, <1>1 DEF Sync, Begin
  <2> QED
    BY <1>0, <2>1, <2>2 DEF LifeInv
<1>2. CASE Adjust
  <2>1. UNCHANGED <<centre, mem, cache, signal>> /\ life = "sync" /\ life' = "adjusted"
    BY <1>2 DEF Adjust
  <2>2. \A w \in Worker : pc'[w] = pc[w]
    BY <1>0, <1>2 DEF Adjust, Begin
  <2> QED
    BY <1>0, <2>1, <2>2 DEF LifeInv
<1>3. CASE UpdateDPI
  BY <1>0, <1>3 DEF UpdateDPI, LifeInv
<1>4. CASE Load
  BY <1>0, <1>4 DEF Load, LifeInv
<1>5. CASE Send
  BY <1>0, <1>5 DEF Send, LifeInv
<1>6. CASE StartDisplay
  BY <1>0, <1>6 DEF StartDisplay, LifeInv
<1>7. CASE Quit
  BY <1>0, <1>7 DEF Quit, LifeInv
<1>8. ASSUME NEW a \in Actor, NEW p \in Place, Advance(a, p), UNCHANGED <<life, signal>>,
             centre' \in {centre, arg[a]}, mem' \in {mem, arg[a]}, cache' \in {cache, {arg[a]}}
      PROVE  LifeInv'
  <2>1. pc[a] = p /\ pc[a] # "idle" /\ arg[a] # None /\ \A b \in Actor \ {a} : pc'[b] = pc[b]
    BY <1>8, AdvanceForm
  <2>2. life # "off"
    BY <1>0, <2>1 DEF LifeInv
  <2>3. signal' => life' = "on" /\ centre' # None
    BY <1>0, <1>8, <2>1 DEF LifeInv
  <2>4. life' \in {"off", "sync", "adjusted"} => \A w \in Worker : pc'[w] = "idle"
    BY <1>0, <1>8, <2>1 DEF LifeInv
  <2>5. life' \notin {"sync", "adjusted"} => pc'[Main] = "idle"
    BY <1>0, <1>8, <2>1 DEF LifeInv
  <2> QED
    BY <1>8, <2>2, <2>3, <2>4, <2>5 DEF LifeInv
<1>9. ASSUME NEW a \in Actor, WriteCentre(a) PROVE LifeInv'
  BY <1>8, <1>9 DEF WriteCentre, SaveCentre, Place
<1>10. ASSUME NEW a \in Actor, NEW p \in Local, WriteLocal(a, p) PROVE LifeInv'
  BY <1>8, <1>10 DEF WriteLocal, Place
<1>11. ASSUME NEW f \in Factors, OtherUser(f) PROVE LifeInv'
  BY <1>0, <1>11 DEF OtherUser, LifeInv
<1>12. ASSUME NEW f \in Factors, NEW w \in Worker, Call(w, f) PROVE LifeInv'
  <2>1. UNCHANGED <<centre, mem, cache, life, signal>> /\ life \notin {"off", "sync", "adjusted"}
    BY <1>12 DEF Call
  <2>2. pc'[Main] = pc[Main]
    BY <1>0, <1>12 DEF Call, Begin
  <2> QED
    BY <1>0, <2>1, <2>2 DEF LifeInv
<1>13. ASSUME NEW w \in Worker, Adopt(w) PROVE LifeInv'
  <2>1. UNCHANGED <<centre, cache, life>> /\ life = "on" /\ signal' = FALSE
    BY <1>0, <1>13 DEF Adopt, LifeInv
  <2>2. pc'[Main] = pc[Main]
    BY <1>0, <1>13 DEF Adopt, Begin
  <2> QED
    BY <1>0, <2>1, <2>2 DEF LifeInv
<1>14. CASE UNCHANGED vars
  BY <1>0, <1>14 DEF vars, LifeInv
<1> QED
  BY <1>1, <1>2, <1>3, <1>4, <1>5, <1>6, <1>7, <1>9, <1>10, <1>11, <1>12, <1>13, <1>14 DEF Next

LEMMA BaseStep == BaseInv /\ [Next]_vars => BaseInv'
  BY SimpleTypeStep, MapsStep, LifeStep DEF BaseInv

LEMMA BaseInit == Init => BaseInv
<1> SUFFICES ASSUME Init PROVE BaseInv
  OBVIOUS
<1>1. centre \in Maps /\ mem \in Maps /\ cache = {}
  BY DEF Init, Maps, Known, Valid
<1>2. PICK f \in {None} \cup {g \in Factors : Valid(g)} : place = Set(f)
  BY DEF Init
<1>3. f \in Maps
  BY <1>2 DEF Maps, Known, Valid
<1>4. /\ DOMAIN place = Local
      /\ \A p \in {"sf", "ws", "cs"} : place[p] \in Nat
      /\ Map(place["qt"])
      /\ place["ind"] \in Maps /\ Rounded(place["ind"]) = place["ind"]
  <2>1. CASE f = None
    <3>1. place = Unset /\ None \in Maps
      BY <1>2, <2>1, SetType DEF Maps
    <3> QED
      BY <3>1, SetType, NoneMap
  <2>2. CASE f # None
    <3>1. \A p \in Local : place[p] = Of(p, f)
      BY <1>2, <2>2, SetType
    <3>2. Rounded(f) \in Maps /\ Rounded(Rounded(f)) = Rounded(f)
      BY <1>3, MapsType
    <3> QED
      BY <1>2, <1>3, <2>2, <3>1, <3>2, OfType, SetType, MapsType DEF Local
  <2> QED
    BY <2>1, <2>2
<1>5. arg \in [Actor -> Maps] /\ \A a \in Actor : pc[a] = "idle"
  BY DEF Init, Maps
<1>6. newest \in Maps
  BY <1>1, <1>4 DEF Init
<1>7. SimpleType
  <2>1. \A g \in cache : cache = {g}
    BY <1>1
  <2>2. shown \in [{"dpi", "ws", "unscaled", "cs"} -> Nat]
    BY DEF Init
  <2>3. life \in Life /\ signal \in BOOLEAN
    BY DEF Init, Life
  <2>4. pc \in [Actor -> {"idle"} \cup Place] /\ bad \in [Actor -> SUBSET Place] /\ off \in SUBSET Place
    BY DEF Init
  <2>5. alone \in [Actor -> BOOLEAN]
    BY Zenon DEF Init
  <2>6. asks \in 0 .. MaxAsk /\ logins \in 0 .. MaxLogin /\ fails \in 0 .. MaxFail
    BY DEF Init
  <2> QED
    BY <1>4, <2>1, <2>2, <2>3, <2>4, <2>5, <2>6 DEF SimpleType
<1>8. LifeInv
  BY <1>5 DEF Init, LifeInv, Actor
<1> QED
  BY <1>1, <1>4, <1>5, <1>6, <1>7, <1>8 DEF BaseInv, MapsInv

\* Every variable keeps its type, for every value of the constants: no map is written
\* that setScreenScaleFactors would have refused.
THEOREM TypeCorrect == Spec => []TypeOK
<1>1. BaseInv => TypeOK
  BY BaseType DEF BaseInv
<1> QED
  BY <1>1, BaseInit, BaseStep, PTL DEF Spec
-----------------------------------------------------------------------------
(* The centre.  That it has the newest map at rest follows from where that *)
(* map is while the process starts: written by main, cached, or there.     *)

CentreInv ==
    "centre" \notin off =>
        /\ life = "off" => newest = IF centre # None THEN centre ELSE place["ind"]
        /\ life \in {"sync", "adjusted", "named", "loaded"} =>
              IF pc[Main] = "centre" THEN newest = arg[Main]
              ELSE IF cache # {} THEN cache = {newest}
              ELSE centre = newest
        /\ life \in {"loaded", "sent", "up"} => mem \in {None, centre}
        /\ life \in {"sent", "up"} => centre = newest
        /\ life = "on" => mem = centre \/ signal
        /\ life = "on" /\ mem = centre /\ (\A a \in Actor : pc[a] # "centre") => centre = newest

LEMMA AfterType ==
  /\ \A p \in Local : After(p) # "centre"
  /\ After("centre") = "sf" /\ After("sf") = "ws" /\ After("ws") = "cs" /\ After("cs") = "ind"
  /\ After("ind") = "qt" /\ After("qt") = "idle"
BY DEF After, Local

\* Nobody is at work before the session.
LEMMA NobodyYet ==
  ASSUME BaseInv
  PROVE  /\ life = "off" => Busy = {}
         /\ life \in {"sync", "adjusted"} => Busy \subseteq {Main}
         /\ life \notin {"sync", "adjusted"} => Busy \subseteq Worker
         /\ \A a \in Busy : /\ arg[a] \in Maps /\ arg[a] # None
                          /\ Valid(arg[a]) /\ pc[a] \in Place
BY DEF BaseInv, LifeInv, Busy, Actor, MapsInv, SimpleType, Valid

LEMMA CentreStep == BaseInv /\ CentreInv /\ [Next]_vars => CentreInv'
<1> SUFFICES ASSUME BaseInv, CentreInv, [Next]_vars, "centre" \notin off'
             PROVE  CentreInv'
  BY DEF CentreInv
<1>0. MapsInv /\ SimpleType /\ LifeInv /\ Main \in Actor /\ Worker \subseteq Actor
      /\ Actor = Worker \cup {Main} /\ life \in Life /\ "centre" \in Place
  BY DEF BaseInv, SimpleType, Actor, Place
<1> USE DEF settings, process, run, bounds
<1>1. CASE Sync
  <2>1. life = "off" /\ mem = None /\ cache = {} /\ Busy = {} /\ pc[Main] = "idle"
    BY <1>0, <1>1, NobodyYet DEF Sync, LifeInv
  <2>2. UNCHANGED <<centre, mem, newest>> /\ life' = "sync"
    BY <1>1 DEF Sync
  <2>3. CASE Valid(centre) /\ Begin(Main, centre, off)
    <3>1. off' = off /\ pc'[Main] = "centre" /\ arg'[Main] = centre
      <4>1. centre \in Maps /\ off \in SUBSET Place
        BY <1>0 DEF MapsInv, SimpleType
      <4> QED
        BY <1>0, <2>1, <2>3, <4>1, BeginForm
    <3> QED
      BY <2>1, <2>2, <2>3, <3>1 DEF CentreInv, Valid
  <2>4. CASE centre # None /\ UNCHANGED <<cache, run>>
    <3>1. off' \in {off, off \cup Local, Place}
      BY <1>1, <2>4 DEF Sync, Begin
    <3> QED
      <4>1. "centre" \notin off
        BY <1>0, <3>1
      <4>2. newest = centre
        BY <2>1, <2>4, <4>1 DEF CentreInv
      <4> QED
        BY <2>1, <2>2, <2>4, <4>2 DEF CentreInv
  <2>5. CASE cache' = (IF place["ind"] = None THEN {} ELSE {place["ind"]})
             /\ off' = (IF centre = None THEN off ELSE Place) /\ UNCHANGED run
    BY <1>0, <2>1, <2>2, <2>5 DEF CentreInv
  <2> QED
    BY <1>1, <2>3, <2>4, <2>5 DEF Sync
<1>2. CASE Adjust
  <2> DEFINE f == Recommendation
             d == IF centre = None /\ place["sf"] <= 0 THEN off ELSE Place
  <2>1. life = "sync" /\ Busy = {} /\ pc[Main] = "idle" /\ life' = "adjusted"
    BY <1>0, <1>2, NobodyYet DEF Adjust, Busy
  <2>2. UNCHANGED <<centre, mem, cache, signal>>
    BY <1>2 DEF Adjust
  <2>3. CASE UNCHANGED <<run, off, newest, fails>>
    BY <2>1, <2>2, <2>3 DEF CentreInv
  <2>4. CASE Begin(Main, f, d) /\ newest' = IF centre = None THEN f ELSE newest
    <3>1. f \in Maps /\ Valid(f)
      BY KnownType DEF Maps
    <3>2. d \in SUBSET Place
      BY <1>0 DEF SimpleType
    <3> HIDE DEF f
    <3>3. pc'[Main] = "centre" /\ arg'[Main] = f /\ off' = d
      <4> HIDE DEF d
      <4> QED
        BY <1>0, <2>1, <2>4, <3>1, <3>2, BeginForm
    <3>4. centre = None
      BY <1>0, <3>3
    <3> QED
      BY <2>1, <2>4, <3>3, <3>4 DEF CentreInv
  <2> QED
    BY <1>2, <2>3, <2>4 DEF Adjust
<1>3. CASE UpdateDPI
  BY <1>3 DEF UpdateDPI, CentreInv
<1>4. CASE Load
  <2>1. pc[Main] = "idle"
    BY <1>0, <1>4 DEF Load, LifeInv
  <2> QED
    BY <1>4, <2>1 DEF Load, CentreInv
<1>5. CASE Send
  <2>1. pc[Main] = "idle" /\ life = "loaded" /\ life' = "sent"
    BY <1>0, <1>5 DEF Send, LifeInv
  <2>2. off' = off /\ newest' = newest
    BY <1>5 DEF Send
  <2>3. mem \in {None, centre} /\ IF cache # {} THEN cache = {newest} ELSE centre = newest
    BY <2>1, <2>2 DEF CentreInv
  <2>4. CASE cache = {} /\ UNCHANGED <<centre, mem>>
    BY <2>1, <2>2, <2>3, <2>4 DEF CentreInv
  <2>5. CASE \E f \in cache : SaveCentre(f, TRUE)
    <3>1. newest # None /\ SaveCentre(newest, TRUE)
      BY <1>0, <2>3, <2>5 DEF MapsInv
    <3>2. mem' = newest /\ centre' = newest
      BY <2>3, <3>1 DEF SaveCentre
    <3> QED
      BY <2>1, <2>2, <3>2 DEF CentreInv
  <2> QED
    BY <1>5, <2>2, <2>4, <2>5 DEF Send
<1>6. CASE StartDisplay
  BY <1>6 DEF StartDisplay, CentreInv
<1>7. CASE Quit
  BY <1>7 DEF Quit, CentreInv
<1>8. ASSUME NEW a \in Actor, WriteCentre(a) PROVE CentreInv'
  <2>1. pc[a] = "centre" /\ pc'[a] = "sf" /\ arg[a] # None /\ UNCHANGED arg
        /\ \A b \in Actor \ {a} : pc'[b] = pc[b]
    BY <1>8, AdvanceForm, AfterType DEF WriteCentre, Place
  <2>2. a \in Busy /\ life # "off" /\ life' = life /\ signal' = signal
    BY <1>8, <2>1, NobodyYet DEF WriteCentre, Busy
  <2>3. CASE life \notin {"up", "on"}
    <3>1. cache' = {arg[a]} /\ UNCHANGED <<centre, mem>> /\ life # "sent" /\ off' = off
      BY <1>8, <2>3 DEF WriteCentre
    <3>2. CASE a = Main
      <4>1. life \in {"sync", "adjusted"} /\ newest' = newest
        BY <1>0, <1>8, <2>1, <3>2 DEF LifeInv, WriteCentre
      <4>2. newest = arg[Main]
        BY <2>1, <3>1, <3>2, <4>1 DEF CentreInv
      <4> QED
        BY <2>1, <2>2, <3>1, <3>2, <4>1, <4>2 DEF CentreInv
    <3>3. CASE a # Main
      <4>1. life \notin {"sync", "adjusted"} /\ newest' = arg[a] /\ pc[Main] = "idle"
        BY <1>0, <1>8, <2>1, <3>3 DEF LifeInv, WriteCentre
      <4> QED
        BY <1>0, <2>1, <2>2, <2>3, <3>1, <3>3, <4>1 DEF CentreInv, Life
    <3> QED
      BY <3>2, <3>3
  <2>4. CASE life \in {"up", "on"}
    <3>1. a # Main /\ newest' = arg[a]
      BY <1>0, <1>8, <2>1, <2>4 DEF LifeInv, WriteCentre
    <3>2. SaveCentre(arg[a], TRUE) /\ (arg[a] = mem => off' = off)
      BY <1>8, <2>4 DEF WriteCentre
    <3>3. CASE arg[a] # mem
      BY <2>2, <2>4, <3>1, <3>2, <3>3 DEF SaveCentre, CentreInv
    <3>4. CASE arg[a] = mem
      <4>1. mem' = mem /\ centre' = centre /\ newest' = mem
        BY <3>1, <3>2, <3>4 DEF SaveCentre
      <4> QED
        BY <2>1, <2>2, <2>4, <3>2, <3>4, <4>1 DEF CentreInv
    <3> QED
      BY <3>3, <3>4
  <2> QED
    BY <2>3, <2>4
<1>9. ASSUME NEW a \in Actor, NEW p \in Local, WriteLocal(a, p) PROVE CentreInv'
  <2>1. pc[a] = p /\ p # "idle" /\ pc'[a] = After(p) /\ UNCHANGED arg
        /\ \A b \in Actor \ {a} : pc'[b] = pc[b]
    BY <1>9, AdvanceForm DEF WriteLocal, Place
  <2>2. p # "centre" /\ pc'[a] # "centre"
    BY <2>1, AfterType DEF Local
  <2>3. \A b \in Actor : pc'[b] = "centre" <=> pc[b] = "centre"
    BY <2>1, <2>2
  <2>4. "centre" \notin off /\ UNCHANGED <<centre, process, newest>>
    BY <1>9 DEF WriteLocal
  <2>5. life # "off"
    BY <2>1, NobodyYet DEF Busy
  <2> QED
    BY <1>0, <2>1, <2>3, <2>4, <2>5 DEF CentreInv
<1>10. ASSUME NEW f \in Factors, OtherUser(f) PROVE CentreInv'
  BY <1>0, <1>10 DEF OtherUser, CentreInv
<1>11. ASSUME NEW f \in Factors, NEW w \in Worker, Call(w, f) PROVE CentreInv'
  <2>1. UNCHANGED <<centre, mem, cache, life, signal, newest>> /\ life \notin {"off", "sync", "adjusted"}
    BY <1>11 DEF Call
  <2>2. CASE UNCHANGED <<run, off>>
    BY <2>1, <2>2 DEF CentreInv
  <2>3. CASE Valid(f) /\ Begin(w, f, off)
    <3>1. f \in Maps /\ Valid(f)
      BY <2>3 DEF Maps, Known, Valid
    <3>2. off \in SUBSET Place /\ w # Main
      BY <1>0 DEF SimpleType
    <3>3. pc'[w] = "centre" /\ pc'[Main] = pc[Main] /\ arg'[Main] = arg[Main]
          /\ off' \in {off, Place}
      BY <1>0, <2>3, <3>1, <3>2, BeginForm
    <3> QED
      BY <1>0, <2>1, <3>3 DEF CentreInv
  <2> QED
    BY <1>11, <2>2, <2>3 DEF Call
<1>12. ASSUME NEW w \in Worker, Adopt(w) PROVE CentreInv'
  <2>1. UNCHANGED <<centre, cache, life, newest>> /\ life = "on" /\ signal' = FALSE /\ centre # None
    BY <1>0, <1>12 DEF Adopt, LifeInv
  <2>2. CASE mem # centre /\ mem' = centre /\ Valid(centre) /\ Begin(w, centre, off \ {"centre"})
    <3>1. centre \in Maps /\ off \ {"centre"} \in SUBSET Place
      BY <1>0 DEF SimpleType, MapsInv
    <3>2. pc'[w] = "centre"
      BY <1>0, <2>1, <2>2, <3>1, BeginForm
    <3> QED
      BY <1>0, <2>1, <2>2, <3>2 DEF CentreInv
  <2>3. CASE mem = centre /\ UNCHANGED <<mem, run, off, fails>>
    BY <2>1, <2>3 DEF CentreInv
  <2> QED
    BY <1>0, <1>12, <2>2, <2>3 DEF Adopt
<1>13. CASE UNCHANGED vars
  BY <1>13 DEF vars, CentreInv
<1> QED
  BY <1>1, <1>2, <1>3, <1>4, <1>5, <1>6, <1>7, <1>8, <1>9, <1>10, <1>11, <1>12, <1>13 DEF Next
-----------------------------------------------------------------------------
(* One goroutine at a time.  Who does not write alone leaves everything    *)
(* uncertain that the user has.                                            *)

AloneInv == \A a \in Busy : IF alone[a] THEN Busy = {a} ELSE Local \subseteq off

LEMMA BeginBusy ==
  ASSUME BaseInv, NEW a \in Actor, NEW f \in Maps, Valid(f), NEW d \in SUBSET Place, Begin(a, f, d)
  PROVE  /\ Busy' = Busy \cup {a} /\ a \notin Busy
         /\ alone'[a] => Busy = {} /\ Busy' = {a} /\ off' = d
         /\ \A b \in Busy' : alone'[b] => b = a
         /\ AloneInv'
<1>1. Busy' = Busy \cup {a} /\ a \notin Busy
  BY BeginForm DEF Busy
<1>2. alone'[a] <=> Busy = {}
  BY BeginForm, Zenon
<1>3. \A b \in Busy' : alone'[b] => b = a
  <2>1. \A b \in Actor \ {a} : alone'[b] = (alone[b] /\ b \notin Busy)
    BY BeginForm, Zenon
  <2> QED
    BY <1>1, <2>1 DEF Busy
<1>4. off' = IF Busy = {} THEN d ELSE Place
  BY BeginForm
<1>5. AloneInv'
  <2> SUFFICES ASSUME NEW b \in Busy' PROVE (alone'[b] => Busy' = {b}) /\ (~alone'[b] => Local \subseteq off')
    BY DEF AloneInv
  <2>1. CASE Busy = {}
    BY <1>1, <1>2, <2>1
  <2>2. CASE Busy # {}
    BY <1>2, <1>3, <1>4, <2>2 DEF Place
  <2> QED
    BY <2>1, <2>2
<1> QED
  BY <1>1, <1>2, <1>3, <1>4, <1>5

LEMMA WriteBusy ==
  ASSUME BaseInv, NEW a \in Actor, NEW p \in Place, Advance(a, p)
  PROVE  /\ a \in Busy
         /\ p # "qt" => Busy' = Busy
         /\ p = "qt" => Busy' = Busy \ {a}
<1>1. /\ pc[a] = p /\ p # "idle" /\ pc'[a] = After(p)
      /\ \A b \in Actor \ {a} : pc'[b] = pc[b]
  BY AdvanceForm
<1>2. After(p) = "idle" <=> p = "qt"
  BY AfterType DEF Place, Local
<1> QED
  BY <1>1, <1>2 DEF Busy

LEMMA AloneStep == BaseInv /\ AloneInv /\ [Next]_vars => AloneInv'
<1> SUFFICES ASSUME BaseInv, AloneInv, [Next]_vars PROVE AloneInv'
  OBVIOUS
<1>0. MapsInv /\ SimpleType /\ LifeInv /\ Main \in Actor /\ Worker \subseteq Actor /\ off \in SUBSET Place
  BY DEF BaseInv, SimpleType, Actor
<1> USE DEF settings, process, run, bounds
<1>1. ASSUME UNCHANGED run, off \cap Local \subseteq off' PROVE AloneInv'
  BY <1>1 DEF AloneInv, Busy
<1>2. CASE Sync
  <2>1. Busy = {}
    BY <1>2, NobodyYet DEF Sync
  <2>2. CASE Valid(centre) /\ Begin(Main, centre, off)
    BY <1>0, <2>2, BeginBusy DEF MapsInv
  <2>3. CASE UNCHANGED run
    BY <2>1, <2>3 DEF AloneInv, Busy
  <2> QED
    BY <1>2, <2>2, <2>3 DEF Sync
<1>3. CASE Adjust
  <2> DEFINE f == Recommendation
             d == IF centre = None /\ place["sf"] <= 0 THEN off ELSE Place
  <2>1. CASE Begin(Main, f, d)
    <3>1. f \in Maps /\ Valid(f)
      BY KnownType DEF Maps
    <3>2. d \in SUBSET Place
      BY <1>0
    <3> HIDE DEF f, d
    <3> QED
      BY <1>0, <2>1, <3>1, <3>2, BeginBusy
  <2>2. CASE UNCHANGED <<run, off, newest, fails>>
    BY <1>1, <2>2
  <2> QED
    BY <1>3, <2>1, <2>2 DEF Adjust
<1>4. CASE UpdateDPI
  BY <1>1, <1>4 DEF UpdateDPI
<1>5. CASE Load
  BY <1>1, <1>5 DEF Load
<1>6. CASE Send
  <2>1. off' \in {off, off \cup {"centre"}} /\ UNCHANGED run
    BY <1>6 DEF Send
  <2> QED
    BY <1>1, <2>1
<1>7. CASE StartDisplay
  BY <1>1, <1>7 DEF StartDisplay
<1>8. CASE Quit
  BY <1>8 DEF Quit, AloneInv, Busy
<1>9. ASSUME NEW a \in Actor, WriteCentre(a) PROVE AloneInv'
  <2>1. Busy' = Busy /\ alone' = alone
    BY <1>9, WriteBusy, AdvanceForm DEF WriteCentre, Place
  <2>2. off' \in {off, off \cup {"centre"}, off \ {"centre"}}
    BY <1>9 DEF WriteCentre
  <2> QED
    BY <2>1, <2>2 DEF AloneInv, Local
<1>10. ASSUME NEW a \in Actor, NEW p \in Local, WriteLocal(a, p) PROVE AloneInv'
  <2>1. alone' = alone /\ a \in Busy
    BY <1>10, WriteBusy, AdvanceForm DEF WriteLocal, Place
  <2>2. CASE p # "qt"
    <3>1. Busy' = Busy /\ off' = off
      BY <1>10, <2>2, WriteBusy DEF WriteLocal, Place
    <3> QED
      BY <2>1, <3>1 DEF AloneInv
  <2>3. CASE p = "qt"
    <3>1. Busy' = Busy \ {a}
      BY <1>10, <2>3, WriteBusy DEF WriteLocal, Place
    <3>2. CASE alone[a]
      BY <2>1, <3>1, <3>2 DEF AloneInv
    <3>3. CASE ~alone[a]
      <4>1. off' = off \cup bad'[a]
        BY <1>10, <2>3, <3>3 DEF WriteLocal
      <4> QED
        BY <2>1, <3>1, <3>3, <4>1 DEF AloneInv
    <3> QED
      BY <3>2, <3>3
  <2> QED
    BY <2>2, <2>3
<1>11. ASSUME NEW f \in Factors, OtherUser(f) PROVE AloneInv'
  <2>1. off' \in {off, Place, off \cup Local} /\ UNCHANGED run
    BY <1>11 DEF OtherUser
  <2> QED
    BY <1>0, <1>1, <2>1
<1>12. ASSUME NEW f \in Factors, NEW w \in Worker, Call(w, f) PROVE AloneInv'
  <2>1. CASE UNCHANGED <<run, off>>
    BY <1>1, <2>1
  <2>2. CASE Valid(f) /\ Begin(w, f, off)
    <3>1. f \in Maps /\ Valid(f)
      BY <2>2 DEF Maps, Known, Valid
    <3> QED
      BY <1>0, <2>2, <3>1, BeginBusy
  <2> QED
    BY <1>12, <2>1, <2>2 DEF Call
<1>13. ASSUME NEW w \in Worker, Adopt(w) PROVE AloneInv'
  <2>1. CASE Valid(centre) /\ Begin(w, centre, off \ {"centre"})
    <3>1. centre \in Maps /\ off \ {"centre"} \in SUBSET Place
      BY <1>0, <1>13 DEF MapsInv, LifeInv, Adopt
    <3> QED
      BY <1>0, <2>1, <3>1, BeginBusy
  <2>2. CASE UNCHANGED run /\ off' \in {off, off \cup {"centre"}, Place}
    BY <1>0, <1>1, <2>2
  <2> QED
    BY <1>13, <2>1, <2>2 DEF Adopt
<1>14. CASE UNCHANGED vars
  BY <1>1, <1>14 DEF vars
<1> QED
  BY <1>2, <1>3, <1>4, <1>5, <1>6, <1>7, <1>8, <1>9, <1>10, <1>11, <1>12, <1>13, <1>14 DEF Next
-----------------------------------------------------------------------------
(* The user's own.  PlacesAgree is not inductive: it says nothing of the   *)
(* places while they are written, of a session that is over, or of one     *)
(* that is starting.  Outside of D the places are those of one map, which  *)
(* is valid unless D has them all:                                         *)

Fit(f, D) ==
    /\ f = None \/ Valid(f) \/ Local \subseteq D
    /\ \A p \in Local \ D : place[p] = Set(f)[p]
Fits(D)   == \E f \in Maps : Fit(f, D)

\* The map that the session takes for the one that is set.
Ref == IF life = "on" THEN mem ELSE newest

Alike(f, g) == Rounded(f) = Rounded(g) /\ (f \in Factors \cup {Recommendation} \/ f = g)

\* handleLocalCenterSF will set what the centre has.
Differs == centre # None /\ place["ind"] # centre

\* What was written before p.
Done(p) ==
    CASE p = "sf"  -> {}
      [] p = "ws"  -> {"sf"}
      [] p = "cs"  -> {"sf", "ws"}
      [] p = "ind" -> {"sf", "ws", "cs"}
      [] p = "qt"  -> Local \ {"qt"}

\* When nobody writes ...
RestInv ==
    Busy = {} =>
        IF life = "off" THEN Differs \/ Fits(off)
        ELSE \E f \in Maps : Fit(f, off) /\ ("centre" \notin off => Alike(f, Ref))

\* ... when somebody does ...
WriteInv ==
    \A a \in Busy : alone[a] =>
        /\ pc[a] = "centre" => bad[a] = {} /\ (Fits(off) \/ (life = "sync" /\ Differs))
        /\ pc[a] # "centre" => /\ "centre" \notin off => Ref = arg[a]
                               /\ \A p \in Done(pc[a]) \ bad[a] : place[p] = Of(p, arg[a])

\* ... before the last write ...
TailInv ==
    (\A a \in Busy : pc[a] # "qt") /\ "ind" \notin off /\ "qt" \notin off => place["qt"] = place["ind"]

\* ... and when a session is over.
OffInv == life = "off" /\ "ind" \in off => Local \subseteq off

Inv == BaseInv /\ CentreInv /\ AloneInv /\ RestInv /\ WriteInv /\ TailInv /\ OffInv

LEMMA DoneType ==
  /\ Done("sf") = {}
  /\ \A p \in Local \ {"qt"} : Done(After(p)) = Done(p) \cup {p} /\ p \notin Done(p) /\ After(p) # "centre"
  /\ Done("qt") = Local \ {"qt"}
  /\ \A p \in Local : Done(p) \subseteq Local
BY AfterType DEF Done, Local

\* A place whose value is not certain may hold that of any map.
LEMMA FitMore ==
  /\ \A f, D, E : Local \cap D \subseteq E /\ Fit(f, D) => Fit(f, E)
  /\ \A D, E : Local \cap D \subseteq E /\ Fits(D) => Fits(E)
  /\ \A f, D : Local \subseteq D => Fit(f, D)
  /\ \A D : Local \subseteq D => Fits(D)
<1>1. None \in Maps
  BY DEF Maps
<1> QED
  BY <1>1 DEF Fit, Fits

\* A goroutine that begins: what the user has belongs to one map, or to none but then
\* main is about to replace it by what the centre has.
LEMMA BeginLocal ==
  ASSUME BaseInv, NEW a \in Actor, NEW f \in Maps, Valid(f), NEW d \in SUBSET Place, Begin(a, f, d),
         UNCHANGED place, Local \cap off \subseteq d, life' # "off",
         Busy = {} => Fits(off) \/ (life' = "sync" /\ Differs')
  PROVE  RestInv' /\ WriteInv' /\ OffInv'
<1>1. Busy' = Busy \cup {a}
      /\ (alone'[a] => Busy = {} /\ Busy' = {a} /\ off' = d)
      /\ (\A b \in Busy' : alone'[b] => b = a)
  BY BeginBusy
<1>2. pc'[a] = "centre" /\ bad'[a] = {}
  BY BeginForm
<1>3. Fits(off) => Fits(d)
  BY FitMore
<1>4. Fits(d) => Fits(d)'
  BY DEF Fits, Fit
<1>5. ASSUME NEW b \in Busy', alone'[b]
      PROVE  pc'[b] = "centre" /\ bad'[b] = {} /\ (Fits(off)' \/ (life' = "sync" /\ Differs'))
  <2>1. b = a /\ off' = d /\ Busy = {}
    BY <1>1, <1>5
  <2>2. Fits(off) => Fits(off)'
    BY <1>3, <2>1 DEF Fits, Fit
  <2> QED
    BY <1>2, <2>1, <2>2
<1>6. WriteInv'
  BY <1>5 DEF WriteInv
<1>7. RestInv'
  BY <1>1 DEF RestInv
<1> QED
  BY <1>6, <1>7 DEF OffInv

\* A step that writes nothing of the user's.
LEMMA LocalFrame ==
  ASSUME Inv, UNCHANGED <<place, run>>, Local \cap off \subseteq off', life # "off", life' # "off",
         life = "sync" => Busy = {},
         "centre" \notin off' => "centre" \notin off /\ Ref' = Ref
  PROVE  RestInv' /\ WriteInv' /\ OffInv'
<1>1. Busy' = Busy /\ pc' = pc /\ arg' = arg /\ bad' = bad /\ alone' = alone
  BY DEF Busy, run
<1>2. \A f \in Maps : Fit(f, off) => Fit(f, off)'
  BY DEF Fit
<1>3. Fits(off) => Fits(off)'
  BY <1>2 DEF Fits
<1>4. RestInv'
  <2> SUFFICES ASSUME Busy = {}
               PROVE  \E f \in Maps : Fit(f, off)' /\ ("centre" \notin off' => Alike(f, Ref'))
    BY <1>1 DEF RestInv, Alike
  <2>1. PICK f \in Maps : Fit(f, off) /\ ("centre" \notin off => Alike(f, Ref))
    BY DEF Inv, RestInv
  <2> QED
    BY <1>2, <2>1
<1>5. WriteInv'
  BY <1>1, <1>3 DEF Inv, WriteInv
<1> QED
  BY <1>4, <1>5 DEF OffInv

\* What the user has at a login that writes nothing is what the centre is told, or has,
\* as far as two decimals can tell.
LEMMA SyncRest ==
  ASSUME BaseInv, OffInv, life = "off", Fits(off), "centre" \notin off => newest = place["ind"]
  PROVE  \E f \in Maps : Fit(f, off) /\ ("centre" \notin off => Alike(f, newest))
<1>1. CASE "ind" \in off
  <2>1. newest \in Maps /\ Fit(newest, off)
    BY <1>1, FitMore DEF BaseInv, MapsInv, OffInv
  <2> QED
    BY <2>1 DEF Alike
<1>2. CASE "ind" \notin off
  <2>1. PICK f \in Maps : Fit(f, off)
    BY DEF Fits
  <2>2. place["ind"] = Set(f)["ind"] /\ Rounded(place["ind"]) = place["ind"]
    BY <1>2, <2>1 DEF Fit, Local, BaseInv, MapsInv
  <2>3. Set(f)["ind"] = Rounded(f)
    <3>1. CASE f = None
      BY <3>1, NoneMap, SetType
    <3>2. CASE f # None
      BY <3>2, SetType, OfType DEF Local
    <3> QED
      BY <3>1, <3>2
  <2>4. "centre" \notin off => Alike(f, newest)
    BY <2>2, <2>3, MapsType DEF Alike
  <2> QED
    BY <2>1, <2>4
<1> QED
  BY <1>1, <1>2

\* The end of a session.  What is not written at the next login is certain.
LEMMA QuitLocal ==
  ASSUME Inv, Quit
  PROVE  RestInv' /\ WriteInv' /\ OffInv'
<1> DEFINE o == IF "ind" \in off \cup Unrepaired THEN Local ELSE off \cup Unrepaired
<1>1. life' = "off" /\ Busy' = {} /\ UNCHANGED <<centre, place>> /\ off' = o \ {"centre"}
  BY DEF Quit, Busy, settings
<1>2. Local \cap off' = Local \cap o
  BY <1>1 DEF Local
<1>3. \A f \in Maps : Fit(f, o) => Fit(f, off)'
  BY <1>1, <1>2 DEF Fit
<1>4. Fits(o) => Fits(off)'
  BY <1>3 DEF Fits
<1>5. Differs => Differs'
  BY <1>1 DEF Differs
<1>6. Differs \/ Fits(o)
  <2>1. CASE "ind" \in off \cup Unrepaired
    BY <2>1, FitMore
  <2>2. CASE "ind" \notin off \cup Unrepaired /\ Busy = {}
    <3>1. Fits(off)
      BY <2>2 DEF Quit, Inv, RestInv, Fits
    <3> QED
      BY <2>2, <3>1, FitMore
  <2>3. ASSUME "ind" \notin off \cup Unrepaired, NEW a \in Busy PROVE Differs \/ Fits(o)
    <3>1. alone[a] /\ Busy = {a}
      BY <2>3 DEF Inv, AloneInv, Local
    <3>2. arg[a] \in Maps /\ arg[a] # None /\ Valid(arg[a]) /\ pc[a] \in Place
      BY NobodyYet DEF Inv
    <3>3. o = off \cup Unrepaired /\ bad[a] \subseteq Place
      BY <2>3 DEF Inv, BaseInv, SimpleType, Busy
    <3>4. CASE pc[a] = "centre"
      <4>1. Fits(off) \/ Differs
        BY <3>1, <3>4 DEF Inv, WriteInv
      <4> QED
        BY <3>3, <4>1, FitMore
    <3>5. CASE pc[a] # "centre"
      <4>1. /\ \A p \in Done(pc[a]) \ bad[a] : place[p] = Of(p, arg[a])
            /\ bad[a] \subseteq Unrepaired
        BY <3>1, <3>3, <3>5 DEF Inv, WriteInv, Unrepaired
      <4>2. CASE pc[a] = "qt"
        <5>1. "qt" \in Unrepaired
          BY <4>2 DEF Unrepaired, Place, Local
        <5>2. \A p \in Local \ o : place[p] = Of(p, arg[a])
          BY <3>3, <4>1, <4>2, <5>1, DoneType
        <5> QED
          BY <3>2, <5>2, SetType DEF Fits, Fit
      <4>3. CASE pc[a] # "qt"
        <5>1. arg[a] = centre
          BY <2>3, <3>5, <4>3 DEF Unrepaired, Place, Local
        <5>2. CASE place["ind"] = centre
          <6>1. place["qt"] = centre \/ "qt" \in off
            BY <2>3, <3>1, <4>3, <5>2 DEF Inv, TailInv
          <6>2. \A p \in Local \ Unrepaired : place[p] = Of(p, arg[a])
            BY <3>5, <4>3, <5>2, <6>1 DEF Unrepaired, Place
          <6>3. Fit(arg[a], o)
            BY <3>2, <3>3, <6>2, SetType DEF Fit
          <6> QED
            BY <3>2, <6>3 DEF Fits
        <5>3. CASE place["ind"] # centre
          BY <3>2, <5>1, <5>3 DEF Differs
        <5> QED
          BY <5>2, <5>3
      <4> QED
        BY <4>2, <4>3
    <3> QED
      BY <3>4, <3>5
  <2> QED
    BY <2>1, <2>2, <2>3
<1>7. RestInv'
  BY <1>1, <1>4, <1>5, <1>6 DEF RestInv
<1>8. OffInv'
  BY <1>1 DEF OffInv, Local
<1> QED
  BY <1>1, <1>7, <1>8 DEF WriteInv
\* The write of the centre.
LEMMA WriteCentreLocal ==
  ASSUME Inv, NEW a \in Actor, WriteCentre(a), CentreInv'
  PROVE  RestInv' /\ WriteInv' /\ OffInv'
<1> USE DEF settings, process, run, bounds
<1>1. /\ pc[a] = "centre" /\ pc'[a] = "sf" /\ UNCHANGED <<arg, alone>>
      /\ arg[a] # None /\ Busy' = Busy /\ a \in Busy
  BY AdvanceForm, AfterType, WriteBusy DEF WriteCentre, Place, Inv
<1>2. life # "off" /\ life' = life /\ Main \in Actor
  BY <1>1, NobodyYet DEF WriteCentre, Inv, Actor
<1>3. \A b \in Busy : alone[b] => b = a
  BY <1>1 DEF Inv, AloneInv
<1>4. "centre" \notin off' => Ref' = arg[a]
  <2> SUFFICES ASSUME "centre" \notin off' PROVE Ref' = arg[a]
    OBVIOUS
  <2>1. CASE life = "on"
    BY <1>2, <2>1 DEF WriteCentre, SaveCentre, Ref
  <2>2. CASE life # "on" /\ a # Main
    BY <1>2, <2>2 DEF WriteCentre, Ref
  <2>3. CASE a = Main
    <3>1. life \in {"sync", "adjusted"}
      BY <1>1, <2>3 DEF Inv, BaseInv, LifeInv
    <3>2. off' = off /\ newest' = newest
      BY <2>3, <3>1 DEF WriteCentre
    <3>3. newest = arg[Main]
      BY <1>1, <2>3, <3>1, <3>2 DEF Inv, CentreInv
    <3> QED
      BY <1>2, <2>3, <3>1, <3>2, <3>3 DEF Ref
  <2> QED
    BY <2>1, <2>2, <2>3
<1>5. WriteInv'
  BY <1>1, <1>3, <1>4, DoneType DEF WriteInv
<1>6. RestInv'
  BY <1>1 DEF RestInv
<1> QED
  BY <1>2, <1>5, <1>6 DEF OffInv

\* The write of a place of the user's own.
LEMMA WriteLocalLocal ==
  ASSUME Inv, NEW a \in Actor, NEW p \in Local, WriteLocal(a, p)
  PROVE  RestInv' /\ WriteInv' /\ OffInv'
<1> USE DEF settings, process, run, bounds
<1>0. p \in Place /\ BaseInv /\ Advance(a, p) /\ p # "centre"
  BY DEF Place, Inv, WriteLocal, Local
<1>1. /\ pc[a] = p /\ pc'[a] = After(p) /\ UNCHANGED <<arg, alone>>
      /\ arg[a] \in Maps /\ arg[a] # None /\ Valid(arg[a])
      /\ \A b \in Actor \ {a} : pc'[b] = pc[b]
  BY <1>0, AdvanceForm
<1>2. a \in Busy /\ (p # "qt" => Busy' = Busy) /\ (p = "qt" => Busy' = Busy \ {a})
  BY <1>0, WriteBusy
<1>3. life # "off" /\ UNCHANGED <<life, mem, newest>> /\ Ref' = Ref
  BY <1>0, <1>2, NobodyYet DEF WriteLocal, Ref
<1>4. \A b \in Busy : alone[b] => b = a /\ Busy = {a}
  BY <1>2 DEF Inv, AloneInv
<1>5. bad \in [Actor -> SUBSET Place]
  BY <1>0 DEF BaseInv, SimpleType
<1>6. /\ bad[a] \subseteq bad'[a]
      /\ \A q \in Local \ {p} : place'[q] = place[q]
      /\ p \notin bad'[a] => place'[p] = Of(p, arg[a])
  BY <1>0, <1>5, WriteLocalForm
<1>7. ASSUME alone[a]
      PROVE  /\ \A q \in (Done(p) \cup {p}) \ bad'[a] : place'[q] = Of(q, arg[a])
             /\ "centre" \notin off => Ref = arg[a]
  <2>1. /\ \A q \in Done(p) \ bad[a] : place[q] = Of(q, arg[a])
        /\ "centre" \notin off => Ref = arg[a]
    BY <1>0, <1>1, <1>2, <1>7 DEF Inv, WriteInv
  <2>2. Done(p) \subseteq Local
    BY DoneType
  <2> QED
    BY <1>6, <2>1, <2>2
<1>8. CASE p # "qt"
  <2>1. off' = off /\ Busy' = Busy
    BY <1>2, <1>8 DEF WriteLocal
  <2>2. pc'[a] # "centre" /\ Done(pc'[a]) = Done(p) \cup {p}
    BY <1>1, <1>8, DoneType
  <2>3. WriteInv'
    BY <1>1, <1>3, <1>4, <1>7, <2>1, <2>2 DEF WriteInv
  <2>4. RestInv'
    BY <1>2, <2>1 DEF RestInv
  <2> QED
    BY <1>3, <2>3, <2>4 DEF OffInv
<1>9. CASE p = "qt"
  <2>1. off' = (IF alone[a] THEN off \cap {"centre"} ELSE off) \cup bad'[a] /\ Busy' = Busy \ {a}
    BY <1>2, <1>9 DEF WriteLocal
  <2>2. WriteInv'
    BY <1>1, <1>4, <2>1 DEF WriteInv
  <2>3. CASE alone[a]
    <3>1. Done(p) \cup {p} = Local
      BY <1>9, DoneType
    <3>2. Fit(arg[a], off)'
      <4> SUFFICES ASSUME NEW q \in Local \ off' PROVE place'[q] = Set(arg[a])[q]
        BY <1>1 DEF Fit
      <4>1. q \notin bad'[a]
        BY <2>1
      <4> QED
        BY <1>1, <1>7, <2>3, <3>1, <4>1, SetType
    <3>3. "centre" \notin off' => Alike(arg[a], Ref')
      BY <1>3, <1>7, <2>1, <2>3 DEF Alike
    <3>4. \E f \in Maps : Fit(f, off)' /\ ("centre" \notin off' => Alike(f, Ref'))
      BY <1>1, <3>2, <3>3 DEF Fit
    <3> QED
      BY <1>3, <2>2, <3>4 DEF RestInv, OffInv, Alike
  <2>4. CASE ~alone[a]
    <3>1. Local \subseteq off'
      BY <1>2, <2>1, <2>4 DEF Inv, AloneInv
    <3>2. Alike(Ref', Ref')
      BY DEF Alike
    <3>3. Ref \in Maps
      BY <1>0 DEF BaseInv, MapsInv, Ref
    <3>4. \A f : Fit(f, off)'
      BY <3>1 DEF Fit
    <3>5. \E f \in Maps : Fit(f, off)' /\ ("centre" \notin off' => Alike(f, Ref'))
      BY <1>3, <3>2, <3>3, <3>4
    <3> QED
      BY <1>3, <2>2, <3>5 DEF RestInv, OffInv, Alike
  <2> QED
    BY <2>3, <2>4
<1> QED
  BY <1>8, <1>9
LEMMA LocalStep == Inv /\ CentreInv' /\ [Next]_vars => RestInv' /\ WriteInv' /\ OffInv'
<1> SUFFICES ASSUME Inv, CentreInv', [Next]_vars PROVE RestInv' /\ WriteInv' /\ OffInv'
  OBVIOUS
<1>0. /\ BaseInv /\ MapsInv /\ SimpleType /\ LifeInv /\ RestInv
      /\ Main \in Actor /\ Worker \subseteq Actor /\ off \in SUBSET Place /\ "centre" \notin Local
  BY DEF Inv, BaseInv, SimpleType, Actor, Local
<1> USE DEF settings, process, run, bounds
<1>1. CASE Sync
  <2>1. life = "off" /\ life' = "sync" /\ Busy = {} /\ UNCHANGED <<place, centre, newest>>
    BY <1>0, <1>1, NobodyYet DEF Sync
  <2>2. CASE Valid(centre) /\ place["ind"] # centre /\ Begin(Main, centre, off)
    <3>1. life' # "off" /\ centre \in Maps /\ Differs'
      BY <1>0, <2>1, <2>2 DEF MapsInv, Differs, Valid
    <3> QED
      BY <1>0, <2>1, <2>2, <3>1, BeginLocal
  <2>3. CASE UNCHANGED run /\ ((~Differs /\ off' = off) \/ off' \in {Place, off \cup Local})
    <3>1. Busy' = {} /\ WriteInv' /\ OffInv'
      BY <2>1, <2>3 DEF Busy, WriteInv, OffInv
    <3>2. CASE off' = Place
      <4>1. None \in Maps /\ Fit(None, off)' /\ "centre" \in off'
        BY <3>2 DEF Maps, Fit, Place
      <4> QED
        BY <2>1, <3>1, <4>1 DEF RestInv
    <3>4. CASE off' = off \cup Local
      <4>1. newest \in Maps /\ Fit(newest, off)' /\ Ref' = newest
        BY <1>0, <2>1, <3>4 DEF MapsInv, Fit, Ref
      <4> QED
        BY <2>1, <3>1, <4>1 DEF RestInv, Alike
    <3>3. CASE ~Differs /\ off' = off
      <4>1. Fits(off)
        BY <1>0, <2>1, <3>3 DEF RestInv
      <4>2. "centre" \notin off => newest = place["ind"]
        BY <2>1, <3>3 DEF Inv, CentreInv, Differs
      <4>3. PICK f \in Maps : Fit(f, off) /\ ("centre" \notin off => Alike(f, newest))
        BY <1>0, <2>1, <4>1, <4>2, SyncRest DEF Inv
      <4>4. Fit(f, off)' /\ ("centre" \notin off' => Alike(f, Ref'))
        BY <2>1, <3>3, <4>3 DEF Fit, Ref
      <4> QED
        BY <2>1, <3>1, <4>4 DEF RestInv, Alike
    <3> QED
      BY <2>3, <3>2, <3>3, <3>4
  <2> QED
    BY <1>1, <2>2, <2>3 DEF Sync, Differs
<1>2. CASE Adjust
  <2> DEFINE f == Recommendation
             d == IF centre = None /\ place["sf"] <= 0 THEN off ELSE Place
  <2>1. life = "sync" /\ life' = "adjusted" /\ Busy = {} /\ UNCHANGED place
    BY <1>0, <1>2, NobodyYet DEF Adjust, Busy
  <2>2. CASE Begin(Main, f, d)
    <3>1. f \in Maps /\ Valid(f)
      BY KnownType DEF Maps
    <3>2. d \in SUBSET Place /\ Local \cap off \subseteq d
      BY <1>0
    <3>3. Fits(off)
      BY <1>0, <2>1 DEF RestInv, Fits
    <3> HIDE DEF f, d
    <3> QED
      BY <1>0, <2>1, <2>2, <3>1, <3>2, <3>3, BeginLocal
  <2>3. CASE UNCHANGED <<run, off, newest, fails>>
    <3>1. Ref' = Ref
      BY <2>1, <2>3 DEF Ref
    <3> QED
      BY <2>1, <2>3, <3>1, LocalFrame
  <2> QED
    BY <1>2, <2>2, <2>3 DEF Adjust
<1>3. CASE UpdateDPI
  <2>1. /\ UNCHANGED <<place, run>> /\ off' = off /\ life = "adjusted" /\ life' = "named"
        /\ Ref' = Ref
    BY <1>3 DEF UpdateDPI, Ref
  <2> QED
    BY <2>1, LocalFrame
<1>4. CASE Load
  <2>1. /\ UNCHANGED <<place, run>> /\ off' = off /\ life = "named" /\ life' = "loaded"
        /\ Ref' = Ref
    BY <1>4 DEF Load, Ref
  <2> QED
    BY <2>1, LocalFrame
<1>5. CASE Send
  <2>1. /\ UNCHANGED <<place, run>> /\ off' \in {off, off \cup {"centre"}}
        /\ life = "loaded" /\ life' = "sent" /\ Ref' = Ref
    BY <1>5 DEF Send, Ref
  <2> QED
    BY <2>1, LocalFrame
<1>6. CASE StartDisplay
  <2>1. /\ UNCHANGED <<place, run>> /\ off' \in {off, off \cup {"centre"}}
        /\ life \in {"sent", "up"} /\ life' \in {"up", "on"}
    BY <1>6 DEF StartDisplay
  <2>2. "centre" \notin off' => Ref' = Ref
    BY <1>6 DEF StartDisplay, Ref, Inv, CentreInv
  <2> QED
    BY <2>1, <2>2, LocalFrame
<1>7. CASE Quit
  BY <1>7, QuitLocal
<1>8. ASSUME NEW a \in Actor, WriteCentre(a) PROVE RestInv' /\ WriteInv' /\ OffInv'
  BY <1>8, WriteCentreLocal
<1>9. ASSUME NEW a \in Actor, NEW p \in Local, WriteLocal(a, p) PROVE RestInv' /\ WriteInv' /\ OffInv'
  BY <1>9, WriteLocalLocal
<1>10. ASSUME NEW f \in Factors, OtherUser(f) PROVE RestInv' /\ WriteInv' /\ OffInv'
  <2>1. /\ UNCHANGED <<place, run, life, mem>> /\ centre' = f /\ newest' = f /\ f # None
        /\ Busy' = Busy
    BY <1>10 DEF OtherUser, Busy
  <2>2. CASE life = "off"
    <3>1. Busy = {} /\ off' = IF place["ind"] = f THEN off \cup Local ELSE off
      BY <1>0, <1>10, <2>2, NobodyYet DEF OtherUser
    <3>2. WriteInv' /\ OffInv'
      BY <2>1, <2>2, <3>1 DEF WriteInv, OffInv, Inv
    <3>3. CASE place["ind"] = f
      <4>1. None \in Maps /\ Fit(None, off)'
        BY <3>1, <3>3 DEF Maps, Fit
      <4> QED
        BY <2>1, <2>2, <3>2, <4>1 DEF RestInv, Fits, Fit
    <3>4. CASE place["ind"] # f
      BY <2>1, <2>2, <3>2, <3>4 DEF RestInv, Differs
    <3> QED
      BY <3>3, <3>4
  <2>3. CASE life = "on"
    <3>1. off' = off /\ Ref' = Ref
      BY <1>10, <2>1, <2>3 DEF OtherUser, Ref
    <3> QED
      BY <2>1, <2>3, <3>1, LocalFrame
  <2>4. CASE life \notin {"off", "on"}
    <3>1. off' = Place
      BY <1>10, <2>4 DEF OtherUser
    <3>2. None \in Maps /\ Fit(None, off)' /\ "centre" \in off'
      BY <3>1 DEF Maps, Fit, Place
    <3>3. Fits(off)'
      BY <3>2 DEF Fits, Fit
    <3>4. RestInv'
      BY <2>1, <2>4, <3>2 DEF RestInv
    <3>5. WriteInv'
      BY <2>1, <3>2, <3>3 DEF WriteInv, Inv
    <3> QED
      BY <2>1, <2>4, <3>4, <3>5 DEF OffInv
  <2> QED
    BY <2>2, <2>3, <2>4
<1>11. ASSUME NEW f \in Factors, NEW w \in Worker, Call(w, f) PROVE RestInv' /\ WriteInv' /\ OffInv'
  <2>1. UNCHANGED <<place, mem, newest, life>> /\ life \notin {"off", "sync"} /\ Ref' = Ref
    BY <1>11 DEF Call, Ref
  <2>2. CASE UNCHANGED <<run, off>>
    BY <2>1, <2>2, LocalFrame
  <2>3. CASE Valid(f) /\ Begin(w, f, off)
    <3>1. f \in Maps /\ Valid(f)
      BY <2>3 DEF Maps, Known, Valid
    <3>2. Busy = {} => Fits(off)
      BY <1>0, <2>1 DEF RestInv, Fits
    <3> QED
      BY <1>0, <2>1, <2>3, <3>1, <3>2, BeginLocal
  <2> QED
    BY <1>11, <2>2, <2>3 DEF Call
<1>12. ASSUME NEW w \in Worker, Adopt(w) PROVE RestInv' /\ WriteInv' /\ OffInv'
  <2>1. UNCHANGED <<place, life>> /\ life = "on" /\ centre \in Maps /\ centre # None
    BY <1>0, <1>12 DEF Adopt, LifeInv, MapsInv
  <2>2. CASE Valid(centre) /\ Begin(w, centre, off \ {"centre"})
    <3>1. Busy = {} => Fits(off)
      BY <1>0, <2>1 DEF RestInv, Fits
    <3>2. off \ {"centre"} \in SUBSET Place /\ Local \cap off \subseteq off \ {"centre"}
      BY <1>0
    <3> QED
      BY <1>0, <2>1, <2>2, <3>1, <3>2, BeginLocal
  <2>3. CASE UNCHANGED <<mem, run>> /\ off' \in {off, off \cup {"centre"}}
    <3>1. Ref' = Ref
      BY <2>1, <2>3 DEF Ref
    <3> QED
      BY <2>1, <2>3, <3>1, LocalFrame
  <2>4. CASE UNCHANGED run /\ off' = Place
    <3>1. Local \cap off \subseteq off' /\ "centre" \in off'
      BY <2>4 DEF Place
    <3> QED
      BY <2>1, <2>4, <3>1, LocalFrame
  <2> QED
    BY <1>12, <2>2, <2>3, <2>4 DEF Adopt
<1>13. CASE UNCHANGED vars
  BY <1>13 DEF vars, Inv, RestInv, WriteInv, OffInv, Differs, Fits, Fit, Ref, Busy
<1> QED
  BY <1>1, <1>2, <1>3, <1>4, <1>5, <1>6, <1>7, <1>8, <1>9, <1>10, <1>11, <1>12, <1>13 DEF Next

\* individual-scaling and qt-theme.ini have the same map until the last write.
LEMMA TailStep == Inv /\ [Next]_vars => TailInv'
<1> SUFFICES ASSUME Inv, [Next]_vars PROVE TailInv'
  OBVIOUS
<1>0. /\ BaseInv /\ MapsInv /\ LifeInv /\ TailInv /\ Main \in Actor /\ Worker \subseteq Actor
      /\ off \in SUBSET Place /\ Local \subseteq Place
  BY DEF Inv, BaseInv, SimpleType, Actor, Place
<1> USE DEF settings, process, run, bounds
<1>1. ASSUME UNCHANGED place, Local \cap off \subseteq off',
             \A a \in Busy : pc[a] = "qt" => a \in Busy' /\ pc'[a] = "qt"
      PROVE  TailInv'
  BY <1>0, <1>1 DEF TailInv, Local
<1>2. ASSUME UNCHANGED <<place, run>>, Local \cap off \subseteq off' PROVE TailInv'
  BY <1>1, <1>2 DEF Busy
<1>3. ASSUME NEW a \in Actor, NEW f \in Maps, Valid(f), NEW d \in SUBSET Place, Begin(a, f, d),
             UNCHANGED place, Local \cap off \subseteq d
      PROVE  TailInv'
  <2>1. /\ off' \in {d, Place} /\ pc[a] = "idle" /\ Busy' = Busy \cup {a} /\ a \notin Busy
        /\ \A b \in Actor \ {a} : pc'[b] = pc[b]
    BY <1>0, <1>3, BeginForm, BeginBusy
  <2> QED
    BY <1>0, <1>1, <1>3, <2>1 DEF Busy
<1>4. CASE Sync
  <2>1. CASE Valid(centre) /\ Begin(Main, centre, off)
    BY <1>0, <1>3, <1>4, <2>1 DEF Sync, MapsInv
  <2>2. CASE UNCHANGED run
    BY <1>0, <1>2, <1>4, <2>2 DEF Sync, Begin, Place
  <2> QED
    BY <1>4, <2>1, <2>2 DEF Sync
<1>5. CASE Adjust
  <2> DEFINE f == Recommendation
             d == IF centre = None /\ place["sf"] <= 0 THEN off ELSE Place
  <2>1. CASE Begin(Main, f, d)
    <3>1. f \in Maps /\ Valid(f)
      BY KnownType DEF Maps
    <3>2. d \in SUBSET Place /\ Local \cap off \subseteq d /\ UNCHANGED place
      BY <1>0, <1>5 DEF Adjust
    <3> HIDE DEF f, d
    <3> QED
      BY <1>0, <1>3, <2>1, <3>1, <3>2
  <2>2. CASE UNCHANGED <<run, off, newest, fails>>
    BY <1>2, <1>5, <2>2 DEF Adjust
  <2> QED
    BY <1>5, <2>1, <2>2 DEF Adjust
<1>6. CASE UpdateDPI
  BY <1>2, <1>6 DEF UpdateDPI
<1>7. CASE Load
  BY <1>2, <1>7 DEF Load
<1>8. CASE Send
  <2>1. UNCHANGED <<place, run>> /\ off' \in {off, off \cup {"centre"}}
    BY <1>8 DEF Send
  <2> QED
    BY <1>2, <2>1
<1>9. CASE StartDisplay
  BY <1>2, <1>9 DEF StartDisplay
<1>10. CASE Quit
  <2>1. Local \cap (off \cup Unrepaired) \subseteq off' /\ UNCHANGED place
    BY <1>10 DEF Quit, Local
  <2>2. (\E a \in Busy : pc[a] = "qt") => "qt" \in off'
    BY <2>1 DEF Unrepaired, Place, Local
  <2> QED
    BY <1>0, <2>1, <2>2 DEF TailInv, Local
<1>11. ASSUME NEW a \in Actor, WriteCentre(a) PROVE TailInv'
  <2>1. /\ pc[a] = "centre" /\ Busy' = Busy /\ UNCHANGED place
        /\ \A b \in Actor \ {a} : pc'[b] = pc[b]
    BY <1>0, <1>11, AdvanceForm, WriteBusy DEF WriteCentre, Place
  <2>2. off' \in {off, off \cup {"centre"}, off \ {"centre"}}
    BY <1>11 DEF WriteCentre
  <2> QED
    BY <1>1, <2>1, <2>2 DEF Busy, Local
<1>12. ASSUME NEW a \in Actor, NEW p \in Local, WriteLocal(a, p) PROVE TailInv'
  <2>0. p \in Place /\ Advance(a, p)
    BY <1>0, <1>12 DEF WriteLocal
  <2>1. /\ pc[a] = p /\ pc'[a] = After(p) /\ arg[a] \in Maps /\ arg[a] # None /\ Valid(arg[a])
        /\ \A b \in Actor \ {a} : pc'[b] = pc[b]
    BY <1>0, <2>0, AdvanceForm
  <2>2. a \in Busy /\ (p # "qt" => Busy' = Busy)
    BY <1>0, <2>0, WriteBusy
  <2>3. /\ \A q \in Local \ {p} : place'[q] = place[q]
        /\ p \notin bad'[a] => place'[p] = Of(p, arg[a])
        /\ bad[a] \subseteq bad'[a]
    BY <1>0, <1>12, WriteLocalForm DEF BaseInv, SimpleType
  <2>4. CASE p \in {"sf", "ws", "cs"}
    <3>1. off' = off /\ Busy' = Busy /\ place'["ind"] = place["ind"] /\ place'["qt"] = place["qt"]
      BY <1>12, <2>2, <2>3, <2>4 DEF WriteLocal, Local
    <3>2. \A b \in Busy : pc[b] = "qt" => pc'[b] = "qt"
      BY <2>1, <2>4 DEF Busy
    <3> QED
      BY <1>0, <3>1, <3>2 DEF TailInv
  <2>5. CASE p = "ind"
    BY <2>1, <2>2, <2>5, AfterType DEF TailInv
  <2>6. CASE p = "qt"
    <3>1. off' = (IF alone[a] THEN off \cap {"centre"} ELSE off) \cup bad'[a]
      BY <1>12, <2>6 DEF WriteLocal
    <3>2. CASE alone[a]
      <4>1. "ind" \notin bad[a] => place["ind"] = Of("ind", arg[a])
        BY <2>1, <2>2, <2>6, <3>2, DoneType DEF Inv, WriteInv, Local
      <4>2. Of("ind", arg[a]) = Of("qt", arg[a])
        BY <2>1, OfType
      <4>3. "ind" \notin bad'[a] /\ "qt" \notin bad'[a] => place'["qt"] = place'["ind"]
        BY <2>3, <2>6, <4>1, <4>2 DEF Local
      <4> QED
        BY <3>1, <4>3 DEF TailInv
    <3>3. CASE ~alone[a]
      BY <2>2, <3>1, <3>3 DEF Inv, AloneInv, TailInv, Local
    <3> QED
      BY <3>2, <3>3
  <2> QED
    BY <2>4, <2>5, <2>6 DEF Local
<1>13. ASSUME NEW f \in Factors, OtherUser(f) PROVE TailInv'
  <2>1. UNCHANGED <<place, run>> /\ off' \in {off, Place, off \cup Local}
    BY <1>13 DEF OtherUser
  <2> QED
    BY <1>0, <1>2, <2>1
<1>14. ASSUME NEW f \in Factors, NEW w \in Worker, Call(w, f) PROVE TailInv'
  <2>1. CASE UNCHANGED <<run, off>>
    BY <1>2, <1>14, <2>1 DEF Call
  <2>2. CASE Valid(f) /\ Begin(w, f, off)
    <3>1. f \in Maps /\ Valid(f) /\ UNCHANGED place
      BY <1>14, <2>2 DEF Maps, Known, Valid, Call
    <3> QED
      BY <1>0, <1>3, <2>2, <3>1
  <2> QED
    BY <1>14, <2>1, <2>2 DEF Call
<1>15. ASSUME NEW w \in Worker, Adopt(w) PROVE TailInv'
  <2>1. UNCHANGED place /\ centre \in Maps /\ centre # None
    BY <1>0, <1>15 DEF Adopt, LifeInv, MapsInv
  <2>2. CASE Valid(centre) /\ Begin(w, centre, off \ {"centre"})
    BY <1>0, <1>3, <2>1, <2>2 DEF Local
  <2>3. CASE UNCHANGED run /\ off' \in {off, off \cup {"centre"}, Place}
    BY <1>0, <1>2, <2>1, <2>3
  <2> QED
    BY <1>15, <2>2, <2>3 DEF Adopt
<1>16. CASE UNCHANGED vars
  BY <1>2, <1>16 DEF vars
<1> QED
  BY <1>4, <1>5, <1>6, <1>7, <1>8, <1>9, <1>10, <1>11, <1>12, <1>13, <1>14, <1>15, <1>16 DEF Next

LEMMA InvInit == Init => Inv
<1> SUFFICES ASSUME Init PROVE Inv
  OBVIOUS
<1>1. BaseInv /\ life = "off" /\ Busy = {} /\ off = {}
  BY BaseInit DEF Init, Busy
<1>2. PICK f \in {None} \cup {g \in Factors : Valid(g)} : place = Set(f)
  BY DEF Init
<1>3. f \in Maps /\ Fit(f, off)
  BY <1>1, <1>2 DEF Maps, Known, Valid, Fit
<1>4. RestInv
  BY <1>1, <1>3 DEF RestInv, Fits
<1>5. CentreInv
  BY <1>1 DEF Init, CentreInv
<1>6. place["qt"] = place["ind"]
  <2>1. CASE f = None
    BY <1>2, <2>1, SetType
  <2>2. CASE f # None
    BY <1>2, <1>3, <2>2, SetType, OfType DEF Local
  <2> QED
    BY <2>1, <2>2
<1> QED
  BY <1>1, <1>4, <1>5, <1>6 DEF Inv, AloneInv, WriteInv, TailInv, OffInv

LEMMA InvStep == Inv /\ [Next]_vars => Inv'
<1> SUFFICES ASSUME Inv, [Next]_vars PROVE Inv'
  OBVIOUS
<1>1. BaseInv' /\ CentreInv' /\ AloneInv'
  BY BaseStep, CentreStep, AloneStep DEF Inv
<1>2. RestInv' /\ WriteInv' /\ OffInv' /\ TailInv'
  BY <1>1, LocalStep, TailStep
<1> QED
  BY <1>1, <1>2 DEF Inv

\* When the session is up and nothing is under way the centre has the map that was
\* written last, and every place of the user that is not known to be uncertain agrees
\* with it, however often the earlier sessions died.
THEOREM PlacesAgreeAtRest == Spec => []PlacesAgree
<1>1. Inv => PlacesAgree
  <2> SUFFICES ASSUME Inv, life = "on", Busy = {}, ~signal, "centre" \notin off, centre # None
               PROVE  /\ centre = newest
                      /\ \E f \in {centre, Recommendation} \cup Factors :
                            /\ Rounded(f) = Rounded(centre)
                            /\ \A p \in Local \ off : place[p] = Of(p, f)
    BY DEF PlacesAgree
  <2>1. mem = centre
    BY DEF Inv, CentreInv
  <2>2. centre = newest
    BY <2>1 DEF Inv, CentreInv, Busy
  <2>3. PICK f \in Maps : Fit(f, off) /\ Alike(f, centre)
    BY <2>1 DEF Inv, RestInv, Ref
  <2>4. f # None
    <3>1. centre \in Maps /\ Rounded(centre) # None
      BY MapsType DEF Inv, BaseInv, MapsInv
    <3> QED
      BY <2>3, <3>1, NoneMap DEF Alike
  <2>5. f \in {centre, Recommendation} \cup Factors /\ Rounded(f) = Rounded(centre)
    BY <2>3 DEF Alike
  <2>6. \A p \in Local \ off : place[p] = Of(p, f)
    BY <2>3, <2>4, SetType DEF Fit
  <2> QED
    BY <2>2, <2>5, <2>6
<1> QED
  BY <1>1, InvInit, InvStep, PTL DEF Spec
\* What is shown to the X clients at a login belongs to one factor, which is one of
\* those that were asked for, recommended or have always been there.
THEOREM ClientsAreToldOneFactor == Spec => ShownFits
<1>1. ASSUME Inv, [Next]_vars, shown' # shown, {"sf", "ws", "cs"} \cap off = {}
      PROVE  \E s \in Singles : /\ shown'.dpi = (98304 * s) \div 1000
                                /\ shown'.ws = WindowScale(s)
                                /\ shown'.cs = (24 * s) \div 1000
  <2> USE DEF settings, process, run, bounds
  <2>1. UpdateDPI
    BY <1>1 DEF Next, vars, Sync, Adjust, Load, Send, StartDisplay, Quit, WriteCentre, WriteLocal,
                OtherUser, Call, Adopt
  <2>2. life = "adjusted" /\ Busy = {}
    <3>1. BaseInv /\ life = "adjusted" /\ pc[Main] = "idle"
      BY <1>1, <2>1 DEF UpdateDPI, Inv
    <3> QED
      BY <3>1, NobodyYet DEF Busy
  <2>3. PICK f \in Maps : Fit(f, off)
    BY <1>1, <2>2 DEF Inv, RestInv
  <2>4. \A p \in {"sf", "ws", "cs"} : place[p] = Set(f)[p]
    BY <1>1, <2>3 DEF Fit, Local
  <2>5. /\ shown'.dpi = IF place["sf"] <= 0 THEN 98304 ELSE (98304 * place["sf"]) \div 1000
        /\ shown'.ws = place["ws"] /\ shown'.cs = place["cs"]
    BY <2>1 DEF UpdateDPI
  <2>6. CASE f = None
    <3>1. place["sf"] = 0 /\ place["ws"] = 1 /\ place["cs"] = 24
      BY <2>4, <2>6, SetType
    <3>2. 1000 \in Singles
      BY DEF Singles
    <3>3. WindowScale(1000) = 1 /\ (98304 * 1000) \div 1000 = 98304 /\ (24 * 1000) \div 1000 = 24
      BY DEF WindowScale
    <3> QED
      BY <2>5, <3>1, <3>2, <3>3
  <2>7. CASE f # None
    <3>1. Single(f) \in Singles /\ Valid(f)
      <4>1. Valid(f)
        BY <1>1, <2>3, <2>7 DEF Fit, Local
      <4>2. f \in {Recommendation} \cup Factors
                 \cup {Rounded(g) : g \in {Recommendation} \cup Factors}
        BY <2>7 DEF Maps, Known
      <4> QED
        BY <4>1, <4>2 DEF Singles
    <3>2. /\ place["sf"] = Single(f) /\ Single(f) > 0 /\ Single(f) \in Nat
          /\ place["ws"] = WindowScale(Single(f)) /\ place["cs"] = (24 * Single(f)) \div 1000
      BY <2>4, <2>7, <3>1, OfType, SetType DEF Local
    <3> QED
      BY <2>5, <3>1, <3>2
  <2> QED
    BY <2>6, <2>7
<1>2. Inv /\ [Next]_vars =>
        [shown' # shown /\ {"sf", "ws", "cs"} \cap off = {} =>
            \E s \in Singles : /\ shown'.dpi = (98304 * s) \div 1000
                              /\ shown'.ws = WindowScale(s)
                              /\ shown'.cs = (24 * s) \div 1000]_vars
  BY <1>1
<1> QED
  BY <1>2, InvInit, InvStep, PTL DEF Spec, ShownFits

=============================================================================
