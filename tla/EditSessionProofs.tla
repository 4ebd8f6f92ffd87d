-------------------------- MODULE EditSessionProofs --------------------------
(***************************************************************************)
(* Proofs about EditSession, for every set of screens, monitors, values    *)
(* and goroutines and for any number of calls.                             *)
(***************************************************************************)
EXTENDS EditSession, TLAPS

\* The settings recorded for a monitor, modified or with one more.
LEMMA RecordedChanges ==
    ASSUME NEW c \in Changes, NEW a \in Recordable, NEW v \in Value
    PROVE  [k \in DOMAIN c \cup {a} |-> IF k = a THEN v ELSE c[k]] \in Changes
<1>1. PICK S \in SUBSET Recordable : c \in [S -> Value]
  BY DEF Changes
<1>2. [k \in DOMAIN c \cup {a} |-> IF k = a THEN v ELSE c[k]] \in [S \cup {a} -> Value]
  BY <1>1
<1>3. S \cup {a} \in SUBSET Recordable
  BY <1>1
<1> QED
  BY <1>2, <1>3 DEF Changes

\* No setting is recorded after markClean.
LEMMA NoChanges == [k \in {} |-> k] \in Changes
<1>1. [k \in {} |-> k] \in [{} -> Value]
  OBVIOUS
<1>2. {} \in SUBSET Recordable
  OBVIOUS
<1> QED
  BY <1>1, <1>2 DEF Changes

\* SysMonitorConfig.modify makes a configuration out of a configuration.
LEMMA ModifyType ==
    ASSUME NEW c \in Config, changes \in [Monitor -> Changes]
    PROVE  Modify(c) \in Config
<1>1. ASSUME NEW m \in Monitor, NEW k \in Key, k \in DOMAIN changes[m]
      PROVE changes[m][k] \in Value
  BY <1>1 DEF Changes
<1>2. ASSUME NEW m \in Monitor, NEW k \in Key PROVE c[m][k] \in Value
  BY DEF Config
<1> QED
  BY <1>1, <1>2 DEF Modify, Config

\* A configuration has settings for every monitor.
LEMMA GeometryType ==
    ASSUME NEW c \in Config
    PROVE  Geometry(c) \in [Monitor -> Settings]
BY DEF Config, Geometry, Settings, Attr, Key

\* Every variable keeps its type; only settings that SysMonitorConfig.modify knows
\* are recorded, and the event goroutine does nothing but end the session.
THEOREM TypeCorrect == Spec => []TypeOK
<1>1. Init => TypeOK
  <2> SUFFICES ASSUME Init PROVE TypeOK
    OBVIOUS
  <2> USE ConstantsAssumption DEF ConstantsAssumption, Init
  <2>1. sys \in [Screen -> Config]
    BY DEF Config
  <2>2. hw \in [Monitor -> Settings]
    BY <2>1, GeometryType
  <2>3. changes \in [Monitor -> Changes]
    BY NoChanges
  <2>4. pc \in [Thread -> Pc] /\ pc[Ev] = "idle"
    BY DEF Pc
  <2>5. id \in [Thread -> Screen] /\ cfg \in [Thread -> Config]
    BY <2>1
  <2>6. applied \in SUBSET [id : Screen, cfg : [Monitor -> Settings]]
    BY <2>1, GeometryType
  <2>7. /\ shown \in [Monitor -> Settings]
        /\ backup \in [Monitor -> SUBSET Settings]
        /\ before \in SUBSET [Monitor -> Settings]
    BY <2>2
  <2>8. calls \in 0 .. MaxCall /\ plugs \in 0 .. MaxPlug
    OBVIOUS
  <2>9. /\ screen \in Screen
        /\ future \in SUBSET [id : Screen, cfg : Config]
        /\ hasChanged \in BOOLEAN /\ inApply \in BOOLEAN
        /\ timer \in BOOLEAN /\ torn \in BOOLEAN
    OBVIOUS
  <2> HIDE DEF Init
  <2> QED
    BY <2>1, <2>2, <2>3, <2>4, <2>5, <2>6, <2>7, <2>8, <2>9 DEF TypeOK
<1>2. TypeOK /\ [Next]_vars => TypeOK'
  <2> SUFFICES ASSUME TypeOK, [Next]_vars PROVE TypeOK'
    OBVIOUS
  <2> USE ConstantsAssumption DEF ConstantsAssumption, TypeOK, Goto, Pc
  <2>a. \A t \in Thread : Geometry(cfg[t]) \in [Monitor -> Settings]
    BY GeometryType
  <2>1. ASSUME NEW m \in Monitor, NEW a \in Attr, NEW v \in Value, Set(m, a, v) PROVE TypeOK'
    <3>1. changes' \in [Monitor -> Changes]
      <4>1. CASE a \in Recordable
        <5> DEFINE c == [k \in DOMAIN changes[m] \cup {a} |-> IF k = a THEN v ELSE changes[m][k]]
        <5>0. changes[m] \in Changes
          OBVIOUS
        <5>1. c \in Changes
          <6> HIDE DEF TypeOK, ConstantsAssumption, Goto, Pc
          <6> QED
            BY <4>1, <5>0, RecordedChanges
        <5>2. changes' = [changes EXCEPT ![m] = c]
          BY <2>1, <4>1 DEF Set
        <5> HIDE DEF c
        <5> QED
          BY <5>1, <5>2
      <4>2. CASE a \notin Recordable
        BY <2>1, <4>2 DEF Set
      <4> QED
        BY <4>1, <4>2
    <3>2. shown' \in [Monitor -> Settings]
      <4>1. shown' = [shown EXCEPT ![m] = [shown[m] EXCEPT ![a] = v]]
        BY <2>1 DEF Set
      <4>2. [shown[m] EXCEPT ![a] = v] \in Settings
        BY DEF Settings
      <4> QED
        BY <4>1, <4>2
    <3>3. backup' \in [Monitor -> SUBSET Settings] /\ hasChanged' \in BOOLEAN
      BY <2>1 DEF Set, MarkChanged
    <3>4. before' \in SUBSET [Monitor -> Settings] /\ torn' \in BOOLEAN /\ calls' \in 0 .. MaxCall
      BY <2>1 DEF Set, Begin
    <3> QED
      BY <2>1, <3>1, <3>2, <3>3, <3>4 DEF Set, local
  <2>2. ASSUME NEW m \in Monitor, NEW v \in Value, SaveBrightness(m, v) PROVE TypeOK'
    <3>1. sys' \in [Screen -> Config]
      BY <2>2 DEF SaveBrightness, Config, Key
    <3> QED
      BY <2>2, <3>1 DEF SaveBrightness, Begin, session, local
  <2>3. ASSUME NEW m \in Monitor, MonitorChanged(m) PROVE TypeOK'
    BY <2>3 DEF MonitorChanged, local, bounds, hist
  <2>4. ASSUME NEW s \in Screen, Plug(s) PROVE TypeOK'
    BY <2>4 DEF Plug, Begin, session, local
  <2>5. ASSUME NEW t \in Thread, ApplyChanges(t) PROVE TypeOK'
    BY <2>5 DEF ApplyChanges, Call, Begin, session, local
  <2>6. ASSUME NEW t \in Thread, Save(t) PROVE TypeOK'
    BY <2>6 DEF Save, Call, Begin, session, local
  <2>7. ASSUME NEW t \in Thread, ResetChanges(t) PROVE TypeOK'
    <3>1. hasChanged' \in BOOLEAN
      BY <2>7 DEF ResetChanges
    <3>2. /\ calls' \in 0 .. MaxCall
          /\ before' \in SUBSET [Monitor -> Settings]
          /\ pc' \in [Thread -> Pc]
          /\ pc'[Ev] \in {"idle", "clean", "flag", "forget"}
      BY <2>7 DEF ResetChanges, Call, Begin
    <3>3. UNCHANGED <<screen, shown, backup, changes, future, sys, hw, inApply, timer, id, cfg,
                      plugs, applied, torn>>
      BY <2>7 DEF ResetChanges, Call, local
    <3> HIDE <2>7
    <3> QED
      BY <3>1, <3>2, <3>3
  <2>8. ASSUME NEW t \in Thread, ApplyCopy(t) PROVE TypeOK'
    <3>1. cfg' \in [Thread -> Config]
      BY <2>8, ModifyType DEF ApplyCopy
    <3> QED
      BY <2>8, <3>1 DEF ApplyCopy, session, bounds, hist
  <2>9. ASSUME NEW t \in Thread, EndApply(t) PROVE TypeOK'
    <3>1. /\ hw' \in [Monitor -> Settings]
          /\ shown' \in [Monitor -> Settings]
      BY <2>9, <2>a DEF EndApply, InForce
    <3>2. applied' \in SUBSET [id : Screen, cfg : [Monitor -> Settings]]
      BY <2>9, <2>a DEF EndApply
    <3>3. pc' \in [Thread -> Pc] /\ pc'[Ev] \in {"idle", "clean", "flag", "forget"}
      BY <2>9 DEF EndApply
    <3> QED
      BY <2>9, <3>1, <3>2, <3>3 DEF EndApply, local, bounds
  <2>10. ASSUME NEW t \in Thread, Record(t) PROVE TypeOK'
    BY <2>10 DEF Record, session, local, bounds, hist
  <2>11. ASSUME NEW t \in Thread, Drop(t) PROVE TypeOK'
    BY <2>11 DEF Drop, session, local, bounds, hist
  <2>12. ASSUME NEW t \in Thread, SaveCopy(t) PROVE TypeOK'
    <3>1. /\ id' \in [Thread -> Screen]
          /\ cfg' \in [Thread -> Config]
      BY <2>12 DEF SaveCopy, local
    <3>2. pc' \in [Thread -> Pc] /\ pc'[Ev] \in {"idle", "clean", "flag", "forget"}
      BY <2>12 DEF SaveCopy
    <3> QED
      BY <2>12, <3>1, <3>2 DEF SaveCopy, session, bounds, hist
  <2>13. ASSUME NEW t \in Thread, SaveWrite(t) PROVE TypeOK'
    BY <2>13 DEF SaveWrite, session, local, bounds, hist
  <2>14. ASSUME NEW t \in Thread, SaveSend(t) PROVE TypeOK'
    BY <2>14 DEF SaveSend, session, local, bounds, hist
  <2>15. ASSUME NEW t \in Thread, Clean(t) PROVE TypeOK'
    BY <2>15, NoChanges DEF Clean, local, bounds, hist
  <2>16. ASSUME NEW t \in Thread, CleanFlag(t) PROVE TypeOK'
    BY <2>16 DEF CleanFlag, local, bounds, hist
  <2>17. ASSUME NEW t \in Thread, CleanFuture(t) PROVE TypeOK'
    BY <2>17 DEF CleanFuture, session, local, bounds, hist
  <2>18. ASSUME NEW t \in Thread, Reset(t) PROVE TypeOK'
    <3>1. PICK restored \in [Monitor -> Settings] :
            /\ shown' = restored
            /\ cfg' = [cfg EXCEPT ![t] =
                 [m \in Monitor |-> [k \in Key |-> IF k \in Attr THEN restored[m][k] ELSE @[m][k]]]]
      BY <2>18 DEF Reset
    <3>2. cfg' \in [Thread -> Config]
      BY <3>1 DEF Config, Settings
    <3> QED
      BY <2>18, <3>1, <3>2 DEF Reset, bounds, hist
  <2>19. ASSUME NEW t \in Thread, ResetApply(t) PROVE TypeOK'
    BY <2>19, <2>a DEF ResetApply, InForce, local, bounds, hist
  <2>20. ASSUME NEW t \in Thread, DelayedApply(t) PROVE TypeOK'
    BY <2>20 DEF DelayedApply, Begin, session, bounds
  <2>21. ASSUME NEW t \in Thread, StoredApply(t) PROVE TypeOK'
    BY <2>21, <2>a DEF StoredApply, InForce, local, bounds, hist
  <2>22. CASE UNCHANGED vars
    BY <2>22 DEF vars, session, local, bounds, hist
  <2> QED
    BY <2>1, <2>2, <2>3, <2>4, <2>5, <2>6, <2>7, <2>8, <2>9, <2>10, <2>11, <2>12, <2>13,
       <2>14, <2>15, <2>16, <2>17, <2>18, <2>19, <2>20, <2>21, <2>22 DEF Next, Step
<1> QED
  BY <1>1, <1>2, PTL DEF Spec

-----------------------------------------------------------------------------
\* c was applied under the monitors id s, or stored from the start.
WasApplied(s, c) == [id |-> s, cfg |-> Geometry(c)] \in applied

\* SavedWasApplied, strengthened to be inductive: so was the future configuration
\* and the copy of a goroutine that is about to record or to store it.
SavedInv ==
    /\ SavedWasApplied
    /\ \A f \in future : WasApplied(f.id, f.cfg)
    /\ \A t \in Thread : pc[t] \in {"record", "saveWrite"} => WasApplied(id[t], cfg[t])

\* The brightness is no part of what mm.apply puts into force.
LEMMA GeometryOfBrightness ==
    ASSUME sys \in [Screen -> Config], screen \in Screen,
           NEW m \in Monitor, NEW v \in Value, NEW s \in Screen
    PROVE  Geometry([sys EXCEPT ![screen][m]["brightness"] = v][s]) = Geometry(sys[s])
<1>1. ASSUME NEW n \in Monitor, NEW a \in Attr
      PROVE [sys EXCEPT ![screen][m]["brightness"] = v][s][n][a] = sys[s][n][a]
  BY <1>1 DEF Config, Attr, Key
<1> QED
  BY <1>1 DEF Geometry

\* Save stores under a monitors id only what was applied for it, however calls and
\* hot-plugs overlap and whichever of them fail.
THEOREM SavedOnlyApplied == Spec => []SavedWasApplied
<1>1. Init => SavedInv
  BY DEF Init, SavedInv, SavedWasApplied
<1>2. TypeOK /\ SavedInv /\ [Next]_vars => SavedInv'
  <2> SUFFICES ASSUME TypeOK, SavedInv, [Next]_vars PROVE SavedInv'
    OBVIOUS
  <2>0. /\ pc \in [Thread -> Pc]
        /\ id \in [Thread -> Screen]
        /\ cfg \in [Thread -> Config]
        /\ sys \in [Screen -> Config]
        /\ screen \in Screen
        /\ Ev \in Thread
    BY ConstantsAssumption DEF ConstantsAssumption, TypeOK
  <2> USE <2>0 DEF SavedInv, SavedWasApplied, WasApplied, Goto
  <2>1. ASSUME NEW m \in Monitor, NEW a \in Attr, NEW v \in Value, Set(m, a, v) PROVE SavedInv'
    BY <2>1 DEF Set, local
  <2>2. ASSUME NEW m \in Monitor, NEW v \in Value, SaveBrightness(m, v) PROVE SavedInv'
    <3>1. \A s \in Screen : Geometry(sys'[s]) = Geometry(sys[s])
      BY <2>2, GeometryOfBrightness DEF SaveBrightness
    <3>2. UNCHANGED <<future, pc, id, cfg, applied>>
      BY <2>2 DEF SaveBrightness, local
    <3> QED
      BY <3>1, <3>2
  <2>3. ASSUME NEW m \in Monitor, MonitorChanged(m) PROVE SavedInv'
    BY <2>3 DEF MonitorChanged, local, hist
  <2>4. ASSUME NEW s \in Screen, Plug(s) PROVE SavedInv'
    BY <2>4 DEF Plug, local
  <2>5. ASSUME NEW t \in Thread, ApplyChanges(t) PROVE SavedInv'
    BY <2>5 DEF ApplyChanges, Call, local
  <2>6. ASSUME NEW t \in Thread, Save(t) PROVE SavedInv'
    BY <2>6 DEF Save, Call, local
  <2>7. ASSUME NEW t \in Thread, ResetChanges(t) PROVE SavedInv'
    BY <2>7 DEF ResetChanges, Call, local
  <2>8. ASSUME NEW t \in Thread, ApplyCopy(t) PROVE SavedInv'
    BY <2>8 DEF ApplyCopy, hist
  <2>9. ASSUME NEW t \in Thread, EndApply(t) PROVE SavedInv'
    <3>1. applied \subseteq applied' /\ UNCHANGED <<sys, future, id, cfg>>
      BY <2>9 DEF EndApply, local
    <3>2. ASSUME NEW u \in Thread, pc'[u] \in {"record", "saveWrite"}
          PROVE WasApplied(id[u], cfg[u])'
      <4>1. CASE u = t
        BY <2>9, <3>1, <3>2, <4>1 DEF EndApply
      <4>2. CASE u # t
        BY <2>9, <3>1, <3>2, <4>2 DEF EndApply
      <4> QED
        BY <4>1, <4>2
    <3> QED
      BY <3>1, <3>2
  <2>10. ASSUME NEW t \in Thread, Record(t) PROVE SavedInv'
    BY <2>10 DEF Record, local, hist
  <2>11. ASSUME NEW t \in Thread, Drop(t) PROVE SavedInv'
    BY <2>11 DEF Drop, local, hist
  <2>12. ASSUME NEW t \in Thread, SaveCopy(t) PROVE SavedInv'
    BY <2>12 DEF SaveCopy, local, hist
  <2>13. ASSUME NEW t \in Thread, SaveWrite(t) PROVE SavedInv'
    BY <2>13 DEF SaveWrite, local, hist
  <2>14. ASSUME NEW t \in Thread, SaveSend(t) PROVE SavedInv'
    BY <2>14 DEF SaveSend, local, hist
  <2>15. ASSUME NEW t \in Thread, Clean(t) PROVE SavedInv'
    BY <2>15 DEF Clean, local, hist
  <2>16. ASSUME NEW t \in Thread, CleanFlag(t) PROVE SavedInv'
    BY <2>16 DEF CleanFlag, local, hist
  <2>17. ASSUME NEW t \in Thread, CleanFuture(t) PROVE SavedInv'
    BY <2>17 DEF CleanFuture, local, hist
  <2>18. ASSUME NEW t \in Thread, Reset(t) PROVE SavedInv'
    <3>1. /\ \A u \in Thread \ {t} : cfg'[u] = cfg[u] /\ id'[u] = id[u]
          /\ UNCHANGED <<sys, future, applied>>
      BY <2>18 DEF Reset, hist
    <3>2. \A u \in Thread : pc'[u] = IF u = t THEN "resetApply" ELSE pc[u]
      BY <2>18 DEF Reset
    <3> QED
      BY <3>1, <3>2
  <2>19. ASSUME NEW t \in Thread, ResetApply(t) PROVE SavedInv'
    BY <2>19 DEF ResetApply, local, hist
  <2>20. ASSUME NEW t \in Thread, DelayedApply(t) PROVE SavedInv'
    BY <2>20 DEF DelayedApply
  <2>21. ASSUME NEW t \in Thread, StoredApply(t) PROVE SavedInv'
    BY <2>21 DEF StoredApply, local, hist
  <2>22. CASE UNCHANGED vars
    BY <2>22 DEF vars, local, hist
  <2> QED
    BY <2>1, <2>2, <2>3, <2>4, <2>5, <2>6, <2>7, <2>8, <2>9, <2>10, <2>11, <2>12, <2>13,
       <2>14, <2>15, <2>16, <2>17, <2>18, <2>19, <2>20, <2>21, <2>22 DEF Next, Step
<1>3. SavedInv => SavedWasApplied
  BY DEF SavedInv
<1> QED
  BY <1>1, <1>2, <1>3, TypeCorrect, PTL DEF Spec

-----------------------------------------------------------------------------
\* FlagMatchesBackup, strengthened to be inductive: unless a setting came between
\* them, the first half of markClean leaves no backup and that of ResetChanges
\* leaves HasChanged unset until the second half is done.
At(l) == \E t \in Thread : pc[t] = l
HasBackup == \E m \in Monitor : backup[m] # {}
FlagInv ==
    \/ torn
    \/ /\ HasBackup => hasChanged \/ At("reset")
       /\ hasChanged => HasBackup \/ At("flag")
       /\ At("flag") => ~HasBackup
       /\ At("reset") => ~hasChanged

\* A step that changes neither the flag nor the backups, and leads no goroutine
\* into or out of the middle of markClean or of ResetChanges.
LEMMA FlagStutter ==
    ASSUME FlagInv, UNCHANGED <<hasChanged, backup, torn>>,
           At("flag")' <=> At("flag"), At("reset")' <=> At("reset")
    PROVE  FlagInv'
BY DEF FlagInv, HasBackup

\* A goroutine that goes from one place to another, neither of them in the middle.
LEMMA GotoOutside ==
    ASSUME pc \in [Thread -> Pc], NEW t \in Thread, NEW from, NEW to, Goto(t, from, to),
           NEW l \in {"flag", "reset"}, from # l, to # l
    PROVE  At(l)' <=> At(l)
BY DEF Goto, At

\* HasChanged and the backups disagree only inside ResetChanges and markClean, or
\* after a setting that was made there.
THEOREM FlagConsistent == Spec => []FlagMatchesBackup
<1>1. Init => FlagInv
  BY DEF Init, FlagInv, HasBackup, At
<1>2. TypeOK /\ FlagInv /\ [Next]_vars => FlagInv'
  <2> SUFFICES ASSUME TypeOK, FlagInv, [Next]_vars PROVE FlagInv'
    OBVIOUS
  <2>0. pc \in [Thread -> Pc] /\ Ev \in Thread
    BY ConstantsAssumption DEF ConstantsAssumption, TypeOK
  <2> USE <2>0
  <2>s. ASSUME UNCHANGED <<hasChanged, backup, torn, pc>> PROVE FlagInv'
    BY <2>s, FlagStutter DEF At
  <2>g. ASSUME NEW t \in Thread, NEW from, NEW to, Goto(t, from, to),
               from \notin {"flag", "reset"}, to \notin {"flag", "reset"},
               UNCHANGED <<hasChanged, backup, torn>>
        PROVE  FlagInv'
    BY <2>g, GotoOutside, FlagStutter
  <2>1. ASSUME NEW m \in Monitor, NEW a \in Attr, NEW v \in Value, Set(m, a, v) PROVE FlagInv'
    <3>1. hasChanged' = TRUE /\ pc' = pc
      BY <2>1 DEF Set, MarkChanged
    <3>2. HasBackup'
      <4>1. CASE backup[m] = {}
        <5>1. backup' = [backup EXCEPT ![m] = {shown[m]}]
          BY <2>1, <4>1 DEF Set, MarkChanged
        <5> QED
          BY <5>1 DEF HasBackup, TypeOK
      <4>2. CASE backup[m] # {}
        BY <2>1, <4>2 DEF Set, MarkChanged, HasBackup
      <4> QED
        BY <4>1, <4>2
    <3>3. At("flag") \/ At("reset") => torn'
      BY <2>1 DEF Set, At
    <3>4. (At("flag")' <=> At("flag")) /\ (At("reset")' <=> At("reset"))
      BY <3>1 DEF At
    <3> QED
      BY <3>1, <3>2, <3>3, <3>4 DEF FlagInv
  <2>2. ASSUME NEW m \in Monitor, NEW v \in Value, SaveBrightness(m, v) PROVE FlagInv'
    BY <2>2, <2>s DEF SaveBrightness, session
  <2>3. ASSUME NEW m \in Monitor, MonitorChanged(m) PROVE FlagInv'
    BY <2>3, <2>s DEF MonitorChanged, hist
  <2>4. ASSUME NEW s \in Screen, Plug(s) PROVE FlagInv'
    BY <2>4, <2>g DEF Plug, session
  <2>5. ASSUME NEW t \in Thread, ApplyChanges(t) PROVE FlagInv'
    BY <2>5, <2>g DEF ApplyChanges, Call, session
  <2>6. ASSUME NEW t \in Thread, Save(t) PROVE FlagInv'
    BY <2>6, <2>g DEF Save, Call, session
  <2>7. ASSUME NEW t \in Thread, ResetChanges(t) PROVE FlagInv'
    <3>1. ~hasChanged' /\ At("reset")'
      BY <2>7 DEF ResetChanges, Call, Goto, At
    <3>2. At("flag")' <=> At("flag")
      BY <2>7, GotoOutside DEF ResetChanges, Call
    <3>3. torn' = torn /\ (HasBackup' <=> HasBackup)
      BY <2>7 DEF ResetChanges, Call, HasBackup
    <3> QED
      BY <3>1, <3>2, <3>3 DEF FlagInv
  <2>8. ASSUME NEW t \in Thread, ApplyCopy(t) PROVE FlagInv'
    BY <2>8, <2>g DEF ApplyCopy, session, hist
  <2>9. ASSUME NEW t \in Thread, EndApply(t) PROVE FlagInv'
    BY <2>9, <2>g DEF EndApply
  <2>10. ASSUME NEW t \in Thread, Record(t) PROVE FlagInv'
    BY <2>10, <2>g DEF Record, session, hist
  <2>11. ASSUME NEW t \in Thread, Drop(t) PROVE FlagInv'
    BY <2>11, <2>g DEF Drop, session, hist
  <2>12. ASSUME NEW t \in Thread, SaveCopy(t) PROVE FlagInv'
    BY <2>12, <2>g DEF SaveCopy, session, hist
  <2>13. ASSUME NEW t \in Thread, SaveWrite(t) PROVE FlagInv'
    BY <2>13, <2>g DEF SaveWrite, session, hist
  <2>14. ASSUME NEW t \in Thread, SaveSend(t) PROVE FlagInv'
    BY <2>14, <2>g DEF SaveSend, session, hist
  <2>15. ASSUME NEW t \in Thread, Clean(t) PROVE FlagInv'
    <3>1. ~HasBackup' /\ At("flag")'
      BY <2>15 DEF Clean, Goto, At, HasBackup
    <3>2. At("reset")' <=> At("reset")
      BY <2>15, GotoOutside DEF Clean
    <3>3. torn' = torn /\ (hasChanged' <=> hasChanged)
      BY <2>15 DEF Clean, hist
    <3> QED
      BY <3>1, <3>2, <3>3 DEF FlagInv
  <2>16. ASSUME NEW t \in Thread, CleanFlag(t) PROVE FlagInv'
    <3>1. ~hasChanged' /\ At("flag")
      BY <2>16 DEF CleanFlag, Goto, At
    <3>2. At("reset")' <=> At("reset")
      BY <2>16, GotoOutside DEF CleanFlag
    <3>3. torn' = torn /\ (HasBackup' <=> HasBackup)
      BY <2>16 DEF CleanFlag, hist, HasBackup
    <3> QED
      BY <3>1, <3>2, <3>3 DEF FlagInv
  <2>17. ASSUME NEW t \in Thread, CleanFuture(t) PROVE FlagInv'
    BY <2>17, <2>g DEF CleanFuture, session, hist
  <2>18. ASSUME NEW t \in Thread, Reset(t) PROVE FlagInv'
    <3>1. ~HasBackup' /\ At("reset")
      BY <2>18 DEF Reset, Goto, At, HasBackup
    <3>2. At("flag")' <=> At("flag")
      BY <2>18, GotoOutside DEF Reset
    <3>3. torn' = torn /\ (hasChanged' <=> hasChanged)
      BY <2>18 DEF Reset, hist
    <3> QED
      BY <3>1, <3>2, <3>3 DEF FlagInv
  <2>19. ASSUME NEW t \in Thread, ResetApply(t) PROVE FlagInv'
    BY <2>19, <2>g DEF ResetApply, hist
  <2>20. ASSUME NEW t \in Thread, DelayedApply(t) PROVE FlagInv'
    BY <2>20, <2>g DEF DelayedApply, session
  <2>21. ASSUME NEW t \in Thread, StoredApply(t) PROVE FlagInv'
    BY <2>21, <2>g DEF StoredApply, hist
  <2>22. CASE UNCHANGED vars
    BY <2>22, <2>s DEF vars, session, hist
  <2> QED
    BY <2>1, <2>2, <2>3, <2>4, <2>5, <2>6, <2>7, <2>8, <2>9, <2>10, <2>11, <2>12, <2>13,
       <2>14, <2>15, <2>16, <2>17, <2>18, <2>19, <2>20, <2>21, <2>22 DEF Next, Step
<1>3. FlagInv => FlagMatchesBackup
  BY DEF FlagInv, FlagMatchesBackup, HasBackup, At
<1> QED
  BY <1>1, <1>2, <1>3, TypeCorrect, PTL DEF Spec

==============================================================================
