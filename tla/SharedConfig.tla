----------------------------- MODULE SharedConfig -----------------------------
(***************************************************************************)
(* What the shared system configuration promises: a register of whole      *)
(* versions that the sessions copy, edit and publish.  A session works on  *)
(* its copy; it takes over a version only as it was published, possibly    *)
(* long after it read it, and nobody else ever sees an edit that was not   *)
(* published.                                                              *)
(***************************************************************************)
EXTENDS Naturals

CONSTANTS
    Session,    \* the sessions that share the register
    Config,     \* what a version contains
    Empty       \* the contents a session starts with if it cannot read any

VARIABLES
    reg,        \* the register: the latest published version
    copy,       \* the version each session works on
    held,       \* a version it has read and not taken over yet, a set of at most one
    clock       \* number of the latest attempt to publish

vars == <<reg, copy, held, clock>>

\* A session reads the register when it starts, or has to do without.
Join(s) ==
    /\ copy' \in {[copy EXCEPT ![s] = reg], [copy EXCEPT ![s] = [cfg |-> Empty, at |-> 0]]}
    /\ UNCHANGED <<reg, held, clock>>

\* The copy of s, and no other, becomes a version numbered n.
Rewrite(s, n) ==
    /\ copy'[s] \in [cfg : Config, at : {n}]
    /\ copy' = [copy EXCEPT ![s] = copy'[s]]

Edit(s) ==
    /\ Rewrite(s, copy[s].at)
    /\ UNCHANGED <<reg, held, clock>>

\* The copy, edited once more or not, becomes a version; it reaches the register
\* or, if publishing fails, remains with the session.
Publish(s) ==
    /\ clock' = clock + 1
    /\ Rewrite(s, clock')
    /\ reg' \in {reg, copy'[s]}
    /\ held' = held

Read(s) ==
    /\ held' = [held EXCEPT ![s] = {reg}]
    /\ UNCHANGED <<reg, copy, clock>>

TakeOver(s) ==
    /\ \E v \in held[s] : copy' = [copy EXCEPT ![s] = v]
    /\ held' = [held EXCEPT ![s] = {}]
    /\ UNCHANGED <<reg, clock>>

Init ==
    /\ reg = [cfg |-> Empty, at |-> 0]
    /\ copy = [s \in Session |-> reg]
    /\ held = [s \in Session |-> {}]
    /\ clock = 0

Next == \E s \in Session : Join(s) \/ Edit(s) \/ Publish(s) \/ Read(s) \/ TakeOver(s)

Spec == Init /\ [][Next]_vars

==============================================================================
