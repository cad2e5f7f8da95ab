------------------------------ MODULE Replica ------------------------------
(***************************************************************************)
(* What a mirror of the archive promises, whatever it is and however it is *)
(* fed: a copy of a session only moves forward, from one committed         *)
(* revision to a later one; it may be removed once the session is gone,    *)
(* and all copies may be lost at once.                                     *)
(***************************************************************************)
EXTENDS Naturals

CONSTANT Sessions

VARIABLES
    source,  \* the latest committed revision of every session, 0 for none
    live,    \* the sessions that are not deleted for good
    copy     \* the revision the mirror has, 0 for none

vars == <<source, live, copy>>

Init ==
    /\ source = [s \in Sessions |-> 0]
    /\ live = Sessions
    /\ copy = [s \in Sessions |-> 0]

\* A transaction changes the sessions of S.
Change(S) ==
    /\ source' = [s \in Sessions |-> IF s \in S THEN source[s] + 1
                                                ELSE source[s]]
    /\ UNCHANGED <<live, copy>>

Retire(s) ==
    /\ live' = live \ {s}
    /\ UNCHANGED <<source, copy>>

\* Copies are brought up to a revision that has been committed.
Copy ==
    /\ copy' \in [Sessions -> UNION { 0 .. source[s] : s \in Sessions }]
    /\ \A s \in Sessions :
          \/ copy[s] <= copy'[s] /\ copy'[s] <= source[s]
          \/ s \notin live /\ copy'[s] = 0
    /\ UNCHANGED <<source, live>>

Lose ==
    /\ copy' = [s \in Sessions |-> 0]
    /\ UNCHANGED <<source, live>>

Next ==
    \/ \E S \in SUBSET Sessions : Change(S)
    \/ \E s \in Sessions : Retire(s)
    \/ Copy
    \/ Lose

Spec == Init /\ [][Next]_vars
=============================================================================
