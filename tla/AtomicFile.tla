------------------------------ MODULE AtomicFile ------------------------------
(***************************************************************************)
(* What the writers of state.json promise whoever reads it: a publication  *)
(* that meets no other takes the file from what it was to its own text in  *)
(* a single step, and a kill costs at most the ones under way.  Of writers *)
(* that meet nothing is promised.                                          *)
(***************************************************************************)
CONSTANTS Writers, States, None
VARIABLES
    up,         \* the daemon runs
    file,       \* what a reader finds, or None
    pending,    \* per writer: what it is publishing, or None
    met         \* the writers that another one met

vars == <<up, file, pending, met>>

Init == up = FALSE /\ file = None /\ pending = [w \in Writers |-> None] /\ met = {}

UnderWay == {w \in Writers : pending[w] # None}

Starts == up = FALSE /\ up' = TRUE /\ UNCHANGED <<file, pending, met>>

Begin(w) ==
    /\ up /\ pending[w] = None
    /\ \E s \in States : pending' = [pending EXCEPT ![w] = s]
    /\ met' = IF UnderWay = {} THEN {} ELSE met \cup {w} \cup UnderWay
    /\ UNCHANGED <<up, file>>

\* It met no other: the file is its text.
Commit(w) ==
    /\ pending[w] # None /\ w \notin met
    /\ file' = pending[w] /\ pending' = [pending EXCEPT ![w] = None]
    /\ UNCHANGED <<up, met>>

\* Writers that met do to the file what they do, and end one by one.
Mix ==
    /\ met # {}
    /\ \/ UNCHANGED <<pending, met>>
       \/ \E w \in met : /\ pending' = [pending EXCEPT ![w] = None]
                         /\ met' = met \ {w}
    /\ UNCHANGED up

\* The directory of the file may go with the daemon.
Killed ==
    /\ up /\ up' = FALSE
    /\ file' \in {file, None} /\ pending' = [w \in Writers |-> None] /\ met' = {}

Next == Starts \/ Mix \/ Killed \/ \E w \in Writers : Begin(w) \/ Commit(w)

Spec == Init /\ [][Next]_vars
=============================================================================
