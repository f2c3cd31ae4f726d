------------------------------ MODULE Exec_proofs ------------------------------
(***************************************************************************)
(* Theorems about Exec, for every size of the pipes, the cap and the data. *)
(***************************************************************************)
EXTENDS Exec, TLAPS

-----------------------------------------------------------------------------
(* Types.                                                                  *)

LEMMA TypeInit == Init => TypeOK
<1> SUFFICES ASSUME Init PROVE TypeOK
    OBVIOUS
<1>1. 0 \in 0..PipeSize /\ 0 \in 0..MaxOut /\ 0 \in 0..OutputCap /\ StdinSize \in 0..StdinSize
    BY SizeAssumption
<1>2. pipe = [s \in Streams |-> 0] /\ wrote = pipe /\ kept = pipe
    BY DEF Init
<1>3. capped = [s \in Streams |-> FALSE] /\ eof = capped
    BY DEF Init
<1> QED
    BY <1>1, <1>2, <1>3 DEF Init, TypeOK

\* Reading n chunks of a pipe that holds at least n.
LEMMA TookType ==
    ASSUME TypeOK, NEW s \in Streams, NEW n \in 1..pipe[s], Took(s, n)
    PROVE  TypeOK'
<1>1. pipe[s] \in 0..PipeSize /\ kept[s] \in 0..OutputCap
    BY DEF TypeOK
<1>2. pipe[s] - n \in 0..PipeSize
    BY <1>1, SizeAssumption
<1>3. kept[s] + Least(n, Room(s)) \in 0..OutputCap
    BY <1>1, SizeAssumption DEF Least, Room
<1>4. (capped[s] \/ n > Room(s)) \in BOOLEAN
    OBVIOUS
<1> QED
    BY <1>2, <1>3, <1>4 DEF Took, TypeOK, call, tree

LEMMA TypeStep == TypeOK /\ [Next]_vars => TypeOK'
<1> SUFFICES ASSUME TypeOK, [Next]_vars PROVE TypeOK'
    OBVIOUS
<1> USE SizeAssumption DEF TypeOK, call, tree, reading
<1>1. CASE WriteStdin
    BY <1>1 DEF WriteStdin
<1>2. CASE CloseStdin
    BY <1>2 DEF CloseStdin
<1>3. ASSUME NEW s \in Streams, ReadCapped(s) PROVE TypeOK'
    BY <1>3, TookType DEF ReadCapped
<1>4. ASSUME NEW s \in Streams, ReadEOF(s) PROVE TypeOK'
    BY <1>4 DEF ReadEOF
<1>5. CASE Completes
    BY <1>5 DEF Completes
<1>6. CASE TimesOut
    BY <1>6 DEF TimesOut
<1>7. CASE GraceEnds
    BY <1>7 DEF GraceEnds, KillGroup
<1>8. CASE ReadsStdin
    BY <1>8 DEF ReadsStdin
<1>9. ASSUME NEW s \in Streams, Writes(s) PROVE TypeOK'
    <2>1. pipe[s] + 1 \in 0..PipeSize /\ wrote[s] + 1 \in 0..MaxOut
        BY <1>9 DEF Writes
    <2> QED
        BY <1>9, <2>1 DEF Writes
<1>10. CASE Forks \/ Exits
    BY <1>10 DEF Forks, Exits
<1>11. CASE UNCHANGED vars
    BY <1>11 DEF vars
<1> QED
    BY <1>1, <1>2, <1>3, <1>4, <1>5, <1>6, <1>7, <1>8, <1>9, <1>10, <1>11 DEF Next, Daemon

\* The state keeps its type: in particular no more than the cap is ever kept.
THEOREM TypeCorrect == Spec => []TypeOK
  BY TypeInit, TypeStep, PTL DEF Spec

-----------------------------------------------------------------------------
(* The tree.                                                               *)

\* After a timeout nothing of the group is left, for good: terminal.rs:132-135.
THEOREM TreeGone == Spec => []TreeGoneAfterTimeout
<1>1. Init => TreeGoneAfterTimeout
    BY DEF Init, TreeGoneAfterTimeout
<1>2. TreeGoneAfterTimeout /\ [Next]_vars => TreeGoneAfterTimeout'
    BY DEF TreeGoneAfterTimeout, Next, Daemon, WriteStdin, CloseStdin, ReadCapped, Took, ReadEOF,
       Completes, TimesOut, GraceEnds, KillGroup, ReadsStdin, Writes, Forks, Exits, vars, call,
       tree, reading
<1> QED
    BY <1>1, <1>2, PTL DEF Spec

-----------------------------------------------------------------------------
(* The output.                                                             *)

\* What has left a pipe was kept up to the cap, and the excess was noted.
KeptSoFar(s) ==
    /\ pipe[s] <= wrote[s]
    /\ kept[s] = Least(wrote[s] - pipe[s], OutputCap)
    /\ capped[s] <=> wrote[s] - pipe[s] > OutputCap

\* An end of file is final: nobody is left to write.
EndIsFinal(s) == eof[s] => pipe[s] = 0 /\ ~Held

OutputInv ==
    /\ TypeOK
    /\ \A s \in Streams : KeptSoFar(s) /\ EndIsFinal(s)
    /\ pc = "done" /\ ~timedOut => \A s \in Streams : eof[s]

LEMMA OutputInit == Init => OutputInv
<1> SUFFICES ASSUME Init PROVE OutputInv
    OBVIOUS
<1>1. \A s \in Streams : pipe[s] = 0 /\ wrote[s] = 0 /\ kept[s] = 0 /\ ~capped[s] /\ ~eof[s]
    BY DEF Init
<1>2. \A s \in Streams : KeptSoFar(s) /\ EndIsFinal(s)
    BY <1>1, SizeAssumption DEF KeptSoFar, EndIsFinal, Least
<1> QED
    BY <1>2, TypeInit DEF OutputInv, Init

\* Reading n chunks keeps what still fits of them.
LEMMA ReadKeeps ==
    ASSUME OutputInv, NEW s \in Streams, ReadCapped(s), TypeOK'
    PROVE  \A t \in Streams : KeptSoFar(t)' /\ EndIsFinal(t)'
<1>1. PICK n \in 1..pipe[s] : Took(s, n)
    BY DEF ReadCapped
<1> USE SizeAssumption
<1>2. /\ pipe'[s] = pipe[s] - n
      /\ kept'[s] = kept[s] + Least(n, Room(s))
      /\ capped'[s] = (capped[s] \/ n > Room(s))
      /\ wrote' = wrote /\ eof' = eof /\ child' = child /\ other' = other
    BY <1>1 DEF Took, OutputInv, TypeOK, tree
<1>3. /\ pipe[s] \in Nat /\ wrote[s] \in Nat /\ kept[s] \in Nat /\ n \in Nat /\ n <= pipe[s]
      /\ capped[s] \in BOOLEAN /\ n > 0
    BY DEF OutputInv, TypeOK
<1>4. KeptSoFar(s)
    BY DEF OutputInv
<1>5. KeptSoFar(s)'
    <2>1. pipe'[s] <= wrote[s]
        BY <1>2, <1>3, <1>4 DEF KeptSoFar
    <2>2. kept'[s] = Least(wrote[s] - pipe'[s], OutputCap)
        BY <1>2, <1>3, <1>4 DEF KeptSoFar, Least, Room
    <2>3. n > Room(s) <=> wrote[s] - pipe[s] + n > OutputCap
        BY <1>3, <1>4 DEF KeptSoFar, Least, Room
    <2>4. capped[s] => wrote[s] - pipe[s] + n > OutputCap
        BY <1>3, <1>4 DEF KeptSoFar
    <2>5. wrote[s] - pipe'[s] = wrote[s] - pipe[s] + n
        BY <1>2, <1>3
    <2>6. capped'[s] <=> wrote[s] - pipe'[s] > OutputCap
        BY <1>2, <2>3, <2>4, <2>5
    <2> QED
        BY <1>2, <2>1, <2>2, <2>6 DEF KeptSoFar
<1>6. ~eof[s]
    BY <1>3 DEF OutputInv, EndIsFinal
<1>7. ASSUME NEW t \in Streams, t # s PROVE KeptSoFar(t)' /\ EndIsFinal(t)'
    <2>1. pipe'[t] = pipe[t] /\ kept'[t] = kept[t] /\ capped'[t] = capped[t]
        BY <1>1, <1>7 DEF Took, OutputInv, TypeOK
    <2> QED
        BY <1>2, <2>1 DEF OutputInv, KeptSoFar, EndIsFinal, Held
<1> QED
    BY <1>2, <1>5, <1>6, <1>7 DEF EndIsFinal

LEMMA OutputStep == OutputInv /\ [Next]_vars => OutputInv'
<1> SUFFICES ASSUME OutputInv, [Next]_vars PROVE OutputInv'
    OBVIOUS
<1>a. TypeOK /\ TypeOK'
    BY TypeStep DEF OutputInv
<1> USE SizeAssumption DEF call, tree, reading
<1>1. ASSUME NEW s \in Streams, ReadCapped(s) PROVE OutputInv'
    BY <1>1, <1>a, ReadKeeps DEF ReadCapped, Took, OutputInv
<1>2. ASSUME NEW s \in Streams, ReadEOF(s) PROVE OutputInv'
    BY <1>2, <1>a DEF ReadEOF, OutputInv, TypeOK, KeptSoFar, EndIsFinal, Held
<1>3. ASSUME NEW s \in Streams, Writes(s) PROVE OutputInv'
    <2>1. /\ pipe'[s] = pipe[s] + 1 /\ wrote'[s] = wrote[s] + 1
          /\ UNCHANGED <<kept, capped, eof, child, other, pc, timedOut>>
          /\ \A t \in Streams \ {s} : pipe'[t] = pipe[t] /\ wrote'[t] = wrote[t]
        BY <1>3, <1>a DEF Writes, TypeOK
    <2>2. \A t \in Streams : pipe[t] \in Nat /\ wrote[t] \in Nat
        BY <1>a DEF TypeOK
    <2>3. \A t \in Streams : pipe'[t] <= wrote'[t] /\ wrote'[t] - pipe'[t] = wrote[t] - pipe[t]
        BY <2>1, <2>2 DEF OutputInv, KeptSoFar
    <2>4. \A t \in Streams : ~eof[t]
        BY <1>3 DEF Writes, OutputInv, EndIsFinal
    <2> QED
        BY <1>a, <2>1, <2>3, <2>4 DEF OutputInv, KeptSoFar, EndIsFinal
<1>4. CASE Completes
    BY <1>4, <1>a DEF Completes, OutputInv, KeptSoFar, EndIsFinal, Held
<1>5. CASE WriteStdin \/ CloseStdin \/ ReadsStdin
    BY <1>5, <1>a DEF WriteStdin, CloseStdin, ReadsStdin, OutputInv, KeptSoFar, EndIsFinal, Held
<1>6. CASE TimesOut \/ GraceEnds
    BY <1>6, <1>a DEF TimesOut, GraceEnds, KillGroup, OutputInv, KeptSoFar, EndIsFinal, Held
<1>7. CASE Forks \/ Exits
    BY <1>7, <1>a DEF Forks, Exits, OutputInv, KeptSoFar, EndIsFinal, Held
<1>8. CASE UNCHANGED vars
    BY <1>8, <1>a DEF vars, OutputInv, KeptSoFar, EndIsFinal, Held
<1> QED
    BY <1>1, <1>2, <1>3, <1>4, <1>5, <1>6, <1>7, <1>8 DEF Next, Daemon

\* A command that ended by itself is reported with exactly the first OutputCap chunks of
\* what it wrote, and flagged exactly when there was more: terminal.rs:50-68, 239-256.
THEOREM OutputIsExact == Spec => []OutputExact
<1>1. OutputInv => OutputExact
    <2> SUFFICES ASSUME OutputInv, pc = "done", ~timedOut, NEW s \in Streams
                 PROVE  kept[s] = Least(wrote[s], OutputCap) /\ (capped[s] <=> wrote[s] > OutputCap)
        BY DEF OutputExact
    <2>1. pipe[s] = 0 /\ wrote[s] \in Nat
        BY DEF OutputInv, EndIsFinal, TypeOK
    <2>2. wrote[s] - pipe[s] = wrote[s]
        BY <2>1
    <2> QED
        BY <2>2 DEF OutputInv, KeptSoFar
<1> QED
    BY <1>1, OutputInit, OutputStep, PTL DEF Spec
=============================================================================
