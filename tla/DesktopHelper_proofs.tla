------------------------- MODULE DesktopHelper_proofs -------------------------
(***************************************************************************)
(* Theorems about DesktopHelper, for any agents, incarnations and bounds.  *)
(***************************************************************************)
EXTENDS DesktopHelper, TLAPS

-----------------------------------------------------------------------------
(* Types, by the parts of the state.                                       *)

HelperTyped ==
    /\ proc \in [Incs -> {"alive", "exited", "reaped"}]
    /\ stuck \in [Incs -> BOOLEAN]
    /\ in \in [Incs -> Seq(Callers)]
    /\ out \in [Incs -> Seq(Callers \cup {Garbage})]

ThreadTyped ==
    /\ framer \in [Incs -> {"recv", "read", "close", "drain", "done"}]
    /\ slot \in [Incs -> Callers \cup {None}]
    /\ serving \in [Incs -> Callers \cup {None}]
    /\ served \in [Incs -> 0..Timeout]

CallsTyped ==
    /\ st \in [Callers -> {"idle", "send", "wait", "ok", "wrong", "err"}]
    /\ to \in [Callers -> Incs]
    /\ age \in [Callers -> 0..Timeout]

WatcherTyped ==
    /\ wpc \in {"sleep", "spawn", "probe", "probing", "add_screen", "add_input",
                "attached", "drop_screen", "drop_input"}
    /\ cur \in Incs
    /\ offer \subseteq Caps
    /\ announced \in [Caps -> Incs \cup {None}]
    /\ backoff \in 1..MaxBackoff

LEMMA TypeParts ==
    /\ TypeOK <=> HelperTyped /\ ThreadTyped /\ CallsTyped /\ WatcherTyped
    /\ TypeOK' <=> HelperTyped' /\ ThreadTyped' /\ CallsTyped' /\ WatcherTyped'
  BY DEF TypeOK, HelperTyped, ThreadTyped, CallsTyped, WatcherTyped

\* A part that is left alone keeps its type.
LEMMA TypeFrame ==
    ASSUME TypeOK
    PROVE  /\ UNCHANGED helper => HelperTyped'
           /\ UNCHANGED thread => ThreadTyped'
           /\ UNCHANGED calls => CallsTyped'
           /\ UNCHANGED watcher => WatcherTyped'
<1>1. HelperTyped /\ (UNCHANGED helper => HelperTyped')
    BY TypeParts DEF helper, HelperTyped
<1>2. ThreadTyped /\ (UNCHANGED thread => ThreadTyped')
    BY TypeParts DEF thread, ThreadTyped
<1>3. CallsTyped /\ (UNCHANGED calls => CallsTyped')
    BY TypeParts DEF calls, CallsTyped
<1>4. WatcherTyped /\ (UNCHANGED watcher => WatcherTyped')
    BY TypeParts DEF watcher, WatcherTyped
<1> QED
    BY <1>1, <1>2, <1>3, <1>4

\* Ending a process, or concluding a call, keeps the types.
LEMMA EndsType ==
    ASSUME HelperTyped, NEW i \in Incs, Ends(i), out' \in [Incs -> Seq(Callers \cup {Garbage})]
    PROVE  HelperTyped'
<1>1. << >> \in Seq(Callers)
    OBVIOUS
<1> QED
    BY <1>1 DEF HelperTyped, Ends

LEMMA ConcludedType ==
    ASSUME CallsTyped, NEW c \in Callers, NEW r \in {"ok", "wrong", "err"}, Concluded(c, r),
           UNCHANGED to
    PROVE  CallsTyped'
<1>1. 0 \in 0..Timeout
    BY BoundAssumption
<1> QED
    BY <1>1 DEF CallsTyped, Concluded

LEMMA BeginType ==
    ASSUME CallsTyped, NEW c \in Callers, NEW i \in Incs, Begin(c, i)
    PROVE  CallsTyped'
  BY DEF CallsTyped, Begin

LEMMA CallStepType == 
    ASSUME TypeOK, NEW c \in Callers, Issue(c) \/ CallStep(c) \/ Return(c)
    PROVE  TypeOK'
<1> USE TypeParts, TypeFrame
<1>0. 1 \in Incs /\ 0 \in 0..Timeout
    BY BoundAssumption DEF Incs
<1>1. CASE Issue(c)
    <2>1. PICK k \in Caps : announced[k] # None /\ Begin(c, announced[k])
        BY <1>1 DEF Issue
    <2>2. announced[k] \in Incs
        BY <2>1 DEF WatcherTyped
    <2>3. CallsTyped'
        BY <2>1, <2>2, BeginType
    <2> QED
        BY <1>1, <2>3 DEF Issue
<1>2. CASE Enqueue(c)
    <2>1. CallsTyped' /\ ThreadTyped'
        BY <1>2, <1>0 DEF Enqueue, CallsTyped, ThreadTyped
    <2> QED
        BY <1>2, <2>1 DEF Enqueue
<1>3. CASE SendFails(c)
    <2>1. CallsTyped'
        BY <1>3, ConcludedType DEF SendFails
    <2> QED
        BY <1>3, <2>1 DEF SendFails
<1>4. CASE TimesOut(c)
    <2>1. CallsTyped'
        BY <1>4, ConcludedType DEF TimesOut
    <2>2. HelperTyped'
        BY <1>4, EndsType DEF TimesOut, CallsTyped, HelperTyped
    <2> QED
        BY <1>4, <2>1, <2>2 DEF TimesOut
<1>5. CASE Return(c)
    <2>1. CallsTyped'
        BY <1>5, <1>0 DEF Return, CallsTyped
    <2> QED
        BY <1>5, <2>1 DEF Return
<1> QED
    BY <1>1, <1>2, <1>3, <1>4, <1>5 DEF CallStep

LEMMA ThreadStepType ==
    ASSUME TypeOK, NEW i \in Incs, ThreadStep(i)
    PROVE  TypeOK'
<1> USE TypeParts, TypeFrame
<1>0. 0 \in 0..Timeout
    BY BoundAssumption
<1>1. CASE FramerTakes(i)
    <2>1. slot[i] \in Callers
        BY <1>1 DEF FramerTakes, ThreadTyped
    <2>2. Append(in[i], slot[i]) \in Seq(Callers)
        BY <2>1 DEF HelperTyped
    <2>3. HelperTyped'
        BY <1>1, <2>2 DEF FramerTakes, HelperTyped
    <2>4. ThreadTyped'
        BY <1>1, <2>1 DEF FramerTakes, ThreadTyped
    <2>5. CallsTyped'
        BY <1>1, <2>1, ConcludedType DEF FramerTakes, CallsTyped
    <2> QED
        BY <1>1, <2>3, <2>4, <2>5 DEF FramerTakes
<1>2. CASE FramerReads(i)
    <2>1. ASSUME out[i] # << >> PROVE Tail(out[i]) \in Seq(Callers \cup {Garbage})
        BY <2>1 DEF HelperTyped
    <2>2. HelperTyped'
        BY <1>2, <2>1 DEF FramerReads, HelperTyped
    <2>3. ThreadTyped'
        BY <1>2, <1>0 DEF FramerReads, ThreadTyped
    <2>4. CallsTyped'
        <3>1. PICK r \in {"ok", "wrong", "err"} : Concluded(serving[i], r) /\ to' = to
            BY <1>2 DEF FramerReads
        <3>2. CASE serving[i] \in Callers
            BY <3>1, <3>2, ConcludedType
        <3>3. CASE serving[i] \notin Callers
            BY <1>0, <3>1, <3>3 DEF Concluded, CallsTyped
        <3> QED
            BY <3>2, <3>3
    <2> QED
        BY <1>2, <2>2, <2>3, <2>4 DEF FramerReads
<1>3. CASE FramerCloses(i)
    <2>1. ThreadTyped'
        BY <1>3 DEF FramerCloses, ThreadTyped
    <2> QED
        BY <1>3, <2>1 DEF FramerCloses
<1>4. CASE FramerDrains(i)
    <2>1. slot[i] \in Callers
        BY <1>4 DEF FramerDrains, ThreadTyped
    <2>2. CallsTyped'
        BY <1>4, <2>1, ConcludedType DEF FramerDrains
    <2>3. ThreadTyped'
        BY <1>4 DEF FramerDrains, ThreadTyped
    <2> QED
        BY <1>4, <2>2, <2>3 DEF FramerDrains
<1>5. CASE FramerEnds(i)
    <2>1. out' \in [Incs -> Seq(Callers \cup {Garbage})]
        BY <1>5 DEF FramerEnds, HelperTyped
    <2>2. HelperTyped'
        BY <1>5, <2>1, EndsType DEF FramerEnds
    <2>3. ThreadTyped'
        BY <1>5 DEF FramerEnds, ThreadTyped
    <2> QED
        BY <1>5, <2>2, <2>3 DEF FramerEnds
<1> QED
    BY <1>1, <1>2, <1>3, <1>4, <1>5 DEF ThreadStep

LEMMA HelperStepType ==
    ASSUME TypeOK, NEW i \in Incs,
           Reap(i) \/ HelperAnswers(i) \/ HelperSticks(i) \/ HelperDies(i)
    PROVE  TypeOK'
<1> USE TypeParts, TypeFrame
<1>1. CASE Reap(i) \/ HelperSticks(i)
    <2>1. HelperTyped'
        BY <1>1 DEF Reap, HelperSticks, HelperTyped
    <2> QED
        BY <1>1, <2>1 DEF Reap, HelperSticks
<1>2. CASE HelperAnswers(i)
    <2>1. /\ Tail(in[i]) \in Seq(Callers) /\ Head(in[i]) \in Callers
          /\ out[i] \in Seq(Callers \cup {Garbage})
        BY <1>2 DEF HelperAnswers, Works, HelperTyped
    <2>2. \A r \in {Head(in[i]), Garbage} : Append(out[i], r) \in Seq(Callers \cup {Garbage})
        BY <2>1
    <2>3. HelperTyped'
        BY <1>2, <2>1, <2>2 DEF HelperAnswers, HelperTyped
    <2> QED
        BY <1>2, <2>3 DEF HelperAnswers
<1>3. CASE HelperDies(i)
    <2>1. HelperTyped'
        BY <1>3, EndsType DEF HelperDies, HelperTyped
    <2> QED
        BY <1>3, <2>1 DEF HelperDies
<1> QED
    BY <1>1, <1>2, <1>3

LEMMA WatchStepType == ASSUME TypeOK, WatchStep PROVE TypeOK'
<1> USE TypeParts, TypeFrame
<1>0. 1 \in Incs /\ 1 \in 1..MaxBackoff
    BY BoundAssumption DEF Incs
<1>1. CASE Spawn
    <2>1. HelperTyped'
        BY <1>1 DEF Spawn, HelperTyped
    <2>2. ThreadTyped'
        BY <1>1 DEF Spawn, ThreadTyped
    <2>3. WatcherTyped'
        BY <1>1 DEF Spawn, Watch, WatcherTyped
    <2> QED
        BY <1>1, <2>1, <2>2, <2>3 DEF Spawn
<1>2. CASE ProbeCall
    <2>1. CallsTyped'
        BY <1>2, BeginType DEF ProbeCall, WatcherTyped, Callers
    <2>2. WatcherTyped'
        BY <1>2 DEF ProbeCall, Watch, WatcherTyped
    <2> QED
        BY <1>2, <2>1, <2>2 DEF ProbeCall
<1>3. CASE ProbeReturns
    <2>1. CallsTyped'
        BY <1>0, <1>3 DEF ProbeReturns, CallsTyped
    <2>2. WatcherTyped'
        BY <1>3 DEF ProbeReturns, Watch, WatcherTyped
    <2> QED
        BY <1>3, <2>1, <2>2 DEF ProbeReturns
<1>4. CASE AddScreen \/ AddInput
    <2>1. WatcherTyped'
        BY <1>0, <1>4 DEF AddScreen, AddInput, Add, Watch, WatcherTyped
    <2> QED
        BY <1>4, <2>1 DEF AddScreen, AddInput, Add
<1>5. CASE SeesDeath \/ DropScreen \/ DropInput
    <2>1. WatcherTyped'
        BY <1>5 DEF SeesDeath, DropScreen, DropInput, Remove, Watch, WatcherTyped
    <2> QED
        BY <1>5, <2>1 DEF SeesDeath, DropScreen, DropInput
<1>6. CASE Wakes
    <2>1. Doubled \in 1..MaxBackoff
        BY BoundAssumption DEF Doubled, WatcherTyped
    <2>2. WatcherTyped'
        BY <1>6, <2>1 DEF Wakes, Watch, WatcherTyped
    <2> QED
        BY <1>6, <2>2 DEF Wakes
<1> QED
    BY <1>1, <1>2, <1>3, <1>4, <1>5, <1>6 DEF WatchStep

LEMMA TickType == ASSUME TypeOK, Tick PROVE TypeOK'
<1> USE TypeParts, TypeFrame
<1>1. \A c \in Callers : st[c] = "wait" => age[c] + 1 \in 0..Timeout
    BY BoundAssumption DEF Tick, CallsTyped
<1>2. \A i \in Incs : served[i] < Timeout => served[i] + 1 \in 0..Timeout
    BY BoundAssumption DEF ThreadTyped
<1>3. CallsTyped'
    BY <1>1 DEF Tick, CallsTyped
<1>4. ThreadTyped'
    BY <1>2 DEF Tick, ThreadTyped
<1> QED
    BY <1>3, <1>4 DEF Tick

LEMMA TypeInit == Init => TypeOK
<1> SUFFICES ASSUME Init PROVE TypeOK
    OBVIOUS
<1>1. 1 \in Incs /\ 0 \in 0..Timeout /\ 1 \in 1..MaxBackoff
    BY BoundAssumption DEF Incs
<1>2. << >> \in Seq(Callers) /\ << >> \in Seq(Callers \cup {Garbage})
    OBVIOUS
<1>3. HelperTyped
    <2>1. in = [i \in Incs |-> << >>] /\ out = in
        BY DEF Init
    <2>2. in \in [Incs -> Seq(Callers)] /\ out \in [Incs -> Seq(Callers \cup {Garbage})]
        BY <1>2, <2>1
    <2> QED
        BY <2>2 DEF Init, HelperTyped
<1>4. ThreadTyped
    <2>1. slot = [i \in Incs |-> None] /\ serving = slot
        BY DEF Init
    <2> QED
        BY <1>1, <2>1 DEF Init, ThreadTyped
<1>5. CallsTyped /\ WatcherTyped
    BY <1>1 DEF Init, CallsTyped, WatcherTyped
<1> QED
    BY <1>3, <1>4, <1>5, TypeParts

LEMMA TypeStep == TypeOK /\ [Next]_vars => TypeOK'
<1> SUFFICES ASSUME TypeOK, [Next]_vars PROVE TypeOK'
    OBVIOUS
<1>1. CASE UNCHANGED vars
    BY <1>1 DEF vars, helper, thread, calls, watcher, TypeOK
<1> QED
    BY <1>1, CallStepType, ThreadStepType, HelperStepType, WatchStepType, TickType DEF Next

\* The state keeps its type.
THEOREM TypeCorrect == Spec => []TypeOK
  BY TypeInit, TypeStep, PTL DEF Spec

-----------------------------------------------------------------------------
(* What is announced.                                                      *)

\* AnnouncedIsCurrent, and the half way between the two caps.add or caps.remove calls.
AnnouncedInv ==
    /\ AnnouncedIsCurrent
    /\ wpc = "add_input" => announced["input"] = None
    /\ wpc = "drop_input" => announced["screen"] = None

LEMMA AnnouncedStep == TypeOK /\ AnnouncedInv /\ [Next]_vars => AnnouncedInv'
<1> SUFFICES ASSUME TypeOK, AnnouncedInv, [Next]_vars PROVE AnnouncedInv'
    OBVIOUS
<1>a. announced \in [Caps -> Incs \cup {None}]
    BY DEF TypeOK
<1> USE DEF AnnouncedInv, AnnouncedIsCurrent
<1>1. CASE UNCHANGED watcher
    BY <1>1 DEF watcher
<1>2. CASE Spawn \/ ProbeCall \/ ProbeReturns \/ SeesDeath \/ Wakes
    BY <1>2 DEF Spawn, ProbeCall, ProbeReturns, SeesDeath, Wakes, Watch
<1>3. CASE AddScreen \/ AddInput
    BY <1>3, <1>a DEF AddScreen, AddInput, Add, Watch, Caps
<1>4. CASE DropScreen \/ DropInput
    BY <1>4, <1>a DEF DropScreen, DropInput, Remove, Watch, Caps
<1>5. UNCHANGED watcher \/ WatchStep
    BY DEF Next, Issue, CallStep, Enqueue, SendFails, TimesOut, Return, ThreadStep, FramerTakes,
       FramerReads, FramerCloses, FramerDrains, FramerEnds, Reap, HelperAnswers, HelperSticks,
       HelperDies, Tick, vars
<1> QED
    BY <1>1, <1>2, <1>3, <1>4, <1>5 DEF WatchStep

\* Every announced capability is served by the helper spawned last: display.rs:247-262.
THEOREM AnnouncedCurrent == Spec => []AnnouncedIsCurrent
<1>1. Init => AnnouncedInv
    BY DEF Init, AnnouncedInv, AnnouncedIsCurrent, Caps
<1>2. AnnouncedInv => AnnouncedIsCurrent
    BY DEF AnnouncedInv
<1> QED
    BY <1>1, <1>2, AnnouncedStep, TypeCorrect, PTL DEF Spec

-----------------------------------------------------------------------------
(* Answers: the id of a frame is never checked by the parent, so it is the *)
(* order of the pipes that keeps an answer with its request.               *)

\* Nothing is in the pipes while the thread waits for a job, and only the request it
\* serves, or its answer, while it waits for that.
PipesFit(i) ==
    /\ framer[i] \in {"recv", "done"} => in[i] = << >> /\ out[i] = << >>
    /\ framer[i] = "read" =>
          /\ serving[i] \in Callers
          /\ \/ in[i] \in {<< >>, <<serving[i]>>} /\ out[i] = << >>
             \/ in[i] = << >> /\ out[i] \in {<<serving[i]>>, <<Garbage>>}

NoneWrong == \A c \in Callers : st[c] # "wrong"

AnswersInv == TypeOK /\ NoneWrong /\ \A i \in Incs : PipesFit(i)

LEMMA PipesFrame ==
    ASSUME \A i \in Incs : PipesFit(i), UNCHANGED <<in, out, framer, serving>>
    PROVE  \A i \in Incs : PipesFit(i)'
  BY DEF PipesFit

\* The end of a process leaves its pipe to it empty.
LEMMA PipesEnds ==
    ASSUME AnswersInv, NEW j \in Incs, Ends(j), UNCHANGED <<out, framer, serving>>
    PROVE  \A i \in Incs : PipesFit(i)'
<1>1. \A i \in Incs : in'[i] = in[i] \/ in'[i] = << >>
    BY DEF Ends, AnswersInv, TypeOK
<1> QED
    BY <1>1 DEF AnswersInv, PipesFit

LEMMA ConcludedNotWrong ==
    ASSUME TypeOK, NoneWrong, NEW c, NEW r, Concluded(c, r), r # "wrong"
    PROVE  NoneWrong'
  BY DEF TypeOK, NoneWrong, Concluded

LEMMA ReadsOwnAnswer ==
    ASSUME AnswersInv, NEW i \in Incs, FramerReads(i)
    PROVE  /\ NoneWrong'
           /\ \E r \in {"ok", "err"} : Concluded(serving[i], r)
           /\ \A j \in Incs : PipesFit(j)'
<1>1. framer[i] = "read" /\ serving[i] \in Callers /\ Garbage # serving[i]
    BY NameAssumption DEF AnswersInv, PipesFit, FramerReads
<1>2. ASSUME out[i] # << >>, Head(out[i]) # Garbage
      PROVE  Head(out[i]) = serving[i] /\ Tail(out[i]) = << >> /\ in[i] = << >>
    <2>1. out[i] \in {<<serving[i]>>, <<Garbage>>} /\ in[i] = << >>
        BY <1>1, <1>2 DEF AnswersInv, PipesFit
    <2>2. out[i] = <<serving[i]>>
        BY <1>2, <2>1
    <2> QED
        BY <2>1, <2>2
<1>3. \E r \in {"ok", "err"} : Concluded(serving[i], r)
    BY <1>1, <1>2 DEF FramerReads
<1>4. NoneWrong'
    BY <1>3, ConcludedNotWrong DEF AnswersInv
<1>5. ASSUME NEW j \in Incs PROVE PipesFit(j)'
    <2>1. in'[j] = in[j]
        BY DEF FramerReads
    <2>2. CASE j # i
        BY <2>1, <2>2 DEF FramerReads, AnswersInv, TypeOK, PipesFit
    <2>3. CASE j = i /\ framer'[i] = "recv"
        BY <1>2, <2>1, <2>3 DEF FramerReads, AnswersInv, TypeOK, PipesFit
    <2>4. CASE j = i /\ framer'[i] = "close"
        BY <2>4 DEF PipesFit
    <2>5. framer'[i] \in {"recv", "close"}
        BY DEF FramerReads, AnswersInv, TypeOK
    <2> QED
        BY <2>2, <2>3, <2>4, <2>5
<1> QED
    BY <1>3, <1>4, <1>5

LEMMA AnswersStep == AnswersInv /\ [Next]_vars => AnswersInv'
<1> SUFFICES ASSUME AnswersInv, [Next]_vars PROVE AnswersInv'
    OBVIOUS
<1>a. TypeOK /\ NoneWrong /\ TypeOK'
    BY TypeStep DEF AnswersInv
<1>b. \A i \in Incs : PipesFit(i)
    BY DEF AnswersInv
<1> DEFINE Rest == NoneWrong' /\ \A i \in Incs : PipesFit(i)'
<1> SUFFICES Rest
    BY <1>a DEF AnswersInv
<1> HIDE DEF Rest
<1> USE DEF Rest, helper, thread, calls
<1>1. ASSUME NEW c \in Callers, Issue(c) \/ Enqueue(c) \/ Return(c) PROVE Rest
    <2>1. \E s \in {"idle", "send", "wait"} : st' = [st EXCEPT ![c] = s]
        BY <1>1 DEF Issue, Begin, Enqueue, Return
    <2>2. NoneWrong'
        BY <1>a, <2>1 DEF NoneWrong, TypeOK
    <2> QED
        BY <1>1, <1>b, <2>2, PipesFrame DEF Issue, Enqueue, Return
<1>2. ASSUME NEW c \in Callers, SendFails(c) PROVE Rest
    BY <1>2, <1>a, <1>b, ConcludedNotWrong, PipesFrame DEF SendFails
<1>3. ASSUME NEW c \in Callers, TimesOut(c) PROVE Rest
    <2>1. to[c] \in Incs
        BY <1>a DEF TypeOK
    <2> QED
        BY <1>3, <1>a, <2>1, ConcludedNotWrong, PipesEnds DEF TimesOut
<1>4. ASSUME NEW i \in Incs, FramerTakes(i) PROVE Rest
    <2>1. slot[i] \in Callers
        BY <1>4, <1>a DEF FramerTakes, TypeOK
    <2>2. NoneWrong'
        BY <1>4, <1>a, ConcludedNotWrong DEF FramerTakes, NoneWrong
    <2>3. ASSUME framer' = [framer EXCEPT ![i] = "read"],
                 in' = [in EXCEPT ![i] = Append(@, slot[i])],
                 serving' = [serving EXCEPT ![i] = slot[i]]
          PROVE  \A j \in Incs : PipesFit(j)'
        <3>1. in[i] = << >> /\ out[i] = << >> /\ out' = out
            BY <1>4, <1>b DEF FramerTakes, PipesFit
        <3>2. in'[i] = <<slot[i]>> /\ serving'[i] = slot[i] /\ framer'[i] = "read"
            BY <1>a, <2>3, <3>1 DEF TypeOK
        <3>3. PipesFit(i)'
            BY <2>1, <3>1, <3>2 DEF PipesFit
        <3>4. ASSUME NEW j \in Incs, j # i PROVE PipesFit(j)'
            <4>1. /\ in'[j] = in[j] /\ out'[j] = out[j]
                  /\ framer'[j] = framer[j] /\ serving'[j] = serving[j]
                BY <1>a, <2>3, <3>1, <3>4 DEF TypeOK
            <4> QED
                BY <1>b, <4>1 DEF PipesFit
        <3> QED
            BY <3>3, <3>4
    <2>4. ASSUME framer' = [framer EXCEPT ![i] = "close"], UNCHANGED <<in, serving>>
          PROVE  \A j \in Incs : PipesFit(j)'
        BY <1>4, <1>a, <1>b, <2>4 DEF FramerTakes, PipesFit, TypeOK
    <2> QED
        BY <1>4, <2>2, <2>3, <2>4 DEF FramerTakes
<1>5. ASSUME NEW i \in Incs, FramerReads(i) PROVE Rest
    BY <1>5, ReadsOwnAnswer
<1>6. ASSUME NEW i \in Incs, FramerCloses(i) PROVE Rest
    BY <1>6, <1>a, <1>b DEF FramerCloses, NoneWrong, PipesFit, TypeOK
<1>7. ASSUME NEW i \in Incs, FramerDrains(i) PROVE Rest
    BY <1>7, <1>a, <1>b, ConcludedNotWrong, PipesFrame DEF FramerDrains
<1>8. ASSUME NEW i \in Incs, FramerEnds(i) PROVE Rest
    BY <1>8, <1>a, <1>b DEF FramerEnds, Ends, NoneWrong, PipesFit, TypeOK
<1>9. ASSUME NEW i \in Incs, Reap(i) \/ HelperSticks(i) PROVE Rest
    BY <1>9, <1>a, <1>b, PipesFrame DEF Reap, HelperSticks, NoneWrong
<1>10. ASSUME NEW i \in Incs, HelperAnswers(i) PROVE Rest
    <2>1. NoneWrong'
        BY <1>10, <1>a DEF HelperAnswers, NoneWrong
    <2>2. ASSUME framer[i] = "read" PROVE PipesFit(i)'
        <3>1. in[i] = <<serving[i]>> /\ out[i] = << >> /\ serving[i] \in Callers
            BY <1>10, <1>b, <2>2 DEF HelperAnswers, Works, PipesFit
        <3>2. in'[i] = << >> /\ out'[i] \in {<<serving[i]>>, <<Garbage>>}
            BY <1>10, <1>a, <3>1 DEF HelperAnswers, TypeOK
        <3> QED
            BY <1>10, <2>2, <3>1, <3>2 DEF HelperAnswers, PipesFit
    <2>3. framer[i] \notin {"recv", "done"}
        BY <1>10, <1>b DEF HelperAnswers, Works, PipesFit
    <2>4. ASSUME framer[i] \notin {"recv", "done", "read"} PROVE PipesFit(i)'
        BY <1>10, <2>4 DEF HelperAnswers, PipesFit
    <2>5. \A j \in Incs \ {i} : PipesFit(j)'
        BY <1>10, <1>a, <1>b DEF HelperAnswers, PipesFit, TypeOK
    <2> QED
        BY <2>1, <2>2, <2>3, <2>4, <2>5
<1>11. ASSUME NEW i \in Incs, HelperDies(i) PROVE Rest
    BY <1>11, <1>a, PipesEnds DEF HelperDies, NoneWrong
<1>12. CASE Spawn
    <2>1. NoneWrong'
        BY <1>12, <1>a DEF Spawn, NoneWrong
    <2>2. ASSUME NEW i \in Incs, Unused(i), framer' = [framer EXCEPT ![i] = "recv"]
          PROVE  \A j \in Incs : PipesFit(j)'
        BY <1>12, <1>a, <1>b, <2>2 DEF Spawn, Unused, PipesFit, TypeOK
    <2>3. UNCHANGED framer \/ \E i \in Incs : Unused(i) /\ framer' = [framer EXCEPT ![i] = "recv"]
        BY <1>12 DEF Spawn
    <2> QED
        BY <1>12, <1>b, <2>1, <2>2, <2>3, PipesFrame DEF Spawn
<1>13. CASE ProbeCall \/ ProbeReturns
    <2>1. NoneWrong'
        BY <1>13, <1>a DEF ProbeCall, Begin, ProbeReturns, NoneWrong, TypeOK
    <2> QED
        BY <1>13, <1>b, <2>1, PipesFrame DEF ProbeCall, ProbeReturns
<1>14. CASE AddScreen \/ AddInput \/ SeesDeath \/ DropScreen \/ DropInput \/ Wakes
    BY <1>14, <1>a, <1>b, PipesFrame
    DEF AddScreen, AddInput, Add, SeesDeath, DropScreen, DropInput, Wakes, NoneWrong
<1>15. CASE Tick \/ UNCHANGED vars
    BY <1>15, <1>a, <1>b, PipesFrame DEF Tick, vars, NoneWrong
<1> QED
    BY <1>1, <1>2, <1>3, <1>4, <1>5, <1>6, <1>7, <1>8, <1>9, <1>10, <1>11, <1>12, <1>13,
       <1>14, <1>15
    DEF Next, CallStep, ThreadStep, WatchStep

LEMMA AnswersInit == Init => AnswersInv
<1> SUFFICES ASSUME Init PROVE AnswersInv
    OBVIOUS
<1>1. \A i \in Incs : in[i] = << >> /\ out[i] = << >> /\ framer[i] = "done"
    BY DEF Init
<1> QED
    BY <1>1, TypeInit DEF Init, AnswersInv, NoneWrong, PipesFit

-----------------------------------------------------------------------------
(* The desktop capabilities implement CallService.                         *)

\* A step about one caller is one of CallService, or none of its business.
LEMMA OneCall ==
    ASSUME TypeOK, NEW c \in Callers, NEW s, st' = [st EXCEPT ![c] = s]
    PROVE  /\ c \in Agents =>
                 callStatus' = [callStatus EXCEPT
                                  ![c] = IF s \in {"send", "wait"} THEN "pending" ELSE s]
           /\ c \notin Agents => UNCHANGED callStatus
<1>1. st'[c] = s /\ \A d \in Agents : d # c => st'[d] = st[d]
    BY DEF TypeOK, Callers
<1> QED
    BY <1>1 DEF callStatus, Calling

LEMMA StatusOf ==
    /\ DOMAIN callStatus = Agents
    /\ \A c \in Agents : callStatus[c] = IF Calling(c) THEN "pending" ELSE st[c]
  BY DEF callStatus

LEMMA ConcludedServes ==
    ASSUME TypeOK, NEW c \in Callers, NEW r \in {"ok", "err"}, Concluded(c, r)
    PROVE  [Calls!Next]_callStatus
<1>1. CASE ~Calling(c)
    BY <1>1 DEF Concluded, callStatus, Calling
<1>2. CASE Calling(c) /\ c \notin Agents
    <2>1. callStatus' = callStatus
        BY <1>2, OneCall DEF Concluded
    <2> QED
        BY <2>1
<1>3. CASE Calling(c) /\ c \in Agents
    <2>1. callStatus[c] = "pending"
        BY <1>3, StatusOf
    <2>2. callStatus' = [callStatus EXCEPT ![c] = r]
        BY <1>3, OneCall DEF Concluded
    <2> QED
        BY <1>3, <2>1, <2>2 DEF Calls!Next, Calls!Conclude
<1> QED
    BY <1>1, <1>2, <1>3

LEMMA StepServes == AnswersInv /\ [Next]_vars => [Calls!Next]_callStatus
<1> SUFFICES ASSUME AnswersInv, [Next]_vars PROVE [Calls!Next]_callStatus
    OBVIOUS
<1>a. TypeOK /\ NoneWrong
    BY DEF AnswersInv
<1>b. UNCHANGED st => UNCHANGED callStatus
    BY DEF callStatus, Calling
<1> USE DEF calls
<1>1. ASSUME NEW c \in Callers, Issue(c) PROVE [Calls!Next]_callStatus
    <2>1. c \in Agents /\ st[c] = "idle" /\ st' = [st EXCEPT ![c] = "send"]
        BY <1>1 DEF Issue, Begin
    <2>2. callStatus[c] = "idle" /\ callStatus' = [callStatus EXCEPT ![c] = "pending"]
        BY <1>a, <2>1, OneCall, StatusOf DEF Calling
    <2> QED
        BY <2>1, <2>2 DEF Calls!Next, Calls!Issue
<1>2. ASSUME NEW c \in Callers, Enqueue(c) PROVE [Calls!Next]_callStatus
    <2>1. callStatus' = callStatus
        BY <1>2, <1>a, OneCall DEF Enqueue, callStatus, Calling
    <2> QED
        BY <2>1
<1>3. ASSUME NEW c \in Callers, SendFails(c) \/ TimesOut(c) PROVE [Calls!Next]_callStatus
    BY <1>3, <1>a, ConcludedServes DEF SendFails, TimesOut
<1>4. ASSUME NEW c \in Callers, Return(c) PROVE [Calls!Next]_callStatus
    <2>1. c \in Agents /\ st[c] \in {"ok", "err"} /\ st' = [st EXCEPT ![c] = "idle"]
        BY <1>4, <1>a DEF Return, NoneWrong
    <2>2. callStatus[c] \in {"ok", "err"} /\ callStatus' = [callStatus EXCEPT ![c] = "idle"]
        BY <1>a, <2>1, OneCall, StatusOf DEF Calling
    <2> QED
        BY <2>1, <2>2 DEF Calls!Next, Calls!Return
<1>5. ASSUME NEW i \in Incs, FramerTakes(i) \/ FramerDrains(i) PROVE [Calls!Next]_callStatus
    <2>1. slot[i] \in Callers
        BY <1>5, <1>a DEF FramerTakes, FramerDrains, TypeOK
    <2>2. Concluded(slot[i], "err") \/ UNCHANGED st
        BY <1>5 DEF FramerTakes, FramerDrains
    <2> QED
        BY <1>a, <1>b, <2>1, <2>2, ConcludedServes
<1>6. ASSUME NEW i \in Incs, FramerReads(i) PROVE [Calls!Next]_callStatus
    <2>1. serving[i] \in Callers
        BY <1>6 DEF FramerReads, AnswersInv, PipesFit
    <2> QED
        BY <1>6, <1>a, <2>1, ReadsOwnAnswer, ConcludedServes
<1>7. CASE ProbeCall \/ ProbeReturns
    <2>1. PICK s : st' = [st EXCEPT ![Probe] = s]
        BY <1>7 DEF ProbeCall, Begin, ProbeReturns
    <2>2. callStatus' = callStatus
        BY <1>a, <2>1, OneCall, NameAssumption DEF Callers
    <2> QED
        BY <2>2
<1>8. CASE UNCHANGED st
    BY <1>8, <1>b
<1>9. \/ \E c \in Callers : Issue(c) \/ Enqueue(c) \/ SendFails(c) \/ TimesOut(c) \/ Return(c)
      \/ \E i \in Incs : FramerTakes(i) \/ FramerDrains(i) \/ FramerReads(i)
      \/ ProbeCall \/ ProbeReturns \/ UNCHANGED st
    BY DEF Next, CallStep, ThreadStep, WatchStep, FramerCloses, FramerEnds, Reap, HelperAnswers,
       HelperSticks, HelperDies, Spawn, AddScreen, AddInput, Add, SeesDeath,
       DropScreen, DropInput, Wakes, Tick, vars
<1> QED
    BY <1>1, <1>2, <1>3, <1>4, <1>5, <1>6, <1>7, <1>8, <1>9

\* The safety half of CallsConcluded: every call is concluded at most once, and by the
\* answer to that very call or by an error (display.rs:65-85).
THEOREM CallsServed == Spec => Calls!Init /\ [][Calls!Next]_callStatus
<1>1. Init => Calls!Init
    BY DEF Init, Calls!Init, callStatus, Calling, Callers
<1>2. Init => AnswersInv
    BY AnswersInit
<1> QED
    BY <1>1, <1>2, AnswersStep, StepServes, PTL DEF Spec
=============================================================================
