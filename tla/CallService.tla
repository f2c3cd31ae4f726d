----------------------------- MODULE CallService -----------------------------
(***************************************************************************)
(* What the desktop capabilities promise an agent: every call is concluded,*)
(* exactly once, by the answer to that very call or by an error.           *)
(***************************************************************************)
CONSTANT Callers
VARIABLE call   \* per caller: "idle", "pending", "ok" or "err"

Init == call = [c \in Callers |-> "idle"]

Issue(c) == call[c] = "idle" /\ call' = [call EXCEPT ![c] = "pending"]
Conclude(c) ==
    /\ call[c] = "pending"
    /\ \E r \in {"ok", "err"} : call' = [call EXCEPT ![c] = r]
Return(c) == call[c] \in {"ok", "err"} /\ call' = [call EXCEPT ![c] = "idle"]

Next == \E c \in Callers : Issue(c) \/ Conclude(c) \/ Return(c)

Spec == Init /\ [][Next]_call /\ \A c \in Callers : WF_call(Conclude(c))
=============================================================================
