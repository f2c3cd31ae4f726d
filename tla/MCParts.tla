------------------------------- MODULE MCParts -------------------------------
(***************************************************************************)
(* The components that share no state, each explored on its own: `part`    *)
(* says which one moves, the others stay as they start.                    *)
(***************************************************************************)
EXTENDS Node, Service, Files, DesktopChild, Frames

VARIABLE part

vars == <<part, nodeVars, serviceVars, filesVars, childVars, framesVars>>

\* Links to a directory, into a denied one, and up.
MCTargets == {Abs(<<"b">>), Abs(<<"a", "b">>), Rel(<<"..">>)}
MCHome == <<"a">>
MCConfigDir == <<"a", "b">>
\* No file; two roots, one below a mount that may be missing; a root in another; not absolute.
MCConfigs ==
    {Defaults,
     [roots |-> <<Rel(<<"~">>), Abs(<<"b", "b">>)>>, deny |-> <<Abs(<<"b", "b", "a">>)>>, file |-> TRUE],
     [roots |-> <<Abs(<<"b", "a">>), Abs(<<"b">>)>>, deny |-> <<Rel(<<"~", "a">>)>>, file |-> TRUE],
     [roots |-> <<Rel(<<"b">>)>>, deny |-> <<>>, file |-> TRUE]}
OneTree == [p \in Places |-> IF p = <<>> THEN Dir ELSE Missing]
OneServer == [detect |-> "Xcap", captures |-> {}, displays |-> "none", input |-> "fails"]

Init ==
    /\ part \in {"node", "service", "files", "child", "frames"}
    /\ NodeInit /\ (part # "node" => ~overlap)
    /\ ServiceInit /\ (part # "service" => ~faulty)
    /\ IF part = "files" THEN FilesInit
       ELSE tree = OneTree /\ config = Defaults /\ gate = NoGate /\ request = NoRequest
    /\ ChildInit /\ (part # "child" => server = OneServer)
    /\ FramesInit

NodeMoves ==
    part = "node" /\ NodeNext /\ UNCHANGED <<part, serviceVars, filesVars, childVars, framesVars>>
ServiceMoves ==
    part = "service" /\ ServiceNext /\ UNCHANGED <<part, nodeVars, filesVars, childVars, framesVars>>
FilesMove ==
    part = "files" /\ FilesNext /\ UNCHANGED <<part, nodeVars, serviceVars, childVars, framesVars>>
ChildMoves ==
    part = "child" /\ ChildNext /\ UNCHANGED <<part, nodeVars, serviceVars, filesVars, framesVars>>
FramesMove ==
    part = "frames" /\ FramesNext /\ UNCHANGED <<part, nodeVars, serviceVars, filesVars, childVars>>

Next == NodeMoves \/ ServiceMoves \/ FilesMove \/ ChildMoves \/ FramesMove

PartsSpec == Init /\ [][Next]_vars /\ NodeFairness
=============================================================================
