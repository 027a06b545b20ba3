--------------------------- MODULE MCGraphDisplay ---------------------------
(***************************************************************************)
(* An instance of GraphDisplay for TLC.                                    *)
(***************************************************************************)
EXTENDS GraphDisplay

\* Lens "a" sees a process with a risk, its child and, when it is attached, what
\* a plugin calls the file it wrote; "b" sees the child alone at first.
MCInitially ==
  [type |-> <<"Process", "Process", "Plugin", "Risk">>, score |-> <<0, 0, 0, 5>>,
   edges |-> {<<1, "risks", 4>>, <<2, "parent", 1>>},
   scope |-> [l \in {"a", "b"} |-> IF l = "a" THEN {1, 2} ELSE {2}]]
MCAttachable == {<<"b", 3>>}
MCConnectable == {<<2, "writes", 3>>, <<1, "children", 2>>}
MCDeployed == {"Process", "Risk"}
=============================================================================
