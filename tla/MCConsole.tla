----------------------------- MODULE MCConsole -----------------------------
(***************************************************************************)
(* Instances of Console for TLC.  The name of plugin "p" is the beginning  *)
(* of that of plugin "pq".                                                 *)
(***************************************************************************)
EXTENDS Console, TLC

MCFolder == "p/a" :> "p" @@ "pq/a" :> "pq"
MCPlace == "p/a" :> 1 @@ "pq/a" :> 2
MCBeginWith == [p |-> {"p/a", "pq/a"}, pq |-> {"pq/a"}]
MCDirectories == {{"p/a", "pq/a"}}
=============================================================================
