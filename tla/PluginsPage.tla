---------------------------- MODULE PluginsPage ----------------------------
(***************************************************************************)
(* The plugins page (engagement_view/src/components/uploadPlugin/utils and *)
(* services/uploadPlugin): a table that asks for the list of plugins every *)
(* second and deletes plugins, and a form that uploads a directory.        *)
(*                                                                         *)
(* The server is grapl_model_plugin_deployer.py: plugins are the folders   *)
(* of its bucket.  It lists one page of a bucket, and deletes a plugin key *)
(* by key.  A request of a page that was left still reaches it, but what   *)
(* it returns sets no state.                                               *)
(***************************************************************************)
EXTENDS Integers, FiniteSets, EdgeApi

CONSTANTS
  Folder,         \* key -> the plugin in whose folder it is
  Place,          \* key -> its place in the order in which S3 lists keys
  BeginWith,      \* plugin -> the keys that begin with its name
  Directories,    \* what the user may upload: sets of keys
  MaxKeys,        \* the keys a listing has at most: 1000 in S3
  MaxLists,       \* bound on list requests in flight
  MaxEdits,       \* bound on deletions and uploads in flight
  MaxFailures     \* bound on requests that are lost

VARIABLES
  session,        \* does the grapl_jwt cookie of the browser verify?
  failures,
  keys,           \* the keys in the bucket
  pluginTable,    \* PluginTable's state
  lists,          \* getPluginList calls in flight: [toggle, done, rows]
  edits           \* deletePlugin and uploadFilesToDgraph calls in flight: what
                  \* is asked for, what is left to do once it was reached

Files == DOMAIN Folder
PluginNames == {Folder[k] : k \in Files}

server == <<session, failures>>
pluginVars == <<keys, pluginTable, lists, edits>>

\* list_objects_v2, which is not asked for a second page.
listed(found) ==
  {k \in found : Cardinality({j \in found : Place[j] < Place[k]}) < MaxKeys}

get_plugin_list == {Folder[k] : k \in listed(keys)}

defaultPluginTableState == [rows |-> {}, toggle |-> TRUE]

Lost == failures < MaxFailures /\ failures' = failures + 1 /\ UNCHANGED session

\* (UploadPluginUncleared: a mutant whose closures outlive their page.)
UploadPluginUncleared ==
  /\ pluginTable' = defaultPluginTableState
  /\ UNCHANGED <<keys, lists, edits>>

\* The pages are mounted anew; closures of the old ones run on to no effect.
UploadPlugin ==
  /\ pluginTable' = defaultPluginTableState /\ lists' = {}
  /\ edits' = {[e EXCEPT !.mounted = FALSE, !.rows = {}] :
                 e \in {d \in edits : d.at = "sent" \/ d.left # {}}}
  /\ UNCHANGED keys

\* The interval, and getPluginList: what fails or is refused lists nothing.
\* (ListTickWhileToggled: a mutant whose effect ends with the toggle.)
ListTickWhileToggled ==
  /\ pluginTable.toggle /\ Cardinality(lists) < MaxLists
  /\ lists' = lists \union {[toggle |-> pluginTable.toggle, done |-> FALSE, rows |-> {}]}
  /\ UNCHANGED <<server, keys, pluginTable, edits>>

ListTick ==
  /\ Cardinality(lists) < MaxLists
  /\ lists' = lists \union {[toggle |-> pluginTable.toggle, done |-> FALSE, rows |-> {}]}
  /\ UNCHANGED <<server, keys, pluginTable, edits>>

ListAnswered(l, lost) ==
  /\ ~l.done
  /\ lists' = (lists \ {l}) \union
       {[l EXCEPT !.done = TRUE, !.rows = IF session /\ ~lost /\ canReach({"list"})
                                    THEN get_plugin_list ELSE {}]}
  /\ IF lost THEN Lost ELSE UNCHANGED server
  /\ UNCHANGED <<keys, pluginTable, edits>>

ListReturns(l) ==
  /\ l.done
  /\ pluginTable' = [toggle |-> l.toggle, rows |-> l.rows]
  /\ lists' = lists \ {l}
  /\ UNCHANGED <<server, keys, edits>>

\* The user deletes a plugin of the table, or uploads a directory.
Edit(kind, what) ==
  /\ Cardinality(edits) < MaxEdits
  /\ edits' = edits \union {
    [kind |-> kind, what |-> what, at |-> "sent", left |-> {}, mounted |-> TRUE,
     rows |-> IF kind = "delete" THEN pluginTable.rows ELSE {}]}
  /\ UNCHANGED <<server, keys, pluginTable, lists>>

ClickDelete(p) == p \in pluginTable.rows /\ Edit("delete", BeginWith[p])

\* onSubmit, once the files are chosen and read.
SubmitUpload(curFiles) == Edit("upload", curFiles)

\* What is made of an edit: it was reached, and some keys are left to be deleted.
Goes(e, left) ==
  /\ edits' = (edits \ {e}) \union {[e EXCEPT !.at = "reached", !.left = left]}
  /\ UNCHANGED <<pluginTable, lists>>

\* Of a directory the deployer stores the file whose read ended first: upload_plugin
\* returns a Response, and upload_plugins takes any for an error.
Upload(e) ==
  /\ e.at = "sent" /\ e.kind = "upload" /\ Goes(e, {})
  /\ IF session /\ canReach({"put"})
     THEN \E k \in e.what : keys' = keys \union {k} ELSE UNCHANGED keys
  /\ UNCHANGED server

\* delete_plugin lists the keys that begin with the plugin's name, ...
ListForDelete(e) ==
  /\ e.at = "sent" /\ e.kind = "delete"
  /\ Goes(e, IF session /\ canReach({"list", "delete"})
              THEN listed(keys \intersect e.what) ELSE {})
  /\ UNCHANGED <<server, keys>>

\* ... and deletes one after the other.
DeleteNext(e) ==
  \E k \in e.left :
    /\ \A j \in e.left : Place[k] <= Place[j]
    /\ Goes(e, e.left \ {k}) /\ keys' = keys \ {k}
    /\ UNCHANGED server

\* A request is lost, or one of the deployer's to S3 fails: the rest is not done.
EditFails(e) ==
  /\ e.at = "sent" \/ e.left # {}
  /\ Goes(e, {}) /\ Lost /\ UNCHANGED keys

\* deletePlugin swallows errors, and its caller writes the rows it had.  An
\* upload writes a message only, and in fact none: a success has no "Success" in
\* it (true && undefined), and a failure rejects the promise.
EditReturns(e) ==
  /\ e.at = "reached" /\ e.left = {} /\ edits' = edits \ {e}
  /\ pluginTable' = IF e.mounted /\ e.kind = "delete"
                    THEN [rows |-> e.rows, toggle |-> FALSE] ELSE pluginTable
  /\ UNCHANGED <<server, keys, lists>>
=============================================================================
