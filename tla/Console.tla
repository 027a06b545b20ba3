------------------------------ MODULE Console ------------------------------
(***************************************************************************)
(* The web console as the browser runs it (engagement_view/src): the pages *)
(* of routes.tsx, the login and the check of it.  Only the page that is    *)
(* mounted has state.  Of the engagements page, the table of lenses is     *)
(* module LensTable's and the graph is GraphDisplay's.                     *)
(*                                                                         *)
(* All three pages check the login until an answer has set renderedOnce,   *)
(* and never again.  The closure of a check writes back the state of its   *)
(* own render: a late one takes back the lens the user has selected, which *)
(* to GraphDisplay is another lens selected.                               *)
(***************************************************************************)
EXTENDS PluginsPage

CONSTANTS
  Lenses,      \* the lenses of the table
  NoLens,      \* "", the default curLens
  MaxChecks    \* bound on login checks in flight

VARIABLES
  route,
  page,     \* the page's own state: [curLens, loggedIn, renderedOnce]
  checks,   \* checkLogin calls in flight: [state, answer]
  loginFailed

pageVars == <<route, page, checks, loginFailed>>
vars == <<server, pluginVars, pageVars>>

Pages == {"/", "/plugins", "/engagements"}

defaultEngagementState == [curLens |-> NoLens, loggedIn |-> TRUE, renderedOnce |-> FALSE]

\* fetchLoginAndSetState: what the effect of a page in this state asks at once.
\* Only EngagementUx does not wait for its interval.
checkAtOnce(r, state) ==
  IF r = "/engagements" /\ ~state.renderedOnce THEN {[state |-> state, answer |-> "sent"]} ELSE {}

Init ==
  /\ session \in BOOLEAN /\ failures = 0
  /\ keys = {} /\ pluginTable = defaultPluginTableState
  /\ lists = {} /\ edits = {}
  /\ route = "/" /\ page = defaultEngagementState /\ checks = {} /\ loginFailed = FALSE

\* A page is mounted, and the one before it is gone with its closures.
Mount(r) ==
  /\ route' = r /\ page' = defaultEngagementState /\ loginFailed' = FALSE
  /\ checks' = checkAtOnce(r, defaultEngagementState)
  /\ UploadPlugin

\* Links, and the address bar.
Navigate(r) == r # route /\ Mount(r) /\ UNCHANGED server

\* LogIn's onSubmit, with a password that is right or not.
Login(ok) ==
  /\ route = "/login"
  /\ IF ok /\ canLogin
     THEN session' = TRUE /\ Mount("/") /\ UNCHANGED failures
     ELSE /\ loginFailed' = TRUE
          /\ UNCHANGED <<server, pluginVars, route, page, checks>>

\* The popover of LoginNotification takes the user to the login page.
LoginNotification ==
  route # "/login" /\ ~page.loggedIn /\ Mount("/login") /\ UNCHANGED server

\* The cookie is cleared, or does not verify any more: the secret was replaced.  (The
\* token has no expiry, and the cookie no age.)
SessionEnds ==
  /\ session /\ session' = FALSE
  /\ UNCHANGED <<failures, pluginVars, pageVars>>

-----------------------------------------------------------------------------
\* The interval of a page that has not been told yet.
CheckTick ==
  /\ route \in Pages /\ ~page.renderedOnce
  /\ Cardinality(checks) < MaxChecks
  /\ checks' = checks \union {[state |-> page, answer |-> "sent"]}
  /\ UNCHANGED <<server, pluginVars, route, page, loginFailed>>

\* setLens.  (setCurNode is like it.)  The effect depends on the whole state: it
\* runs again.
SelectLens(l) ==
  /\ route = "/engagements" /\ Cardinality(checks) < MaxChecks
  /\ page' = [page EXCEPT !.curLens = l]
  /\ checks' = checks \union checkAtOnce(route, page')
  /\ UNCHANGED <<server, pluginVars, route, loginFailed>>

\* checkLogin: a request that is lost is null, which is no "True".
CheckAnswered(c, lost) ==
  /\ c.answer = "sent"
  /\ checks' = (checks \ {c}) \union
       {[c EXCEPT !.answer = IF session /\ ~lost /\ canAuthenticate(EngagementEdge)
                          THEN "True" ELSE "False"]}
  /\ IF lost THEN Lost ELSE UNCHANGED server
  /\ UNCHANGED <<pluginVars, route, page, loginFailed>>

\* setEngagementState({...engagementState, ...}).  (CheckReturnsUndecided: a
\* mutant that keeps loggedIn.)
CheckReturnsUndecided(c) ==
  /\ c.answer # "sent"
  /\ page' = [c.state EXCEPT !.renderedOnce = TRUE]
  /\ checks' = checks \ {c}
  /\ UNCHANGED <<server, pluginVars, route, loginFailed>>

CheckReturns(c) ==
  /\ c.answer # "sent"
  /\ page' = [c.state EXCEPT !.loggedIn = c.answer = "True", !.renderedOnce = TRUE]
  /\ checks' = checks \ {c}
  /\ UNCHANGED <<server, pluginVars, route, loginFailed>>

-----------------------------------------------------------------------------
Plugins ==
  /\ route = "/plugins" /\ UNCHANGED pageVars
  /\ \/ ListTick
     \/ \E p \in PluginNames : ClickDelete(p)
     \/ \E files \in Directories : SubmitUpload(files)
     \/ \E l \in lists : ListReturns(l) \/ \E lost \in BOOLEAN : ListAnswered(l, lost)

EditsGoOn ==
  /\ UNCHANGED pageVars
  /\ \E e \in edits :
       Upload(e) \/ ListForDelete(e) \/ DeleteNext(e) \/ EditFails(e) \/ EditReturns(e)

Next ==
  \/ \E r \in Pages : Navigate(r)
  \/ \E ok \in BOOLEAN : Login(ok)
  \/ LoginNotification \/ SessionEnds
  \/ CheckTick \/ \E l \in Lenses : SelectLens(l)
  \/ \E c \in checks : CheckReturns(c) \/ \E lost \in BOOLEAN : CheckAnswered(c, lost)
  \/ Plugins \/ EditsGoOn

Spec == Init /\ [][Next]_vars

\* Intervals fire, requests are answered and promises resolve.
Fairness ==
  /\ WF_vars(CheckTick)
  /\ WF_vars(\E c \in checks : CheckAnswered(c, FALSE))
  /\ WF_vars(\E c \in checks : CheckReturns(c))
  /\ WF_vars(Plugins /\ ListTick)
  /\ \A toggle \in BOOLEAN :
       /\ WF_vars(Plugins /\ \E l \in lists : l.toggle = toggle /\ ListAnswered(l, FALSE))
       /\ WF_vars(Plugins /\ \E l \in lists : l.toggle = toggle /\ ListReturns(l))
  /\ WF_vars(EditsGoOn)

FairSpec == Spec /\ Fairness

-----------------------------------------------------------------------------
\* What the pages hold and what is in flight is well formed.
TypeOK ==
  /\ route \in Pages \union {"/login"}
  /\ \A state \in {page} \union {c.state : c \in checks} :
       state.curLens \in Lenses \union {NoLens}
  /\ failures \in 0..MaxFailures
  /\ pluginTable.rows \subseteq PluginNames /\ keys \subseteq Files
  /\ route # "/plugins" => lists = {} /\ \A e \in edits : ~e.mounted

\* A user without a session is told so on every page he stays on, whatever
\* checks are lost or overtake each other, unless one found a session before:
\* the page does not ask again then (EngagementView.tsx:136).
LoggedOutIsTold ==
  \A r \in Pages :
    (route = r /\ ~session /\ ~page.renderedOnce /\ \A c \in checks : c.answer # "True")
      ~> (~page.loggedIn \/ route # r)

\* However deletions, uploads and lists overtake each other, and whatever of them fails
\* halfway, the table shows the plugins that are deployed, again and again, as long as
\* their keys fit into one listing.
RowsFollowPlugins ==
  \A deployed \in SUBSET Files :
    Cardinality(deployed) <= MaxKeys =>
      (<>[](route = "/plugins" /\ session /\ keys = deployed)
         => []<>(pluginTable.rows = {Folder[k] : k \in deployed}))
=============================================================================
