------------------------------ MODULE Console -------------------------------
(* The two pages of the web console that edit proxy actions,                *)
(* app/(dashboard)/tools/page.tsx and proxy-actions/page.tsx, over the      *)
(* session of ConsoleSession.  A page reads its lists when it opens and     *)
(* keeps them while the workspace is switched; every change is one request, *)
(* and the page puts what the gateway answers into its list.  Requests are  *)
(* answered in any order, and those of a page that was left are served all  *)
(* the same.                                                                *)
EXTENDS ConsoleSession

CONSTANTS
    Actions,     \* numbers of proxy actions, in the order lists have them
    HomeOf,      \* the workspace of each
    NameOf,      \* its actionName: integrations of one kind share names
    Worlds       \* what firebase and the gateway may have stored at first

Row == [on : BOOLEAN, text : 0..1, default : BOOLEAN]

ASSUME ActionsAssumption ==
    Actions \subseteq Nat /\ IsFiniteSet(Actions) /\ HomeOf \in [Actions -> Workspaces]
(* Only an organization of somebody with an account has workspaces.        *)
ASSUME WorldsAssumption == \A world \in Worlds :
    /\ world.accounts \subseteq Users
    /\ world.owner \in [Workspaces -> world.accounts \union {NoOne}]
    /\ world.rows \in [Actions -> Row \union {NoOne}] /\ world.registry \subseteq Actions

VARIABLES
    rows,        \* the definitions the gateway has
    registry,    \* the actions its tool registry has an entry of
    page,        \* the page that is shown: "none", "tools" or "actions"
    list,        \* proxyActions, or actions
    tools,       \* tools, those of type proxy
    loading,     \* loading
    editing,     \* editingProxyAction, and the tool that was clicked for it
    calls,       \* requests of the pages and their answers
    listed,      \* history: the workspace the list was read with
    unsure       \* history: rows of which two requests overlapped

storeVars == <<rows, registry>>
pageVars == <<page, list, tools, loading, editing, listed>>
consoleVars == <<rows, registry, page, list, tools, loading, editing, calls, listed, unsure>>
vars == <<sessionVars, consoleVars>>

Blank == [a \in Actions |-> NoOne]
Of(w, R) == [a \in Actions |-> IF HomeOf[a] = w THEN R[a] ELSE NoOne]
ToolsOf(w) == {a \in registry : HomeOf[a] = w}
Closed == [target |-> NoOne, clicked |-> NoOne]

(* One entry per workspace and name: an import upserts those of all        *)
(* enabled definitions, and of two with one name the later one stays.      *)
Synced(w, R) ==
    LET enabled == {a \in Actions : HomeOf[a] = w /\ R[a] # NoOne /\ R[a].on}
        named(S) == {NameOf[a] : a \in S}
    IN {(registry \ {a \in ToolsOf(w) : NameOf[a] \in named(enabled)}) \union S :
          S \in {T \in SUBSET enabled : /\ named(T) = named(enabled)
                                        /\ Cardinality(T) = Cardinality(named(T))}}

(* ------------------------------ requests ------------------------------- *)

(* The guard of the gateway knows the key.                                 *)
Known(k) == k \in Workspaces

Touching == {"load", "toggle", "save", "delete", "import"}
Busy(S) == \E c \in S : c.op \in Touching

Call(S, op, edit, text) ==
    [id |-> CHOOSE i \in 1..MaxAsks : \A c \in S : c.id # i,
     op |-> op, as |-> key, by |-> IF stored \subseteq {firebase} THEN firebase ELSE NoOne,
     target |-> edit.target, clicked |-> edit.clicked, text |-> text, at |-> "sent",
     seen |-> NoOne, list |-> NoOne, tools |-> NoOne, gone |-> FALSE,
     alone |-> op \notin Touching \/ ~Busy(S)]

Alone(S, op) == IF op \in Touching THEN {[c EXCEPT !.alone = FALSE] : c \in S} ELSE S

(* The request goes out with the key of this moment, beside those of S.    *)
Request(S, op, edit, text) ==
    /\ asked < MaxAsks
    /\ asked' = asked + 1
    /\ calls' = Alone(S, op) \union {Call(S, op, edit, text)}

SessionButAsked == <<accounts, firebase, key, user, workspace, workspaces,
                     initialized, organizations, owner, asks, stored>>

(* ------------------------------ the user ------------------------------- *)

(* What a page asked that still changes something, when it is left.        *)
Left ==
    {[c EXCEPT !.gone = TRUE] : c \in
        {d \in calls : d.op \in Touching \ {"load"} /\ d.at \in {"sent", "read"}}}
CloseAnd(p) ==
    /\ page' = p /\ list' = Blank /\ tools' = {} /\ editing' = Closed /\ listed' = NoOne
    /\ unsure' = Actions

(* The layout shows pages to a user only; the page reads its lists at once.*)
OpenPage(p) ==
    /\ user # NoOne /\ page # p
    /\ CloseAnd(p) /\ loading' = TRUE
    /\ Request(Left, "load", Closed, 0)
    /\ UNCHANGED <<SessionButAsked, storeVars>>

Refresh ==
    /\ page = "actions" /\ ~loading /\ loading' = TRUE
    /\ Request(calls, "load", Closed, 0)
    /\ UNCHANGED <<SessionButAsked, storeVars, page, list, tools, editing, listed, unsure>>

(* What a click means: on the tools page the first action of that name.    *)
Shown == {a \in Actions : list[a] # NoOne}
Clicks ==
    IF page = "actions" THEN {[target |-> a, clicked |-> a] : a \in Shown}
    ELSE {e \in [target : Shown, clicked : tools] :
            /\ NameOf[e.target] = NameOf[e.clicked]
            /\ \A a \in Shown : NameOf[a] = NameOf[e.clicked] => e.target <= a}

Toggle == \E e \in Clicks :
    /\ ~loading /\ editing = Closed
    /\ Request(calls, "toggle", e, 0)
    /\ UNCHANGED <<SessionButAsked, storeVars, pageVars, unsure>>

OpenEditor == \E e \in Clicks :
    /\ ~loading /\ editing = Closed /\ editing' = e
    /\ UNCHANGED <<sessionVars, storeVars, page, list, tools, loading, calls, listed, unsure>>

CloseEditor ==
    /\ editing # Closed /\ ~loading /\ editing' = Closed
    /\ UNCHANGED <<sessionVars, storeVars, page, list, tools, loading, calls, listed, unsure>>

(* A button waits for its request, but not that of an editor which was     *)
(* closed and opened again: Save may come at any time.                     *)
Save ==
    /\ editing # Closed /\ ~loading
    /\ Request(calls, "save", editing, 1)
    /\ UNCHANGED <<SessionButAsked, storeVars, pageVars, unsure>>

(* A default has no such button.                                           *)
Delete ==
    /\ editing # Closed /\ ~loading
    /\ list[editing.target] # NoOne => ~list[editing.target].default
    /\ Request(calls, "delete", editing, 0)
    /\ UNCHANGED <<SessionButAsked, storeVars, pageVars, unsure>>

(* A template or a file with the action a of the workspace of the key.     *)
Import == \E a \in Actions :
    /\ HomeOf[a] = key \/ ~Known(key)
    /\ page # "none" /\ ~loading /\ editing = Closed
    /\ Request(calls, "import", [target |-> a, clicked |-> a], 0)
    /\ UNCHANGED <<SessionButAsked, storeVars, pageVars, unsure>>

Sync ==
    /\ page = "tools" /\ ~loading /\ editing = Closed
    /\ ~\E c \in calls : c.op = "sync" /\ ~c.gone
    /\ Request(calls, "sync", Closed, 0)
    /\ UNCHANGED <<SessionButAsked, storeVars, pageVars, unsure>>

(* ----------------------------- the gateway ----------------------------- *)

Step(c, d) == calls' = (calls \ {c}) \union {d}

ReadRows(c) ==
    /\ c.op = "load" /\ c.at = "sent" /\ c.list = NoOne
    /\ IF Known(c.as) THEN Step(c, [c EXCEPT !.list = Of(c.as, rows)]) ELSE Step(c, [c EXCEPT !.at = "refused"])
    /\ UNCHANGED storeVars

ReadTools(c) ==
    /\ c.op = "tools" \/ (c.op = "load" /\ page = "tools")
    /\ c.at = "sent" /\ c.tools = NoOne
    /\ IF Known(c.as) THEN Step(c, [c EXCEPT !.tools = ToolsOf(c.as)]) ELSE Step(c, [c EXCEPT !.at = "refused"])
    /\ UNCHANGED storeVars

(* Mutant: the row is looked up by its id alone.                           *)
FoundById(c) == rows[c.target] # NoOne

(* findFirst by the id and the workspace of the key.                       *)
Found(c) == rows[c.target] # NoOne /\ HomeOf[c.target] = c.as

(* getById comes first, the change after it; a default is not deleted.     *)
GetById(c) ==
    /\ c.op \in {"toggle", "save", "delete"} /\ c.at = "sent"
    /\ IF Found(c) /\ ~(c.op = "delete" /\ rows[c.target].default)
       THEN Step(c, [c EXCEPT !.at = "read", !.seen = rows[c.target]])
       ELSE Step(c, [c EXCEPT !.at = "refused"])
    /\ UNCHANGED storeVars

Result(c) ==
    IF c.op = "toggle" THEN [rows[c.target] EXCEPT !.on = ~c.seen.on]
    ELSE IF c.op = "save" THEN [rows[c.target] EXCEPT !.text = c.text]
    ELSE NoOne

Change(c) ==
    /\ c.at = "read" /\ UNCHANGED registry
    /\ IF rows[c.target] = NoOne
       THEN Step(c, [c EXCEPT !.at = "refused"]) /\ UNCHANGED rows
       ELSE /\ rows' = [rows EXCEPT ![c.target] = Result(c)]
            /\ Step(c, [c EXCEPT !.at = "done", !.seen = Result(c)])

(* importTemplate and uploadTemplate skip what exists; only a template's   *)
(* actions are defaults.  Without a provider nothing is registered.        *)
DoImport(c) ==
    /\ c.op = "import" /\ c.at = "sent"
    /\ IF ~Known(c.as)
       THEN Step(c, [c EXCEPT !.at = "refused"]) /\ UNCHANGED storeVars
       ELSE /\ \E default \in BOOLEAN :
                  rows' = IF rows[c.target] # NoOne THEN rows
                          ELSE [rows EXCEPT ![c.target] = [on |-> TRUE, text |-> 0, default |-> default]]
            /\ registry' \in Synced(c.as, rows') \union {registry}
            /\ Step(c, [c EXCEPT !.at = "done"])

(* Provider tools are replaced, those of proxy actions stay.               *)
DoSync(c) ==
    /\ c.op = "sync" /\ c.at = "sent"
    /\ Step(c, [c EXCEPT !.at = IF Known(c.as) THEN "done" ELSE "refused"])
    /\ UNCHANGED storeVars

(* An error, or an answer that never comes, whether or not it was done.    *)
CallFails(c) ==
    /\ c.at \in {"sent", "read", "done"}
    /\ Step(c, [c EXCEPT !.at = "lost"])
    /\ UNCHANGED storeVars

Serve == \E c \in calls :
    /\ ReadRows(c) \/ ReadTools(c) \/ GetById(c) \/ Change(c) \/ DoImport(c) \/ DoSync(c) \/ CallFails(c)
    /\ UNCHANGED <<sessionVars, pageVars, unsure>>

(* ----------------------------- the answers ----------------------------- *)

Loaded(c) == c.op = "load" /\ c.at = "sent" /\ c.list # NoOne /\ (page = "tools" => c.tools # NoOne)
Failed(c) == c.at \in {"refused", "lost"}
Rest(c) == calls \ {c}

(* listTools does not look at the status: refused, it leaves the tools as  *)
(* they are beside a new list.                                             *)
ToolsRefused(c) == page = "tools" /\ c.list # NoOne /\ c.at = "lost"

HandleLoad(c) ==
    /\ c.op = "load" /\ loading' = FALSE /\ calls' = Rest(c)
    /\ \/ Failed(c) /\ UNCHANGED <<list, tools, listed, unsure>>
       \/ /\ \/ Loaded(c) /\ tools' = (IF page = "tools" THEN c.tools ELSE tools)
             \/ ToolsRefused(c) /\ UNCHANGED tools
          /\ list' = c.list /\ listed' = c.as
          /\ unsure' = IF c.alone THEN {} ELSE Actions
    /\ UNCHANGED <<SessionButAsked, asked, page, editing>>

HandleTools(c) ==
    /\ c.op = "tools" /\ calls' = Rest(c)
    /\ IF Failed(c) THEN UNCHANGED tools ELSE c.tools # NoOne /\ tools' = c.tools
    /\ UNCHANGED <<SessionButAsked, asked, page, list, loading, editing, listed, unsure>>

(* Mutant: a deleted row stays in the list.                                *)
PutUnlessDeleted(c) ==
    [list EXCEPT ![c.target] = IF c.seen = NoOne THEN @ ELSE c.seen]

(* The answered row replaces the one of its id, if the list has it.        *)
Put(c) == [list EXCEPT ![c.target] = IF @ = NoOne THEN NoOne ELSE c.seen]

(* After a save or a deletion the editor closes and the tools page reads   *)
(* the tools again.                                                        *)
HandleChange(c) ==
    /\ c.op \in {"toggle", "save", "delete"} /\ c.at = "done"
    /\ list' = Put(c)
    /\ unsure' = IF c.alone THEN unsure ELSE unsure \union {c.target}
    /\ editing' = IF c.op = "toggle" THEN editing ELSE Closed
    /\ IF c.op # "toggle" /\ page = "tools"
       THEN Request(Rest(c), "tools", Closed, 0)
       ELSE calls' = Rest(c) /\ UNCHANGED asked
    /\ UNCHANGED <<SessionButAsked, page, tools, loading, listed>>

HandleFailure(c) ==
    /\ \/ c.op \in {"toggle", "save", "delete", "import"} /\ Failed(c)
       \/ c.op = "sync" /\ c.at = "lost"
    /\ calls' = Rest(c)
    /\ unsure' = IF c.at = "lost" /\ c.op # "sync" THEN unsure \union {c.target} ELSE unsure
    /\ UNCHANGED <<SessionButAsked, asked, pageVars>>

HandleImport(c) ==
    /\ c.op = "import" /\ c.at = "done" /\ loading' = TRUE
    /\ Request(Rest(c), "load", Closed, 0)
    /\ unsure' = unsure \union {c.target}
    /\ UNCHANGED <<SessionButAsked, page, list, tools, editing, listed>>

(* syncTools does not look at the status.                                  *)
HandleSync(c) ==
    /\ c.op = "sync" /\ c.at \in {"done", "refused"}
    /\ Request(Rest(c), "tools", Closed, 0)
    /\ UNCHANGED <<SessionButAsked, pageVars, unsure>>

Dropped(c) ==
    /\ c.gone /\ (Failed(c) \/ c.at = "done") /\ calls' = Rest(c)
    /\ UNCHANGED <<SessionButAsked, asked, pageVars, unsure>>

Handle == \E c \in calls :
    /\ \/ ~c.gone /\ (HandleLoad(c) \/ HandleTools(c) \/ HandleChange(c) \/ HandleFailure(c)
                      \/ HandleImport(c) \/ HandleSync(c))
       \/ Dropped(c)
    /\ UNCHANGED storeVars

(* --------------------------- the composition --------------------------- *)

Leave ==
    /\ SignOut \/ Reload
    /\ CloseAnd("none") /\ loading' = FALSE /\ calls' = Left
    /\ UNCHANGED storeVars

Session ==
    /\ (\E u \in Users : SignIn(u) \/ SignUp(u)) \/ (\E w \in Workspaces : SwitchWorkspace(w))
       \/ CreateWorkspace \/ Answers
    /\ UNCHANGED consoleVars

Init == \E world \in Worlds :
    /\ SessionInit(world)
    /\ rows = world.rows /\ registry = world.registry
    /\ page = "none" /\ list = Blank /\ tools = {} /\ loading = FALSE /\ editing = Closed
    /\ calls = {} /\ listed = NoOne /\ unsure = Actions

Next ==
    \/ Session \/ Leave
    \/ (\E p \in {"tools", "actions"} : OpenPage(p)) \/ Refresh
    \/ Toggle \/ OpenEditor \/ CloseEditor \/ Save \/ Delete \/ Import \/ Sync
    \/ Serve \/ Handle

Spec == Init /\ [][Next]_vars

TypeOK ==
    /\ SessionTypeOK
    /\ rows \in [Actions -> Row \union {NoOne}] /\ registry \subseteq Actions
    /\ page \in {"none", "tools", "actions"} /\ loading \in BOOLEAN
    /\ list \in [Actions -> Row \union {NoOne}] /\ tools \subseteq Actions
    /\ editing \in [target : Actions, clicked : Actions] \union {Closed}
    /\ unsure \subseteq Actions

(* A change that is made is made in the workspace of the key it was sent   *)
(* with, to the action that was clicked; on the tools page perhaps to      *)
(* another one of the same name, the pages knowing tools by name only.     *)
ChangesHitTheRow == [][\A a \in Actions : rows'[a] # rows[a] =>
    \E c \in calls \ calls' :
        c.target = a /\ HomeOf[a] = c.as /\ NameOf[a] = NameOf[c.clicked]]_vars

(* A change is made in a workspace of the user who was signed in when the  *)
(* button was pressed, a page of the user before it cannot make one; the   *)
(* exception is a key that an answer for somebody else has just brought.   *)
ChangesAreOfTheUser == [][rows' # rows =>
    \E c \in calls \ calls' : c.by \in {NoOne, owner[c.as]}]_vars

(* While nothing is under way the page shows what is stored in the         *)
(* workspace it was read from, but for rows of which two requests          *)
(* overlapped, or one was lost, since the last undisturbed reading.        *)
RowsAreStored ==
    (listed # NoOne /\ ~Busy(calls)) =>
        \A a \in Actions \ unsure : list[a] = Of(listed, rows)[a]
=============================================================================
