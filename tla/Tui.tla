-------------------------------- MODULE Tui --------------------------------
(* The terminal UI (internal/tui): one Model, changed by keys and by the results
   of commands. A command runs in a goroutine of its own: it changes a table,
   lists it again and sends the list back, while the user goes on typing. The
   results arrive in any order and move the Model to the screen they belong to,
   whatever screen it has moved to meanwhile.

   Lists are sequences of row numbers and cursors count from 0, as in the code;
   an index beyond its list is the panic that ends the program. Of a form only
   what decides its control flow is kept: the mode, whether its text differs
   from the one it was opened with, the tab stop, the overlay, what was picked,
   the items (hops of a gateway, members of a cluster) and the dialogue that
   asks before unsaved changes are dropped. *)
EXTENDS Integers, FiniteSets, Sequences, SequencesExt

CONSTANTS MaxId,       \* rows of a table are numbered 1..MaxId
          Stored,      \* [StartAt -> [Tables -> SUBSET Ids]]: the rows there are at the start
          StartAt,     \* the sections "alogin tui --start" may name
          Creator,     \* the starts of a process that has also created the database
          Scope,       \* bound: [StartAt -> SUBSET Tables], the sections used after
                       \* that start
          Edited,      \* bound: [StartAt -> SUBSET Forms], the forms opened after that start
          MaxItems,    \* bound: items of a gateway or a cluster form
          MaxCmds,     \* bound: [StartAt -> Nat], commands issued after that start
          MaxElsewhere \* bound: [StartAt -> Nat], rows that other processes delete

Ids == 1..MaxId
Tables == {"server", "gateway", "cluster", "hosts", "tunnel", "app-server", "profile", "plugin"}
Forms == Tables \ {"plugin"}
Lists == Tables \cup {"picker"}   \* the picker's list of plugin names

ASSUME TuiAssumption ==
  /\ MaxId \in Nat \ {0} /\ MaxItems \in Nat
  /\ StartAt \subseteq Forms \cup {"welcome"} /\ Creator \subseteq StartAt
  /\ \A s \in StartAt :
       /\ Stored[s] \in [Tables -> SUBSET Ids] /\ Scope[s] \subseteq Tables /\ Edited[s] \subseteq Forms
       /\ MaxCmds[s] \in Nat /\ MaxElsewhere[s] \in Nat

VARIABLES m,        \* the Model
          cmds,     \* commands in flight
          issued,   \* how many there have been
          table,    \* the rows of the database, and the plugin files
          elsewhere,\* rows deleted by other processes
          confirmed,\* history: the servers whose deletion was confirmed with y
          hasty     \* history: a command was issued, or a cursor moved down, while a command
                    \* was in flight

vars == <<m, cmds, issued, table, elsewhere, confirmed, hasty>>

----------------------------------------------------------------------------
\* Screens

At(kind, t) == [kind |-> kind, of |-> t]
Welcome == At("welcome", "server")
List(t) == At("list", t)
Form(t) == At("form", t)
Kinds == {"welcome", "list", "form", "detail", "confirm", "picker", "view"}

NoForm == [mode |-> "none", changed |-> FALSE, focus |-> 0,
           overlay |-> "none", over |-> 0, items |-> <<>>, items0 |-> <<>>, item |-> 0,
           pick |-> 0, pick0 |-> 0, srv |-> 0, srv0 |-> 0, key |-> FALSE, key0 |-> FALSE,
           search |-> FALSE, dialogue |-> "none"]

\* A table as ListAll returns it: in the order of its numbers.
Listed(S) == [i \in 1..Cardinality(S) |-> CHOOSE r \in S : Cardinality({x \in S : x < r}) = i - 1]

\* A result brings the lists it has read.
NoLists == [l \in {} |-> <<>>]
Reading == {"load", "stats", "gateways", "plugins"}
Command(op, t, row) == [n |-> issued + 1, op |-> op, table |-> t, row |-> row, valid |-> TRUE,
                        stage |-> IF op \in Reading THEN "list" ELSE "run", answer |-> NoLists]

Issue(c) ==
  /\ issued < MaxCmds[m.startAt]
  /\ cmds' = cmds \cup {c}
  /\ issued' = issued + 1
  /\ hasty' = (hasty \/ cmds # {})

\* A form that was left is only ever opened afresh: of its state the picked server
\* lives on. A key that the welcome screen hands to the list leaves that screen.
Tidy(n) == IF n.screen.kind = "form" THEN n ELSE [n EXCEPT !.form = [NoForm EXCEPT !.srv = n.form.srv]]
Landed(n) == Tidy(IF m.screen = Welcome /\ n.screen = Welcome THEN [n EXCEPT !.screen = List("server")] ELSE n)
Becomes(n) == m' = Landed(n) /\ UNCHANGED <<cmds, issued, hasty>>
BecomesAnd(n, c) == m' = Landed(n) /\ Issue(c)

Goes(screen) == Becomes([m EXCEPT !.screen = screen])
\* The end of the program: of a Model that was left on purpose nothing is kept.
Ends(how) ==
  /\ m' = IF how = "panic" THEN [m EXCEPT !.end = how]
          ELSE [m EXCEPT !.end = how, !.form = NoForm, !.cursor = [l \in Lists |-> 0], !.screen = Welcome]
  /\ cmds' = {}
  /\ UNCHANGED <<issued, hasty>>

Init ==
  \E s \in StartAt :
    LET t == IF s = "welcome" THEN "server" ELSE s IN
    /\ m = [startAt |-> s, screen |-> IF s = "welcome" THEN Welcome ELSE List(s),
            rows |-> [l \in Lists |-> IF l = "server" THEN Listed(Stored[s]["server"]) ELSE <<>>],
            filtered |-> Listed(Stored[s]["server"]),
            cursor |-> [l \in Lists |-> 0], query |-> "none",
            form |-> NoForm, doomed |-> 0, end |-> "no"]
    /\ cmds = {[n |-> 0, op |-> IF t = "server" THEN "stats" ELSE "load", valid |-> TRUE,
                table |-> t, row |-> 0, stage |-> "list", answer |-> NoLists]}
    /\ table = Stored[s]
  /\ issued = 0
  /\ elsewhere = {}
  /\ confirmed = {}
  /\ hasty = FALSE

----------------------------------------------------------------------------
\* Lists

Shown(l) == IF l = "server" THEN m.filtered ELSE m.rows[l]

\* Every change of the query goes back to the first row. What matches a word is
\* the choice of S.
applyFilterKeeps(n, S) ==
  [n EXCEPT !.filtered = IF n.query = "word" THEN Listed(S \cap ToSet(n.rows["server"]))
                         ELSE n.rows["server"]]
applyFilter(n, S) == [applyFilterKeeps(n, S) EXCEPT !.cursor["server"] = 0]

Up(l) == m.cursor[l] > 0 /\ Becomes([m EXCEPT !.cursor[l] = @ - 1])
Down(l) ==
  /\ m.cursor[l] < Len(Shown(l)) - 1
  /\ m' = Landed([m EXCEPT !.cursor[l] = @ + 1])
  /\ hasty' = (hasty \/ cmds # {})
  /\ UNCHANGED <<cmds, issued>>
Moves(l) == Up(l) \/ Down(l)

\* The row under the cursor is used by Use, or is not there.
WithSelected(l, Use(_)) ==
  /\ Shown(l) # <<>>
  /\ IF m.cursor[l] < Len(Shown(l)) THEN Use(Shown(l)[m.cursor[l] + 1]) ELSE Ends("panic")

Choose(l) == WithSelected(l, LAMBDA r : Ends("chosen"))

\* d on the lists that step back from the row they are about to delete.
DeletesInPlace(t) ==
  WithSelected(t, LAMBDA r : BecomesAnd(m, Command("delete", t, r)))
Deletes(t) ==
  WithSelected(t, LAMBDA r :
    BecomesAnd([m EXCEPT !.cursor[t] = IF @ >= Len(Shown(t)) - 1 /\ @ > 0 THEN @ - 1 ELSE @],
               Command("delete", t, r)))

----------------------------------------------------------------------------
\* Forms

\* A hop, or a member with or without a user of its own.
Item(srv) == [srv |-> srv, user |-> FALSE]

\* What is kept from form to form: the server picked as a gateway.
Blank(row) == [NoForm EXCEPT !.mode = IF row = 0 THEN "add" ELSE "edit", !.srv = m.form.srv, !.srv0 = m.form.srv]
Picks(t) == CASE t \in {"server", "profile"} -> {0, 1}
              [] t \in {"tunnel", "app-server"} -> {1}
              [] OTHER -> {0}
Parts(t) == IF t \in {"gateway", "cluster"} THEN {<<>>, <<Item(1)>>} ELSE {<<>>}
Filled(t, f, p, s) ==
  [f EXCEPT !.pick = p, !.pick0 = p, !.items = s, !.items0 = s,
            !.key = t = "server" /\ p = 1, !.key0 = t = "server" /\ p = 1]
Opened(t, row) ==
  IF row = 0 THEN {Blank(row)} ELSE {Filled(t, Blank(row), p, s) : p \in Picks(t), s \in Parts(t)}

Opens(t, f) == [m EXCEPT !.screen = Form(t), !.form = f]
InScope(t) == t \in Scope[m.startAt]
IsEdited(t) == t \in Edited[m.startAt]
initForm(t, row) == IsEdited(t) /\ \E f \in Opened(t, row) : Becomes(Opens(t, f))
initFormWithGateways(t, row) ==
  IsEdited(t) /\ \E f \in Opened(t, row) : BecomesAnd(Opens(t, f), Command("gateways", "gateway", 0))

initServerForm(row) == initFormWithGateways("server", row)
initProfileForm(row) == initFormWithGateways("profile", row)
initGatewayForm(row) == initForm("gateway", row)
initClusterForm(row) == initForm("cluster", row)
initTunnelForm(row) == initForm("tunnel", row)
initAppServerForm(row) == initForm("app-server", row)

\* The host name cannot be edited: its form starts on the address.
initHostForm(row) ==
  /\ IsEdited("hosts")
  /\ \E f \in Opened("hosts", row) : Becomes(Opens("hosts", [f EXCEPT !.focus = IF row = 0 THEN 0 ELSE 1]))

Dirty(f) ==
  \/ f.changed
  \/ f.items # f.items0
  \/ f.pick # f.pick0
  \/ f.srv # f.srv0
  \/ f.key # f.key0

Sets(f) == Becomes([m EXCEPT !.form = f])

\* A tunnel and an app-server binding need a server.
Submits(t) ==
  BecomesAnd([m EXCEPT !.form.dialogue = "none"],
    [Command(IF m.form.mode = "add" THEN "create" ELSE "update", t, 0)
       EXCEPT !.valid = t \in {"tunnel", "app-server"} => m.form.pick # 0])

\* The dialogue over a form with unsaved changes.
handleFormEscConfirm(t) ==
  LET f == m.form IN
  /\ f.dialogue # "none"
  /\ \/ Ends("quit")
     \/ Sets([f EXCEPT !.dialogue = "none"])
     \/ Sets([f EXCEPT !.dialogue = IF @ = "save" THEN "cancel" ELSE "save"])
     \/ f.dialogue = "save" /\ Submits(t)
     \/ f.dialogue = "cancel" /\ Becomes([m EXCEPT !.screen = List(t), !.form.dialogue = "none"])

\* Esc on a form that has no overlay open.
LeavesPicks(t) ==
  IF m.form.changed THEN Sets([m.form EXCEPT !.dialogue = "cancel"]) ELSE Goes(List(t))
Leaves(t) ==
  IF Dirty(m.form) THEN Sets([m.form EXCEPT !.dialogue = "cancel"]) ELSE Goes(List(t))

\* Typing into a text field, which may restore its old content.
Types == \E b \in BOOLEAN : Sets([m.form EXCEPT !.changed = b])

\* Tab and shift+tab over n stops; Forth and Back pass over the hidden ones.
Tabs(n, Forth(_), Back(_)) ==
  \/ Sets([m.form EXCEPT !.focus = Forth((@ + 1) % n)])
  \/ Sets([m.form EXCEPT !.focus = Back((@ - 1 + n) % n)])
NoSkip(i) == i
Advances(n) == Sets([m.form EXCEPT !.focus = (@ + 1) % n])

OpensOverlay(o, i) == Sets([m.form EXCEPT !.overlay = o, !.over = i, !.search = FALSE])
Closed(f) == [f EXCEPT !.overlay = "none", !.over = 0, !.search = FALSE]
Closes == Sets(Closed(m.form))

\* Keys of an overlay that lists n entries: moving, closing, and taking the one
\* under the cursor.
PicksFrom(entries, Taken(_)) ==
  LET f == m.form IN
  \/ f.over > 0 /\ Sets([f EXCEPT !.over = @ - 1])
  \/ f.over < Len(entries) - 1 /\ Sets([f EXCEPT !.over = @ + 1])
  \/ entries = <<>> /\ Closes
  \/ entries # <<>> /\ IF f.over < Len(entries)
                          THEN Sets(Closed(Taken(entries[f.over + 1])))
                          ELSE Ends("panic")

\* The gateway picker: "(none)", gateways, servers. A search either matches all
\* or only "(none)".
gwPickerEntries ==
  << <<0, 0>> >> \o
  IF m.form.search THEN <<>>
  ELSE [i \in 1..Len(m.rows["gateway"]) |-> <<m.rows["gateway"][i], 0>>] \o
       [i \in 1..Len(m.rows["server"]) |-> <<0, m.rows["server"][i]>>]

----------------------------------------------------------------------------
\* Keys on the server's screens

\* The rest of the keys of a screen that Update forwards: quitting, and the way
\* back.
Quits == Ends("quit")

ClearsQuery == Becomes(applyFilter([m EXCEPT !.query = "none"], {}))

\* Typing extends the query, or starts the palette with "/".
Searches ==
  \/ InScope("server") /\ \E S \in SUBSET Ids : Becomes(applyFilter([m EXCEPT !.query = "word"], S))
  \/ m.query = "none" /\ Becomes(applyFilter([m EXCEPT !.query = "slash"], {}))

executeCommand ==
  \/ Becomes([m EXCEPT !.query = "none", !.screen = List("server")])
  \/ \E t \in Scope[m.startAt] \ {"server"} : BecomesAnd([m EXCEPT !.query = "none"], Command("load", t, 0))

updateCommandPalette == m.query = "slash" /\ (Quits \/ ClearsQuery \/ executeCommand)

ConfirmDelete(r) == Becomes([m EXCEPT !.doomed = r, !.screen = At("confirm", "server")])

\* Letters are commands when nothing has been typed and part of a word otherwise.
updateList ==
  \/ updateCommandPalette
  \/ m.query = "none" /\ (Quits \/ Goes(Welcome))
  \/ /\ m.query = "none" /\ InScope("server")
     /\ \/ initServerForm(0)
        \/ WithSelected("server", initServerForm)
        \/ WithSelected("server", ConfirmDelete)
        \/ /\ m.filtered # <<>>
           /\ BecomesAnd([m EXCEPT !.cursor["picker"] = 0, !.screen = At("picker", "server")],
                         Command("plugins", "plugin", 0))
  \/ m.query = "word" /\ ClearsQuery
  \/ /\ m.query # "slash"
     /\ \/ Choose("server") \/ Moves("server") \/ Searches
        \/ m.filtered # <<>> /\ InScope("server") /\ Goes(At("detail", "server"))

\* Any key but the quitting ones and Enter is also taken by the list.
updateWelcome ==
  /\ m.screen = Welcome
  /\ Quits \/ Goes(List("server")) \/ updateList

updateDetail ==
  /\ m.screen = At("detail", "server")
  /\ \/ Quits \/ Goes(List("server")) \/ Choose("server")
     \/ WithSelected("server", initServerForm)
     \/ WithSelected("server", ConfirmDelete)

\* y leaves the dialogue open until the result arrives.
updateConfirmDelete ==
  /\ m.screen = At("confirm", "server")
  /\ \/ Quits /\ UNCHANGED confirmed
     \/ /\ BecomesAnd(m, Command("delete", "server", m.doomed))
        /\ confirmed' = confirmed \cup {m.doomed}
     \/ Goes(List("server")) /\ UNCHANGED confirmed

\* Enter needs a name and a server.
updatePluginPicker ==
  /\ m.screen = At("picker", "server")
  /\ \/ Quits \/ Goes(List("server")) \/ Moves("picker")
     \/ /\ m.rows["picker"] # <<>>
        /\ WithSelected("server", LAMBDA r : WithSelected("picker", LAMBDA name : Ends("chosen")))

updatePluginList ==
  /\ m.screen = List("plugin")
  /\ \/ Quits \/ Goes(List("server")) \/ Moves("plugin")
     \/ WithSelected("plugin", LAMBDA p : Becomes([m EXCEPT !.doomed = p, !.screen = At("view", "plugin")]))

\* e runs the editor, which may leave a file that no longer loads; then the files
\* are read again. An editor that fails answers with no plugin at all.
updatePluginDetail ==
  /\ m.screen = At("view", "plugin")
  /\ UNCHANGED <<elsewhere, confirmed>>
  /\ \/ (Quits \/ Goes(List("plugin"))) /\ UNCHANGED table
     \/ /\ m.doomed # 0
        /\ \E S \in {table["plugin"], table["plugin"] \ {m.doomed}}, failed \in BOOLEAN :
             /\ table' = [table EXCEPT !["plugin"] = S]
             /\ BecomesAnd(m, [Command("edit", "plugin", IF failed \/ m.doomed \notin S THEN 0 ELSE m.doomed)
                                 EXCEPT !.stage = "answer",
                                        !.answer = [l \in {"plugin"} |-> IF failed THEN <<>> ELSE Listed(S)]])

----------------------------------------------------------------------------
\* Forms with tab stops

\* The server form has twelve stops: 1 is the host, which cannot be edited, 5 the
\* gateway, 7 the authentication method, 8 the identity file, hidden unless that
\* is a key.
AuthStop == 7
KeyStop == 8
ForthServer(i) == IF m.form.mode = "edit" /\ i = 1 THEN 2
                  ELSE IF i = KeyStop /\ ~m.form.key THEN KeyStop + 1 ELSE i
BackServer(i) == IF m.form.mode = "edit" /\ i = 1 THEN 0
                 ELSE IF i = KeyStop /\ ~m.form.key THEN KeyStop - 1 ELSE i

AuthOverlay ==
  /\ m.form.overlay = "auth"
  /\ Quits \/ Closes \/ PicksFrom(<<FALSE, TRUE>>, LAMBDA k : [m.form EXCEPT !.key = k])

\* A search keeps the cursor within what it leaves.
GatewayOverlay ==
  /\ m.form.overlay = "gateway"
  /\ \/ Quits \/ Closes
     \/ PicksFrom(gwPickerEntries, LAMBDA e : [m.form EXCEPT !.pick = e[1], !.srv = e[2]])
     \/ \E b \in BOOLEAN :
          Sets([m.form EXCEPT !.search = b,
                              !.over = IF b THEN 0 ELSE IF @ >= Len(gwPickerEntries) THEN Len(gwPickerEntries) - 1 ELSE @])

updateServerForm ==
  /\ m.screen = Form("server")
  /\ \/ handleFormEscConfirm("server")
     \/ m.form.dialogue = "none" /\ (AuthOverlay \/ GatewayOverlay)
     \/ /\ m.form.dialogue = "none" /\ m.form.overlay = "none"
        /\ \/ Quits \/ Leaves("server")
           \/ m.form.focus = 5 /\ OpensOverlay("gateway", 0)
           \/ m.form.focus = AuthStop /\ OpensOverlay("auth", IF m.form.key THEN 1 ELSE 0)
           \/ m.form.focus \notin {5, AuthStop} /\ (Submits("server") \/ Types)
           \/ Tabs(12, ForthServer, BackServer)

\* The pickers of the other forms list the servers.
ServerOverlay ==
  /\ m.form.dialogue = "none" /\ m.form.overlay = "server"
  /\ Quits \/ Closes \/ PicksFrom(m.rows["server"], LAMBDA r : [m.form EXCEPT !.pick = r])

\* Editing a host passes over its name.
ForthHost(i) == IF m.form.mode = "edit" /\ i = 0 THEN 1 ELSE i
BackHost(i) == IF m.form.mode = "edit" /\ i = 0 THEN 2 ELSE i

updateHostForm ==
  /\ m.screen = Form("hosts")
  /\ \/ handleFormEscConfirm("hosts")
     \/ /\ m.form.dialogue = "none"
        /\ \/ Quits \/ Leaves("hosts") \/ Types \/ Submits("hosts")
           \/ m.form.focus # 2 /\ Advances(3)
           \/ Tabs(3, ForthHost, BackHost)

updateTunnelForm ==
  /\ m.screen = Form("tunnel")
  /\ \/ handleFormEscConfirm("tunnel") \/ ServerOverlay
     \/ /\ m.form.dialogue = "none" /\ m.form.overlay = "none"
        /\ \/ Quits \/ Leaves("tunnel") \/ Submits("tunnel")
           \/ m.form.focus = 1 /\ OpensOverlay("server", 0)
           \/ m.form.focus \notin {1, 6} /\ Advances(7)
           \/ m.form.focus # 1 /\ Types
           \/ Tabs(7, NoSkip, NoSkip)

updateAppServerForm ==
  /\ m.screen = Form("app-server")
  /\ \/ handleFormEscConfirm("app-server") \/ ServerOverlay
     \/ /\ m.form.dialogue = "none" /\ m.form.overlay = "none"
        /\ \/ Quits \/ Leaves("app-server") \/ Submits("app-server")
           \/ m.form.focus = 3 /\ OpensOverlay("server", 0)
           \/ m.form.focus # 3 /\ (Advances(4) \/ Types)
           \/ Tabs(4, NoSkip, NoSkip)

\* A server picked here as the gateway counts as none. A letter goes back to the
\* first entry.
updateProfileForm ==
  /\ m.screen = Form("profile")
  /\ \/ handleFormEscConfirm("profile")
     \/ /\ m.form.dialogue = "none" /\ m.form.overlay = "gateway"
        /\ \/ Quits \/ Closes \/ Sets([m.form EXCEPT !.over = 0])
           \/ PicksFrom(gwPickerEntries, LAMBDA e : [m.form EXCEPT !.pick = e[1]])
     \/ /\ m.form.dialogue = "none" /\ m.form.overlay = "none"
        /\ \/ Quits \/ Leaves("profile") \/ Submits("profile")
           \/ m.form.focus = 2 /\ OpensOverlay("gateway", 0)
           \/ m.form.focus # 2 /\ (Advances(3) \/ Types)
           \/ Tabs(3, NoSkip, NoSkip)

----------------------------------------------------------------------------
\* Forms of items: the hops of a gateway, the members of a cluster. Stop 0 is the
\* name, stop 1 the items.

AddsItem ==
  PicksFrom(m.rows["server"], LAMBDA r : [m.form EXCEPT !.items = Append(@, Item(r))])

\* x removes the item under the cursor, u and m move it up and down.
RemovesItemInPlace ==
  /\ m.form.items # <<>>
  /\ IF m.form.item < Len(m.form.items)
       THEN Sets([m.form EXCEPT !.items = RemoveAt(@, m.form.item + 1)])
       ELSE Ends("panic")
RemovesItem ==
  /\ m.form.items # <<>>
  /\ IF m.form.item < Len(m.form.items)
       THEN Sets([m.form EXCEPT !.items = RemoveAt(@, m.form.item + 1),
                                !.item = IF @ >= Len(m.form.items) - 1 /\ @ > 0 THEN @ - 1 ELSE @])
       ELSE Ends("panic")
Swaps(i, j) ==
  Sets([m.form EXCEPT !.items = [@ EXCEPT ![i + 1] = m.form.items[j + 1], ![j + 1] = m.form.items[i + 1]],
                      !.item = j])
ItemKeys ==
  LET i == m.form.item IN
  \/ i > 0 /\ Sets([m.form EXCEPT !.item = @ - 1])
  \/ i < Len(m.form.items) - 1 /\ Sets([m.form EXCEPT !.item = @ + 1])
  \/ Len(m.form.items) < MaxItems /\ OpensOverlay("server", 0)
  \/ RemovesItem
  \/ i > 0 /\ Swaps(i, i - 1)
  \/ i < Len(m.form.items) - 1 /\ Swaps(i, i + 1)

\* These come before the focus is looked at.
ItemFormKeys(t) ==
  \/ Quits \/ Submits(t)
  \/ m.form.overlay # "none" /\ Closes
  \/ m.form.overlay = "none" /\ Leaves(t)
  \/ Sets([m.form EXCEPT !.focus = 1 - @])

updateGatewayForm ==
  /\ m.screen = Form("gateway")
  /\ \/ handleFormEscConfirm("gateway")
     \/ /\ m.form.dialogue = "none"
        /\ \/ ItemFormKeys("gateway")
           \/ m.form.focus = 0 /\ Types
           \/ m.form.focus = 1 /\ m.form.overlay = "server" /\ AddsItem
           \/ m.form.focus = 1 /\ m.form.overlay = "none" /\ ItemKeys

\* r edits the user of the member under the cursor.
updateClusterForm ==
  /\ m.screen = Form("cluster")
  /\ \/ handleFormEscConfirm("cluster")
     \/ /\ m.form.dialogue = "none"
        /\ \/ ItemFormKeys("cluster")
           \/ m.form.focus = 0 /\ Types
           \/ m.form.focus = 1 /\ m.form.overlay = "server" /\ AddsItem
           \/ /\ m.form.focus = 1 /\ m.form.overlay = "user"
              /\ \E b \in BOOLEAN :
                   Sets([m.form EXCEPT !.overlay = "none",
                           !.items = IF m.form.item < Len(@) THEN [@ EXCEPT ![m.form.item + 1].user = b] ELSE @])
           \/ m.form.focus = 1 /\ m.form.overlay = "none" /\ ItemKeys
           \/ /\ m.form.focus = 1 /\ m.form.overlay = "none" /\ m.form.items # <<>>
              /\ IF m.form.item < Len(m.form.items) THEN OpensOverlay("user", 0) ELSE Ends("panic")

----------------------------------------------------------------------------
\* Keys on the other lists

ListOf(t, Opening(_)) ==
  \/ Quits \/ Moves(t) \/ Opening(0) \/ WithSelected(t, Opening)

updateGatewayList ==
  /\ m.screen = List("gateway")
  /\ ListOf("gateway", initGatewayForm) \/ Goes(Welcome) \/ Deletes("gateway")

updateClusterList ==
  /\ m.screen = List("cluster")
  /\ ListOf("cluster", initClusterForm) \/ Goes(Welcome) \/ Deletes("cluster") \/ Choose("cluster")

updateHostList ==
  /\ m.screen = List("hosts")
  /\ ListOf("hosts", initHostForm) \/ Goes(Welcome) \/ Deletes("hosts")

Starts == WithSelected("tunnel", LAMBDA r : BecomesAnd(m, Command("start", "tunnel", r)))
Stops == WithSelected("tunnel", LAMBDA r : BecomesAnd(m, Command("stop", "tunnel", r)))
updateTunnelList ==
  /\ m.screen = List("tunnel")
  /\ ListOf("tunnel", initTunnelForm) \/ Goes(Welcome) \/ Deletes("tunnel") \/ Starts \/ Stops

\* Enter connects through the binding under the cursor when its server, which is
\* the choice of r, is among those the list was loaded with.
Connects ==
  WithSelected("app-server", LAMBDA b :
    \E r \in Ids : IF r \in ToSet(m.rows["server"]) THEN Ends("chosen") ELSE Becomes(m))
updateAppServerList ==
  /\ m.screen = List("app-server")
  /\ ListOf("app-server", initAppServerForm) \/ Goes(Welcome) \/ Deletes("app-server") \/ Connects

\* Only here does the cursor stay on the row that is about to go.
updateProfileList ==
  /\ m.screen = List("profile")
  /\ \/ ListOf("profile", initProfileForm) \/ Goes(List("server"))
     \/ DeletesInPlace("profile")
     \/ WithSelected("profile", LAMBDA p : \E op \in {"activate", "deactivate"} :
                                             BecomesAnd(m, Command(op, "profile", p)))
     \/ BecomesAnd(m, Command("deactivate", "profile", 0))

----------------------------------------------------------------------------
\* Commands

Replaces(c, d) == cmds' = (cmds \ {c}) \cup {d} /\ UNCHANGED <<m, issued, elsewhere, confirmed, hasty>>

\* The first half of a command changes the database, or fails: the message that
\* says so changes nothing here.
Saves(c, t) ==
  \/ /\ c.op = "create" /\ c.table = t
     /\ \E r \in Ids \ table[t] : table' = [table EXCEPT ![t] = @ \cup {r}]
  \/ c.op = "update" /\ c.table = t /\ UNCHANGED table
Drops(c, t) == c.op = "delete" /\ c.table = t /\ table' = [table EXCEPT ![t] = @ \ {c.row}]
Affects(c, op) == c.op = op /\ UNCHANGED table

\* A server takes its tunnels and its app-server bindings with it where foreign keys
\* are on: they are in the process that created the file, and in no other. The server
\* of a tunnel is the choice of gone.
Dependent == {"tunnel", "app-server"}
Without(gone) == [t \in Tables |-> {r \in table[t] : <<t, r>> \notin gone}]
TakesAlong(r) == {x \in Dependent \X Ids : m.startAt \in Creator /\ r \in table["server"] /\ x[2] \in table[x[1]]}

submitServerForm(c) == Saves(c, "server")
submitGatewayForm(c) == Saves(c, "gateway")
submitClusterForm(c) == Saves(c, "cluster")
submitHostForm(c) == Saves(c, "hosts")
submitTunnelForm(c) == c.valid /\ Saves(c, "tunnel")
submitAppServerForm(c) == c.valid /\ Saves(c, "app-server")
submitProfileForm(c) == Saves(c, "profile")
deleteServerCmd(c) ==
  /\ c.op = "delete" /\ c.table = "server"
  /\ \E gone \in SUBSET TakesAlong(c.row) : table' = Without(gone \cup {<<"server", c.row>>})
deleteGatewayCmd(c) == Drops(c, "gateway")
deleteClusterCmd(c) == Drops(c, "cluster")
deleteHostCmd(c) == Drops(c, "hosts")
deleteTunnelCmd(c) == Drops(c, "tunnel")
deleteAppServerCmd(c) == Drops(c, "app-server")
deleteProfileCmd(c) == Drops(c, "profile")
tunnelStartCmd(c) == Affects(c, "start")
tunnelStopCmd(c) == Affects(c, "stop")
activateProfileCmd(c) == Affects(c, "activate")
deactivateProfileCmd(c) == Affects(c, "deactivate")

Runs(c) ==
  /\ c.stage = "run"
  /\ \/ submitServerForm(c) \/ submitGatewayForm(c) \/ submitClusterForm(c) \/ submitHostForm(c)
     \/ submitTunnelForm(c) \/ submitAppServerForm(c) \/ submitProfileForm(c)
     \/ deleteServerCmd(c) \/ deleteGatewayCmd(c) \/ deleteClusterCmd(c) \/ deleteHostCmd(c)
     \/ deleteTunnelCmd(c) \/ deleteAppServerCmd(c) \/ deleteProfileCmd(c)
     \/ tunnelStartCmd(c) \/ tunnelStopCmd(c) \/ activateProfileCmd(c) \/ deactivateProfileCmd(c)
  /\ Replaces(c, [c EXCEPT !.stage = "list"])
ReportsFailure(c) == c.op = "load" /\ c.table \in {"hosts", "tunnel", "app-server", "profile"}
Fails(c) ==
  /\ c.stage = "run" \/ (c.stage = "list" /\ ReportsFailure(c))
  /\ cmds' = cmds \ {c}
  /\ UNCHANGED <<m, issued, table, elsewhere, confirmed, hasty>>

\* The second half lists what is there by then. Most commands ignore that the
\* list could not be read and answer with an empty one.
Reads(c) ==
  CASE c.op = "stats" -> {"gateway", "cluster"}
    [] c.op = "plugins" -> {"picker"}
    [] OTHER -> {c.table}
ReadsBack(c) ==
  /\ c.stage = "list"
  /\ \E lost \in SUBSET Reads(c) :
       /\ lost # {} => lost \subseteq Scope[m.startAt] /\ ~ReportsFailure(c)
       /\ Replaces(c, [c EXCEPT !.stage = "answer",
                         !.answer = [l \in Reads(c) |->
                                      IF l \in lost THEN <<>>
                                      ELSE Listed(table[IF l = "picker" THEN "plugin" ELSE l])]])
  /\ UNCHANGED table

\* The answer replaces the lists it has read. Unless it is a silent one, it also
\* brings up the screen it belongs to. The servers are filtered by the query that
\* is cleared next.
Silent(c) == c.op \in {"stats", "gateways", "plugins"}
AnsweredUnread(c) == {[m EXCEPT !.screen = IF Silent(c) THEN @ ELSE List(c.table)]}
Answered(c) ==
  LET n == [m EXCEPT !.rows = [l \in Lists |-> IF l \in DOMAIN c.answer THEN c.answer[l] ELSE m.rows[l]]]
  IN CASE Silent(c) -> {n}
       [] c.op = "edit" -> {[n EXCEPT !.doomed = c.row, !.screen = At("view", "plugin")]}
       [] c.op = "load" /\ c.table = "plugin" -> {[n EXCEPT !.cursor["plugin"] = 0, !.screen = List("plugin")]}
       [] ~Silent(c) /\ c.table = "server" -> {[applyFilter(n, S) EXCEPT !.query = "none", !.screen = List("server")] :
                                                  S \in SUBSET Ids}
       [] ~Silent(c) /\ c.table \notin {"plugin", "server"} -> {[n EXCEPT !.screen = List(c.table)]}
Update(c) ==
  /\ c.stage = "answer"
  /\ \E n \in Answered(c) : m' = Tidy(n)
  /\ cmds' = cmds \ {c}
  /\ UNCHANGED <<issued, table, elsewhere, confirmed, hasty>>

----------------------------------------------------------------------------
\* Another process deletes a row.
Elsewhere(t, r) ==
  /\ Cardinality(elsewhere) < MaxElsewhere[m.startAt]
  /\ r \in table[t] /\ InScope(t)
  /\ table' = [table EXCEPT ![t] = @ \ {r}]
  /\ elsewhere' = elsewhere \cup {<<t, r>>}
  /\ UNCHANGED <<m, cmds, issued, confirmed, hasty>>

Key ==
  \/ updateWelcome \/ (m.screen = List("server") /\ updateList) \/ updateDetail
  \/ updatePluginPicker \/ updatePluginList \/ updateServerForm
  \/ updateGatewayList \/ updateGatewayForm \/ updateClusterList \/ updateClusterForm
  \/ updateHostList \/ updateHostForm \/ updateTunnelList \/ updateTunnelForm
  \/ updateAppServerList \/ updateAppServerForm \/ updateProfileList \/ updateProfileForm

Next ==
  /\ m.end = "no"
  /\ \/ Key /\ UNCHANGED <<table, elsewhere, confirmed>>
     \/ updateConfirmDelete /\ UNCHANGED <<table, elsewhere>>
     \/ updatePluginDetail
     \/ \E c \in cmds : Runs(c) \/ Fails(c) \/ ReadsBack(c) \/ Update(c)
     \/ \E t \in Tables, r \in Ids : Elsewhere(t, r)

Spec == Init /\ [][Next]_vars

----------------------------------------------------------------------------
\* Properties

Rows == SUBSET Ids
FormType(f) ==
  /\ f.mode \in {"none", "add", "edit"} /\ f.overlay \in {"none", "auth", "gateway", "server", "user"}
  /\ f.dialogue \in {"none", "cancel", "save"}
  /\ f.focus \in 0..11 /\ f.over \in 0..(2 * MaxId) /\ f.item \in 0..MaxItems
  /\ {f.pick, f.pick0, f.srv, f.srv0} \subseteq 0..MaxId
  /\ Len(f.items) <= MaxItems /\ ToSet(f.items) \subseteq [srv : Ids, user : BOOLEAN]
  /\ {f.changed, f.key, f.key0, f.search} \subseteq BOOLEAN

\* Everything has its type; cursors never run away from the largest list.
TypeOK ==
  /\ m.screen \in [kind : Kinds, of : Tables]
  /\ \A l \in Lists : ToSet(m.rows[l]) \subseteq Ids /\ m.cursor[l] \in 0..(MaxId - 1)
  /\ ToSet(m.filtered) \subseteq Ids
  /\ m.query \in {"none", "word", "slash"} /\ m.end \in {"no", "quit", "chosen", "panic"}
  /\ m.doomed \in 0..MaxId
  /\ FormType(m.form)
  /\ table \in [Tables -> Rows] /\ confirmed \subseteq Ids
  /\ \A c \in cmds : c.stage \in {"run", "list", "answer"} /\ c.table \in Tables /\ DOMAIN c.answer \subseteq Lists

\* The focus is never on a field that is not there to be edited: the name of a
\* stored server or host, or the identity file of a server that uses a password
\* (keys.go 757-793, 1172-1190).
FocusIsVisible ==
  m.screen.kind = "form" =>
    /\ m.screen.of = "server" /\ m.form.mode = "edit" => m.form.focus # 1
    /\ m.screen.of = "server" /\ ~m.form.key => m.form.focus # KeyStop
    /\ m.screen.of = "hosts" /\ m.form.mode = "edit" => m.form.focus # 0

\* The cursor of the server list, the one over the items of a form and the one of
\* a server picker stay within what they move over, whatever results arrive and
\* whatever is removed meanwhile (list.go 13-34, keys.go 917-946, 1078-1098).
IndicesInRange ==
  m.end = "no" =>
    /\ m.cursor["server"] = 0 \/ m.cursor["server"] < Len(m.filtered)
    /\ m.form.item = 0 \/ m.form.item < Len(m.form.items)
    /\ m.form.overlay = "server" => m.form.over = 0 \/ m.form.over < Len(m.rows["server"])

\* No server disappears that another process has not deleted and whose deletion
\* was not confirmed, even when results change the list behind the dialogue
\* (keys.go 807-818, model.go 617-625).
ServersDieConfirmed ==
  \A r \in Stored[m.startAt]["server"] \ table["server"] : r \in confirmed \/ <<"server", r>> \in elsewhere

\* Deleting rows leads to an index beyond a list only where nothing steps back from
\* them, as long as the user waits for each answer and no other process deletes: on the
\* profiles' list, on the plugins' when a file is broken, in the gateway picker, and,
\* after the deletion of a server, on the lists whose rows go with it. Every other
\* list steps back from a row it deletes (keys.go 842-848, 975-981, 1135-1141,
\* 1222-1228, 1441-1447).
Cascades == m.startAt \in Creator /\ confirmed # {}
ClampedListsHold ==
  m.end = "panic" =>
    \/ hasty \/ elsewhere # {}
    \/ m.screen \in {List("profile"), List("plugin")} \/ m.form.overlay = "gateway"
    \/ Cascades /\ m.screen \in {List(t) : t \in Dependent}

\* When nothing is in flight, the list on the screen is the table's, or is empty
\* because it could not be read: as long as commands do not overlap, what they
\* bring back is newer than what it replaces (model.go 540-1090).
QuietListsAreTrue ==
  cmds = {} /\ ~hasty /\ elsewhere = {} /\ m.screen.kind = "list" /\ m.end = "no" =>
    \/ m.rows[m.screen.of] \in {<<>>, Listed(table[m.screen.of])}

\* A form with unsaved changes is left only by answering the dialogue with Cancel,
\* by ending the program, or because a result brings up its own screen
\* (keys.go 129-150 and the Esc case of every form).
DirtyFormsStay ==
  [][ m.screen.kind = "form" /\ Dirty(m.form) /\ m'.screen # m.screen /\ m'.end = "no" =>
        \/ m.form.dialogue = "cancel"
        \/ \E c \in cmds \ cmds' : c.stage = "answer" /\ ~Silent(c) ]_vars

\* Refuted: no key makes the program index beyond a list (the hints under the lists:
\* e and d edit and delete the selected profile, or tunnel).
NoPanic == m.end # "panic"

----------------------------------------------------------------------------
\* Why they hold

Sequence(s) == Len(s) \in Nat /\ s = [i \in 1..Len(s) |-> s[i]]

\* The indices a form keeps, over servers servers.
FormHolds(f, servers) ==
  /\ DOMAIN f = DOMAIN NoForm
  /\ f.over \in Nat /\ f.item \in Nat /\ Sequence(f.items)
  /\ f.item = 0 \/ f.item < Len(f.items)
  /\ f.overlay = "server" => f.over = 0 \/ f.over < Len(servers)
  /\ f.overlay = "auth" => f.over < 2

\* A Model whose indices are in range.
ModelHolds(n) ==
  /\ DOMAIN n = {"startAt", "screen", "rows", "filtered", "cursor", "query", "form", "doomed", "end"}
  /\ n.startAt \in StartAt /\ n.screen \in [kind : Kinds, of : Tables]
  /\ DOMAIN n.rows = Lists /\ (\A l \in Lists : Sequence(n.rows[l]))
  /\ n.cursor \in [Lists -> Nat]
  /\ Sequence(n.filtered) /\ (n.cursor["server"] = 0 \/ n.cursor["server"] < Len(n.filtered))
Holds(n) == ModelHolds(n) /\ FormHolds(n.form, n.rows["server"])

\* What a command may be, and what it brings back.
CommandHolds(c) ==
  /\ DOMAIN c = {"n", "op", "table", "row", "valid", "stage", "answer"}
  /\ c.stage \in {"run", "list", "answer"} /\ c.table \in Tables
  /\ c.op = "gateways" => c.table = "gateway"
  /\ c.op \in {"plugins", "edit"} => c.table = "plugin"
  /\ c.table = "plugin" => c.op \in {"plugins", "edit", "load"}
  /\ c.op \in Reading => c.stage # "run"
  /\ c.stage = "answer" => DOMAIN c.answer = Reads(c) /\ (\A l \in Reads(c) : Sequence(c.answer[l]))

\* As long as commands do not overlap and nobody else deletes, ...
Calm == ~hasty /\ elsewhere = {}
TableOf(l) == IF l = "picker" THEN "plugin" ELSE l
True(l, rows) == rows \in {<<>>, Listed(table[TableOf(l)])}

\* ... a list differs from its table only while the command that changed the table
\* has not answered, or, where a server took rows along, while its screen is away, ...
Shrinks(t) == Cascades /\ t \in Dependent
Hidden(t) == Shrinks(t) /\ m.screen.of # t
Renewed(t) == \E c \in cmds : c.table = t /\ ~Silent(c) /\ c.stage # "run" /\ ~ReportsFailure(c)
ListsHold ==
  /\ \A c, d \in cmds : c = d
  /\ \A c \in cmds : c.stage = "answer" => \A l \in Reads(c) : True(l, c.answer[l])
  /\ \A t \in Tables : True(t, m.rows[t]) \/ Renewed(t) \/ Hidden(t)
  /\ \A c \in cmds : c.op = "delete" /\ c.table = "server" => confirmed # {} /\ m.screen.of \notin Dependent

\* ... and a cursor points into its list and into its table, where a row that is about
\* to be deleted does not count, unless a server took rows along.
Stepping == {"gateway", "cluster", "hosts", "tunnel", "app-server"}
Deleting(t) == \E c \in cmds : c.op = "delete" /\ c.table = t /\ c.stage = "run"
CursorsHold ==
  /\ \A l \in Stepping \cup {"picker"} :
       m.rows[l] = <<>> \/ m.cursor[l] = 0 \/ m.cursor[l] < Len(m.rows[l]) \/ Shrinks(l)
  /\ \A t \in Stepping :
       \/ m.cursor[t] = 0
       \/ m.cursor[t] < Cardinality(table[t]) - (IF Deleting(t) THEN 1 ELSE 0)
       \/ Shrinks(t)
  /\ (\E c \in cmds : c.op = "plugins") => m.cursor["picker"] = 0

\* Where the focus of a server's and of a host's form may be. Its authentication
\* method is chosen at its own stop.
FocusHolds(t, f) ==
  /\ t = "server" => /\ f.focus \in 0..11 /\ (f.mode = "edit" => f.focus # 1)
                     /\ ~f.key => f.focus # KeyStop
                     /\ f.overlay = "auth" => f.focus = AuthStop
  /\ t = "hosts" => f.focus \in 0..2 /\ (f.mode = "edit" => f.focus # 0)
FocusInv == m.screen.kind = "form" => FocusHolds(m.screen.of, m.form)

\* A command that deletes a server was confirmed.
DeathsHold ==
  /\ ServersDieConfirmed
  /\ \A c \in cmds : c.op = "delete" /\ c.table = "server" => c.row \in confirmed

\* The inductive invariant.
TuiInv ==
  /\ ClampedListsHold
  /\ table \in [Tables -> Rows]
  /\ m.end = "no" =>
       /\ Holds(m)
       /\ \A c \in cmds : CommandHolds(c)
       /\ Calm => ListsHold /\ CursorsHold
=============================================================================
