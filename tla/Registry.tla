------------------------------ MODULE Registry ------------------------------
(* The registry: the tables of the SQLite file other than bg_jobs (internal/db),
   the passwords behind the servers (internal/vault) and the tmux sessions of the
   tunnels, as the handlers of the Web API and the commands of the CLI edit them.
   Every handler and every command is a lookup and then one or more calls; each
   call is one statement or one transaction, and between two of them any other
   process may run, or the process may be killed.

   SQLite enforces foreign keys per connection. The pragma that turns them on is
   in schema.sql, which only the process that creates the file executes.

   Of a row are kept its unique name (host and user of a server, whose vault key
   they are), what it references, and of a server the password column and the
   agent policy. Hops, cluster members and the gateway of a profile are children
   in tables of their own, kept in their order; a profile has one at most. *)
EXTENDS Integers, FiniteSets, Sequences, Functions, SequencesExt

CONSTANTS MaxKids,     \* bound: hops of a gateway, members of a cluster
          Names,       \* what a request may call a row
          Longer,      \* [Names -> SUBSET Names]: the names that start with a name
          Pwds,        \* the passwords people type
          Clients,     \* processes and requests that may run at once
          Worlds,      \* names of the settings below
          Uses,        \* [Worlds -> SUBSET Groups]: what is edited
          Start,       \* [Worlds -> databases]
          ForeignKeys, \* [Worlds -> SUBSET Clients]: those whose connection enforces them
          Chain,       \* [Worlds -> Chains]: what buildVault found
          Replacing,   \* the worlds whose keychain replaces an entry in two steps (macOS, Windows)
          Quota        \* bound: [Worlds -> [Clients -> Nat]], requests made

Tables == {"servers", "gateways", "clusters", "profiles", "tunnels", "app_servers",
           "aliases", "hosts", "notes"}
Parents == {"gateways", "clusters", "profiles"}               \* have children
Owned == {"tunnels", "app_servers", "aliases", "notes"}       \* die with their server
Backends == {"keychain", "age", "plaintext"}
Stores == Backends \ {"plaintext"}                            \* outside the database
\* What buildVault finds: a vault or two in front of the column, or nothing.
Fronts == {<<"keychain", "plaintext">>, <<"age", "plaintext">>, <<"keychain", "age", "plaintext">>}
Chains == Fronts \cup {<<"plaintext">>}
Groups == Tables \cup {"passwords", "web passwords", "policy", "sessions"}
None == "none"
Hidden == "_HIDDEN_"
Gone == "gone"

Row(n, r) == [name |-> n, ref |-> r, pwd |-> None, policy |-> None, active |-> FALSE]
NoMap == [n \in Names |-> None]

VARIABLES world,   \* the setting
          d,       \* the database: rows, children and the last number of each table
          store,   \* the stores of the vault
          running, \* the tunnels that have a tmux session
          client,  \* what each client is about to call
          left,    \* requests each may still make
          said     \* history: the password last given for a name; one given with a new
                   \* server counts from when the vault has it if the vault has another.
                   \* Gone if a keychain has dropped it for one it has not added

vars == <<world, d, store, running, client, left, said>>

EmptyDb == [rows |-> [t \in Tables |-> <<>>], kids |-> [t \in Parents |-> <<>>],
            next |-> [t \in Tables |-> 0]]

Call(op, t, id, row, kids) ==
  [op |-> op, table |-> t, id |-> id, row |-> row, kids |-> kids, pwd |-> None,
   then |-> "done", map |-> NoMap, wrote |-> FALSE]
Idle == Call("idle", "servers", 0, Row(None, 0), <<>>)
Given(c, w) == [c EXCEPT !.pwd = w]
Does(c, op) == [c EXCEPT !.op = op]
Then(c, then) == [c EXCEPT !.then = then]
On(c, id) == [c EXCEPT !.id = id]
Maps(c, map) == [c EXCEPT !.map = map]
Wrote(c) == [c EXCEPT !.wrote = TRUE]
Follows(c, op, then) == Then(Does(c, op), then)
Refused == Then(Idle, "refused")

ASSUME RegistryAssumption ==
  /\ MaxKids \in Nat
  /\ Longer \in [Names -> SUBSET Names]
  /\ {None, Hidden, Gone} \cap (Names \cup Pwds) = {} /\ Replacing \subseteq Worlds
  /\ \A w \in Worlds : /\ Uses[w] \subseteq Groups /\ ForeignKeys[w] \subseteq Clients
                       /\ Chain[w] \in Chains /\ Quota[w] \in [Clients -> Nat]

Live(db, t) == DOMAIN db.rows[t]
HoldsOf(t) == IF t = "profiles" THEN "gateways" ELSE "servers"
RefHolds(db, t, row) ==
  CASE t = "servers" -> row.ref \in Live(db, "gateways") \cup {0}
    [] t \in Owned -> row.ref \in Live(db, "servers")
    [] OTHER -> TRUE
KidsHold(db, t, kids) == ToSet(kids) \subseteq Live(db, HoldsOf(t))

\* A row that is looked up has a name, but for a note.
Rows == [name : Names \cup {None}, ref : Nat, pwd : Pwds \cup {None, Hidden},
         policy : {None, "own"}, active : BOOLEAN]
Wellformed(db) ==
  /\ db = [rows |-> [t \in Tables |-> db.rows[t]], kids |-> [t \in Parents |-> db.kids[t]],
           next |-> [t \in Tables |-> db.next[t]]]
  /\ \A t \in Tables :
       /\ db.next[t] \in Nat /\ Live(db, t) \subseteq 1..db.next[t]
       /\ db.rows[t] \in [Live(db, t) -> Rows]
       /\ t # "notes" => \A i \in Live(db, t) : db.rows[t][i].name \in Names
  /\ \A t \in Parents : db.kids[t] \in [DOMAIN db.kids[t] -> Seq(Nat)]
RefsIn(db) ==
  /\ \A t \in Tables : \A i \in Live(db, t) : RefHolds(db, t, db.rows[t][i])
  /\ \A t \in Parents : \A i \in DOMAIN db.kids[t] :
       (db.kids[t][i] # <<>> => i \in Live(db, t)) /\ KidsHold(db, t, db.kids[t][i])
Unique(db, t, n, id) ==
  t = "notes" \/ \A i \in Live(db, t) \ {id} : db.rows[t][i].name # n
NamesDiffer(db) == \A t \in Tables : \A i \in Live(db, t) : Unique(db, t, db.rows[t][i].name, i)
OneActive(db) == Cardinality({i \in Live(db, "profiles") : db.rows["profiles"][i].active}) <= 1

\* The file the processes find. References hold in one that no process has edited
\* without them.
ASSUME StartAssumption ==
  \A w \in Worlds : /\ Wellformed(Start[w]) /\ NamesDiffer(Start[w]) /\ OneActive(Start[w])
                    /\ ForeignKeys[w] = Clients => RefsIn(Start[w])

Init ==
  \E w \in Worlds :
    /\ world = w /\ d = Start[w] /\ left = Quota[w]
    /\ store = [b \in Stores |-> NoMap]
    /\ running = {}
    /\ client = [p \in Clients |-> Idle]
    /\ said = NoMap

----------------------------------------------------------------------------
\* SQL. A statement or a transaction gives the database after it, or is refused and
\* leaves it as it was. k says whether foreign keys are enforced.

Done(db) == [ok |-> TRUE, db |-> db]
Fails(db) == [ok |-> FALSE, db |-> db]

With(f, x, v) == [y \in DOMAIN f \cup {x} |-> IF y = x THEN v ELSE f[y]]

\* Primary keys are AUTOINCREMENT: a number is never given out again.
NewId(db, t) == db.next[t] + 1

Added(db, t, row) ==
  [rows |-> [db.rows EXCEPT ![t] = With(@, NewId(db, t), row)], kids |-> db.kids,
   next |-> [db.next EXCEPT ![t] = NewId(db, t)]]
WithKids(db, t, id, kids) == [db EXCEPT !.kids[t] = With(@, id, kids)]

Insert(k, db, t, row) ==
  IF Unique(db, t, row.name, 0) /\ (k => RefHolds(db, t, row))
  THEN Done(Added(db, t, row)) ELSE Fails(db)

InsertWith(k, db, t, row, kids) ==
  IF Unique(db, t, row.name, 0) /\ (k => KidsHold(db, t, kids))
  THEN Done(WithKids(Added(db, t, row), t, NewId(db, t), kids)) ELSE Fails(db)

\* UPDATE ... WHERE id = ?: no row is no error.
Save(k, db, t, id, row) ==
  IF id \notin Live(db, t) THEN Done(db)
  ELSE IF Unique(db, t, row.name, id) /\ (k => RefHolds(db, t, row))
  THEN Done([db EXCEPT !.rows[t][id] = row]) ELSE Fails(db)

\* The children of a row are deleted and inserted again, whether the row is there
\* or not.
SaveWith(k, db, t, id, row, kids) ==
  LET saved == Save(k, db, t, id, row) IN
  IF saved.ok /\ (k => KidsHold(db, t, kids) /\ (kids # <<>> => id \in Live(db, t)))
  THEN Done(WithKids(saved.db, t, id, kids)) ELSE Fails(db)

Without(f, S) == Restrict(f, DOMAIN f \ S)
Drop(kids, id) ==
  LET before[i \in 0..Len(kids)] ==
        IF i = 0 THEN <<>>
        ELSE IF kids[i] = id THEN before[i-1] ELSE Append(before[i-1], kids[i])
  IN before[Len(kids)]
DeleteAlone(db, t, id) == [db EXCEPT !.rows[t] = Without(@, {id})]

\* ON DELETE CASCADE and ON DELETE SET NULL.
RowsAfter(rows, u, t, id) ==
  CASE u = t -> Without(rows, {id})
    [] u \in Owned /\ t = "servers" -> Without(rows, {i \in DOMAIN rows : rows[i].ref = id})
    [] u = "servers" /\ t = "gateways" ->
         [i \in DOMAIN rows |-> IF rows[i].ref = id THEN [rows[i] EXCEPT !.ref = 0] ELSE rows[i]]
    [] OTHER -> rows
KidsAfter(kids, u, t, id) ==
  LET own == IF u = t THEN Without(kids, {id}) ELSE kids IN
  IF HoldsOf(u) = t THEN [i \in DOMAIN own |-> Drop(own[i], id)] ELSE own
Cascade(db, t, id) ==
  [rows |-> [u \in Tables |-> RowsAfter(db.rows[u], u, t, id)],
   kids |-> [u \in Parents |-> KidsAfter(db.kids[u], u, t, id)], next |-> db.next]

DeleteUnchecked(k, db, t, id) == Done(DeleteAlone(db, t, id))
Delete(k, db, t, id) == Done(IF k THEN Cascade(db, t, id) ELSE DeleteAlone(db, t, id))

----------------------------------------------------------------------------
\* Repositories

ServerCreate(k, c) == Insert(k, d, "servers", [c.row EXCEPT !.pwd = c.pwd])
\* Every column but the host, and the password only if there is a new one.
ServerUpdate(k, c) ==
  LET id == c.id IN
  IF id \notin Live(d, "servers") THEN Done(d)
  ELSE Save(k, d, "servers", id,
            [c.row EXCEPT !.pwd = IF c.pwd # None THEN c.pwd ELSE d.rows["servers"][id].pwd])
ServerDelete(k, c) == Delete(k, d, "servers", c.id)
ClearPassword(k, c) ==
  IF c.id \in Live(d, "servers") THEN Done([d EXCEPT !.rows["servers"][c.id].pwd = Hidden]) ELSE Done(d)

GatewayCreate(k, c) == InsertWith(k, d, "gateways", c.row, c.kids)
GatewayUpdate(k, c) == SaveWith(k, d, "gateways", c.id, c.row, c.kids)
GatewayDelete(k, c) == Delete(k, d, "gateways", c.id)

ClusterCreate(k, c) == InsertWith(k, d, "clusters", c.row, c.kids)
ClusterUpdate(k, c) == SaveWith(k, d, "clusters", c.id, c.row, c.kids)
ClusterDelete(k, c) == Delete(k, d, "clusters", c.id)

ProfileCreate(k, c) == InsertWith(k, d, "profiles", c.row, c.kids)
\* is_active is not among the columns that are set.
ProfileUpdate(k, c) ==
  SaveWith(k, d, "profiles", c.id,
           [c.row EXCEPT !.active = c.id \in Live(d, "profiles") /\ d.rows["profiles"][c.id].active],
           c.kids)
ProfileDelete(k, c) == Delete(k, d, "profiles", c.id)
Activated(id) ==
  [d EXCEPT !.rows["profiles"] = [i \in DOMAIN @ |-> [@[i] EXCEPT !.active = i = id]]]
SetActiveUnsafely(k, c) ==
  [ok |-> c.id = 0 \/ c.id \in Live(d, "profiles"), db |-> Activated(c.id)]
\* One transaction: an unknown profile rolls the deactivation back. 0 is none.
SetActive(k, c) ==
  IF c.id # 0 /\ c.id \notin Live(d, "profiles") THEN Fails(d) ELSE Done(Activated(c.id))

TunnelCreate(k, c) == Insert(k, d, "tunnels", c.row)
TunnelUpdate(k, c) == Save(k, d, "tunnels", c.id, c.row)
TunnelDelete(k, c) == Delete(k, d, "tunnels", c.id)
AppServerCreate(k, c) == Insert(k, d, "app_servers", c.row)
AppServerUpdate(k, c) == Save(k, d, "app_servers", c.id, c.row)
AppServerDelete(k, c) == Delete(k, d, "app_servers", c.id)
AliasCreate(k, c) == Insert(k, d, "aliases", c.row)
AliasDelete(k, c) == Delete(k, d, "aliases", c.id)
HostCreate(k, c) == Insert(k, d, "hosts", c.row)
\* The host name is not among the columns that are set.
HostUpdate(k, c) == Done(d)
HostDelete(k, c) == Delete(k, d, "hosts", c.id)
AgentMemoryAdd(k, c) == Insert(k, d, "notes", c.row)
AgentMemoryDelete(k, c) == Delete(k, d, "notes", c.id)

Do(k, c) ==
  CASE c.op = "create" ->
         (CASE c.table = "servers" -> ServerCreate(k, c)
            [] c.table = "gateways" -> GatewayCreate(k, c)
            [] c.table = "clusters" -> ClusterCreate(k, c)
            [] c.table = "profiles" -> ProfileCreate(k, c)
            [] c.table = "tunnels" -> TunnelCreate(k, c)
            [] c.table = "app_servers" -> AppServerCreate(k, c)
            [] c.table = "aliases" -> AliasCreate(k, c)
            [] c.table = "hosts" -> HostCreate(k, c)
            [] c.table = "notes" -> AgentMemoryAdd(k, c))
    [] c.op = "update" ->
         (CASE c.table = "servers" -> ServerUpdate(k, c)
            [] c.table = "gateways" -> GatewayUpdate(k, c)
            [] c.table = "clusters" -> ClusterUpdate(k, c)
            [] c.table = "profiles" -> ProfileUpdate(k, c)
            [] c.table = "tunnels" -> TunnelUpdate(k, c)
            [] c.table = "app_servers" -> AppServerUpdate(k, c)
            [] c.table = "hosts" -> HostUpdate(k, c))
    [] c.op = "delete" ->
         (CASE c.table = "servers" -> ServerDelete(k, c)
            [] c.table = "gateways" -> GatewayDelete(k, c)
            [] c.table = "clusters" -> ClusterDelete(k, c)
            [] c.table = "profiles" -> ProfileDelete(k, c)
            [] c.table = "tunnels" -> TunnelDelete(k, c)
            [] c.table = "app_servers" -> AppServerDelete(k, c)
            [] c.table = "aliases" -> AliasDelete(k, c)
            [] c.table = "hosts" -> HostDelete(k, c)
            [] c.table = "notes" -> AgentMemoryDelete(k, c))
    [] c.op = "mask" -> ClearPassword(k, c)
    [] c.op = "activate" -> SetActive(k, c)

\* Lookups: the rows with a number or a name, none or one of them.
GetByID(t, id) == {id} \cap Live(d, t)
GetByName(t, n) == {i \in Live(d, t) : d.rows[t][i].name = n}
\* Without a user any server of the host will do.
GetByHost(n) == IF n = None THEN Live(d, "servers") ELSE GetByName("servers", n)
GatewayByName(n) == GetByName("gateways", n)
ClusterByName(n) == GetByName("clusters", n)
ProfileByName(n) == GetByName("profiles", n)
TunnelByName(n) == GetByName("tunnels", n)
AppServerByName(n) == GetByName("app_servers", n)
AliasByName(n) == GetByName("aliases", n)
GetByHostname(n) == GetByName("hosts", n)

----------------------------------------------------------------------------
\* Requests: a lookup that ends in an answer or in a call.

Ready(p, g) == /\ client[p].op = "idle" /\ left[p] > 0 /\ g \in Uses[world]
               /\ left' = [left EXCEPT ![p] = @ - 1]
               /\ UNCHANGED <<world, d, store, running, said>>
Calls(p, c) == client' = [client EXCEPT ![p] = c]
Refuses(p) == client' = [client EXCEPT ![p] = Refused]

\* A row is looked up; without one the request is refused.
Found(p, S, Use(_)) == IF S = {} THEN Refuses(p) ELSE \E i \in S : Use(i)

KidLists(S) == UNION {[1..k -> S] : k \in 0..MaxKids}
\* Numbers a request may name: all that were given out, and one that was not.
Known(t) == 1..(d.next[t] + 1)
At(t, id) == d.rows[t][id]
Kids(t, id) == IF id \in DOMAIN d.kids[t] THEN d.kids[t][id] ELSE <<>>
Other(n, old) == IF n = None THEN old ELSE n
NewRef(r, old) == IF r = 0 THEN old ELSE r

Creates(t, row, kids) == Call("create", t, 0, row, kids)
Updates(t, id, row, kids) == Call("update", t, id, row, kids)
Deletes(t, id) == Call("delete", t, id, Row(None, 0), <<>>)

\* Web API ------------------------------------------------------------------

\* The password goes to the column only. The row is read again by its name.
createServer(p) ==
  /\ Ready(p, "servers")
  /\ \E n \in Names, r \in {0} \cup Known("gateways"),
        w \in (IF "web passwords" \in Uses[world] THEN Pwds ELSE {}) \cup {None} :
       Calls(p, Then(Given(Creates("servers", Row(n, r), <<>>), w), "read back"))

\* The row is built anew from the request: what it cannot carry (policy_yaml,
\* system_prompt) is empty. The user may change, and with it the vault key.
updateServer(p) ==
  /\ Ready(p, "servers")
  /\ \E id \in Known("servers") :
       Found(p, GetByID("servers", id), LAMBDA i :
         \E n \in Names, r \in {0, At("servers", i).ref} \cup Known("gateways"),
            w \in (IF "web passwords" \in Uses[world] THEN Pwds ELSE {}) \cup {None} :
           Calls(p, Given(Updates("servers", i, Row(n, r), <<>>), w)))
deleteServer(p) == Ready(p, "servers") /\ \E id \in Known("servers") : Calls(p, Deletes("servers", id))

createGateway(p) ==
  /\ Ready(p, "gateways")
  /\ \E n \in Names, ks \in KidLists(Known("servers")) : Calls(p, Creates("gateways", Row(n, 0), ks))
updateGateway(p) ==
  /\ Ready(p, "gateways")
  /\ \E id \in Known("gateways") :
       Found(p, GetByID("gateways", id), LAMBDA i :
         \E n \in Names, ks \in KidLists(Known("servers")) :
           Calls(p, Updates("gateways", i, Row(n, 0), ks)))
deleteGateway(p) == Ready(p, "gateways") /\ \E id \in Known("gateways") : Calls(p, Deletes("gateways", id))

createCluster(p) ==
  /\ Ready(p, "clusters")
  /\ \E n \in Names, ks \in KidLists(Known("servers")) : Calls(p, Creates("clusters", Row(n, 0), ks))
updateCluster(p) ==
  /\ Ready(p, "clusters")
  /\ \E id \in Known("clusters") :
       Found(p, GetByID("clusters", id), LAMBDA i :
         \E n \in Names, ks \in KidLists(Known("servers")) :
           Calls(p, Updates("clusters", i, Row(n, 0), ks)))
deleteCluster(p) == Ready(p, "clusters") /\ \E id \in Known("clusters") : Calls(p, Deletes("clusters", id))

createHost(p) == Ready(p, "hosts") /\ \E n \in Names : Calls(p, Creates("hosts", Row(n, 0), <<>>))
updateHost(p) ==
  /\ Ready(p, "hosts")
  /\ \E id \in Known("hosts") :
       Found(p, GetByID("hosts", id), LAMBDA i : Calls(p, Updates("hosts", i, At("hosts", i), <<>>)))
deleteHost(p) == Ready(p, "hosts") /\ \E id \in Known("hosts") : Calls(p, Deletes("hosts", id))

createTunnel(p) ==
  /\ Ready(p, "tunnels")
  /\ \E n \in Names, s \in {0} \cup Known("servers") : Calls(p, Creates("tunnels", Row(n, s), <<>>))
\* What the request does not carry stays as it was read.
updateTunnel(p) ==
  /\ Ready(p, "tunnels")
  /\ \E id \in Known("tunnels") :
       Found(p, GetByID("tunnels", id), LAMBDA i :
         \E n \in Names \cup {None}, s \in {0} \cup Known("servers") :
           Calls(p, Updates("tunnels", i,
             Row(Other(n, At("tunnels", i).name), NewRef(s, At("tunnels", i).ref)), <<>>)))
deleteTunnel(p) == Ready(p, "tunnels") /\ \E id \in Known("tunnels") : Calls(p, Deletes("tunnels", id))
startTunnel(p) ==
  /\ Ready(p, "sessions")
  /\ \E id \in Known("tunnels") :
       Found(p, GetByID("tunnels", id), LAMBDA i : Calls(p, Call("start", "tunnels", i, At("tunnels", i), <<>>)))
stopTunnel(p) ==
  /\ Ready(p, "sessions")
  /\ \E id \in Known("tunnels") :
       Found(p, GetByID("tunnels", id), LAMBDA i : Calls(p, Call("stop", "tunnels", i, At("tunnels", i), <<>>)))

Route(r) == IF r = 0 THEN <<>> ELSE <<r>>
createProfile(p) ==
  /\ Ready(p, "profiles")
  /\ \E n \in Names, r \in {0} \cup Known("gateways") :
       Calls(p, Creates("profiles", Row(n, 0), Route(r)))
\* A request without a gateway keeps the one that was read.
updateProfile(p) ==
  /\ Ready(p, "profiles")
  /\ \E id \in Known("profiles") :
       Found(p, GetByID("profiles", id), LAMBDA i :
         \E n \in Names \cup {None}, r \in {0} \cup Known("gateways") :
           Calls(p, Updates("profiles", i, Row(Other(n, At("profiles", i).name), 0),
                            IF r = 0 THEN Kids("profiles", i) ELSE Route(r))))
deleteProfile(p) == Ready(p, "profiles") /\ \E id \in Known("profiles") : Calls(p, Deletes("profiles", id))
activateProfile(p) ==
  Ready(p, "profiles") /\ \E id \in Known("profiles") : Calls(p, Call("activate", "profiles", id, Row(None, 0), <<>>))
deactivateProfile(p) == Ready(p, "profiles") /\ Calls(p, Call("activate", "profiles", 0, Row(None, 0), <<>>))

createAppServer(p) ==
  /\ Ready(p, "app_servers")
  /\ \E n \in Names, s \in Known("servers") : Calls(p, Creates("app_servers", Row(n, s), <<>>))
updateAppServer(p) ==
  /\ Ready(p, "app_servers")
  /\ \E id \in Known("app_servers") :
       Found(p, GetByID("app_servers", id), LAMBDA i :
         \E n \in Names \cup {None}, s \in {0} \cup Known("servers") :
           Calls(p, Updates("app_servers", i,
             Row(Other(n, At("app_servers", i).name), NewRef(s, At("app_servers", i).ref)), <<>>)))
deleteAppServer(p) ==
  Ready(p, "app_servers") /\ \E id \in Known("app_servers") : Calls(p, Deletes("app_servers", id))

\* Commands -----------------------------------------------------------------

GatewayAdd(p) ==
  /\ Ready(p, "gateways")
  /\ \E n \in Names :
       IF GetByHost(None) = {} THEN Refuses(p)
       ELSE \E ks \in KidLists(GetByHost(None)) \ {<<>>} : Calls(p, Creates("gateways", Row(n, 0), ks))
GatewayRemove(p) ==
  /\ Ready(p, "gateways")
  /\ \E n \in Names : Found(p, GatewayByName(n), LAMBDA i : Calls(p, Deletes("gateways", i)))

ClusterAdd(p) ==
  /\ Ready(p, "clusters")
  /\ \E n \in Names :
       IF GetByHost(None) = {} THEN Refuses(p)
       ELSE \E ks \in KidLists(GetByHost(None)) \ {<<>>} : Calls(p, Creates("clusters", Row(n, 0), ks))
\* With hosts, the members they name are taken out of the list that was read.
ClusterRemove(p) ==
  /\ Ready(p, "clusters")
  /\ \E n \in Names :
       Found(p, ClusterByName(n), LAMBDA i :
         \/ Calls(p, Deletes("clusters", i))
         \/ Found(p, GetByHost(None), LAMBDA s :
              IF s \in ToSet(Kids("clusters", i))
              THEN Calls(p, Updates("clusters", i, At("clusters", i), Drop(Kids("clusters", i), s)))
              ELSE Refuses(p)))

WithGateway(p, n, Use(_)) == IF n = None THEN Use(0) ELSE Found(p, GatewayByName(n), Use)
ProfileAdd(p) ==
  /\ Ready(p, "profiles")
  /\ \E n \in Names, g \in Names \cup {None} :
       WithGateway(p, g, LAMBDA r : Calls(p, Creates("profiles", Row(n, 0), Route(r))))
\* --gateway given or not; "none" detaches it.
ProfileEdit(p) ==
  /\ Ready(p, "profiles")
  /\ \E n \in Names, g \in Names \cup {None} :
       Found(p, ProfileByName(n), LAMBDA i :
         \/ Calls(p, Updates("profiles", i, At("profiles", i), Kids("profiles", i)))
         \/ WithGateway(p, g, LAMBDA r : Calls(p, Updates("profiles", i, At("profiles", i), Route(r)))))
ProfileRemove(p) ==
  /\ Ready(p, "profiles")
  /\ \E n \in Names : Found(p, ProfileByName(n), LAMBDA i : Calls(p, Deletes("profiles", i)))
ProfileUse(p) ==
  /\ Ready(p, "profiles")
  /\ \/ Calls(p, Call("activate", "profiles", 0, Row(None, 0), <<>>))
     \/ \E n \in Names :
          Found(p, ProfileByName(n), LAMBDA i : Calls(p, Call("activate", "profiles", i, Row(None, 0), <<>>)))

TunnelAdd(p) ==
  /\ Ready(p, "tunnels")
  /\ \E n \in Names :
       Found(p, GetByHost(None), LAMBDA s : Calls(p, Creates("tunnels", Row(n, s), <<>>)))
TunnelEdit(p) ==
  /\ Ready(p, "tunnels")
  /\ \E n \in Names :
       Found(p, TunnelByName(n), LAMBDA i :
         \/ Calls(p, Updates("tunnels", i, At("tunnels", i), <<>>))
         \/ Found(p, GetByHost(None), LAMBDA s :
              Calls(p, Updates("tunnels", i, [At("tunnels", i) EXCEPT !.ref = s], <<>>))))
\* A running tunnel is stopped first; if that fails the row goes all the same.
TunnelRm(p) ==
  /\ Ready(p, "tunnels")
  /\ \E n \in Names :
       Found(p, TunnelByName(n), LAMBDA i :
         Calls(p, Then(Call("stop", "tunnels", i, At("tunnels", i), <<>>), "delete")))
TunnelStart(p) ==
  /\ Ready(p, "sessions")
  /\ \E n \in Names :
       Found(p, TunnelByName(n), LAMBDA i : Calls(p, Call("start", "tunnels", i, At("tunnels", i), <<>>)))
TunnelStop(p) ==
  /\ Ready(p, "sessions")
  /\ \E n \in Names :
       Found(p, TunnelByName(n), LAMBDA i : Calls(p, Call("stop", "tunnels", i, At("tunnels", i), <<>>)))

AppServerAdd(p) ==
  /\ Ready(p, "app_servers")
  /\ \E n \in Names, h \in Names \cup {None} :
       Found(p, GetByHost(h), LAMBDA s : Calls(p, Creates("app_servers", Row(n, s), <<>>)))
AppServerRemove(p) ==
  /\ Ready(p, "app_servers")
  /\ \E n \in Names : Found(p, AppServerByName(n), LAMBDA i : Calls(p, Deletes("app_servers", i)))
HostsAdd(p) == Ready(p, "hosts") /\ \E n \in Names : Calls(p, Creates("hosts", Row(n, 0), <<>>))
HostsUpdate(p) ==
  /\ Ready(p, "hosts")
  /\ \E n \in Names :
       Found(p, GetByHostname(n), LAMBDA i : Calls(p, Updates("hosts", i, At("hosts", i), <<>>)))
HostsDelete(p) ==
  /\ Ready(p, "hosts")
  /\ \E n \in Names : Found(p, GetByHostname(n), LAMBDA i : Calls(p, Deletes("hosts", i)))
AliasAdd(p) ==
  /\ Ready(p, "aliases")
  /\ \E n \in Names, h \in Names \cup {None} :
       Found(p, GetByHost(h), LAMBDA s : Calls(p, Creates("aliases", Row(n, s), <<>>)))
AliasRemove(p) ==
  /\ Ready(p, "aliases")
  /\ \E n \in Names : Found(p, AliasByName(n), LAMBDA i : Calls(p, Deletes("aliases", i)))

MemoryAdd(p) ==
  /\ Ready(p, "notes")
  /\ \E id \in Known("servers") :
       Found(p, GetByID("servers", id), LAMBDA s : Calls(p, Creates("notes", Row(None, s), <<>>)))
\* The note is deleted by its own number, whichever server it belongs to.
MemoryDel(p) ==
  /\ Ready(p, "notes")
  /\ \E id \in Known("servers"), note \in Known("notes") :
       Found(p, GetByID("servers", id), LAMBDA s : Calls(p, Deletes("notes", note)))

\* The whole row that was read is written back with another policy or prompt.
SetsPolicy(p, to) ==
  /\ Ready(p, "policy")
  /\ \E id \in Known("servers") :
       Found(p, GetByID("servers", id), LAMBDA i :
         Calls(p, Updates("servers", i, [At("servers", i) EXCEPT !.policy = to], <<>>)))
ServerPolicySet(p) == SetsPolicy(p, "own")
ServerPolicyClear(p) == SetsPolicy(p, None)
\* The prompt is a column of its own that nothing else depends on.
SetsPrompt(p) ==
  /\ Ready(p, "policy")
  /\ \E id \in Known("servers") :
       Found(p, GetByID("servers", id), LAMBDA i :
         Calls(p, Updates("servers", i, At("servers", i), <<>>)))
ServerPromptSet(p) == SetsPrompt(p)
ServerPromptClear(p) == SetsPrompt(p)

\* Servers and passwords by command -------------------------------------------

Sets(id, row, w, then) == Then(Given(Call("set", "servers", id, row, <<>>), w), then)

ServerAdd(p) ==
  /\ Ready(p, "passwords")
  /\ \E n \in Names, g \in Names \cup {None}, w \in Pwds \cup {None} :
       WithGateway(p, g, LAMBDA r :
         Calls(p, Then(Given(Creates("servers", Row(n, r), <<>>), w), "set and mask")))
ServerRemove(p) ==
  /\ Ready(p, "passwords")
  /\ \E n \in Names :
       Found(p, GetByHost(n), LAMBDA i :
         Calls(p, Then(Call("forget", "servers", i, At("servers", i), <<>>), "delete")))
ServerPasswd(p) ==
  /\ Ready(p, "passwords")
  /\ \E n \in Names, w \in Pwds :
       Found(p, GetByHost(n), LAMBDA i :
         Calls(p, Sets(i, At("servers", i), w, "mask or update")))
VaultSetCmd(p) ==
  /\ Ready(p, "passwords")
  /\ \E n \in Names, w \in Pwds :
       Calls(p, Sets(0, Row(n, 0), w, "vault only"))
VaultDeleteCmd(p) ==
  /\ Ready(p, "passwords")
  /\ \E n \in Names : Calls(p, Call("forget", "servers", 0, Row(n, 0), <<>>))

----------------------------------------------------------------------------
\* The vault. The commands that work on the vault alone open no database, so
\* their chain has no plaintext backend.

BackendsOf(c) == IF c.id = 0 THEN Front(Chain[world]) ELSE Chain[world]
Column(n) == IF GetByName("servers", n) = {} THEN None
             ELSE LET pwd == At("servers", CHOOSE i \in GetByName("servers", n) : TRUE).pwd
                  IN IF pwd = Hidden THEN None ELSE pwd
Entry(b, n) == IF b = "plaintext" THEN Column(n) ELSE store[b][n]

\* The first backend that has a password for n.
ChainGet(chain, n) ==
  LET has == {j \in DOMAIN chain : Entry(chain[j], n) # None} IN
  IF has = {} THEN None ELSE Entry(chain[CHOOSE j \in has : \A l \in has : j <= l], n)
Effective(n) == ChainGet(Chain[world], n)

\* A password that is missing at connect time is asked for and kept.
PromptPassword(p) ==
  /\ Ready(p, "passwords")
  /\ \E n \in Names : Found(p, GetByHost(n), LAMBDA i :
       /\ Effective(At("servers", i).name) = None
       /\ \E w \in Pwds :
            Calls(p, Sets(i, At("servers", i), w, "mask")))

----------------------------------------------------------------------------
\* Calls

Busy(p, ops) == client[p].op \in ops
Says(n, w) == said' = IF n \in Names THEN [said EXCEPT ![n] = w] ELSE said

\* What follows a statement that succeeded. Routes and clusters are read again after
\* the commit, a new profile and the web's new server too.
ReadAgain(c) == \/ c.table \in {"gateways", "clusters"} /\ c.op \in {"create", "update"}
                \/ c.table = "profiles" /\ c.op = "create"
                \/ c.then = "read back"
ReadCall(c) == Wrote(Call("read", c.table, IF c.op = "create" THEN NewId(d, c.table) ELSE c.id,
                          Row(c.row.name, 0), <<>>))
Continues(c) ==
  IF c.then = "set and mask" /\ c.pwd # None
  THEN On(Wrote(Follows(c, "set", "mask")), NewId(d, "servers"))
  ELSE IF ReadAgain(c) THEN ReadCall(c) ELSE Idle

Statement(p) ==
  LET c == client[p]
      r == Do(p \in ForeignKeys[world], c) IN
  /\ Busy(p, {"create", "update", "delete", "mask", "activate"})
  /\ d' = r.db
  /\ client' = [client EXCEPT ![p] = IF r.ok THEN Continues(c) ELSE Refused]
  /\ IF r.ok /\ c.table = "servers" /\ (c.op = "create" => Effective(c.row.name) = None)
        /\ (c.op = "create" \/ (c.op = "update" /\ c.pwd # None))
     THEN Says(c.row.name, c.pwd)
     ELSE IF c.op = "delete" /\ c.table = "servers" /\ c.id \in Live(d, "servers")
     THEN Says(At("servers", c.id).name, None)
     ELSE UNCHANGED said
  /\ UNCHANGED <<world, store, running, left>>

\* The answer is the row that is read. The read may fail, and a profile or a server
\* that is not there is an error too; a route or a cluster is answered with nothing.
ReadsBack(p) ==
  LET c == client[p]
      there == IF c.table = "servers" THEN GetByName("servers", c.row.name)
               ELSE GetByID(c.table, c.id) IN
  /\ Busy(p, {"read"})
  /\ \/ (c.table \in {"profiles", "servers"} => there # {}) /\ Calls(p, Idle)
     \/ Refuses(p)
  /\ UNCHANGED <<world, d, store, running, left, said>>

\* After vlt.Set: add and the prompt mask the column on success, passwd falls back
\* to it on failure.
StoredAndMasked(c, ok) ==
  IF c.then = "vault only" THEN Idle ELSE Wrote(Follows(c, "mask", "done"))
StoredOr(c, ok) ==
  IF c.then = "vault only" THEN IF ok THEN Idle ELSE Refused
  ELSE IF ok THEN Wrote(Follows(c, "mask", "done"))
  ELSE IF c.then = "mask or update" THEN Follows(c, "update", "done") ELSE Idle

\* UPDATE servers SET password ... WHERE user and host.
WithColumn(n, w) ==
  [d EXCEPT !.rows["servers"] =
     [i \in DOMAIN @ |-> IF @[i].name = n THEN [@[i] EXCEPT !.pwd = w] ELSE @[i]]]
Saves(c, map) == Maps(Does(c, "save"), map)

\* The chain writes to its first backend only. The age file is loaded, changed and
\* saved whole; the keychain may be locked. One that replaces deletes what it has,
\* whatever comes of it, and then adds.
ChainSet(p) ==
  LET c == client[p]
      chain == BackendsOf(c)
      n == c.row.name
      First(b) == chain # <<>> /\ Head(chain) = b
      replaces == First("keychain") /\ world \in Replacing
      MayFail == \/ chain = <<>>
                 \/ First("keychain") /\ ~replaces
                 \/ First("plaintext") /\ GetByName("servers", n) = {} IN
  /\ Busy(p, {"set"})
  /\ \/ /\ MayFail
        /\ client' = [client EXCEPT ![p] = StoredOr(c, FALSE)]
        /\ UNCHANGED <<d, store, said>>
     \/ /\ First("keychain") /\ ~replaces
        /\ store' = [store EXCEPT !["keychain"][n] = c.pwd]
        /\ client' = [client EXCEPT ![p] = StoredOr(c, TRUE)]
        /\ Says(n, c.pwd) /\ UNCHANGED d
     \/ /\ replaces
        /\ client' = [client EXCEPT ![p] = Does(c, "add")]
        /\ UNCHANGED <<d, store, said>>
     \/ /\ replaces /\ store["keychain"][n] # None
        /\ store' = [store EXCEPT !["keychain"][n] = None]
        /\ client' = [client EXCEPT ![p] = Wrote(Does(c, "add"))]
        /\ IF said[n] = store["keychain"][n] THEN Says(n, Gone) ELSE UNCHANGED said
        /\ UNCHANGED d
     \/ /\ First("age")
        /\ client' = [client EXCEPT ![p] = Saves(c, [store["age"] EXCEPT ![n] = c.pwd])]
        /\ UNCHANGED <<d, store, said>>
     \/ /\ First("plaintext") /\ GetByName("servers", n) # {}
        /\ d' = WithColumn(n, c.pwd)
        /\ client' = [client EXCEPT ![p] = StoredOr(c, TRUE)]
        /\ Says(n, c.pwd) /\ UNCHANGED store
  /\ UNCHANGED <<world, running, left>>

KeychainAdd(p) ==
  LET c == client[p]
      n == c.row.name IN
  /\ Busy(p, {"add"})
  /\ \/ /\ client' = [client EXCEPT ![p] = StoredOr(c, FALSE)]
        /\ UNCHANGED <<store, said>>
     \/ /\ store' = [store EXCEPT !["keychain"][n] = c.pwd]
        /\ client' = [client EXCEPT ![p] = StoredOr(c, TRUE)]
        /\ Says(n, c.pwd)
  /\ UNCHANGED <<world, d, running, left>>

AfterForget(c) == IF c.then = "delete" THEN Given(Follows(c, "delete", "done"), None) ELSE Idle

\* The chain deletes from the first backend that says it could: the age file and the
\* column whether they hold it or not, a keychain what it holds if it is not locked.
\* One that replaces always says so. What the chain returns is ignored.
ChainDelete(p) ==
  LET c == client[p]
      n == c.row.name
      chain == BackendsOf(c)
      Able(locked) == {j \in DOMAIN chain : chain[j] = "keychain" =>
                         world \in Replacing \/ (~locked /\ store["keychain"][n] # None)}
      First(b, locked) == \E j \in Able(locked) : chain[j] = b /\ \A l \in Able(locked) : j <= l
      Firsts(b) == \E locked \in BOOLEAN : First(b, locked) IN
  /\ Busy(p, {"forget"})
  /\ \/ /\ (\E locked \in BOOLEAN : Able(locked) = {}) \/ First("keychain", TRUE)
        /\ client' = [client EXCEPT ![p] = AfterForget(c)]
        /\ UNCHANGED <<d, store, said>>
     \/ /\ First("keychain", FALSE)
        /\ store' = [store EXCEPT !["keychain"][n] = None]
        /\ client' = [client EXCEPT ![p] = AfterForget(c)]
        /\ Says(n, None) /\ UNCHANGED d
     \/ /\ Firsts("age")
        /\ client' = [client EXCEPT ![p] = Saves(c, [store["age"] EXCEPT ![n] = None])]
        /\ UNCHANGED <<d, store, said>>
     \/ /\ Firsts("plaintext")
        /\ d' = WithColumn(n, Hidden)
        /\ client' = [client EXCEPT ![p] = AfterForget(c)]
        /\ Says(n, None) /\ UNCHANGED store
  /\ UNCHANGED <<world, running, left>>

\* save encrypts the whole map to a temporary file and renames it.
AgeSave(p) ==
  LET c == client[p] IN
  /\ Busy(p, {"save"})
  /\ store' = [store EXCEPT !["age"] = c.map]
  /\ client' = [client EXCEPT ![p] =
       Maps(IF c.then \in {"delete", "done"} THEN AfterForget(c) ELSE StoredOr(c, TRUE), NoMap)]
  /\ Says(c.row.name, c.map[c.row.name])
  /\ UNCHANGED <<world, d, running, left>>

----------------------------------------------------------------------------
\* tmux sessions. A target names a session exactly, or is the start of the name of
\* exactly one.

Target(n) == IF n \in running THEN {n} ELSE running \cap Longer[n]
IsRunning(n) == Cardinality(Target(n)) = 1

TunnelStarts(p) ==
  LET c == client[p] IN
  /\ Busy(p, {"start"})
  /\ IF IsRunning(c.row.name)
     THEN Refuses(p) /\ UNCHANGED running
     ELSE running' = running \cup {c.row.name} /\ client' = [client EXCEPT ![p] = Idle]
  /\ UNCHANGED <<world, d, store, left, said>>
TunnelStops(p) ==
  LET c == client[p] IN
  /\ Busy(p, {"stop"})
  /\ running' = IF IsRunning(c.row.name) THEN running \ Target(c.row.name) ELSE running
  /\ client' = [client EXCEPT ![p] = IF c.then = "delete" THEN AfterForget(c)
                                     ELSE IF IsRunning(c.row.name) THEN Idle ELSE Refused]
  /\ UNCHANGED <<world, d, store, left, said>>
\* The process inside the session ends: no row, no server, no connection, a signal.
TunnelRunEnds(n) ==
  /\ running' = running \ {n} /\ running' # running
  /\ UNCHANGED <<world, d, store, client, left, said>>

\* The process is killed between two calls.
Dies(p) ==
  /\ client[p].op # "idle"
  /\ client' = [client EXCEPT ![p] = Idle]
  /\ UNCHANGED <<world, d, store, running, left, said>>

Web(p) ==
  \/ createServer(p) \/ updateServer(p) \/ deleteServer(p)
  \/ createGateway(p) \/ updateGateway(p) \/ deleteGateway(p)
  \/ createCluster(p) \/ updateCluster(p) \/ deleteCluster(p)
  \/ createHost(p) \/ updateHost(p) \/ deleteHost(p)
  \/ createTunnel(p) \/ updateTunnel(p) \/ deleteTunnel(p) \/ startTunnel(p) \/ stopTunnel(p)
  \/ createProfile(p) \/ updateProfile(p) \/ deleteProfile(p)
  \/ activateProfile(p) \/ deactivateProfile(p)
  \/ createAppServer(p) \/ updateAppServer(p) \/ deleteAppServer(p)
Cli(p) ==
  \/ GatewayAdd(p) \/ GatewayRemove(p) \/ ClusterAdd(p) \/ ClusterRemove(p)
  \/ ProfileAdd(p) \/ ProfileEdit(p) \/ ProfileRemove(p) \/ ProfileUse(p)
  \/ TunnelAdd(p) \/ TunnelEdit(p) \/ TunnelRm(p) \/ TunnelStart(p) \/ TunnelStop(p)
  \/ AppServerAdd(p) \/ AppServerRemove(p) \/ AliasAdd(p) \/ AliasRemove(p)
  \/ HostsAdd(p) \/ HostsUpdate(p) \/ HostsDelete(p) \/ MemoryAdd(p) \/ MemoryDel(p)
  \/ ServerPolicySet(p) \/ ServerPolicyClear(p) \/ ServerPromptSet(p) \/ ServerPromptClear(p)
  \/ ServerAdd(p) \/ ServerRemove(p) \/ ServerPasswd(p) \/ VaultSetCmd(p) \/ VaultDeleteCmd(p)
  \/ PromptPassword(p)
Step(p) == \/ Statement(p) \/ ReadsBack(p) \/ ChainSet(p) \/ KeychainAdd(p) \/ ChainDelete(p)
           \/ AgeSave(p) \/ TunnelStarts(p) \/ TunnelStops(p)

Next == \/ \E p \in Clients : Web(p) \/ Cli(p) \/ Step(p) \/ Dies(p)
        \/ \E n \in Names : TunnelRunEnds(n)
Spec == Init /\ [][Next]_vars

----------------------------------------------------------------------------
\* Properties

TypeOK ==
  /\ Wellformed(d)
  /\ store \in [Stores -> [Names -> Pwds \cup {None}]]
  /\ running \subseteq Names
  /\ \A p \in Clients : left[p] \in 0..Quota[world][p]

ReferencesHold == RefsIn(d)

\* As long as every process enforces foreign keys, whatever the processes do between
\* the lookup and the write of each other, no row, hop, member or profile gateway
\* references a row that is gone, and no two profiles are active.
TablesAgree ==
  /\ TypeOK
  /\ OneActive(d)
  /\ ForeignKeys[world] = Clients => ReferencesHold

\* A request that is refused has changed nothing, whichever of its statements it was
\* that failed, but for two: one refused because the row it has committed was not read
\* back, and one whose keychain had dropped the old password before it could not add
\* the new one (no other update follows a write).
Half(c) == c.op \in {"read", "add", "update"}
RefusedChangesNothing ==
  [][\A p \in Clients : client[p].op # "idle" /\ client'[p] = Refused
       => d' = d /\ store' = store /\ (client[p].wrote => Half(client[p]))]_vars

\* A reference left behind by a deletion never comes to mean another row: the number
\* of a deleted row is not given out again.
IdsAreNotReused ==
  [][\A t \in Tables : Live(d, t)' \cap (1..d.next[t]) \subseteq Live(d, t)]_vars

\* One person, the commands of the CLI, and a vault in front of the column: the
\* password last given for a server is the one a connection uses, at every moment
\* the command may be killed at. If the vault may refuse, it is at least still
\* stored. On macOS and Windows not from when the keychain drops it for another until
\* it has that one, if the command lives that long (PasswordsSurvive).
Alone == "passwords" \in Uses[world] /\ "servers" \notin Uses[world]
Kept(n) == \/ Effective(n) = said[n] \/ said[n] = Gone
           \/ Head(Chain[world]) = "keychain" /\ said[n] \in {Entry(Chain[world][j], n) : j \in DOMAIN Chain[world]}
PasswordKept ==
  Alone => \A i \in Live(d, "servers") :
    LET n == d.rows["servers"][i].name IN said[n] # None => Kept(n)

\* A password is never lost because another was to take its place: where the keychain
\* has dropped it, a command is still about to store the other one. Of the macOS and
\* Windows keychains it is refuted.
PasswordsSurvive ==
  Alone => \A i \in Live(d, "servers") :
    LET n == d.rows["servers"][i].name IN
    said[n] = Gone => \E p \in Clients : client[p].op # "idle" /\ client[p].row.name = n

\* What those words say of a run: one person, and a vault in front of the column.
OnePerson == \A p, q \in Clients : Quota[world][p] > 0 /\ Quota[world][q] > 0 => p = q
Guarded == Alone /\ OnePerson /\ Chain[world] \in Fronts

\* What a call of that person refers to still holds: nobody else has edited.
Stands(c) == c.id \in Live(d, "servers") /\ At("servers", c.id).name = c.row.name
FirstHas(n) == Entry(Head(Chain[world]), n)
Pending(c) ==
  /\ c.op = "update" /\ c.table = "servers" =>
       Stands(c) /\ (c.pwd # None => Head(Chain[world]) = "keychain")
  /\ c.op \in {"set", "add"} => c.pwd # None /\ (c.id = 0 <=> c.then = "vault only") /\ (c.id # 0 => Stands(c))
  /\ c.op = "add" => Head(Chain[world]) = "keychain"
  /\ c.op = "save" =>
       /\ c.map = [store["age"] EXCEPT ![c.row.name] = IF c.then \in {"delete", "done"} THEN None ELSE c.pwd]
       /\ c.then \notin {"delete", "done"} =>
            /\ Head(Chain[world]) = "age" /\ c.pwd # None
            /\ (c.id = 0 <=> c.then = "vault only") /\ (c.id # 0 => Stands(c))
  /\ c.op = "mask" => Stands(c) /\ said[c.row.name] # None /\ FirstHas(c.row.name) = said[c.row.name]
Undisturbed ==
  /\ said \in [Names -> Pwds \cup {None, Gone}]
  /\ \A p \in Clients : client[p].op # "idle" => Quota[world][p] > 0
  /\ \A i, j \in Live(d, "servers") : At("servers", i).name = At("servers", j).name => i = j
  /\ \A n \in Names : said[n] # None => Kept(n)
  /\ \A p \in Clients : Pending(client[p])
PasswordInv == Guarded => Undisturbed

\* What a client is about to call, in any state: a call that writes a table names a
\* row that table may hold, a new row is not active, and of the calls only those
\* that follow a statement that succeeded have written.
Ops == {"idle", "create", "update", "delete", "mask", "activate", "set", "forget", "save",
        "start", "stop", "read", "add"}
Thens == {"done", "refused", "set and mask", "read back", "delete", "mask or update", "vault only", "mask"}
Callable ==
  [op : Ops, table : Tables, id : Nat, row : Rows, kids : Seq(Nat), pwd : Pwds \cup {None},
   then : Thens, map : [Names -> Pwds \cup {None}], wrote : BOOLEAN]
CallOK(c) ==
  /\ c \in Callable
  /\ c.op \in {"create", "update", "set", "add", "forget", "save", "start", "stop"} /\ c.table # "notes"
     => c.row.name \in Names
  /\ c.op = "create" => ~c.row.active
  /\ c.op = "update" => c.table \notin {"aliases", "notes"}
  /\ c.op \in {"set", "add"} => c.then \in {"mask", "mask or update", "vault only"}
  /\ c.op = "forget" => c.then \in {"delete", "done"}
  /\ c.op \in {"set", "add", "forget", "save"} => c.table = "servers"
  /\ c.op \in {"start", "stop"} => c.table = "tunnels"
  /\ c.then \in {"set and mask", "read back"} => c.op = "create" /\ c.table = "servers"
  /\ c.op = "save" => c.then \in {"mask", "mask or update", "vault only", "delete", "done"}
  /\ c.op # "idle" => c.then # "refused"
  /\ c.wrote => \/ c.op \in {"set", "save"} /\ c.then = "mask"
                \/ c.op \in {"mask", "read", "add"}
                \/ c.op = "update" /\ c.table = "servers"

\* The invariant that the steps keep.
IInv ==
  /\ TablesAgree
  /\ world \in Worlds /\ left \in [Clients -> Nat]
  /\ client = [p \in Clients |-> client[p]] /\ \A p \in Clients : CallOK(client[p])
=============================================================================
