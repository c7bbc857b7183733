------------------------------- MODULE Agent -------------------------------
(* Commands, scripts and files sent to servers in one go: the MCP tools other than
   remote_shell and the background jobs (internal/mcp), the policy that decides on
   them (internal/policy/policy.go), the commands of the CLI and the handler of the
   Web API that use the same executor, and the audit log with its tail.

   A call is a handler: a sequence of stages (look the servers up, write the audit
   event, ask the policy, run), each of them at least one step, with people editing
   servers and policies and opening trust windows in between. A call on a cluster
   runs one goroutine per member. Approvals are abstract here: the answer to a
   request is approved, denied or a timeout (Hitl.tla has the protocol).

   A command is a member of a small set, some of them destructive; a policy file is
   what its YAML says, or BadFile when it does not parse or compile. *)
EXTENDS Integers, FiniteSets, Sequences, SequencesExt, FiniteSetsExt, Functions

CONSTANTS Ids,          \* servers
          Cmds,         \* commands, and among them the
          Destructive,  \* ones that match a built-in pattern
          AgentIds,     \* what agents call themselves
          Day,          \* minutes in a day
          Calls,        \* calls that may be in progress
          Worlds,       \* names of the settings below
          Kinds,        \* [Worlds -> SUBSET Handlers]: what is called
          Asked,        \* [Worlds -> SUBSET Seq(Cmds)]: with which commands
          Globals,      \* [Worlds -> SUBSET Files]: agent-policy.yaml
          Locals,       \* [Worlds -> SUBSET Files]: policies of the servers
          Routers,      \* [Worlds -> SUBSET Ids]: network devices
          MaxEdits,     \* bound: [Worlds -> Nat], edits by people
          MaxEvents,    \* bound: [Worlds -> Nat], rows of the audit log
          NoFile, BadFile, \* no policy, and one that does not parse
          Tailed,       \* SUBSET Worlds: where somebody follows the audit log
          TailLimit     \* rows a poll of the tail asks for

None == "none"
Cluster == 9     \* the number of the cluster, not one of a server

VARIABLES world,
          global,   \* agent-policy.yaml
          servers,  \* [Ids -> [here, policy]]: the rows
          members,  \* the members of the cluster
          trust,    \* the scopes with an open trust window
          call,     \* the calls
          remote,   \* [Calls -> [Ids -> what the call has done to the server]]
          audit,    \* the audit log: of row i, the second it was written in
          clock,    \* the current second
          tail,     \* a running "agent audit tail"
          edits

vars == <<world, global, servers, members, trust, call, remote, audit, clock, tail, edits>>
registry == <<global, servers, members, trust, edits>>
log == <<audit, clock, tail>>

----------------------------------------------------------------------------
\* internal/policy/policy.go. A condition of a rule that is left out is empty.

InTimeWindow(w, now) ==
  IF w[1] <= w[2] THEN w[1] <= now /\ now < w[2] ELSE w[1] <= now \/ now < w[2]

MatchesRule(r, q, now) ==
  /\ r.commands = {} \/ ToSet(q.commands) \cap r.commands # {}
  /\ r.agents = {} \/ q.agent \in r.agents
  /\ r.servers = {} \/ q.server = 0 \/ q.server \in r.servers
  /\ r.clusters = {} \/ q.cluster = 0 \/ q.cluster \in r.clusters
  /\ r.window = <<>> \/ InTimeWindow(r.window, now)

IsDestructive(commands) == ToSet(commands) \cap Destructive # {}

LastMatch(f, q, now) ==
  LET hits == {i \in DOMAIN f.rules : MatchesRule(f.rules[i], q, now)} IN
  IF hits = {} THEN [named |-> FALSE, action |-> f.default]
  ELSE LET r == f.rules[Max(hits)] IN [named |-> r.named, action |-> r.action]

\* First match wins; no match is the default action.
Check(f, q, now) ==
  LET hits == {i \in DOMAIN f.rules : MatchesRule(f.rules[i], q, now)} IN
  IF hits = {} THEN [named |-> FALSE, action |-> f.default]
  ELSE LET r == f.rules[Min(hits)] IN [named |-> r.named, action |-> r.action]

\* Only a rule that has a name overrides the built-in floor.
EvalPolicy(f, q, now) ==
  LET found == IF f = NoFile THEN [named |-> FALSE, action |-> "allow"] ELSE Check(f, q, now) IN
  IF found.named \/ ~IsDestructive(q.commands) THEN found.action ELSE "require_approval"

\* The policy of a server replaces the global one.
ResolveFor(f, own) == IF own = NoFile THEN f ELSE own

Rank(action) == CASE action = "allow" -> 0 [] action = "require_approval" -> 1 [] action = "deny" -> 2

----------------------------------------------------------------------------
\* The handlers: the stages of each; whether a server that is not in the registry
\* ends the call at the lookup (needs), whether a network device does (posix),
\* whether it addresses a cluster (many), and how it uses the connection.

Handler(stages, how, traits) ==
  [stages |-> stages, how |-> how, traits |-> traits]

ExecCommand == Handler(<<"lookup", "audit", "policy", "run">>, "commands", {})
ExecOnCluster == Handler(<<"audit", "lookup", "policy", "run">>, "commands", {"many"})
InspectNode == Handler(<<"lookup", "audit", "run">>, "commands", {"posix"})
LogAnalyzer == Handler(<<"lookup", "audit", "run">>, "commands", {"posix"})
PushFile == Handler(<<"lookup", "audit", "run">>, "copy", {"needs"})
PullFile == Handler(<<"lookup", "audit", "run">>, "copy", {"needs"})
RunScript == Handler(<<"lookup", "audit", "run">>, "script", {"needs", "posix"})
RemoteReplace == Handler(<<"lookup", "audit", "run">>, "script", {"needs", "posix"})
ExecApp == Handler(<<"prepare", "audit", "run">>, "plugin", {})
PolicyDryRun == Handler(<<"lookup", "policy">>, "commands", {})
PolicyDryRunCmd == Handler(<<"policy">>, "commands", {})
CheckCLIPolicy == Handler(<<"lookup", "policy", "run">>, "commands", {"needs"})
RunScriptCmd == Handler(<<"lookup", "run">>, "script", {"needs"})
RunLocalCmd == Handler(<<"lookup", "run">>, "script", {"needs"})
ExecCluster == Handler(<<"run">>, "commands", {"many"})
RunClusterCmd == Handler(<<"run">>, "commands", {"many"})

Handlers ==
  [exec_command |-> ExecCommand, exec_on_cluster |-> ExecOnCluster,
   inspect_node |-> InspectNode, log_analyzer |-> LogAnalyzer, push_file |-> PushFile,
   pull_file |-> PullFile, run_script |-> RunScript, remote_replace |-> RemoteReplace,
   exec_app |-> ExecApp, policy_dry_run |-> PolicyDryRun,
   agent_dry_run |-> PolicyDryRunCmd, ssh_cmd |-> CheckCLIPolicy,
   ssh_run_script |-> RunScriptCmd, ssh_run_local |-> RunLocalCmd,
   web_cluster |-> ExecCluster, cluster_cmd |-> RunClusterCmd]

\* A policy file as its YAML is read, and what may be stored for a server.
Actions == {"allow", "deny", "require_approval"}
Rules == [named : BOOLEAN, action : Actions, commands : SUBSET Cmds, agents : SUBSET AgentIds,
          servers : SUBSET Ids, clusters : SUBSET {Cluster},
          window : (0..Day - 1) \X (0..Day - 1) \cup {<<>>}]
Files ==
  {NoFile, BadFile}
  \cup [default : Actions, rules : Seq(Rules), skip : BOOLEAN]  \* cli_cmd_policy: skip

ASSUME AgentAssumption ==
  /\ Ids \subseteq Nat \ {0, Cluster} /\ IsFiniteSet(Ids) /\ Destructive \subseteq Cmds
  /\ None \notin AgentIds /\ Day \in Nat \ {0} /\ TailLimit \in Nat \ {0}
  /\ \A w \in Worlds : /\ Kinds[w] \subseteq DOMAIN Handlers /\ Asked[w] \subseteq Seq(Cmds)
                       /\ Globals[w] \cup Locals[w] \subseteq Files
                       /\ MaxEdits[w] \in Nat /\ MaxEvents[w] \in Nat

NewCall(pc, kind, agent, commands, expect, keep, targets) ==
  [pc |-> pc, kind |-> kind, agent |-> agent, commands |-> commands, expect |-> expect,
   keep |-> keep, targets |-> targets, read |-> 0, seen |-> [s \in Ids |-> NoFile],
   found |-> {}, missed |-> {}, now |-> 0, verdict |-> None, by |-> None, end |-> None]
NoCall == NewCall(0, None, None, <<>>, FALSE, FALSE, <<>>)
Untouched == [step |-> "dial", results |-> <<>>, runs |-> 0, file |-> FALSE, job |-> "none"]

Init ==
  \E w \in Worlds :
    /\ world = w /\ global \in Globals[w]
    /\ servers \in [Ids -> [here : {TRUE}, policy : Locals[w]]]
    /\ members = Ids
    /\ trust = {}
    /\ call = [c \in Calls |-> NoCall]
    /\ remote = [c \in Calls |-> [s \in Ids |-> Untouched]]
    /\ audit = <<>> /\ clock = 0
    /\ tail = [on |-> FALSE, from |-> 0, seen |-> 0, shown |-> <<>>, burst |-> FALSE]
    /\ edits = 0

----------------------------------------------------------------------------
\* Where a call stands.

H(k) == Handlers[k.kind]
Many(k) == "many" \in H(k).traits
Running(k) == k.pc > 0 /\ k.end = None
At(k, stage) == Running(k) /\ k.pc <= Len(H(k).stages) /\ H(k).stages[k.pc] = stage
                /\ k.by # "asked"

Becomes(c, k) == call' = [call EXCEPT ![c] = k]
Advanced(k) == [k EXCEPT !.pc = @ + 1]
Ends(k, end) == [k EXCEPT !.end = end]
By(k, by) == [k EXCEPT !.by = by]
Reads(k) == [k EXCEPT !.read = @ + 1]
Finds(k, s) == [k EXCEPT !.found = @ \cup {s}]
Misses(k, s) == [k EXCEPT !.missed = @ \cup {s}]
Remembers(k, s, policy) == [k EXCEPT !.seen[s] = policy]
Judges(k, verdict) == [k EXCEPT !.verdict = verdict]
Clocks(k, now) == [k EXCEPT !.now = now]
Advance(c) == Becomes(c, Advanced(call[c]))
Refuse(c) == Becomes(c, Ends(call[c], "refused"))
Cli == {"ssh_cmd", "agent_dry_run"}
DryRuns == {"policy_dry_run", "agent_dry_run"}
Scripts == {"run_script", "remote_replace", "ssh_run_script", "ssh_run_local"}

InOrder(S) == {q \in [1..Cardinality(S) -> S] : \A i, j \in DOMAIN q : i < j => q[i] < q[j]}

\* What the arguments of a kind may be; a call on a cluster names no server, the one
\* of the Web API may name some of its members.
MayAsk(kind, agent, pty, keep, chosen, s) ==
  LET h == Handlers[kind] IN
  /\ pty => kind \in {"exec_command", "exec_on_cluster"}
  /\ keep => kind = "ssh_run_local"
  /\ agent # None => "policy" \in ToSet(h.stages) /\ kind # "ssh_cmd"
  /\ IF kind = "web_cluster" THEN s = Min(Ids)
     ELSE IF "many" \in h.traits THEN chosen = Ids /\ s = Min(Ids) ELSE chosen = {}
Addressed(kind, chosen, s) ==
  IF "many" \in Handlers[kind].traits THEN InOrder(members \cap chosen) ELSE {<<s>>}

\* Parsing the arguments; a call on a cluster reads its members.
Begin(c) ==
  /\ call[c].kind = None
  /\ \E kind \in Kinds[world], cmds \in Asked[world], pty \in BOOLEAN, keep \in BOOLEAN,
        agent \in AgentIds \cup {None}, chosen \in SUBSET Ids, s \in Ids :
       /\ MayAsk(kind, agent, pty, keep, chosen, s)
       /\ \E ts \in Addressed(kind, chosen, s) :
            Becomes(c, NewCall(1, kind, agent, cmds, pty, keep, ts))
  /\ UNCHANGED <<world, registry, remote, log>>

\* GetByID of the next target. What the call remembers of the row is its policy. A
\* read that fails is taken for a row that is gone, its error dropped.
Without(c, k) == IF "needs" \in H(k).traits THEN Refuse(c) ELSE Becomes(c, Reads(k))
LookUp(c) ==
  LET k == call[c]
      s == k.targets[k.read + 1] IN
  /\ At(k, "lookup")
  /\ IF k.read = Len(k.targets) THEN Advance(c)
     ELSE \/ /\ servers[s].here
             /\ IF "posix" \in H(k).traits /\ s \in Routers[world] THEN Refuse(c)
                ELSE Becomes(c, Reads(Finds(Remembers(k, s, servers[s].policy), s)))
          \/ ~servers[s].here /\ Without(c, k)
          \/ Without(c, Misses(k, s))
  /\ UNCHANGED <<world, registry, remote, log>>

\* One row of audit_log, written in the current second. It is best effort: the
\* insert may fail and the call goes on.
WriteAudit(c) ==
  /\ At(call[c], "audit")
  /\ \/ Len(audit) < MaxEvents[world] /\ audit' = Append(audit, clock)
     \/ UNCHANGED audit
  /\ Advance(c)
  /\ UNCHANGED <<world, registry, remote, clock, tail>>

----------------------------------------------------------------------------
\* The decision.

\* What an MCP server runs with when agent-policy.yaml does not parse, and what the
\* CLI does.
Loaded(k) == IF global = BadFile /\ k.kind \notin Cli THEN NoFile ELSE global
PolicyFor(k, s) == ResolveFor(Loaded(k), k.seen[s])
Request(k, s) ==
  [agent |-> k.agent, commands |-> k.commands, server |-> s,
   cluster |-> IF Many(k) THEN Cluster ELSE 0]

Verdicts(k, now) ==
  {EvalPolicy(PolicyFor(k, s), Request(k, s), now) : s \in ToSet(k.targets)}
\* deny > require_approval > allow; a cluster without members is allowed.
Strictest(actions) ==
  CHOOSE a \in actions \cup {"allow"} : \A b \in actions : Rank(a) >= Rank(b)

Scopes == {<<"global", 0>>, <<"cluster", Cluster>>} \cup {<<"agent", a>> : a \in AgentIds}
          \cup {<<"server", s>> : s \in Ids}
\* trustScopes: the windows that cover a request; one on a cluster names no server.
TrustScopes(k) ==
  {<<"global", 0>>} \cup {<<"agent", a>> : a \in {k.agent} \ {None}}
  \cup IF Many(k) THEN {<<"cluster", Cluster>>} ELSE {<<"server", s>> : s \in ToSet(k.targets)}

\* k is the call with its verdict.
ApplyPolicyResult(c, k) ==
  Becomes(c, IF k.verdict = "deny" THEN Ends(k, "refused")
             ELSE IF k.verdict = "allow" THEN Advanced(By(k, "policy"))
             ELSE IF k.kind # "ssh_cmd" /\ TrustScopes(k) \cap trust # {} THEN Advanced(By(k, "trust"))
             ELSE By(k, "asked"))

Skips(k) == k.kind = "ssh_cmd" /\ global # NoFile /\ global.skip

Decide(c) ==
  LET k == call[c] IN
  /\ At(k, "policy")
  /\ IF Loaded(k) = BadFile THEN Refuse(c)
     ELSE IF Skips(k) THEN Becomes(c, Advanced(By(k, "skip")))
     ELSE IF \E s \in ToSet(k.targets) : k.seen[s] = BadFile THEN Refuse(c)
     ELSE \E now \in 0..Day - 1 :
            LET judged == Judges(Clocks(k, now), Strictest(Verdicts(k, now))) IN
            IF k.kind \in DryRuns THEN Becomes(c, Ends(judged, "told"))
            ELSE ApplyPolicyResult(c, judged)
  /\ UNCHANGED <<world, registry, remote, log>>

\* RequestApproval returns.
Answer(c) ==
  /\ Running(call[c]) /\ call[c].by = "asked"
  /\ \/ Becomes(c, Advanced(By(call[c], "person")))
     \/ Refuse(c)                                        \* denied, timed out, failed
  /\ UNCHANGED <<world, registry, remote, log>>

----------------------------------------------------------------------------
\* Running. Each target of a call is a thread of its own: execOnServer, or the
\* handler itself when it has one target.

At1(c, s, step) == At(call[c], "run") /\ s \in ToSet(call[c].targets) /\ remote[c][s].step = step
Leaves(c, s, r) == remote' = [remote EXCEPT ![c][s] = r]
To(r, step) == [r EXCEPT !.step = step]
Ran(r, n) == [r EXCEPT !.runs = @ + n]
Answers(r, result) == [r EXCEPT !.results = Append(@, result)]
FileIs(r, there) == [r EXCEPT !.file = there]
Job(r, job) == [r EXCEPT !.job = job]
Go(c, s, step) == Leaves(c, s, To(remote[c][s], step))
Ended(c, s) == remote[c][s].step \in {"ok", "failed"}
Local == <<world, registry, call, log>>

\* execOnServer reads the row again; the hops are built and dialled.
Rereads(k) == H(k).how = "commands" /\ k.kind # "ssh_cmd"
DialKnown(c, s) ==
  /\ At1(c, s, "dial")
  /\ Go(c, s, "open") \/ Go(c, s, "failed")
  /\ UNCHANGED Local
Dial(c, s) ==
  /\ At1(c, s, "dial")
  /\ \/ (Rereads(call[c]) => servers[s].here) /\ Go(c, s, "open")
     \/ Go(c, s, "failed")
  /\ UNCHANGED Local

\* exec_app dials and probes the server for its runtime before the audit event.
Prepare(c) ==
  LET s == call[c].targets[1] IN
  /\ At(call[c], "prepare")
  /\ \/ /\ servers[s].here /\ Advance(c)
        /\ Leaves(c, s, Ran(To(remote[c][s], "open"), 1))
     \/ /\ Refuse(c)
        /\ UNCHANGED remote \/ (servers[s].here /\ Leaves(c, s, Ran(remote[c][s], 1)))
  /\ UNCHANGED <<world, registry, log>>

\* Launch without extra arguments is the interactive one, which mcpRunner refuses.
Launch(c, s) ==
  /\ At1(c, s, "open") /\ H(call[c]).how = "plugin" /\ Go(c, s, "failed")
  /\ UNCHANGED Local

NextResults(lost) == IF lost THEN {"refused"} ELSE {"zero", "nonzero", "timeout", "lost", "refused"}
Begun(x) == IF x = "refused" THEN 0 ELSE 1
RunNextUnlessLost(c, s) ==
  /\ At1(c, s, "open") /\ H(call[c]).how = "commands" /\ ~call[c].expect
  /\ LET done == remote[c][s].results IN
     IF Len(done) = Len(call[c].commands) \/ "lost" \in ToSet(done) THEN Go(c, s, "ok")
     ELSE \E x \in NextResults("lost" \in ToSet(done)) :
            Leaves(c, s, Ran(Answers(remote[c][s], x), Begun(x)))
  /\ UNCHANGED Local

\* runBatch, runOneCommand: a session for each command, one after the other, each
\* with a result, also when its session is refused; on a lost connection the rest of
\* them have none to run in.
RunNext(c, s) ==
  /\ At1(c, s, "open") /\ H(call[c]).how = "commands" /\ ~call[c].expect
  /\ LET done == remote[c][s].results IN
     IF Len(done) = Len(call[c].commands) THEN Go(c, s, "ok")
     ELSE \E x \in NextResults("lost" \in ToSet(done)) :
            Leaves(c, s, Ran(Answers(remote[c][s], x), Begun(x)))
  /\ UNCHANGED Local

\* runPTY: one session, the commands joined by &&, one result without exit status.
RunPTY(c, s) ==
  /\ At1(c, s, "open") /\ H(call[c]).how = "commands" /\ call[c].expect
  /\ \/ Go(c, s, "failed")
     \/ \E n \in 1..Len(call[c].commands) :
          Leaves(c, s, To(Ran(Answers(remote[c][s], "pty"), n), "ok"))
  /\ UNCHANGED Local

\* SFTP: the file or some of it arrives.
Copy(c, s) ==
  /\ At1(c, s, "open") /\ H(call[c]).how = "copy"
  /\ Go(c, s, "ok") \/ Go(c, s, "failed")
  /\ UNCHANGED Local

\* UploadContent creates the file, writes it, and makes it executable.
Upload(c, s) ==
  /\ At1(c, s, "open") /\ H(call[c]).how = "script"
  /\ \E r \in {"uploaded", "failed"}, file \in BOOLEAN :
       /\ r = "uploaded" => file
       /\ Leaves(c, s, To(FileIs(remote[c][s], file), r))
  /\ UNCHANGED Local

\* NewManagedSession and the line of the script, which removes the file itself:
\* "interpreter file; _rc=$?; rm -f file; (exit $_rc)". A write that fails may have
\* reached the shell.
SendLine(c, s) ==
  /\ At1(c, s, "uploaded")
  /\ \/ Leaves(c, s, To(Job(remote[c][s], "running"), "sent"))
     \/ Leaves(c, s, To(Job(remote[c][s], "running"), "failed"))
     \/ Go(c, s, "failed")
  /\ UNCHANGED Local

RunAndRemoveIfZero(c, s) ==
  /\ remote[c][s].job = "running"
  /\ \E job \in {"ran", "done"} :
       Leaves(c, s, Ran(Job(remote[c][s], IF call[c].keep THEN "done" ELSE job), 1))
  /\ UNCHANGED Local

\* The shell on the server works the line off, whether anyone waits for it or not.
RunScriptFile(c, s) ==
  /\ remote[c][s].job = "running"
  /\ Leaves(c, s, Ran(Job(remote[c][s], IF call[c].keep THEN "done" ELSE "ran"), 1))
  /\ UNCHANGED Local
RemoveScriptFile(c, s) ==
  /\ remote[c][s].job = "ran"
  /\ Leaves(c, s, FileIs(Job(remote[c][s], "done"), FALSE))
  /\ UNCHANGED Local

\* ManagedSession.Exec returns the status of the line when it is done, and 130 and no
\* error when its time is over: the line takes long, its sentinel or the connection is
\* lost, or the caller has cancelled. run_script tells any status as its result; the
\* others fail unless it is zero.
Statuses(r) == IF r.job = "done" THEN {"zero", "nonzero", "timeout"} ELSE {"timeout"}
Outcome(k, status) == IF status = "zero" \/ k.kind = "run_script" THEN "ok" ELSE "failed"
ScriptReturns(c, s) ==
  /\ At1(c, s, "sent")
  /\ \E status \in Statuses(remote[c][s]) :
       Leaves(c, s, To(Answers(remote[c][s], status), Outcome(call[c], status)))
  /\ UNCHANGED Local

\* wg.Wait: the call returns when every target has ended, a single one with its
\* error and a cluster with a list of results.
Return(c) ==
  LET k == call[c]
      bad == ~Many(k) /\ \E s \in ToSet(k.targets) : remote[c][s].step = "failed" IN
  /\ At(k, "run")
  /\ \A s \in ToSet(k.targets) : Ended(c, s)
  /\ Becomes(c, Ends(k, IF bad THEN "error" ELSE "ok"))
  /\ UNCHANGED <<world, registry, remote, log>>

----------------------------------------------------------------------------
\* People: server-policy set and clear, a server deleted, and trust windows.

Edit(A) == edits < MaxEdits[world] /\ edits' = edits + 1 /\ A /\ UNCHANGED <<world, global, call, remote, log>>

\* set parses the text first.
SetServerPolicy(s) ==
  Edit(/\ servers[s].here
       /\ \E f \in Locals[world] \ {BadFile} : servers' = [servers EXCEPT ![s].policy = f]
       /\ UNCHANGED <<members, trust>>)
\* The rows of its memberships go with it.
DeleteServer(s) ==
  Edit(/\ servers[s].here
       /\ servers' = [servers EXCEPT ![s] = [here |-> FALSE, policy |-> NoFile]]
       /\ members' = members \ {s}
       /\ UNCHANGED trust)
SetTrust ==
  Edit(/\ \E scope \in Scopes :
            trust' = IF scope \in trust THEN trust \ {scope} ELSE trust \cup {scope}
       /\ UNCHANGED <<servers, members>>)

----------------------------------------------------------------------------
\* The audit log and its tail. Other processes write to the log too.

AuditedElsewhere ==
  /\ world \in Tailed /\ Len(audit) < MaxEvents[world]
  /\ audit' = Append(audit, clock)
  /\ UNCHANGED <<world, registry, call, remote, clock, tail>>
Tick ==
  /\ world \in Tailed /\ clock < MaxEvents[world] /\ clock' = clock + 1
  /\ UNCHANGED <<world, registry, call, remote, audit, tail>>

\* List: newest first by their second, the order of those of one second being
\* SQLite's choice, and no more than the limit.
Lists(after, limit) ==
  LET rows == (after + 1)..Len(audit)
      size == IF Cardinality(rows) < limit THEN Cardinality(rows) ELSE limit IN
  {q \in [1..size -> rows] :
     /\ IsInjective(q)
     /\ \A i \in 1..size : \A r \in rows \ {q[j] : j \in 1..i} : audit[q[i]] >= audit[r]}

\* The tail starts behind the newest row, which the index on created_at gives.
StartTail ==
  /\ world \in Tailed /\ ~tail.on
  /\ tail' = [on |-> TRUE, from |-> Len(audit), seen |-> Len(audit), shown |-> tail.shown,
              burst |-> tail.burst]
  /\ UNCHANGED <<world, registry, call, remote, audit, clock>>

SeenIsLastShown(q) == IF q = <<>> THEN tail.seen ELSE q[1]
\* lastSeenID: the largest number shown.
SeenAfter(q) == Max(ToSet(q) \cup {tail.seen})
Poll ==
  /\ tail.on
  /\ \E q \in Lists(tail.seen, TailLimit) :
       tail' = [on |-> TRUE, from |-> tail.from, seen |-> SeenAfter(q), shown |-> tail.shown \o Reverse(q),
                burst |-> tail.burst \/ Len(audit) - tail.seen > TailLimit]
  /\ UNCHANGED <<world, registry, call, remote, audit, clock>>

Next ==
  \/ \E c \in Calls : \/ Begin(c) \/ LookUp(c) \/ WriteAudit(c) \/ Decide(c) \/ Answer(c)
                       \/ Prepare(c) \/ Return(c)
  \/ \E c \in Calls, s \in Ids :
       \/ Dial(c, s) \/ Launch(c, s) \/ RunNext(c, s) \/ RunPTY(c, s) \/ Copy(c, s)
       \/ Upload(c, s) \/ SendLine(c, s) \/ RunScriptFile(c, s) \/ RemoveScriptFile(c, s)
       \/ ScriptReturns(c, s)
  \/ \E s \in Ids : SetServerPolicy(s) \/ DeleteServer(s)
  \/ SetTrust \/ AuditedElsewhere \/ Tick \/ StartTail \/ Poll

Spec == Init /\ [][Next]_vars

----------------------------------------------------------------------------
\* Properties.

\* A policy read as docs/agent-policy.md tells it: minutes go round the clock, and
\* the rule that decides is one that applies with none before it.
InWindow(w, now) == (now - w[1]) % Day < (w[2] - w[1]) % Day
Applies(r, q, now) ==
  /\ \/ r.commands = {} \/ \E k \in DOMAIN q.commands : q.commands[k] \in r.commands
  /\ r.agents # {} => q.agent \in r.agents
  /\ r.servers # {} => q.server \in r.servers \cup {0}
  /\ r.clusters # {} => q.cluster \in r.clusters \cup {0}
  /\ r.window # <<>> => InWindow(r.window, now)
Deciding(f, q, now) ==
  {i \in DOMAIN f.rules : /\ Applies(f.rules[i], q, now)
                          /\ \A j \in 1..(i - 1) : ~Applies(f.rules[j], q, now)}
Documented(f, q, now) ==
  LET by == Deciding(f, q, now) IN
  IF by = {} THEN {f.default} ELSE {f.rules[i].action : i \in by}

\* Whether an action is what the policy f asks of the request q.
Obeys(action, f, q, now) ==
  LET named == f # NoFile /\ \E i \in Deciding(f, q, now) : f.rules[i].named IN
  IF ~named /\ IsDestructive(q.commands) THEN action \in {"require_approval", "deny"}
  ELSE IF f = NoFile THEN action = "allow" ELSE action \in Documented(f, q, now)

\* A verdict, of a call or of a dry run, is what the policy of one of its servers asks
\* for, and as strict as any of the others asks for (policy.go:102-166, 199-217,
\* 303-318, tools.go:96-113, 537-563, agent-policy.md:120-130).
VerdictObeys(k) ==
  LET ts == ToSet(k.targets)
      Asks(s, a) == Obeys(a, PolicyFor(k, s), Request(k, s), k.now) IN
  k.verdict # None =>
    /\ \A s \in ts : \E a \in Actions : Asks(s, a) /\ Rank(a) <= Rank(k.verdict)
    /\ IF ts = {} THEN k.verdict = "allow" ELSE \E s \in ts : Asks(s, k.verdict)
VerdictsObeyPolicy == \A c \in Calls : VerdictObeys(call[c])

Policed(k) == k.kind \in {"exec_command", "exec_on_cluster", "ssh_cmd"}

\* Whatever people do to servers and policies meanwhile, a policed command runs on a
\* server only when the call's verdict allows it, or a person or a window approved
\* it, and what decided for the server was the policy its row held, even when another
\* client deletes the row in between; only a read of the row that failed lets the
\* global policy decide in its place (tools.go:437-483, 527-610, exec.go:78-106).
RunsAreSanctioned ==
  \A c \in Calls, s \in Ids :
    Policed(call[c]) /\ remote[c][s].runs > 0 /\ call[c].by # "skip" =>
      /\ \/ call[c].verdict = "allow"
         \/ call[c].verdict = "require_approval" /\ call[c].by \in {"trust", "person"}
      /\ s \in ToSet(call[c].targets) \cap (call[c].found \cup call[c].missed)

\* How many of the commands with these results ran: those that got a session.
RunsOf(q) == Cardinality({i \in DOMAIN q : q[i] # "refused"})
NoneAfterLost(q) == \A i, j \in DOMAIN q : i < j /\ q[i] = "lost" => q[j] = "refused"

\* What a call returns accounts for all it did: a result for each command of each
\* server it reached and none twice, nothing after a lost connection, an error for
\* the others; a server the call does not name is not touched (exec.go:78-131,
\* tools.go:573-610, cluster_exec.go:80-120, cluster.go:111-140).
ResultsAreComplete ==
  \A c \in Calls, s \in Ids :
    LET r == remote[c][s] IN
    /\ s \notin ToSet(call[c].targets) => r = Untouched
    /\ call[c].end \in {"refused", "told"} /\ call[c].kind # "exec_app" => r.runs = 0 /\ r.step = "dial"
    /\ call[c].end = "ok" /\ ~Many(call[c]) => \A t \in ToSet(call[c].targets) : remote[c][t].step = "ok"
    /\ r.step = "ok" /\ H(call[c]).how = "commands" /\ ~call[c].expect =>
         /\ Len(r.results) = Len(call[c].commands) /\ NoneAfterLost(r.results)
         /\ r.runs = RunsOf(r.results)

\* What a script's call that ends well tells.
Good(k, r) ==
  \/ r.results = <<"zero">>
  \/ k.kind = "run_script" /\ r.results \in {<<"nonzero">>, <<"timeout">>}

\* A script runs at most once. When the call tells an exit status, zero or not, the
\* script has run and its file is gone unless it was to be kept; and a call that ends
\* well tells one, of zero unless run_script tells it. Only behind the 130 of a timeout
\* may the script still run and its file stay (file_transfer.go:84-175, 254-358,
\* run_script.go:43-128, run_local.go:44-134, managed_session.go:179-203).
ScriptsVanish ==
  \A c \in Calls, s \in Ids :
    LET r == remote[c][s] IN
    call[c].kind \in Scripts =>
      /\ r.runs <= 1
      /\ r.results \in {<<"zero">>, <<"nonzero">>} => r.runs = 1 /\ r.file = call[c].keep
      /\ call[c].end = "ok" /\ s \in ToSet(call[c].targets) => Good(call[c], r)

\* The tail shows each row written since it started once, rows of different seconds
\* in their order within a poll; only more rows between two polls than it asks for
\* make it miss any (agent_audit.go:145-200, audit_repo.go:96-151).
TailShowsEachOnce ==
  /\ IsInjective(tail.shown)
  /\ ToSet(tail.shown) \subseteq (tail.from + 1)..tail.seen
  /\ ~tail.burst => ToSet(tail.shown) = (tail.from + 1)..tail.seen

----------------------------------------------------------------------------
\* An inductive invariant.

Records ==
  [pc : Nat, kind : DOMAIN Handlers, agent : AgentIds \cup {None}, commands : Seq(Cmds),
   expect : BOOLEAN, keep : BOOLEAN, targets : Seq(Ids), read : Nat, seen : [Ids -> Files],
   found : SUBSET Ids, missed : SUBSET Ids, now : 0..Day - 1, verdict : Actions \cup {None},
   by : {None, "policy", "trust", "person", "skip", "asked"},
   end : {None, "ok", "error", "refused", "told"}]
Remotes ==
  [step : {"dial", "open", "uploaded", "sent", "ok", "failed"},
   results : Seq({"zero", "nonzero", "timeout", "lost", "refused", "pty"}), runs : Nat,
   file : BOOLEAN, job : {"none", "running", "ran", "done"}]

Stages(k) == H(k).stages
Stage(k) == Stages(k)[k.pc]
ToCome(k) == {Stages(k)[i] : i \in k.pc..Len(Stages(k))}

\* Servers are looked up before a policy decides, the policy decides before anything
\* runs, and a call is refused before it runs.
CallSound(k) ==
  /\ k \in Records /\ k.pc \in 1..Len(Stages(k)) /\ k.read <= Len(k.targets)
  /\ ~Many(k) => Len(k.targets) = 1
  /\ "needs" \in H(k).traits => \A j \in 1..k.read : k.targets[j] \in k.found
  /\ "lookup" \in ToSet(Stages(k)) \ ToCome(k) => k.read = Len(k.targets)
  /\ k.verdict # None => "lookup" \notin ToCome(k)
  /\ k.by = "asked" =>
       Stage(k) = "policy" /\ k.verdict = "require_approval" /\ k.kind \notin DryRuns
  /\ Policed(k) /\ "policy" \notin ToCome(k) =>
       \/ k.by = "skip" \/ k.verdict = "allow"
       \/ k.verdict = "require_approval" /\ k.by \in {"trust", "person"}
  /\ k.end \in {"ok", "error"} => Stage(k) = "run"
  /\ k.end \in {"refused", "told"} => Stage(k) # "run"
\* Of the servers looked up so far, those that were not there are not there now.
Reached(k) == k.found \cup k.missed
Absent(k) == \A j \in 1..k.read : k.targets[j] \in Reached(k) \/ ~servers[k.targets[j]].here
CallOK(k) == k = NoCall \/ (CallSound(k) /\ Absent(k) /\ VerdictObeys(k))

NoScript(r) == r.job = "none" /\ r.step \notin {"uploaded", "sent"}
ScriptOK(k, r) ==
  /\ r.runs = (IF r.job \in {"none", "running"} THEN 0 ELSE 1)
  /\ r.step \in {"dial", "open", "uploaded"} => r.job = "none"
  /\ r.step = "uploaded" \/ r.job = "running" => r.file
  /\ r.job = "ran" => ~k.keep
  /\ r.job = "done" => r.file = k.keep
  /\ r.step \in {"dial", "open", "uploaded", "sent"} => r.results = <<>>
  /\ r.results \in {<<"zero">>, <<"nonzero">>} => r.job = "done"
  /\ r.step = "ok" => Good(k, r)
CommandsOK(k, r) ==
  /\ Len(r.results) <= Len(k.commands) /\ NoneAfterLost(r.results)
  /\ r.runs = RunsOf(r.results)
  /\ r.step = "ok" => Len(r.results) = Len(k.commands)
RemoteSound(k, s, r) ==
  /\ r \in Remotes
  /\ r # Untouched => s \in ToSet(k.targets) /\ (k.kind = "exec_app" \/ Stage(k) = "run")
  /\ Policed(k) /\ (r.step = "open" \/ r.runs > 0) => s \in Reached(k)
  /\ IF H(k).how = "script" THEN ScriptOK(k, r) ELSE NoScript(r)
  /\ H(k).how = "commands" /\ ~k.expect => CommandsOK(k, r)
  /\ k.end = "ok" /\ ~Many(k) /\ s \in ToSet(k.targets) => r.step = "ok"
RemoteOK(k, s, r) == IF k = NoCall THEN r = Untouched ELSE RemoteSound(k, s, r)

TailOK ==
  /\ audit \in Seq(Nat) /\ clock \in Nat
  /\ tail \in [on : BOOLEAN, from : Nat, seen : Nat, shown : Seq(Nat), burst : BOOLEAN]
  /\ tail.from <= tail.seen /\ tail.seen <= Len(audit)
  /\ ~tail.on => tail.shown = <<>> /\ tail.from = tail.seen
  /\ TailShowsEachOnce

SettingOK ==
  /\ world \in Worlds /\ global \in Globals[world] /\ members \subseteq Ids
  /\ servers \in [Ids -> [here : BOOLEAN, policy : Locals[world] \cup {NoFile}]]

\* The records of the calls and of the tail hold together: a call has passed the stages
\* its fields say it has passed, and what it did to a server fits its results.
IInv ==
  /\ SettingOK /\ TailOK
  /\ call = [c \in Calls |-> call[c]] /\ \A c \in Calls : CallOK(call[c])
  /\ remote \in [Calls -> [Ids -> Remotes]]
  /\ \A c \in Calls, s \in Ids : RemoteOK(call[c], s, remote[c][s])

\* agent-policy.md:45, 116: what the policy denies does not run.
DeniedDoesNotRun ==
  \A c \in Calls, s \in Ids :
    Policed(call[c]) /\ remote[c][s].runs > 0 /\ call[c].by # "skip"
      /\ PolicyFor(call[c], s) # NoFile =>
      "deny" \notin Documented(PolicyFor(call[c], s), Request(call[c], s), call[c].now)
=============================================================================
