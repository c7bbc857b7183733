--------------------------- MODULE Agent_proofs ---------------------------
EXTENDS Agent, TLAPS, SequenceTheorems, FiniteSetTheorems, WellFoundedInduction

----------------------------------------------------------------------------
\* The policy: EvalPolicy, which scans the rules, agrees with the policy as it is
\* documented.

Minutes == 0..Day - 1
Minute == Day \in Nat \ {0}

LEMMA DayIs == Minute
BY AgentAssumption DEF Minute

LEMMA ModIs ==
  ASSUME NEW D \in Nat \ {0}, NEW x \in Int, -D < x, x < D
  PROVE  x % D = IF x < 0 THEN x + D ELSE x
OBVIOUS

LEMMA WindowIs ==
  ASSUME NEW w \in Minutes \X Minutes, NEW now \in Minutes
  PROVE  InTimeWindow(w, now) <=> InWindow(w, now)
<1>1. PICK D \in Nat \ {0} : D = Day
  BY DayIs DEF Minute
<1>2. PICK a \in 0..D - 1, b \in 0..D - 1 : w[1] = a /\ w[2] = b
  BY <1>1 DEF Minutes
<1>3. now \in 0..D - 1
  BY <1>1 DEF Minutes
<1>4. (now - a) % D = IF now - a < 0 THEN now - a + D ELSE now - a
  <2>1. now - a \in Int /\ -D < now - a /\ now - a < D
    BY <1>3
  <2> QED
    BY <2>1, ModIs
<1>5. (b - a) % D = IF b - a < 0 THEN b - a + D ELSE b - a
  <2>1. b - a \in Int /\ -D < b - a /\ b - a < D
    OBVIOUS
  <2> QED
    BY <2>1, ModIs
<1>6. InTimeWindow(w, now) <=> IF a <= b THEN a <= now /\ now < b ELSE a <= now \/ now < b
  BY <1>2 DEF InTimeWindow
<1>7. InWindow(w, now) <=> (now - a) % D < (b - a) % D
  BY <1>1, <1>2 DEF InWindow
<1> QED
  BY <1>2, <1>3, <1>4, <1>5, <1>6, <1>7

Queries == [agent : AgentIds \cup {None}, commands : Seq(Cmds), server : Ids, cluster : {0, Cluster}]

LEMMA MatchesIs ==
  ASSUME NEW r \in Rules, NEW q \in Queries, NEW now \in Minutes
  PROVE  MatchesRule(r, q, now) <=> Applies(r, q, now)
<1>1. r.window = <<>> \/ r.window \in Minutes \X Minutes
  BY DEF Rules, Minutes
<1>2. r.window # <<>> => (InTimeWindow(r.window, now) <=> InWindow(r.window, now))
  BY <1>1, WindowIs
<1>3. ToSet(q.commands) \cap r.commands # {} <=> \E k \in DOMAIN q.commands : q.commands[k] \in r.commands
  BY DEF ToSet
<1>4. (r.servers # {} => q.server \in r.servers \cup {0})
          <=> (r.servers = {} \/ q.server = 0 \/ q.server \in r.servers)
  OBVIOUS
<1>5. (r.clusters # {} => q.cluster \in r.clusters \cup {0})
          <=> (r.clusters = {} \/ q.cluster = 0 \/ q.cluster \in r.clusters)
  OBVIOUS
<1> QED
  BY <1>2, <1>3, <1>4, <1>5 DEF MatchesRule, Applies

LEMMA Least ==
  ASSUME NEW S \in SUBSET Nat, S # {}
  PROVE  \E n \in S : \A i \in S : n <= i
<1> DEFINE R == OpToRel(<, Nat)
<1>1. IsWellFoundedOn(R, Nat)
  BY NatLessThanWellFounded
<1>2. PICK n \in S : \A y \in Nat : <<y, n>> \in R => ~(y \in S)
  BY <1>1, WFMin
<1>3. ASSUME NEW i \in S
      PROVE  n <= i
  <2>1. ~(i < n)
    BY <1>2 DEF OpToRel
  <2> QED
    BY <2>1
<1> QED
  BY <1>3

LEMMA MinIs ==
  ASSUME NEW S \in SUBSET Nat, S # {}
  PROVE  Min(S) \in S /\ \A i \in S : Min(S) <= i
BY Least DEF Min

Proper(f) == f \notin {NoFile, BadFile} /\ f \in Files
LEMMA CheckIs ==
  ASSUME NEW f, Proper(f), NEW q \in Queries, NEW now \in Minutes
  PROVE  /\ Check(f, q, now).action \in Actions
         /\ Deciding(f, q, now) = {} =>
              Check(f, q, now) = [named |-> FALSE, action |-> f.default]
         /\ Deciding(f, q, now) # {} =>
              \E m \in DOMAIN f.rules : /\ Deciding(f, q, now) = {m}
                 /\ Check(f, q, now) = [named |-> f.rules[m].named, action |-> f.rules[m].action]
<1> DEFINE hits == {i \in DOMAIN f.rules : MatchesRule(f.rules[i], q, now)}
           by == Deciding(f, q, now)
<1>1. f.rules \in Seq(Rules) /\ f.default \in Actions
  BY DEF Proper, Files
<1>2. PICK n \in Nat : DOMAIN f.rules = 1..n
  BY <1>1
<1>3. ASSUME NEW i \in 1..n
      PROVE  f.rules[i] \in Rules /\ f.rules[i].action \in Actions
  <2>1. f.rules[i] \in Rules
    BY <1>1, <1>2
  <2> QED
    BY <2>1 DEF Rules
<1>4. \A i \in 1..n : MatchesRule(f.rules[i], q, now) <=> Applies(f.rules[i], q, now)
  BY <1>3, MatchesIs
<1>5. hits = {i \in 1..n : Applies(f.rules[i], q, now)}
  BY <1>2, <1>4
<1>6. by = {i \in 1..n : Applies(f.rules[i], q, now) /\ \A j \in 1..(i - 1) : ~Applies(f.rules[j], q, now)}
  BY <1>2 DEF Deciding
<1>7. CASE hits = {}
  <2>1. by = {}
    BY <1>5, <1>6, <1>7
  <2>2. Check(f, q, now) = [named |-> FALSE, action |-> f.default]
    BY <1>7 DEF Check
  <2> QED
    BY <1>1, <2>1, <2>2
<1>8. CASE hits # {}
  <2>1. PICK m : m = Min(hits)
    OBVIOUS
  <2>2. m \in hits /\ \A i \in hits : m <= i
    BY <1>2, <1>8, <2>1, MinIs
  <2>3. by = {m}
    <3>1. m \in by
      BY <1>5, <1>6, <2>2
    <3>2. ASSUME NEW i \in by
          PROVE  i = m
      <4>1. i \in hits /\ m \in 1..n /\ i \in 1..n
        BY <1>5, <1>6, <2>2
      <4>2. m <= i
        BY <2>2, <4>1
      <4>3. ~(m \in 1..(i - 1))
        BY <1>5, <1>6, <2>2
      <4> QED
        BY <4>1, <4>2, <4>3
    <3> QED
      BY <3>1, <3>2
  <2>4. Check(f, q, now) = [named |-> f.rules[m].named, action |-> f.rules[m].action]
    BY <1>8, <2>1 DEF Check
  <2> QED
    BY <1>2, <1>3, <2>2, <2>3, <2>4
<1> QED
  BY <1>7, <1>8

\* The command floor and the policy, for every policy file, request and minute.
LEMMA EvalObeys ==
  ASSUME NEW f, f = NoFile \/ Proper(f), NEW q \in Queries, NEW now \in Minutes
  PROVE  EvalPolicy(f, q, now) \in Actions /\ Obeys(EvalPolicy(f, q, now), f, q, now)
<1>1. CASE f = NoFile
  BY <1>1 DEF EvalPolicy, Obeys, Actions
<1>2. CASE Proper(f)
  <2> DEFINE by == Deciding(f, q, now)
             found == Check(f, q, now)
             named == f # NoFile /\ \E i \in by : f.rules[i].named
  <2>1. f # NoFile /\ found.action \in Actions
    BY <1>2, CheckIs DEF Proper
  <2>2. EvalPolicy(f, q, now) =
          IF found.named \/ ~IsDestructive(q.commands) THEN found.action ELSE "require_approval"
    BY <2>1 DEF EvalPolicy
  <2>3. (found.named <=> named) /\ found.action \in Documented(f, q, now)
    <3>1. CASE by = {}
      <4>1. found = [named |-> FALSE, action |-> f.default]
        BY <1>2, <3>1, CheckIs
      <4> QED
        BY <3>1, <4>1 DEF Documented
    <3>2. CASE by # {}
      <4>1. PICK m \in DOMAIN f.rules :
              by = {m} /\ found = [named |-> f.rules[m].named, action |-> f.rules[m].action]
        BY <1>2, <3>2, CheckIs
      <4> QED
        BY <2>1, <4>1 DEF Documented
    <3> QED
      BY <3>1, <3>2
  <2>4. PICK a : a = EvalPolicy(f, q, now)
    OBVIOUS
  <2>5. Obeys(a, f, q, now) <=> IF ~named /\ IsDestructive(q.commands) THEN a \in {"require_approval", "deny"}
                                ELSE a \in Documented(f, q, now)
    BY <2>1 DEF Obeys
  <2> HIDE DEF named, found
  <2> QED
    BY <2>1, <2>2, <2>3, <2>4, <2>5 DEF Actions
<1> QED
  BY <1>1, <1>2

----------------------------------------------------------------------------
\* The stages of the handlers.

Kind == DOMAIN Handlers
StageNames == {"lookup", "audit", "policy", "run", "prepare"}

LEMMA HandlerOf ==
  /\ Handlers["exec_command"] = ExecCommand /\ Handlers["exec_on_cluster"] = ExecOnCluster
  /\ Handlers["inspect_node"] = InspectNode /\ Handlers["log_analyzer"] = LogAnalyzer
  /\ Handlers["push_file"] = PushFile /\ Handlers["pull_file"] = PullFile
  /\ Handlers["run_script"] = RunScript /\ Handlers["remote_replace"] = RemoteReplace
  /\ Handlers["exec_app"] = ExecApp /\ Handlers["policy_dry_run"] = PolicyDryRun
  /\ Handlers["agent_dry_run"] = PolicyDryRunCmd /\ Handlers["ssh_cmd"] = CheckCLIPolicy
  /\ Handlers["ssh_run_script"] = RunScriptCmd /\ Handlers["ssh_run_local"] = RunLocalCmd
  /\ Handlers["web_cluster"] = ExecCluster /\ Handlers["cluster_cmd"] = RunClusterCmd
BY DEF Handlers

LEMMA KindIs ==
  Kind = {"exec_command", "exec_on_cluster", "inspect_node", "log_analyzer", "push_file",
          "pull_file", "run_script", "remote_replace", "exec_app", "policy_dry_run",
          "agent_dry_run", "ssh_cmd", "ssh_run_script", "ssh_run_local", "web_cluster", "cluster_cmd"}
BY DEF Kind, Handlers

\* What the proofs use of a handler h of the kind: its stages come in order, and what it
\* does at the last one goes with its kind.
Orderly(kind, h) ==
  LET n == Len(h.stages) IN
  /\ h.stages \in Seq(StageNames) /\ n >= 1
  /\ \A i \in 1..n : /\ i # n => h.stages[i] # "run"
                     /\ i = n /\ h.stages[i] # "run" => kind \in DryRuns /\ h.stages[i] = "policy"
                     /\ h.stages[i] = "prepare" => kind = "exec_app"
  /\ \A i, j \in 1..n : i < j =>
       /\ h.stages[i] = "policy" => h.stages[j] \notin {"lookup", "policy"}
       /\ h.stages[i] = "lookup" => h.stages[j] # "lookup"
Fitting(kind, h) ==
  /\ h.how = "script" <=> kind \in Scripts
  /\ kind \in Scripts \cup DryRuns \cup {"exec_app", "ssh_cmd"} => "many" \notin h.traits
  /\ kind = "exec_app" => h.how = "plugin"
  /\ kind = "ssh_cmd" => "needs" \in h.traits
  /\ kind \in {"exec_command", "exec_on_cluster", "ssh_cmd"} =>
       h.how = "commands" /\ {"lookup", "policy"} \subseteq ToSet(h.stages)

LEMMA HandlerIsOrderly ==
  ASSUME NEW kind \in Kind
  PROVE  Orderly(kind, Handlers[kind])
<1>1. CASE kind = "exec_command"
  BY <1>1, HandlerOf DEF ExecCommand, Handler, Orderly, DryRuns, StageNames
<1>2. CASE kind = "exec_on_cluster"
  BY <1>2, HandlerOf DEF ExecOnCluster, Handler, Orderly, DryRuns, StageNames
<1>3. CASE kind = "inspect_node"
  BY <1>3, HandlerOf DEF InspectNode, Handler, Orderly, DryRuns, StageNames
<1>4. CASE kind = "log_analyzer"
  BY <1>4, HandlerOf DEF LogAnalyzer, Handler, Orderly, DryRuns, StageNames
<1>5. CASE kind = "push_file"
  BY <1>5, HandlerOf DEF PushFile, Handler, Orderly, DryRuns, StageNames
<1>6. CASE kind = "pull_file"
  BY <1>6, HandlerOf DEF PullFile, Handler, Orderly, DryRuns, StageNames
<1>7. CASE kind = "run_script"
  BY <1>7, HandlerOf DEF RunScript, Handler, Orderly, DryRuns, StageNames
<1>8. CASE kind = "remote_replace"
  BY <1>8, HandlerOf DEF RemoteReplace, Handler, Orderly, DryRuns, StageNames
<1>9. CASE kind = "exec_app"
  BY <1>9, HandlerOf DEF ExecApp, Handler, Orderly, DryRuns, StageNames
<1>10. CASE kind = "policy_dry_run"
  BY <1>10, HandlerOf DEF PolicyDryRun, Handler, Orderly, DryRuns, StageNames
<1>11. CASE kind = "agent_dry_run"
  BY <1>11, HandlerOf DEF PolicyDryRunCmd, Handler, Orderly, DryRuns, StageNames
<1>12. CASE kind = "ssh_cmd"
  BY <1>12, HandlerOf DEF CheckCLIPolicy, Handler, Orderly, DryRuns, StageNames
<1>13. CASE kind = "ssh_run_script"
  BY <1>13, HandlerOf DEF RunScriptCmd, Handler, Orderly, DryRuns, StageNames
<1>14. CASE kind = "ssh_run_local"
  BY <1>14, HandlerOf DEF RunLocalCmd, Handler, Orderly, DryRuns, StageNames
<1>15. CASE kind = "web_cluster"
  BY <1>15, HandlerOf DEF ExecCluster, Handler, Orderly, DryRuns, StageNames
<1>16. CASE kind = "cluster_cmd"
  BY <1>16, HandlerOf DEF RunClusterCmd, Handler, Orderly, DryRuns, StageNames
<1> QED
  BY KindIs, <1>1, <1>2, <1>3, <1>4, <1>5, <1>6, <1>7, <1>8,
      <1>9, <1>10, <1>11, <1>12, <1>13, <1>14, <1>15, <1>16

LEMMA HandlerFits ==
  ASSUME NEW kind \in Kind
  PROVE  Fitting(kind, Handlers[kind])
<1>1. CASE kind = "exec_command"
  BY <1>1, HandlerOf DEF ExecCommand, Handler, Fitting, DryRuns, Scripts, ToSet
<1>2. CASE kind = "exec_on_cluster"
  BY <1>2, HandlerOf DEF ExecOnCluster, Handler, Fitting, DryRuns, Scripts, ToSet
<1>3. CASE kind = "inspect_node"
  BY <1>3, HandlerOf DEF InspectNode, Handler, Fitting, DryRuns, Scripts, ToSet
<1>4. CASE kind = "log_analyzer"
  BY <1>4, HandlerOf DEF LogAnalyzer, Handler, Fitting, DryRuns, Scripts, ToSet
<1>5. CASE kind = "push_file"
  BY <1>5, HandlerOf DEF PushFile, Handler, Fitting, DryRuns, Scripts, ToSet
<1>6. CASE kind = "pull_file"
  BY <1>6, HandlerOf DEF PullFile, Handler, Fitting, DryRuns, Scripts, ToSet
<1>7. CASE kind = "run_script"
  BY <1>7, HandlerOf DEF RunScript, Handler, Fitting, DryRuns, Scripts, ToSet
<1>8. CASE kind = "remote_replace"
  BY <1>8, HandlerOf DEF RemoteReplace, Handler, Fitting, DryRuns, Scripts, ToSet
<1>9. CASE kind = "exec_app"
  BY <1>9, HandlerOf DEF ExecApp, Handler, Fitting, DryRuns, Scripts, ToSet
<1>10. CASE kind = "policy_dry_run"
  BY <1>10, HandlerOf DEF PolicyDryRun, Handler, Fitting, DryRuns, Scripts, ToSet
<1>11. CASE kind = "agent_dry_run"
  BY <1>11, HandlerOf DEF PolicyDryRunCmd, Handler, Fitting, DryRuns, Scripts, ToSet
<1>12. CASE kind = "ssh_cmd"
  BY <1>12, HandlerOf DEF CheckCLIPolicy, Handler, Fitting, DryRuns, Scripts, ToSet
<1>13. CASE kind = "ssh_run_script"
  BY <1>13, HandlerOf DEF RunScriptCmd, Handler, Fitting, DryRuns, Scripts, ToSet
<1>14. CASE kind = "ssh_run_local"
  BY <1>14, HandlerOf DEF RunLocalCmd, Handler, Fitting, DryRuns, Scripts, ToSet
<1>15. CASE kind = "web_cluster"
  BY <1>15, HandlerOf DEF ExecCluster, Handler, Fitting, DryRuns, Scripts, ToSet
<1>16. CASE kind = "cluster_cmd"
  BY <1>16, HandlerOf DEF RunClusterCmd, Handler, Fitting, DryRuns, Scripts, ToSet
<1> QED
  BY KindIs, <1>1, <1>2, <1>3, <1>4, <1>5, <1>6, <1>7, <1>8,
      <1>9, <1>10, <1>11, <1>12, <1>13, <1>14, <1>15, <1>16

----------------------------------------------------------------------------
\* The verdict.

LEMMA RankIs == Rank("allow") = 0 /\ Rank("require_approval") = 1 /\ Rank("deny") = 2
BY DEF Rank

LEMMA StrictestIs ==
  ASSUME NEW S \in SUBSET Actions
  PROVE  Strictest(S) \in S \cup {"allow"} /\ \A b \in S : Rank(b) <= Rank(Strictest(S))
<1>1. \A b \in S : b \in {"allow", "require_approval", "deny"} /\ Rank(b) \in 0..2
  BY RankIs DEF Actions
<1>2. \E a \in S \cup {"allow"} : \A b \in S : Rank(a) >= Rank(b)
  <2>1. CASE "deny" \in S
    BY <1>1, <2>1, RankIs
  <2>2. CASE "deny" \notin S /\ "require_approval" \in S
    BY <1>1, <2>2, RankIs
  <2>3. CASE "deny" \notin S /\ "require_approval" \notin S
    BY <1>1, <2>3, RankIs
  <2> QED
    BY <2>1, <2>2, <2>3
<1>3. PICK v : v = Strictest(S)
  OBVIOUS
<1>4. v \in S \cup {"allow"} /\ \A b \in S : Rank(v) >= Rank(b)
  BY <1>2, <1>3 DEF Strictest
<1>5. Rank(v) \in 0..2
  BY <1>1, <1>4, RankIs
<1>6. \A b \in S : Rank(b) <= Rank(v)
  BY <1>1, <1>4, <1>5
<1> QED
  BY <1>3, <1>4, <1>6

LEMMA AllowIsLeast ==
  ASSUME NEW b \in Actions, Rank(b) <= Rank("allow")
  PROVE  b = "allow"
BY RankIs DEF Actions

LEMMA RequestIs ==
  ASSUME NEW k \in Records, NEW s \in ToSet(k.targets)
  PROVE  s \in Ids /\ k.seen[s] \in Files /\ Request(k, s) \in Queries
<1>1. s \in Ids
  BY DEF Records, ToSet
<1> QED
  BY <1>1 DEF Records, Request, Queries

LEMMA PolicyIs ==
  ASSUME NEW k \in Records, NEW s \in ToSet(k.targets), global \in Files, Loaded(k) # BadFile,
         k.seen[s] # BadFile
  PROVE  PolicyFor(k, s) = NoFile \/ Proper(PolicyFor(k, s))
BY RequestIs DEF PolicyFor, ResolveFor, Loaded, Proper, Files

LEMMA JudgesIs ==
  ASSUME NEW k \in Records, NEW now \in Minutes, NEW v \in Actions \cup {None},
         NEW j, j = Judges(Clocks(k, now), v)
  PROVE  /\ j \in Records /\ j.now = now /\ j.verdict = v /\ j.pc = k.pc
         /\ j.kind = k.kind /\ j.agent = k.agent /\ j.commands = k.commands /\ j.expect = k.expect
         /\ j.keep = k.keep /\ j.targets = k.targets /\ j.read = k.read /\ j.seen = k.seen
         /\ j.found = k.found /\ j.missed = k.missed /\ j.by = k.by /\ j.end = k.end
BY DEF Judges, Clocks, Records, Minutes

\* A call that is judged with policies that parse gets a verdict that obeys them.
LEMMA JudgedObeys ==
  ASSUME NEW k \in Records, global \in Files, Loaded(k) # BadFile,
         \A s \in ToSet(k.targets) : k.seen[s] # BadFile,
         NEW now \in Minutes, NEW v, v = Strictest(Verdicts(k, now)), NEW j, j = Judges(Clocks(k, now), v)
  PROVE  v \in Actions /\ VerdictObeys(j)
<1> DEFINE ts == ToSet(k.targets)
           E(s) == EvalPolicy(PolicyFor(k, s), Request(k, s), now)
<1>1. ASSUME NEW s \in ts
      PROVE  E(s) \in Actions /\ Obeys(E(s), PolicyFor(k, s), Request(k, s), now)
  <2>1. PolicyFor(k, s) = NoFile \/ Proper(PolicyFor(k, s))
    BY PolicyIs
  <2>2. Request(k, s) \in Queries
    BY RequestIs
  <2> QED
    BY <2>1, <2>2, EvalObeys
<1>2. PICK V : V = Verdicts(k, now)
  OBVIOUS
<1>3. V = {E(s) : s \in ts}
  BY <1>2 DEF Verdicts
<1>4. V \in SUBSET Actions
  BY <1>1, <1>3
<1>5. v \in V \cup {"allow"} /\ \A b \in V : Rank(b) <= Rank(v)
  BY <1>2, <1>4, StrictestIs
<1>6. v \in Actions
  BY <1>4, <1>5 DEF Actions
<1>7. ASSUME ts # {}
      PROVE  v \in V
  <2>1. PICK s \in ts : TRUE
    BY <1>7
  <2>2. E(s) \in V
    BY <1>3
  <2>3. v = "allow" => E(s) = "allow"
    BY <1>4, <1>5, <2>2, AllowIsLeast
  <2> QED
    BY <1>5, <2>2, <2>3
<1>8. /\ j.targets = k.targets /\ j.now = now /\ j.verdict = v
      /\ \A s : PolicyFor(j, s) = PolicyFor(k, s) /\ Request(j, s) = Request(k, s)
  BY <1>6, JudgesIs DEF PolicyFor, Loaded, Request, Many, H
<1>9. ASSUME NEW s \in ts
      PROVE  \E a \in Actions : /\ Obeys(a, PolicyFor(j, s), Request(j, s), j.now)
                                /\ Rank(a) <= Rank(j.verdict)
  <2>1. E(s) \in V
    BY <1>3
  <2> QED
    BY <1>1, <1>5, <1>8, <2>1
<1>10. IF ts = {} THEN j.verdict = "allow"
       ELSE \E s \in ts : Obeys(j.verdict, PolicyFor(j, s), Request(j, s), j.now)
  <2>1. CASE ts = {}
    BY <1>3, <1>5, <1>8, <2>1
  <2>2. CASE ts # {}
    <3>1. PICK s \in ts : v = E(s)
      BY <1>3, <1>7, <2>2
    <3> QED
      BY <1>1, <1>8, <2>2, <3>1
  <2> QED
    BY <2>1, <2>2
<1> QED
  BY <1>6, <1>8, <1>9, <1>10 DEF VerdictObeys

----------------------------------------------------------------------------
\* The records of the calls: what each edit of one changes, and that it leaves it sound.

LEMMA StagesAre ==
  ASSUME NEW k \in Records, k.pc \in 1..Len(Stages(k))
  PROVE  /\ k.kind \in Kind /\ k.pc \in Nat /\ Stages(k) = Handlers[k.kind].stages
         /\ Stages(k) \in Seq(StageNames) /\ Len(Stages(k)) \in Nat
         /\ Stage(k) = Stages(k)[k.pc]
BY HandlerIsOrderly DEF Records, Kind, Stages, H, Orderly, Stage

LEMMA ToComeIs ==
  ASSUME NEW k \in Records, k.pc \in 1..Len(Stages(k))
  PROVE  /\ Stage(k) \in ToCome(k)
         /\ Stage(k) = "policy" => "lookup" \notin ToCome(k)
         /\ Stage(k) = "run" => ToCome(k) = {"run"} /\ k.pc = Len(Stages(k))
<1>1. PICK q, i : q = Stages(k) /\ i = k.pc
  OBVIOUS
<1>2. i \in 1..Len(q) /\ Len(q) \in Nat /\ Stage(k) = q[i]
      /\ Orderly(k.kind, Handlers[k.kind]) /\ q = Handlers[k.kind].stages
  BY <1>1, StagesAre, HandlerIsOrderly
<1>3. ToCome(k) = {q[j] : j \in i..Len(q)}
  BY <1>1 DEF ToCome
<1>4. q[i] \in {q[j] : j \in i..Len(q)}
  BY <1>2
<1>5. ASSUME q[i] = "policy", NEW j \in i..Len(q)
      PROVE  q[j] # "lookup"
  BY <1>2, <1>5 DEF Orderly
<1>6. q[i] = "run" => i = Len(q)
  BY <1>2 DEF Orderly
<1>7. q[i] = "run" => {q[j] : j \in i..Len(q)} = {"run"}
  BY <1>2, <1>6
<1> QED
  BY <1>1, <1>2, <1>3, <1>4, <1>5, <1>6, <1>7

LEMMA AdvancedIs ==
  ASSUME NEW k \in Records, NEW j, j = Advanced(k)
  PROVE  /\ j \in Records /\ j.pc = k.pc + 1
         /\ j.kind = k.kind /\ j.agent = k.agent /\ j.commands = k.commands /\ j.expect = k.expect
         /\ j.keep = k.keep /\ j.targets = k.targets /\ j.read = k.read /\ j.seen = k.seen
         /\ j.found = k.found /\ j.missed = k.missed /\ j.now = k.now /\ j.verdict = k.verdict /\ j.by = k.by /\ j.end = k.end
<1>1. PICK n \in Nat : n = k.pc + 1
  BY DEF Records
<1>2. j = [k EXCEPT !.pc = n]
  BY <1>1 DEF Advanced
<1> QED
  BY <1>1, <1>2 DEF Records

LEMMA EndsIs ==
  ASSUME NEW k \in Records, NEW e \in {None, "ok", "error", "refused", "told"}, NEW j, j = Ends(k, e)
  PROVE  /\ j \in Records /\ j.end = e /\ j.pc = k.pc
         /\ j.kind = k.kind /\ j.agent = k.agent /\ j.commands = k.commands /\ j.expect = k.expect
         /\ j.keep = k.keep /\ j.targets = k.targets /\ j.read = k.read /\ j.seen = k.seen
         /\ j.found = k.found /\ j.missed = k.missed /\ j.now = k.now /\ j.verdict = k.verdict /\ j.by = k.by
BY DEF Ends, Records

LEMMA ByIs ==
  ASSUME NEW k \in Records, NEW b \in {None, "policy", "trust", "person", "skip", "asked"},
         NEW j, j = By(k, b)
  PROVE  /\ j \in Records /\ j.by = b /\ j.pc = k.pc
         /\ j.kind = k.kind /\ j.agent = k.agent /\ j.commands = k.commands /\ j.expect = k.expect
         /\ j.keep = k.keep /\ j.targets = k.targets /\ j.read = k.read /\ j.seen = k.seen
         /\ j.found = k.found /\ j.missed = k.missed /\ j.now = k.now /\ j.verdict = k.verdict /\ j.end = k.end
BY DEF By, Records

LEMMA ReadsIs ==
  ASSUME NEW k \in Records, NEW j, j = Reads(k)
  PROVE  /\ j \in Records /\ j.read = k.read + 1 /\ j.pc = k.pc
         /\ j.kind = k.kind /\ j.agent = k.agent /\ j.commands = k.commands /\ j.expect = k.expect
         /\ j.keep = k.keep /\ j.targets = k.targets /\ j.seen = k.seen /\ j.found = k.found /\ j.missed = k.missed
         /\ j.now = k.now /\ j.verdict = k.verdict /\ j.by = k.by /\ j.end = k.end
<1>1. PICK n \in Nat : n = k.read + 1
  BY DEF Records
<1>2. j = [k EXCEPT !.read = n]
  BY <1>1 DEF Reads
<1> QED
  BY <1>1, <1>2 DEF Records

LEMMA FindsIs ==
  ASSUME NEW k \in Records, NEW s \in Ids, NEW p \in Files, NEW j, j = Finds(Remembers(k, s, p), s)
  PROVE  /\ j \in Records /\ j.found = k.found \cup {s} /\ j.missed = k.missed
         /\ j.pc = k.pc /\ j.read = k.read
         /\ j.kind = k.kind /\ j.agent = k.agent /\ j.commands = k.commands /\ j.expect = k.expect
         /\ j.keep = k.keep /\ j.targets = k.targets
         /\ j.now = k.now /\ j.verdict = k.verdict /\ j.by = k.by /\ j.end = k.end
<1>1. PICK m : m = Remembers(k, s, p)
  OBVIOUS
<1>2. /\ m \in Records /\ m.pc = k.pc /\ m.read = k.read
      /\ m.kind = k.kind /\ m.agent = k.agent /\ m.commands = k.commands /\ m.expect = k.expect
      /\ m.keep = k.keep /\ m.targets = k.targets /\ m.found = k.found /\ m.missed = k.missed
      /\ m.now = k.now /\ m.verdict = k.verdict /\ m.by = k.by /\ m.end = k.end
  BY <1>1 DEF Remembers, Records
<1> QED
  BY <1>1, <1>2 DEF Finds, Records

LEMMA MissesIs ==
  ASSUME NEW k \in Records, NEW s \in Ids, NEW j, j = Misses(k, s)
  PROVE  /\ j \in Records /\ j.found = k.found /\ j.missed = k.missed \cup {s}
         /\ j.pc = k.pc /\ j.read = k.read
         /\ j.kind = k.kind /\ j.agent = k.agent /\ j.commands = k.commands /\ j.expect = k.expect
         /\ j.keep = k.keep /\ j.targets = k.targets
         /\ j.now = k.now /\ j.verdict = k.verdict /\ j.by = k.by /\ j.end = k.end
BY DEF Misses, Records

\* What a later record of a call has to keep for what the call did to stay sound.
Follows(k, j) ==
  /\ j.kind = k.kind /\ j.commands = k.commands /\ j.expect = k.expect /\ j.keep = k.keep
  /\ j.targets = k.targets /\ k.found \subseteq j.found /\ k.missed \subseteq j.missed
  /\ Stage(k) = "run" => Stage(j) = "run"
  /\ j.end = "ok" => k.end = "ok"

LEMMA FollowOK ==
  ASSUME NEW k, NEW j, Follows(k, j), NEW s, NEW r, RemoteSound(k, s, r)
  PROVE  RemoteSound(j, s, r)
<1>1. H(j) = H(k) /\ (Many(j) <=> Many(k)) /\ (Policed(j) <=> Policed(k))
  BY DEF Follows, H, Many, Policed
<1>2. (ScriptOK(k, r) <=> ScriptOK(j, r)) /\ (CommandsOK(k, r) <=> CommandsOK(j, r))
  BY DEF Follows, ScriptOK, Good, CommandsOK
<1>3. r \in Remotes
  BY DEF RemoteSound
<1>4. r # Untouched => s \in ToSet(j.targets) /\ (j.kind = "exec_app" \/ Stage(j) = "run")
  BY DEF RemoteSound, Follows
<1>5. Policed(j) /\ (r.step = "open" \/ r.runs > 0) => s \in Reached(j)
  BY <1>1 DEF RemoteSound, Follows, Reached
<1>6. IF H(j).how = "script" THEN ScriptOK(j, r) ELSE NoScript(r)
  BY <1>1, <1>2 DEF RemoteSound
<1>7. H(j).how = "commands" /\ ~j.expect => CommandsOK(j, r)
  BY <1>1, <1>2 DEF RemoteSound, Follows
<1>8. j.end = "ok" /\ ~Many(j) /\ s \in ToSet(j.targets) => r.step = "ok"
  BY <1>1 DEF RemoteSound, Follows
<1> QED
  BY <1>3, <1>4, <1>5, <1>6, <1>7, <1>8 DEF RemoteSound

\* What a verdict obeys, and which servers were looked up, are fields that most edits leave.
LEMMA KeepsVerdict ==
  ASSUME NEW k, NEW j, j.kind = k.kind, j.agent = k.agent, j.commands = k.commands,
         j.targets = k.targets, j.seen = k.seen, j.now = k.now, j.verdict = k.verdict, VerdictObeys(k)
  PROVE  VerdictObeys(j)
<1>1. \A s : PolicyFor(j, s) = PolicyFor(k, s) /\ Request(j, s) = Request(k, s)
  BY DEF PolicyFor, Loaded, Request, Many, H
<1> QED
  BY <1>1 DEF VerdictObeys

LEMMA KeepsAbsent ==
  ASSUME NEW k, NEW j, j.targets = k.targets, j.read = k.read, j.found = k.found /\ j.missed = k.missed, Absent(k)
  PROVE  Absent(j)
BY DEF Absent, Reached

LEMMA AdvanceOK ==
  ASSUME NEW k, CallSound(k), VerdictObeys(k), Absent(k), k.end = None, k.by # "asked", Stage(k) # "run",
         Stage(k) = "policy" => k.kind \notin DryRuns,
         Stage(k) = "lookup" => k.read = Len(k.targets),
         Stage(k) = "policy" /\ Policed(k) =>
           \/ k.by = "skip" \/ k.verdict = "allow"
           \/ k.verdict = "require_approval" /\ k.by \in {"trust", "person"},
         NEW j, j = Advanced(k)
  PROVE  CallSound(j) /\ VerdictObeys(j) /\ Absent(j) /\ Follows(k, j)
<1> DEFINE q == Stages(k)
           i == k.pc
<1>1. k \in Records /\ i \in 1..Len(q)
  BY DEF CallSound
<1>2. /\ j \in Records /\ j.pc = i + 1
      /\ j.kind = k.kind /\ j.agent = k.agent /\ j.commands = k.commands /\ j.expect = k.expect
      /\ j.keep = k.keep /\ j.targets = k.targets /\ j.read = k.read /\ j.seen = k.seen
      /\ j.found = k.found /\ j.missed = k.missed /\ j.now = k.now /\ j.verdict = k.verdict /\ j.by = k.by /\ j.end = k.end
  BY <1>1, AdvancedIs
<1>3. /\ i \in Nat /\ Len(q) \in Nat /\ q \in Seq(StageNames) /\ Stage(k) = q[i]
      /\ Orderly(k.kind, Handlers[k.kind]) /\ q = Handlers[k.kind].stages
  BY <1>1, StagesAre, HandlerIsOrderly
<1>4. i # Len(q)
  BY <1>3 DEF Orderly
<1>5. H(j) = H(k) /\ Stages(j) = q /\ (Many(j) <=> Many(k)) /\ (Policed(j) <=> Policed(k))
  BY <1>2 DEF H, Stages, Many, Policed
<1>6. j.pc \in 1..Len(q)
  BY <1>1, <1>2, <1>3, <1>4
<1>7. ToCome(k) = {q[n] : n \in i..Len(q)} /\ ToCome(j) = {q[n] : n \in (i + 1)..Len(q)}
  BY <1>2, <1>5 DEF ToCome
<1>8. ToCome(j) \subseteq ToCome(k)
  BY <1>3, <1>7
<1>9. ToCome(k) \subseteq ToCome(j) \cup {Stage(k)}
  <2>1. ASSUME NEW n \in i..Len(q)
        PROVE  n = i \/ n \in (i + 1)..Len(q)
    BY <1>3
  <2> QED
    BY <1>3, <1>7, <2>1
<1>10. "lookup" \in ToSet(Stages(j)) \ ToCome(j) => j.read = Len(j.targets)
  BY <1>2, <1>5, <1>9 DEF CallSound
<1>11. Policed(j) /\ "policy" \notin ToCome(j) =>
       \/ j.by = "skip" \/ j.verdict = "allow"
       \/ j.verdict = "require_approval" /\ j.by \in {"trust", "person"}
  <2>1. "policy" \in ToCome(k) => Stage(k) = "policy" \/ "policy" \in ToCome(j)
    BY <1>9
  <2>2. Policed(k) /\ "policy" \notin ToCome(k) =>
       \/ k.by = "skip" \/ k.verdict = "allow"
       \/ k.verdict = "require_approval" /\ k.by \in {"trust", "person"}
    BY DEF CallSound
  <2> QED
    BY <1>2, <1>5, <2>1, <2>2
<1>12. CallSound(j)
  <2>1. /\ j \in Records /\ j.pc \in 1..Len(Stages(j)) /\ j.read <= Len(j.targets)
        /\ ~Many(j) => Len(j.targets) = 1
        /\ "needs" \in H(j).traits => \A n \in 1..j.read : j.targets[n] \in j.found
    BY <1>2, <1>5, <1>6 DEF CallSound
  <2>2. j.verdict # None => "lookup" \notin ToCome(j)
    BY <1>2, <1>8 DEF CallSound
  <2>3. j.by # "asked" /\ j.end \notin {"ok", "error", "refused", "told"}
    BY <1>2 DEF None
  <2> QED
    BY <1>10, <1>11, <2>1, <2>2, <2>3 DEF CallSound
<1>13. VerdictObeys(j) /\ Absent(j)
  BY <1>2, KeepsVerdict, KeepsAbsent
<1>14. Follows(k, j)
  BY <1>2 DEF Follows
<1> QED
  BY <1>12, <1>13, <1>14

LEMMA EndOK ==
  ASSUME NEW k, CallSound(k), VerdictObeys(k), Absent(k), k.end = None,
         NEW e \in {"ok", "error", "refused", "told"}, e \in {"ok", "error"} <=> Stage(k) = "run",
         NEW j, j = Ends(k, e)
  PROVE  CallSound(j) /\ VerdictObeys(j) /\ Absent(j) /\ (e # "ok" => Follows(k, j))
<1>1. k \in Records /\ k.pc \in 1..Len(Stages(k))
  BY DEF CallSound
<1>2. /\ j \in Records /\ j.end = e /\ j.pc = k.pc
      /\ j.kind = k.kind /\ j.agent = k.agent /\ j.commands = k.commands /\ j.expect = k.expect
      /\ j.keep = k.keep /\ j.targets = k.targets /\ j.read = k.read /\ j.seen = k.seen
      /\ j.found = k.found /\ j.missed = k.missed /\ j.now = k.now /\ j.verdict = k.verdict /\ j.by = k.by
  BY <1>1, EndsIs
<1>3. /\ H(j) = H(k) /\ Stages(j) = Stages(k) /\ (Many(j) <=> Many(k)) /\ (Policed(j) <=> Policed(k))
      /\ Stage(j) = Stage(k) /\ ToCome(j) = ToCome(k)
  BY <1>2 DEF H, Stages, Many, Policed, Stage, ToCome
<1>4. (e \in {"ok", "error"} => Stage(j) = "run") /\ (e \in {"refused", "told"} => Stage(j) # "run")
  BY <1>3
<1>5. CallSound(j)
  BY <1>2, <1>3, <1>4 DEF CallSound
<1>6. VerdictObeys(j) /\ Absent(j)
  BY <1>2, KeepsVerdict, KeepsAbsent
<1>7. e # "ok" => Follows(k, j)
  BY <1>2, <1>3 DEF Follows
<1> QED
  BY <1>5, <1>6, <1>7

LEMMA ByOK ==
  ASSUME NEW k, CallSound(k), VerdictObeys(k), Absent(k), k.end = None, Stage(k) = "policy",
         NEW b \in {"policy", "trust", "person", "skip", "asked"}, 
         b = "asked" => k.verdict = "require_approval" /\ k.kind \notin DryRuns,
         NEW j, j = By(k, b)
  PROVE  CallSound(j) /\ VerdictObeys(j) /\ Absent(j) /\ Follows(k, j)
<1>1. k \in Records /\ k.pc \in 1..Len(Stages(k))
  BY DEF CallSound
<1>2. /\ j \in Records /\ j.by = b /\ j.pc = k.pc
      /\ j.kind = k.kind /\ j.agent = k.agent /\ j.commands = k.commands /\ j.expect = k.expect
      /\ j.keep = k.keep /\ j.targets = k.targets /\ j.read = k.read /\ j.seen = k.seen
      /\ j.found = k.found /\ j.missed = k.missed /\ j.now = k.now /\ j.verdict = k.verdict /\ j.end = k.end
  BY <1>1, ByIs
<1>3. /\ H(j) = H(k) /\ Stages(j) = Stages(k) /\ (Many(j) <=> Many(k)) /\ (Policed(j) <=> Policed(k))
      /\ Stage(j) = Stage(k) /\ ToCome(j) = ToCome(k)
  BY <1>2 DEF H, Stages, Many, Policed, Stage, ToCome
<1>4. "policy" \in ToCome(j)
  BY <1>1, <1>3, ToComeIs
<1>5. CallSound(j)
  BY <1>2, <1>3, <1>4 DEF CallSound
<1>6. VerdictObeys(j) /\ Absent(j)
  BY <1>2, KeepsVerdict, KeepsAbsent
<1>7. Follows(k, j)
  BY <1>2, <1>3 DEF Follows
<1> QED
  BY <1>5, <1>6, <1>7

LEMMA JudgeOK ==
  ASSUME NEW k, CallSound(k), Absent(k), k.end = None, k.by # "asked", Stage(k) = "policy",
         global \in Files, Loaded(k) # BadFile, \A s \in ToSet(k.targets) : k.seen[s] # BadFile,
         NEW now \in Minutes, NEW j, j = Judges(Clocks(k, now), Strictest(Verdicts(k, now)))
  PROVE  /\ CallSound(j) /\ VerdictObeys(j) /\ Absent(j) /\ Follows(k, j)
         /\ j.end = None /\ j.by = k.by /\ Stage(j) = "policy" /\ j.kind = k.kind /\ j.verdict \in Actions
<1>1. k \in Records /\ k.pc \in 1..Len(Stages(k))
  BY DEF CallSound
<1>2. PICK v : v = Strictest(Verdicts(k, now))
  OBVIOUS
<1>3. v \in Actions /\ VerdictObeys(j)
  BY <1>1, <1>2, JudgedObeys
<1>4. /\ j \in Records /\ j.now = now /\ j.verdict = v /\ j.pc = k.pc
      /\ j.kind = k.kind /\ j.agent = k.agent /\ j.commands = k.commands /\ j.expect = k.expect
      /\ j.keep = k.keep /\ j.targets = k.targets /\ j.read = k.read /\ j.seen = k.seen
      /\ j.found = k.found /\ j.missed = k.missed /\ j.by = k.by /\ j.end = k.end
  BY <1>1, <1>2, <1>3, JudgesIs
<1>5. /\ H(j) = H(k) /\ Stages(j) = Stages(k) /\ (Many(j) <=> Many(k)) /\ (Policed(j) <=> Policed(k))
      /\ Stage(j) = Stage(k) /\ ToCome(j) = ToCome(k)
  BY <1>4 DEF H, Stages, Many, Policed, Stage, ToCome
<1>6. "policy" \in ToCome(j) /\ "lookup" \notin ToCome(j)
  BY <1>1, <1>5, ToComeIs
<1>7. CallSound(j)
  BY <1>4, <1>5, <1>6 DEF CallSound
<1>8. Absent(j)
  BY <1>4, KeepsAbsent
<1>9. Follows(k, j)
  BY <1>4, <1>5 DEF Follows
<1> QED
  BY <1>3, <1>4, <1>5, <1>7, <1>8, <1>9

\* A server looked up, that is there or, where the handler goes on, is not.
LEMMA LookedUpOK ==
  ASSUME NEW k, CallSound(k), Absent(k), k.end = None, k.by # "asked", Stage(k) = "lookup",
         k.read # Len(k.targets), NEW s, s = k.targets[k.read + 1],
         NEW j, j \in Records, j.pc = k.pc, j.kind = k.kind, j.commands = k.commands,
         j.expect = k.expect, j.keep = k.keep, j.targets = k.targets, j.verdict = k.verdict, j.by = k.by,
         j.end = k.end, j.read = k.read + 1, k.found \subseteq j.found,
         k.missed \subseteq j.missed,
         s \in j.found \/ ("needs" \notin H(k).traits /\ (s \in j.missed \/ ~servers[s].here))
  PROVE  CallSound(j) /\ VerdictObeys(j) /\ Absent(j) /\ Follows(k, j)
<1>1. k \in Records /\ k.pc \in 1..Len(Stages(k))
  BY DEF CallSound
<1>2. /\ H(j) = H(k) /\ Stages(j) = Stages(k) /\ (Many(j) <=> Many(k)) /\ (Policed(j) <=> Policed(k))
      /\ Stage(j) = Stage(k) /\ ToCome(j) = ToCome(k)
  BY DEF H, Stages, Many, Policed, Stage, ToCome
<1>3. "lookup" \in ToCome(k)
  BY <1>1, ToComeIs
<1>4. j.verdict = None
  BY <1>3 DEF CallSound
<1>5. k.read \in Nat /\ Len(k.targets) \in Nat /\ k.read <= Len(k.targets)
  BY <1>1 DEF CallSound, Records
<1>6. \A n \in 1..j.read : n \in 1..k.read \/ n = k.read + 1
  BY <1>5
<1>7. \A n \in 1..j.read :
        \/ j.targets[n] \in j.found
        \/ "needs" \notin H(j).traits /\ (j.targets[n] \in j.missed \/ ~servers[j.targets[n]].here)
  <2>1. ASSUME NEW n \in 1..k.read
        PROVE  \/ j.targets[n] \in j.found
               \/ "needs" \notin H(j).traits /\ (j.targets[n] \in j.missed \/ ~servers[j.targets[n]].here)
    BY <1>2, <2>1 DEF CallSound, Absent, Reached
  <2> QED
    BY <1>2, <1>6, <2>1
<1>8. j.read <= Len(j.targets)
  BY <1>5
<1>9. CallSound(j)
  <2>1. /\ j.pc \in 1..Len(Stages(j)) /\ (~Many(j) => Len(j.targets) = 1)
    BY <1>2 DEF CallSound
  <2>2. Policed(j) /\ "policy" \notin ToCome(j) =>
          \/ j.by = "skip" \/ j.verdict = "allow"
          \/ j.verdict = "require_approval" /\ j.by \in {"trust", "person"}
    BY <1>2 DEF CallSound
  <2>3. j.by # "asked" /\ j.end \notin {"ok", "error", "refused", "told"}
    BY DEF None
  <2> QED
    BY <1>2, <1>3, <1>4, <1>7, <1>8, <2>1, <2>2, <2>3 DEF CallSound
<1>10. VerdictObeys(j) /\ Absent(j)
  BY <1>4, <1>7 DEF VerdictObeys, Absent, Reached
<1>11. Follows(k, j)
  BY <1>2 DEF Follows
<1> QED
  BY <1>9, <1>10, <1>11

----------------------------------------------------------------------------
\* What a call does to a server.

Steps == {"dial", "open", "uploaded", "sent", "ok", "failed"}
Results == {"zero", "nonzero", "timeout", "lost", "refused", "pty"}
JobStates == {"none", "running", "ran", "done"}

LEMMA ToIs ==
  ASSUME NEW r \in Remotes, NEW x \in Steps, NEW q, q = To(r, x)
  PROVE  /\ q \in Remotes /\ q.step = x /\ q.results = r.results /\ q.runs = r.runs
         /\ q.file = r.file /\ q.job = r.job
BY DEF To, Remotes, Steps

LEMMA RanIs ==
  ASSUME NEW r \in Remotes, NEW n \in Nat, NEW q, q = Ran(r, n)
  PROVE  /\ q \in Remotes /\ q.step = r.step /\ q.results = r.results /\ q.runs = r.runs + n
         /\ q.file = r.file /\ q.job = r.job
<1>1. PICK m \in Nat : m = r.runs + n
  BY DEF Remotes
<1>2. q = [r EXCEPT !.runs = m]
  BY <1>1 DEF Ran
<1> QED
  BY <1>1, <1>2 DEF Remotes

LEMMA AnswersIs ==
  ASSUME NEW r \in Remotes, NEW x \in Results, NEW q, q = Answers(r, x)
  PROVE  /\ q \in Remotes /\ q.step = r.step /\ q.results = Append(r.results, x) /\ q.runs = r.runs
         /\ q.file = r.file /\ q.job = r.job
<1> DEFINE m == Append(r.results, x)
<1>1. m \in Seq(Results)
  <2>1. r.results \in Seq(Results)
    BY DEF Remotes, Results
  <2> QED
    BY <2>1, AppendProperties
<1>2. q = [r EXCEPT !.results = m]
  BY <1>1 DEF Answers
<1> QED
  BY <1>1, <1>2 DEF Remotes, Results

LEMMA FileIsIs ==
  ASSUME NEW r \in Remotes, NEW f \in BOOLEAN, NEW q, q = FileIs(r, f)
  PROVE  /\ q \in Remotes /\ q.step = r.step /\ q.results = r.results /\ q.runs = r.runs
         /\ q.file = f /\ q.job = r.job
BY DEF FileIs, Remotes

LEMMA JobIs ==
  ASSUME NEW r \in Remotes, NEW x \in JobStates, NEW q, q = Job(r, x)
  PROVE  /\ q \in Remotes /\ q.step = r.step /\ q.results = r.results /\ q.runs = r.runs
         /\ q.file = r.file /\ q.job = x
BY DEF Job, Remotes, JobStates

\* The commands that ran are counted by the results that are not a refused session.
LEMMA RunsOfAppend ==
  ASSUME NEW q \in Seq(Results), NEW x \in Results
  PROVE  RunsOf(Append(q, x)) = RunsOf(q) + Begun(x)
<1> DEFINE p == Append(q, x)
           I(s) == {i \in DOMAIN s : s[i] # "refused"}
<1>1. /\ p \in Seq(Results) /\ Len(q) \in Nat /\ DOMAIN q = 1..Len(q)
      /\ DOMAIN p = 1..(Len(q) + 1) /\ \A i \in 1..Len(q) : p[i] = q[i]
      /\ p[Len(q) + 1] = x
  OBVIOUS
<1>2. IsFiniteSet(I(q)) /\ Cardinality(I(q)) \in Nat
  <2>1. I(q) \in SUBSET (1..Len(q)) /\ IsFiniteSet(1..Len(q))
    BY <1>1, FS_Interval
  <2> QED
    BY <2>1, FS_Subset, FS_CardinalityType
<1>3. RunsOf(q) = Cardinality(I(q)) /\ RunsOf(p) = Cardinality(I(p))
  BY DEF RunsOf
<1>4. PICK n : n = Len(q) + 1
  OBVIOUS
<1>5. n \notin I(q) /\ 1..n = 1..Len(q) \cup {n}
  BY <1>1, <1>4
<1>6. CASE x = "refused"
  <2>1. I(p) = I(q)
    BY <1>1, <1>4, <1>5, <1>6
  <2>2. Begun(x) = 0
    BY <1>6 DEF Begun
  <2> QED
    <3>1. RunsOf(p) = RunsOf(q)
      BY <1>3, <2>1
    <3>2. RunsOf(q) \in Nat
      BY <1>2, <1>3
    <3> HIDE DEF p
    <3> QED
      BY <2>2, <3>1, <3>2 DEF p
<1>7. CASE x # "refused"
  <2>1. I(p) = I(q) \cup {n}
    BY <1>1, <1>4, <1>5, <1>7
  <2>2. Begun(x) = 1
    BY <1>7 DEF Begun
  <2>3. Cardinality(I(q) \cup {n}) = Cardinality(I(q)) + 1
    BY <1>2, <1>5, FS_AddElement
  <2> QED
    BY <1>3, <2>1, <2>2, <2>3
<1> QED
  BY <1>6, <1>7

\* After a lost connection a session is refused.
LEMMA AfterLost ==
  ASSUME NEW q \in Seq(Results), NEW x \in NextResults("lost" \in ToSet(q)), NoneAfterLost(q)
  PROVE  x \in Results /\ Begun(x) \in Nat /\ NoneAfterLost(Append(q, x))
<1> DEFINE p == Append(q, x)
<1>1. /\ Len(q) \in Nat /\ DOMAIN q = 1..Len(q)
      /\ DOMAIN p = 1..(Len(q) + 1) /\ \A i \in 1..Len(q) : p[i] = q[i]
      /\ p[Len(q) + 1] = x
  OBVIOUS
<1>2. x \in Results /\ Begun(x) \in Nat
  BY DEF NextResults, Results, Begun
<1>3. ASSUME NEW i \in DOMAIN p, NEW j \in DOMAIN p, i < j, p[i] = "lost"
      PROVE  p[j] = "refused"
  <2>1. i \in 1..Len(q)
    BY <1>1, <1>3
  <2>2. "lost" \in ToSet(q)
    BY <1>1, <1>3, <2>1 DEF ToSet
  <2>3. x = "refused"
    BY <2>2 DEF NextResults
  <2>4. CASE j \in 1..Len(q)
    BY <1>1, <1>3, <2>1, <2>4 DEF NoneAfterLost
  <2>5. CASE j = Len(q) + 1
    BY <1>1, <2>3, <2>5
  <2> QED
    BY <1>1, <2>4, <2>5
<1>4. NoneAfterLost(p)
  BY <1>3 DEF NoneAfterLost
<1> QED
  BY <1>2, <1>4

LEMMA AtIs ==
  ASSUME NEW k, CallSound(k), NEW x, At(k, x)
  PROVE  /\ k.end = None /\ k.by # "asked" /\ Stage(k) = x /\ k \in Records
         /\ k.pc \in 1..Len(Stages(k))
BY DEF At, Running, CallSound, Stage, Stages

\* At the last stage a server that the handler reaches has been found.
LEMMA ReachedIsFound ==
  ASSUME NEW k, CallSound(k), Absent(k), Stage(k) = "run", Policed(k), NEW s \in ToSet(k.targets),
         Rereads(k) => servers[s].here
  PROVE  s \in Reached(k)
<1>1. k \in Records /\ k.pc \in 1..Len(Stages(k)) /\ k.kind \in Kind
  BY DEF CallSound, Records, Kind
<1>2. Fitting(k.kind, H(k))
  BY <1>1, HandlerFits DEF H
<1>3. "lookup" \in ToSet(Stages(k)) /\ H(k).how = "commands"
  BY <1>2 DEF Fitting, Policed, Stages
<1>4. k.read = Len(k.targets)
  BY <1>1, <1>3, ToComeIs DEF CallSound
<1>5. PICK n \in 1..k.read : s = k.targets[n]
  BY <1>1, <1>4 DEF ToSet, Records
<1>6. CASE k.kind = "ssh_cmd"
  BY <1>2, <1>5, <1>6 DEF Fitting, CallSound, Reached
<1>7. CASE k.kind # "ssh_cmd"
  BY <1>3, <1>5, <1>7 DEF Rereads, Absent
<1> QED
  BY <1>6, <1>7

LEMMA RunOK ==
  ASSUME NEW k, CallSound(k), At(k, "run"), NEW s \in ToSet(k.targets), NEW r \in Remotes,
         Policed(k) /\ (r.step = "open" \/ r.runs > 0) => s \in Reached(k),
         IF H(k).how = "script" THEN ScriptOK(k, r) ELSE NoScript(r),
         H(k).how = "commands" /\ ~k.expect => CommandsOK(k, r)
  PROVE  RemoteSound(k, s, r)
<1>1. k.end = None /\ Stage(k) = "run"
  BY AtIs
<1> QED
  BY <1>1 DEF RemoteSound, None

----------------------------------------------------------------------------
\* A step changes the record of one call and what that call did, or neither.

LEMMA CallFrame ==
  ASSUME NEW k, UNCHANGED <<global, servers>>
  PROVE  CallOK(k)' <=> CallOK(k)
BY DEF CallOK, Absent, VerdictObeys, PolicyFor, Loaded

LEMMA CallPrime ==
  ASSUME NEW d, NEW k, call'[d] = k
  PROVE  CallOK(call[d])' <=> CallOK(k)'
BY DEF CallOK, Absent, VerdictObeys, PolicyFor, Loaded

LEMMA TailFrame ==
  ASSUME UNCHANGED <<tail, audit, clock>>
  PROVE  TailOK' <=> TailOK
BY DEF TailOK, TailShowsEachOnce

LEMMA SettingFrame ==
  ASSUME UNCHANGED <<world, global, members, servers>>
  PROVE  SettingOK' <=> SettingOK
BY DEF SettingOK

LEMMA Step ==
  ASSUME IInv, NEW c \in Calls, NEW j, Becomes(c, j), CallOK(j),
         NEW R \in [Ids -> Remotes], remote' = [remote EXCEPT ![c] = R],
         \A s \in Ids : RemoteOK(j, s, R[s]),
         UNCHANGED <<world, registry>>, TailOK'
  PROVE  IInv'
<1>1. UNCHANGED <<world, global, servers, members>>
  BY DEF registry
<1>2. SettingOK'
  BY <1>1, SettingFrame DEF IInv
<1>3. call' = [d \in Calls |-> call'[d]] /\ call'[c] = j /\ \A d \in Calls : d # c => call'[d] = call[d]
  BY DEF IInv, Becomes
<1>4. ASSUME NEW d \in Calls
      PROVE  CallOK(call[d])'
  <2>1. CASE d = c
    BY <1>1, <1>3, <2>1, CallPrime, CallFrame
  <2>2. CASE d # c
    <3>1. CallOK(call[d])
      BY DEF IInv
    <3>2. call'[d] = call[d]
      BY <1>3, <2>2
    <3>3. PICK k : k = call[d]
      OBVIOUS
    <3>4. CallOK(k)
      BY <3>1, <3>3
    <3> QED
      BY <1>1, <3>2, <3>3, <3>4, CallPrime, CallFrame
  <2> QED
    BY <2>1, <2>2
<1>5. remote' \in [Calls -> [Ids -> Remotes]] /\ remote'[c] = R
      /\ \A d \in Calls : d # c => remote'[d] = remote[d]
  BY DEF IInv
<1>6. ASSUME NEW d \in Calls, NEW s \in Ids
      PROVE  RemoteOK(call[d], s, remote[d][s])'
  BY <1>3, <1>5 DEF IInv
<1> QED
  BY <1>2, <1>3, <1>4, <1>5, <1>6 DEF IInv

LEMMA Moves ==
  ASSUME IInv, NEW c \in Calls, NEW j, Becomes(c, j), CallSound(j), VerdictObeys(j), Absent(j),
         \A s \in Ids : RemoteSound(j, s, remote[c][s]), j # NoCall,
         UNCHANGED <<world, registry, remote>>, TailOK'
  PROVE  IInv'
<1>1. PICK R : R = remote[c]
  OBVIOUS
<1>2. R \in [Ids -> Remotes] /\ remote' = [remote EXCEPT ![c] = R]
  BY <1>1 DEF IInv
<1>3. CallOK(j) /\ \A s \in Ids : RemoteOK(j, s, R[s])
  BY <1>1 DEF CallOK, RemoteOK
<1> QED
  BY <1>2, <1>3, Step

LEMMA IsCalled ==
  ASSUME IInv, NEW c \in Calls, NEW k, k = call[c], k # NoCall
  PROVE  /\ CallSound(k) /\ VerdictObeys(k) /\ Absent(k)
         /\ \A s \in Ids : RemoteSound(k, s, remote[c][s]) /\ remote[c][s] \in Remotes
<1>1. CallOK(k)
  BY DEF IInv
<1>2. \A s \in Ids : RemoteOK(k, s, remote[c][s])
  BY DEF IInv
<1> QED
  BY <1>1, <1>2 DEF CallOK, RemoteOK, RemoteSound

LEMMA NoCallIs ==
  /\ NoCall.pc = 0 /\ NoCall.kind = None /\ NoCall.verdict = None /\ NoCall.end = None
  /\ \A k : CallSound(k) => k # NoCall
<1>1. NoCall.pc = 0 /\ NoCall.kind = None /\ NoCall.verdict = None /\ NoCall.end = None
  BY DEF NoCall, NewCall
<1>2. ASSUME NEW k, CallSound(k)
      PROVE  k # NoCall
  <2>1. k.pc >= 1
    BY <1>2 DEF CallSound, Records
  <2> QED
    BY <1>1, <2>1
<1> QED
  BY <1>1, <1>2

LEMMA AtCall ==
  ASSUME IInv, NEW c \in Calls, NEW k, k = call[c], NEW x, At(k, x)
  PROVE  /\ k # NoCall /\ CallSound(k) /\ VerdictObeys(k) /\ Absent(k)
         /\ k.end = None /\ k.by # "asked" /\ Stage(k) = x /\ k \in Records
         /\ \A s \in Ids : RemoteSound(k, s, remote[c][s]) /\ remote[c][s] \in Remotes
<1>1. k # NoCall
  BY NoCallIs DEF At, Running
<1> QED
  BY <1>1, IsCalled, AtIs

\* The call goes on, and what it did goes with it.
LEMMA GoesOn ==
  ASSUME IInv, NEW c \in Calls, NEW k, k = call[c], k # NoCall, NEW j, Becomes(c, j),
         CallSound(j), VerdictObeys(j), Absent(j), Follows(k, j),
         UNCHANGED <<world, registry, remote>>, TailOK'
  PROVE  IInv'
<1>1. \A s \in Ids : RemoteSound(j, s, remote[c][s])
  BY IsCalled, FollowOK
<1>2. j # NoCall
  BY NoCallIs
<1> QED
  BY <1>1, <1>2, Moves

LEMMA Refuses ==
  ASSUME IInv, NEW c \in Calls, NEW k, k = call[c], k # NoCall, k.end = None, Stage(k) # "run", Refuse(c),
         UNCHANGED <<world, registry, remote>>, TailOK'
  PROVE  IInv'
<1>1. CallSound(k) /\ VerdictObeys(k) /\ Absent(k)
  BY IsCalled
<1>2. PICK j : j = Ends(k, "refused")
  OBVIOUS
<1>3. CallSound(j) /\ VerdictObeys(j) /\ Absent(j) /\ Follows(k, j)
  BY <1>1, <1>2, EndOK
<1>4. Becomes(c, j)
  BY <1>2 DEF Refuse
<1> QED
  BY <1>3, <1>4, GoesOn

LEMMA RemoteStep ==
  ASSUME IInv, NEW c \in Calls, NEW s \in Ids, NEW k, k = call[c], k # NoCall, NEW r \in Remotes,
         Leaves(c, s, r), RemoteSound(k, s, r), UNCHANGED Local
  PROVE  IInv'
<1>1. CallSound(k) /\ VerdictObeys(k) /\ Absent(k) /\ \A t \in Ids : RemoteSound(k, t, remote[c][t])
  BY IsCalled
<1>2. PICK R : R = [remote[c] EXCEPT ![s] = r]
  OBVIOUS
<1>3. remote' = [remote EXCEPT ![c] = R]
  BY <1>2 DEF Leaves
<1>4. R \in [Ids -> Remotes] /\ \A t \in Ids : RemoteSound(k, t, R[t])
  BY <1>1, <1>2 DEF IInv
<1>5. CallOK(k) /\ \A t \in Ids : RemoteOK(k, t, R[t])
  BY <1>1, <1>4 DEF CallOK, RemoteOK
<1>6. Becomes(c, k)
  BY DEF Becomes, IInv, Local
<1>7. TailOK' /\ UNCHANGED <<world, registry>>
  BY TailFrame DEF IInv, Local, log
<1> QED
  BY <1>3, <1>4, <1>5, <1>6, <1>7, Step

----------------------------------------------------------------------------
\* The actions on the record of a call.

LEMMA UntouchedIs ==
  /\ Untouched \in Remotes /\ Untouched.step = "dial" /\ Untouched.job = "none" /\ Untouched.runs = 0
  /\ Untouched.results = <<>> /\ RunsOf(<<>>) = 0 /\ NoneAfterLost(<<>>)
<1>1. {i \in DOMAIN <<>> : <<>>[i] # "refused"} = {}
  OBVIOUS
<1>2. RunsOf(<<>>) = 0
  BY <1>1, FS_EmptySet DEF RunsOf
<1>3. NoneAfterLost(<<>>)
  BY DEF NoneAfterLost
<1> QED
  BY <1>2, <1>3 DEF Untouched, Remotes

LEMMA InOrderIs ==
  ASSUME NEW S \in SUBSET Ids, NEW q \in InOrder(S)
  PROVE  q \in Seq(Ids)
<1>1. Cardinality(S) \in Nat
  BY AgentAssumption, FS_Subset, FS_CardinalityType
<1>2. q \in [1..Cardinality(S) -> Ids]
  BY DEF InOrder
<1> QED
  BY <1>1, <1>2, IsASeq

LEMMA BeginStep ==
  ASSUME IInv, NEW c \in Calls, Begin(c)
  PROVE  IInv'
<1>1. PICK kind \in Kinds[world], cmds \in Asked[world], pty \in BOOLEAN, keep \in BOOLEAN,
           agent \in AgentIds \cup {None}, chosen \in SUBSET Ids, s \in Ids :
             \E ts \in Addressed(kind, chosen, s) : Becomes(c, NewCall(1, kind, agent, cmds, pty, keep, ts))
  BY DEF Begin
<1>0. PICK ts \in Addressed(kind, chosen, s) : Becomes(c, NewCall(1, kind, agent, cmds, pty, keep, ts))
  BY <1>1
<1>2. PICK j : j = NewCall(1, kind, agent, cmds, pty, keep, ts)
  OBVIOUS
<1>3. /\ world \in Worlds /\ members \subseteq Ids
  BY DEF IInv, SettingOK
<1>4. kind \in Kind /\ cmds \in Seq(Cmds)
  BY <1>3, AgentAssumption DEF Kind
<1>5. ts \in Seq(Ids) /\ ("many" \notin Handlers[kind].traits => Len(ts) = 1)
  <2>1. CASE "many" \in Handlers[kind].traits
    <3>1. members \cap chosen \in SUBSET Ids /\ ts \in InOrder(members \cap chosen)
      BY <1>0, <1>3, <2>1 DEF Addressed
    <3> QED
      BY <2>1, <3>1, InOrderIs
  <2>2. CASE "many" \notin Handlers[kind].traits
    <3>1. ts = <<s>>
      BY <1>0, <2>2 DEF Addressed
    <3> QED
      BY <2>2, <3>1
  <2> QED
    BY <2>1, <2>2
<1>6. /\ j.pc = 1 /\ j.kind = kind /\ j.agent = agent /\ j.commands = cmds /\ j.expect = pty
      /\ j.keep = keep /\ j.targets = ts /\ j.read = 0 /\ j.seen = [t \in Ids |-> NoFile]
      /\ j.found = {} /\ j.missed = {} /\ j.now = 0 /\ j.verdict = None /\ j.by = None /\ j.end = None
  BY <1>2 DEF NewCall
<1>7. j \in Records
  <2>1. 0 \in 0..Day - 1
    BY AgentAssumption
  <2>2. [t \in Ids |-> NoFile] \in [Ids -> Files]
    BY DEF Files
  <2> QED
    BY <1>2, <1>4, <1>5, <2>1, <2>2 DEF NewCall, Records, Kind
<1>8. /\ H(j) = Handlers[kind] /\ Orderly(kind, Handlers[kind]) /\ Fitting(kind, Handlers[kind])
      /\ Stages(j) = Handlers[kind].stages
  BY <1>4, <1>6, HandlerIsOrderly, HandlerFits DEF H, Stages
<1>9. /\ Stages(j) \in Seq(StageNames) /\ j.pc \in 1..Len(Stages(j))
      /\ ToCome(j) = ToSet(Stages(j))
  BY <1>6, <1>8 DEF Orderly, ToCome, ToSet
<1>10. Policed(j) => "policy" \in ToCome(j)
  BY <1>6, <1>8, <1>9 DEF Policed, Fitting
<1>11. CallSound(j)
  <2>1. j.read <= Len(j.targets) /\ (~Many(j) => Len(j.targets) = 1)
    BY <1>5, <1>6, <1>8 DEF Many
  <2>2. \A n \in 1..j.read : FALSE
    BY <1>6
  <2>3. j.verdict = None /\ j.by # "asked" /\ j.end \notin {"ok", "error", "refused", "told"}
    BY <1>6 DEF None
  <2> QED
    BY <1>7, <1>9, <1>10, <2>1, <2>2, <2>3 DEF CallSound
<1>12. VerdictObeys(j) /\ Absent(j)
  BY <1>6 DEF VerdictObeys, Absent
<1>13. call[c] = NoCall
  <2>1. None \notin Kind
    BY KindIs DEF None
  <2>2. call[c].kind = None
    BY DEF Begin
  <2>3. call[c] = NoCall \/ CallSound(call[c])
    BY DEF IInv, CallOK
  <2> QED
    BY <2>1, <2>2, <2>3 DEF CallSound, Records, Kind
<1>14. \A t \in Ids : remote[c][t] = Untouched
  BY <1>13 DEF IInv, RemoteOK
<1>15. \A t : RemoteSound(j, t, Untouched)
  <2>1. ScriptOK(j, Untouched)
    BY UntouchedIs DEF ScriptOK, Good
  <2>4. NoScript(Untouched)
    BY UntouchedIs DEF NoScript
  <2>2. CommandsOK(j, Untouched)
    BY <1>4, <1>6, UntouchedIs DEF CommandsOK
  <2>3. j.end # "ok"
    BY <1>6 DEF None
  <2> QED
    BY <2>1, <2>2, <2>3, <2>4, UntouchedIs DEF RemoteSound
<1>16. j # NoCall
  BY <1>11, NoCallIs
<1>17. UNCHANGED <<world, registry, remote>> /\ TailOK'
  BY TailFrame DEF Begin, log, IInv
<1> QED
  BY <1>0, <1>2, <1>11, <1>12, <1>14, <1>15, <1>16, <1>17, Moves

LEMMA LookUpStep ==
  ASSUME IInv, NEW c \in Calls, LookUp(c)
  PROVE  IInv'
<1>1. PICK k, s : k = call[c] /\ s = k.targets[k.read + 1]
  OBVIOUS
<1>2. At(k, "lookup")
  BY <1>1 DEF LookUp
<1>3. /\ k # NoCall /\ CallSound(k) /\ VerdictObeys(k) /\ Absent(k)
      /\ k.end = None /\ k.by # "asked" /\ Stage(k) = "lookup" /\ k \in Records
  BY <1>1, <1>2, AtCall
<1>4. UNCHANGED <<world, registry, remote>> /\ TailOK'
  BY TailFrame DEF LookUp, log, IInv
<1>5. CASE k.read = Len(k.targets)
  <2>1. Advance(c)
    BY <1>1, <1>5 DEF LookUp
  <2>2. PICK j : j = Advanced(k)
    OBVIOUS
  <2>3. CallSound(j) /\ VerdictObeys(j) /\ Absent(j) /\ Follows(k, j)
    BY <1>3, <1>5, <2>2, AdvanceOK
  <2> QED
    BY <1>1, <1>3, <1>4, <2>1, <2>2, <2>3, GoesOn DEF Advance
<1>6. CASE Refuse(c)
  BY <1>1, <1>3, <1>4, <1>6, Refuses
<1>0. k.read # Len(k.targets) => s \in Ids
  <2>1. k.targets \in Seq(Ids) /\ k.read \in Nat /\ k.read <= Len(k.targets)
    BY <1>3 DEF CallSound, Records
  <2>2. k.read # Len(k.targets) => k.read + 1 \in 1..Len(k.targets)
    BY <2>1
  <2> QED
    BY <1>1, <2>1, <2>2
<1>7. CASE /\ k.read # Len(k.targets) /\ servers[s].here
           /\ Becomes(c, Reads(Finds(Remembers(k, s, servers[s].policy), s)))
  <2>1. s \in Ids
    BY <1>0, <1>7
  <2>2. servers[s].policy \in Files
    BY <2>1, AgentAssumption DEF IInv, SettingOK, Files
  <2>3. PICK m : m = Finds(Remembers(k, s, servers[s].policy), s)
    OBVIOUS
  <2>4. /\ m \in Records /\ m.found = k.found \cup {s} /\ m.missed = k.missed /\ m.pc = k.pc /\ m.read = k.read
        /\ m.kind = k.kind /\ m.agent = k.agent /\ m.commands = k.commands /\ m.expect = k.expect
        /\ m.keep = k.keep /\ m.targets = k.targets
        /\ m.now = k.now /\ m.verdict = k.verdict /\ m.by = k.by /\ m.end = k.end
    BY <1>3, <2>1, <2>2, <2>3, FindsIs
  <2>5. PICK j : j = Reads(m)
    OBVIOUS
  <2>6. CallSound(j) /\ VerdictObeys(j) /\ Absent(j) /\ Follows(k, j)
    <3>1. /\ j \in Records /\ j.read = m.read + 1 /\ j.pc = m.pc
          /\ j.kind = m.kind /\ j.commands = m.commands /\ j.expect = m.expect
          /\ j.keep = m.keep /\ j.targets = m.targets /\ j.found = m.found /\ j.missed = m.missed
          /\ j.verdict = m.verdict /\ j.by = m.by /\ j.end = m.end
      BY <2>4, <2>5, ReadsIs
    <3>2. s \in j.found /\ k.found \subseteq j.found /\ k.missed \subseteq j.missed
      BY <2>4, <3>1
    <3>3. /\ j \in Records /\ j.read = k.read + 1 /\ j.pc = k.pc
          /\ j.kind = k.kind /\ j.commands = k.commands /\ j.expect = k.expect
          /\ j.keep = k.keep /\ j.targets = k.targets
          /\ j.verdict = k.verdict /\ j.by = k.by /\ j.end = k.end
      BY <2>4, <3>1
    <3> QED
      BY <1>1, <1>3, <1>7, <3>2, <3>3, LookedUpOK
  <2> QED
    BY <1>1, <1>3, <1>4, <1>7, <2>3, <2>5, <2>6, GoesOn
<1>8. CASE k.read # Len(k.targets) /\ ~servers[s].here /\ "needs" \notin H(k).traits /\ Becomes(c, Reads(k))
  <2>1. PICK j : j = Reads(k)
    OBVIOUS
  <2>2. /\ j \in Records /\ j.read = k.read + 1 /\ j.pc = k.pc
        /\ j.kind = k.kind /\ j.commands = k.commands /\ j.expect = k.expect
        /\ j.keep = k.keep /\ j.targets = k.targets /\ j.found = k.found /\ j.missed = k.missed
        /\ j.verdict = k.verdict /\ j.by = k.by /\ j.end = k.end
    BY <1>3, <2>1, ReadsIs
  <2>3. CallSound(j) /\ VerdictObeys(j) /\ Absent(j) /\ Follows(k, j)
    BY <1>1, <1>3, <1>8, <2>2, LookedUpOK
  <2> QED
    BY <1>1, <1>3, <1>4, <1>8, <2>1, <2>3, GoesOn
<1>9. CASE k.read # Len(k.targets) /\ "needs" \notin H(k).traits /\ Becomes(c, Reads(Misses(k, s)))
  <2>1. PICK m : m = Misses(k, s)
    OBVIOUS
  <2>2. /\ m \in Records /\ m.found = k.found /\ m.missed = k.missed \cup {s} /\ m.pc = k.pc
        /\ m.read = k.read /\ m.kind = k.kind /\ m.commands = k.commands /\ m.expect = k.expect
        /\ m.keep = k.keep /\ m.targets = k.targets
        /\ m.verdict = k.verdict /\ m.by = k.by /\ m.end = k.end
    BY <1>0, <1>3, <1>9, <2>1, MissesIs
  <2>3. PICK j : j = Reads(m)
    OBVIOUS
  <2>4. /\ j \in Records /\ j.read = m.read + 1 /\ j.pc = m.pc
        /\ j.kind = m.kind /\ j.commands = m.commands /\ j.expect = m.expect
        /\ j.keep = m.keep /\ j.targets = m.targets /\ j.found = m.found /\ j.missed = m.missed
        /\ j.verdict = m.verdict /\ j.by = m.by /\ j.end = m.end
    BY <2>2, <2>3, ReadsIs
  <2>5. k.found \subseteq j.found /\ k.missed \subseteq j.missed /\ s \in j.missed
    BY <2>2, <2>4
  <2>6. /\ j \in Records /\ j.read = k.read + 1 /\ j.pc = k.pc
        /\ j.kind = k.kind /\ j.commands = k.commands /\ j.expect = k.expect
        /\ j.keep = k.keep /\ j.targets = k.targets
        /\ j.verdict = k.verdict /\ j.by = k.by /\ j.end = k.end
    BY <2>2, <2>4
  <2>7. CallSound(j) /\ VerdictObeys(j) /\ Absent(j) /\ Follows(k, j)
    BY <1>1, <1>3, <1>9, <2>5, <2>6, LookedUpOK
  <2> QED
    BY <1>1, <1>3, <1>4, <1>9, <2>1, <2>3, <2>7, GoesOn
<1>10. H(Misses(k, s)) = H(k)
  BY DEF H, Misses
<1>11. CASE k.read # Len(k.targets) /\ ~servers[s].here /\ Without(c, k)
  BY <1>6, <1>8, <1>11 DEF Without
<1>12. CASE k.read # Len(k.targets) /\ Without(c, Misses(k, s))
  BY <1>6, <1>9, <1>10, <1>12 DEF Without
<1> QED
  BY <1>1, <1>5, <1>6, <1>7, <1>11, <1>12 DEF LookUp

LEMMA AuditGrows ==
  ASSUME TailOK, audit' = Append(audit, clock), UNCHANGED <<clock, tail>>
  PROVE  TailOK'
<1>1. audit \in Seq(Nat) /\ clock \in Nat /\ tail.seen <= Len(audit) /\ tail.seen \in Nat
  BY DEF TailOK
<1>2. audit' \in Seq(Nat) /\ Len(audit') = Len(audit) + 1
  BY <1>1
<1>3. tail.seen <= Len(audit')
  BY <1>1, <1>2
<1> QED
  BY <1>1, <1>2, <1>3 DEF TailOK, TailShowsEachOnce

LEMMA WriteAuditStep ==
  ASSUME IInv, NEW c \in Calls, WriteAudit(c)
  PROVE  IInv'
<1>1. PICK k, j : k = call[c] /\ j = Advanced(k)
  OBVIOUS
<1>2. /\ k # NoCall /\ CallSound(k) /\ VerdictObeys(k) /\ Absent(k)
      /\ k.end = None /\ k.by # "asked" /\ Stage(k) = "audit"
  BY <1>1, AtCall DEF WriteAudit
<1>3. CallSound(j) /\ VerdictObeys(j) /\ Absent(j) /\ Follows(k, j)
  BY <1>1, <1>2, AdvanceOK
<1>4. TailOK'
  <2>1. CASE audit' = Append(audit, clock)
    BY <2>1, AuditGrows DEF WriteAudit, IInv
  <2>2. CASE UNCHANGED audit
    BY <2>2, TailFrame DEF WriteAudit, IInv
  <2> QED
    BY <2>1, <2>2 DEF WriteAudit
<1>5. UNCHANGED <<world, registry, remote>> /\ Becomes(c, j)
  BY <1>1 DEF WriteAudit, Advance
<1> QED
  BY <1>1, <1>2, <1>3, <1>4, <1>5, GoesOn

LEMMA FollowsOn ==
  ASSUME NEW k, NEW i, NEW j, Follows(k, i), Follows(i, j)
  PROVE  Follows(k, j)
BY DEF Follows

\* A policy, a window or a person lets the call pass.
LEMMA PassOK ==
  ASSUME NEW k, CallSound(k), VerdictObeys(k), Absent(k), k.end = None, Stage(k) = "policy",
         k.kind \notin DryRuns, NEW b \in {"policy", "trust", "person", "skip"},
         Policed(k) => \/ b = "skip" \/ k.verdict = "allow"
                       \/ k.verdict = "require_approval" /\ b \in {"trust", "person"},
         NEW j, j = Advanced(By(k, b))
  PROVE  CallSound(j) /\ VerdictObeys(j) /\ Absent(j) /\ Follows(k, j)
<1>1. PICK m : m = By(k, b)
  OBVIOUS
<1>2. CallSound(m) /\ VerdictObeys(m) /\ Absent(m) /\ Follows(k, m)
  BY <1>1, ByOK
<1>3. k \in Records
  BY DEF CallSound
<1>4. m.by = b /\ m.pc = k.pc /\ m.kind = k.kind /\ m.verdict = k.verdict /\ m.end = k.end
  BY <1>1, <1>3, ByIs
<1>5. Stage(m) = "policy" /\ (Policed(m) <=> Policed(k))
  BY <1>4 DEF Stage, Stages, H, Policed
<1>6. m.by # "asked" /\ m.end = None
  BY <1>4
<1>7. CallSound(j) /\ VerdictObeys(j) /\ Absent(j) /\ Follows(m, j)
  BY <1>1, <1>2, <1>4, <1>5, <1>6, AdvanceOK
<1> QED
  BY <1>2, <1>7, FollowsOn

LEMMA DecideStep ==
  ASSUME IInv, NEW c \in Calls, Decide(c)
  PROVE  IInv'
<1>1. PICK k : k = call[c]
  OBVIOUS
<1>2. /\ k # NoCall /\ CallSound(k) /\ VerdictObeys(k) /\ Absent(k)
      /\ k.end = None /\ k.by # "asked" /\ Stage(k) = "policy" /\ k \in Records
  BY <1>1, AtCall DEF Decide
<1>3. UNCHANGED <<world, registry, remote>> /\ TailOK'
  BY TailFrame DEF Decide, log, IInv
<1>4. global \in Files
  BY AgentAssumption DEF IInv, SettingOK
<1>5. CASE Refuse(c)
  BY <1>1, <1>2, <1>3, <1>5, Refuses
<1>6. CASE Skips(k) /\ Becomes(c, Advanced(By(k, "skip")))
  <2>1. PICK j : j = Advanced(By(k, "skip"))
    OBVIOUS
  <2>2. k.kind \notin DryRuns
    BY <1>6 DEF Skips, DryRuns
  <2>3. CallSound(j) /\ VerdictObeys(j) /\ Absent(j) /\ Follows(k, j)
    BY <1>2, <2>1, <2>2, PassOK
  <2> QED
    BY <1>1, <1>2, <1>3, <1>6, <2>1, <2>3, GoesOn
<1>7. ASSUME NEW now \in Minutes, Loaded(k) # BadFile, \A s \in ToSet(k.targets) : k.seen[s] # BadFile,
             NEW m, m = Judges(Clocks(k, now), Strictest(Verdicts(k, now))),
             IF k.kind \in DryRuns THEN Becomes(c, Ends(m, "told")) ELSE ApplyPolicyResult(c, m)
      PROVE  IInv'
  <2>1. /\ CallSound(m) /\ VerdictObeys(m) /\ Absent(m) /\ Follows(k, m)
        /\ m.end = None /\ m.by = k.by /\ Stage(m) = "policy" /\ m.kind = k.kind /\ m.verdict \in Actions
    BY <1>2, <1>4, <1>7, JudgeOK
  <2>2. ASSUME NEW j, CallSound(j), VerdictObeys(j), Absent(j), Follows(m, j), Becomes(c, j)
        PROVE  IInv'
    BY <1>1, <1>2, <1>3, <2>1, <2>2, FollowsOn, GoesOn
  <2>3. ASSUME NEW e \in {"refused", "told"}, Becomes(c, Ends(m, e))
        PROVE  IInv'
    <3>1. PICK j : j = Ends(m, e)
      OBVIOUS
    <3>2. CallSound(j) /\ VerdictObeys(j) /\ Absent(j) /\ Follows(m, j)
      BY <2>1, <3>1, EndOK
    <3> QED
      BY <2>2, <2>3, <3>1, <3>2
  <2>4. ASSUME NEW b \in {"policy", "trust", "person", "skip"}, Becomes(c, Advanced(By(m, b))),
               m.kind \notin DryRuns,
               m.verdict = "allow" \/ (m.verdict = "require_approval" /\ b \in {"trust", "person"})
        PROVE  IInv'
    <3>1. PICK j : j = Advanced(By(m, b))
      OBVIOUS
    <3>2. CallSound(j) /\ VerdictObeys(j) /\ Absent(j) /\ Follows(m, j)
      BY <2>1, <2>4, <3>1, PassOK
    <3> QED
      BY <2>2, <2>4, <3>1, <3>2
  <2>5. CASE k.kind \in DryRuns
    BY <1>7, <2>3, <2>5
  <2>6. CASE k.kind \notin DryRuns
    <3>1. Becomes(c, IF m.verdict = "deny" THEN Ends(m, "refused")
                     ELSE IF m.verdict = "allow" THEN Advanced(By(m, "policy"))
                     ELSE IF m.kind # "ssh_cmd" /\ TrustScopes(m) \cap trust # {} THEN Advanced(By(m, "trust"))
                     ELSE By(m, "asked"))
      BY <1>7, <2>6 DEF ApplyPolicyResult
    <3>2. CASE m.verdict = "deny"
      <4>1. Becomes(c, Ends(m, "refused"))
        BY <3>1, <3>2
      <4> QED
        BY <2>3, <4>1
    <3>3. CASE m.verdict = "allow"
      <4>1. Becomes(c, Advanced(By(m, "policy")))
        BY <3>1, <3>3
      <4> QED
        BY <2>1, <2>4, <2>6, <3>3, <4>1
    <3>4. CASE m.verdict = "require_approval"
      <4>1. CASE m.kind # "ssh_cmd" /\ TrustScopes(m) \cap trust # {}
        <5>1. Becomes(c, Advanced(By(m, "trust")))
          BY <3>1, <3>4, <4>1
        <5> QED
          BY <2>1, <2>4, <2>6, <3>4, <5>1
      <4>2. CASE ~(m.kind # "ssh_cmd" /\ TrustScopes(m) \cap trust # {})
        <5>1. PICK j : j = By(m, "asked")
          OBVIOUS
        <5>2. Becomes(c, j)
          BY <3>1, <3>4, <4>2, <5>1
        <5>3. CallSound(j) /\ VerdictObeys(j) /\ Absent(j) /\ Follows(m, j)
          BY <2>1, <2>6, <3>4, <5>1, ByOK
        <5> QED
          BY <2>2, <5>2, <5>3
      <4> QED
        BY <4>1, <4>2
    <3> QED
      BY <2>1, <3>2, <3>3, <3>4 DEF Actions
  <2> QED
    BY <2>5, <2>6
<1>8. CASE Loaded(k) = BadFile
  BY <1>1, <1>5, <1>8 DEF Decide
<1>9. CASE Loaded(k) # BadFile /\ Skips(k)
  BY <1>1, <1>6, <1>9 DEF Decide
<1>10. CASE \E s \in ToSet(k.targets) : k.seen[s] = BadFile
  BY <1>1, <1>5, <1>8, <1>9, <1>10 DEF Decide
<1>11. CASE Loaded(k) # BadFile /\ ~Skips(k) /\ ~(\E s \in ToSet(k.targets) : k.seen[s] = BadFile)
  <2>1. PICK now \in Minutes :
          LET m == Judges(Clocks(k, now), Strictest(Verdicts(k, now))) IN
          IF k.kind \in DryRuns THEN Becomes(c, Ends(m, "told")) ELSE ApplyPolicyResult(c, m)
    BY <1>1, <1>11 DEF Decide, Minutes
  <2> QED
    BY <1>7, <1>11, <2>1
<1> QED
  BY <1>8, <1>9, <1>10, <1>11

LEMMA AnswerStep ==
  ASSUME IInv, NEW c \in Calls, Answer(c)
  PROVE  IInv'
<1>1. PICK k : k = call[c]
  OBVIOUS
<1>2. k.pc > 0 /\ k.end = None /\ k.by = "asked"
  BY <1>1 DEF Answer, Running
<1>3. k # NoCall
  BY <1>2, NoCallIs
<1>4. CallSound(k) /\ VerdictObeys(k) /\ Absent(k)
  BY <1>1, <1>3, IsCalled
<1>5. UNCHANGED <<world, registry, remote>> /\ TailOK'
  BY TailFrame DEF Answer, log, IInv
<1>6. Stage(k) = "policy" /\ k.verdict = "require_approval"
  BY <1>2, <1>4 DEF CallSound
<1>7. CASE Becomes(c, Advanced(By(k, "person")))
  <2>1. PICK j : j = Advanced(By(k, "person"))
    OBVIOUS
  <2>2. k.kind \notin DryRuns
    BY <1>2, <1>4 DEF CallSound
  <2>3. CallSound(j) /\ VerdictObeys(j) /\ Absent(j) /\ Follows(k, j)
    BY <1>2, <1>4, <1>6, <2>1, <2>2, PassOK
  <2> QED
    BY <1>1, <1>3, <1>5, <1>7, <2>1, <2>3, GoesOn
<1>8. CASE Refuse(c)
  BY <1>1, <1>2, <1>3, <1>5, <1>6, <1>8, Refuses
<1> QED
  BY <1>1, <1>7, <1>8 DEF Answer

LEMMA PrepareStep ==
  ASSUME IInv, NEW c \in Calls, Prepare(c)
  PROVE  IInv'
<1>1. PICK k, s : k = call[c] /\ s = k.targets[1]
  OBVIOUS
<1>2. PICK r : r = remote[c][s]
  OBVIOUS
<1>3. /\ k # NoCall /\ CallSound(k) /\ VerdictObeys(k) /\ Absent(k)
      /\ k.end = None /\ k.by # "asked" /\ Stage(k) = "prepare" /\ k \in Records
      /\ \A t \in Ids : RemoteSound(k, t, remote[c][t]) /\ remote[c][t] \in Remotes
  BY <1>1, AtCall DEF Prepare
<1>4. UNCHANGED <<world, registry>> /\ TailOK'
  BY TailFrame DEF Prepare, log, IInv
<1>5. k.kind = "exec_app" /\ H(k).how = "plugin" /\ ~Many(k) /\ ~Policed(k)
  <2>1. k.kind \in Kind /\ k.pc \in 1..Len(Stages(k)) /\ Stages(k) = Handlers[k.kind].stages
        /\ Stage(k) = Stages(k)[k.pc] /\ Orderly(k.kind, Handlers[k.kind])
    BY <1>3, StagesAre, HandlerIsOrderly DEF CallSound
  <2>2. k.kind = "exec_app"
    BY <1>3, <2>1 DEF Orderly
  <2>3. Fitting(k.kind, H(k))
    BY <2>1, HandlerFits DEF H
  <2> QED
    BY <2>2, <2>3 DEF Fitting, Many, Policed
<1>6. s \in Ids /\ s \in ToSet(k.targets)
  <2>1. k.targets \in Seq(Ids) /\ Len(k.targets) = 1
    BY <1>3, <1>5 DEF CallSound, Records
  <2> QED
    BY <1>1, <2>1 DEF ToSet
<1>7. r \in Remotes /\ RemoteSound(k, s, r) /\ NoScript(r)
  BY <1>2, <1>3, <1>5, <1>6 DEF RemoteSound
<1>8. ASSUME NEW j, Becomes(c, j), CallSound(j), VerdictObeys(j), Absent(j), Follows(k, j),
             NEW q \in Remotes, NoScript(q), Leaves(c, s, q)
      PROVE  IInv'
  <2>1. PICK R : R = [remote[c] EXCEPT ![s] = q]
    OBVIOUS
  <2>2. remote' = [remote EXCEPT ![c] = R]
    BY <1>8, <2>1 DEF Leaves
  <2>3. \A t \in Ids : RemoteSound(j, t, remote[c][t])
    BY <1>3, <1>8, FollowOK
  <2>4. RemoteSound(j, s, q)
    <3>1. j.kind = "exec_app" /\ j.targets = k.targets /\ H(j).how = "plugin" /\ ~Policed(j)
      BY <1>5, <1>8 DEF Follows, H, Policed
    <3>2. j.end # "ok"
      BY <1>3, <1>8 DEF Follows, None
    <3> QED
      BY <1>6, <1>8, <3>1, <3>2 DEF RemoteSound
  <2>5. R \in [Ids -> Remotes] /\ \A t \in Ids : RemoteSound(j, t, R[t])
    BY <1>8, <2>1, <2>3, <2>4 DEF IInv
  <2>6. CallOK(j) /\ \A t \in Ids : RemoteOK(j, t, R[t])
    BY <1>8, <2>5, NoCallIs DEF CallOK, RemoteOK
  <2> QED
    BY <1>4, <1>8, <2>2, <2>5, <2>6, Step
<1>9. CASE Advance(c) /\ Leaves(c, s, Ran(To(r, "open"), 1))
  <2>1. PICK j : j = Advanced(k)
    OBVIOUS
  <2>2. CallSound(j) /\ VerdictObeys(j) /\ Absent(j) /\ Follows(k, j)
    BY <1>3, <2>1, AdvanceOK
  <2>3. PICK m : m = To(r, "open")
    OBVIOUS
  <2>4. m \in Remotes /\ m.step = "open" /\ m.job = r.job
    BY <1>7, <2>3, ToIs DEF Steps
  <2>5. PICK q : q = Ran(m, 1)
    OBVIOUS
  <2>6. q \in Remotes /\ NoScript(q)
    BY <1>7, <2>4, <2>5, RanIs DEF NoScript
  <2> QED
    BY <1>1, <1>8, <1>9, <2>1, <2>2, <2>3, <2>5, <2>6 DEF Advance
<1>10. CASE Refuse(c) /\ Leaves(c, s, Ran(r, 1))
  <2>1. PICK j : j = Ends(k, "refused")
    OBVIOUS
  <2>2. CallSound(j) /\ VerdictObeys(j) /\ Absent(j) /\ Follows(k, j)
    BY <1>3, <2>1, EndOK
  <2>3. PICK q : q = Ran(r, 1)
    OBVIOUS
  <2>4. q \in Remotes /\ NoScript(q)
    BY <1>7, <2>3, RanIs DEF NoScript
  <2> QED
    BY <1>1, <1>8, <1>10, <2>1, <2>2, <2>3, <2>4 DEF Refuse
<1>11. CASE Refuse(c) /\ UNCHANGED remote
  BY <1>1, <1>3, <1>4, <1>11, Refuses
<1> QED
  BY <1>1, <1>2, <1>9, <1>10, <1>11 DEF Prepare

LEMMA ReturnStep ==
  ASSUME IInv, NEW c \in Calls, Return(c)
  PROVE  IInv'
<1>1. PICK k : k = call[c]
  OBVIOUS
<1>2. /\ k # NoCall /\ CallSound(k) /\ VerdictObeys(k) /\ Absent(k)
      /\ k.end = None /\ k.by # "asked" /\ Stage(k) = "run" /\ k \in Records
      /\ \A s \in Ids : RemoteSound(k, s, remote[c][s]) /\ remote[c][s] \in Remotes
  BY <1>1, AtCall DEF Return
<1>3. UNCHANGED <<world, registry, remote>> /\ TailOK'
  BY TailFrame DEF Return, log, IInv
<1>4. PICK e \in {"ok", "error"} :
        /\ Becomes(c, Ends(k, e))
        /\ e = "ok" /\ ~Many(k) => \A s \in ToSet(k.targets) : remote[c][s].step # "failed"
  BY <1>1 DEF Return
<1>5. PICK j : j = Ends(k, e)
  OBVIOUS
<1>6. CallSound(j) /\ VerdictObeys(j) /\ Absent(j) /\ (e # "ok" => Follows(k, j))
  BY <1>2, <1>4, <1>5, EndOK
<1>7. CASE e # "ok"
  BY <1>1, <1>2, <1>3, <1>4, <1>5, <1>6, <1>7, GoesOn
<1>8. CASE e = "ok"
  <2>1. /\ j.end = "ok" /\ j.pc = k.pc /\ j.kind = k.kind /\ j.commands = k.commands
        /\ j.expect = k.expect /\ j.keep = k.keep /\ j.targets = k.targets /\ j.found = k.found /\ j.missed = k.missed
    BY <1>2, <1>5, <1>8, EndsIs
  <2>2. /\ H(j) = H(k) /\ (Many(j) <=> Many(k)) /\ (Policed(j) <=> Policed(k)) /\ Stage(j) = Stage(k)
        /\ \A r : (ScriptOK(k, r) <=> ScriptOK(j, r)) /\ (CommandsOK(k, r) <=> CommandsOK(j, r))
    BY <2>1 DEF H, Stages, Many, Policed, Stage, ScriptOK, Good, CommandsOK
  <2>3. \A s \in ToSet(k.targets) : remote[c][s].step \in {"ok", "failed"}
    BY <1>1 DEF Return, Ended
  <2>4. ASSUME NEW s \in Ids
        PROVE  RemoteSound(j, s, remote[c][s])
    <3>1. PICK r : r = remote[c][s]
      OBVIOUS
    <3>2. RemoteSound(k, s, r)
      BY <1>2, <3>1
    <3>3. ~Many(j) /\ s \in ToSet(j.targets) => r.step = "ok"
      BY <1>4, <1>8, <2>1, <2>2, <2>3, <3>1
    <3>4. RemoteSound(j, s, r)
      BY <2>1, <2>2, <3>2, <3>3 DEF RemoteSound, Reached
    <3> QED
      BY <3>1, <3>4
  <2> QED
    BY <1>3, <1>4, <1>5, <1>6, <2>4, NoCallIs, Moves
<1> QED
  BY <1>7, <1>8

----------------------------------------------------------------------------
\* The actions on a server.

LEMMA At1Is ==
  ASSUME IInv, NEW c \in Calls, NEW s \in Ids, NEW x, At1(c, s, x), NEW k, k = call[c],
         NEW r, r = remote[c][s]
  PROVE  /\ k # NoCall /\ CallSound(k) /\ Absent(k) /\ At(k, "run") /\ Stage(k) = "run"
         /\ k \in Records /\ s \in ToSet(k.targets) /\ r.step = x /\ RemoteSound(k, s, r) /\ r \in Remotes
BY AtCall DEF At1

LEMMA ServerStep ==
  ASSUME IInv, NEW c \in Calls, NEW s \in Ids, NEW x, At1(c, s, x), NEW k, k = call[c],
         NEW r \in Remotes, Leaves(c, s, r),
         Policed(k) /\ (r.step = "open" \/ r.runs > 0) => s \in Reached(k),
         IF H(k).how = "script" THEN ScriptOK(k, r) ELSE NoScript(r),
         H(k).how = "commands" /\ ~k.expect => CommandsOK(k, r),
         UNCHANGED Local
  PROVE  IInv'
<1>1. k # NoCall /\ CallSound(k) /\ At(k, "run") /\ s \in ToSet(k.targets)
  BY At1Is
<1>2. RemoteSound(k, s, r)
  BY <1>1, RunOK
<1> QED
  BY <1>1, <1>2, RemoteStep

LEMMA GoStep ==
  ASSUME IInv, NEW c \in Calls, NEW s \in Ids, NEW x, At1(c, s, x), NEW k, k = call[c],
         NEW r, r = remote[c][s], NEW y \in {"open", "ok", "failed"}, Go(c, s, y),
         y = "open" /\ Policed(k) => s \in Reached(k),
         y = "open" /\ H(k).how = "script" => r.job = "none" /\ r.results = <<>>,
         y = "ok" => H(k).how # "script",
         y = "ok" /\ H(k).how = "commands" /\ ~k.expect => Len(r.results) = Len(k.commands),
         UNCHANGED Local
  PROVE  IInv'
<1>1. RemoteSound(k, s, r) /\ r \in Remotes
  BY At1Is
<1>2. PICK q : q = To(r, y)
  OBVIOUS
<1>3. /\ q \in Remotes /\ q.step = y /\ q.results = r.results /\ q.runs = r.runs
      /\ q.file = r.file /\ q.job = r.job
  BY <1>1, <1>2, ToIs DEF Steps
<1>4. Leaves(c, s, q)
  BY <1>2 DEF Go
<1>5. Policed(k) /\ (q.step = "open" \/ q.runs > 0) => s \in Reached(k)
  BY <1>1, <1>3 DEF RemoteSound
<1>6. IF H(k).how = "script" THEN ScriptOK(k, q) ELSE NoScript(q)
  BY <1>1, <1>3 DEF RemoteSound, ScriptOK, NoScript
<1>7. H(k).how = "commands" /\ ~k.expect => CommandsOK(k, q)
  BY <1>1, <1>3 DEF RemoteSound, CommandsOK
<1> QED
  BY <1>3, <1>4, <1>5, <1>6, <1>7, ServerStep

LEMMA DialStep ==
  ASSUME IInv, NEW c \in Calls, NEW s \in Ids, Dial(c, s)
  PROVE  IInv'
<1>1. PICK k, r : k = call[c] /\ r = remote[c][s]
  OBVIOUS
<1>2. At1(c, s, "dial") /\ UNCHANGED Local
  BY DEF Dial
<1>3. /\ CallSound(k) /\ Absent(k) /\ Stage(k) = "run" /\ s \in ToSet(k.targets)
      /\ r.step = "dial" /\ RemoteSound(k, s, r)
  BY <1>1, <1>2, At1Is
<1>4. CASE (Rereads(k) => servers[s].here) /\ Go(c, s, "open")
  <2>1. Policed(k) => s \in Reached(k)
    BY <1>3, <1>4, ReachedIsFound
  <2>2. H(k).how = "script" => r.job = "none" /\ r.results = <<>>
    BY <1>3 DEF RemoteSound, ScriptOK
  <2> QED
    BY <1>1, <1>2, <1>4, <2>1, <2>2, GoStep
<1>5. CASE Go(c, s, "failed")
  BY <1>1, <1>2, <1>5, GoStep
<1> QED
  BY <1>1, <1>4, <1>5 DEF Dial

LEMMA LaunchStep ==
  ASSUME IInv, NEW c \in Calls, NEW s \in Ids, Launch(c, s)
  PROVE  IInv'
BY GoStep DEF Launch

LEMMA RunNextStep ==
  ASSUME IInv, NEW c \in Calls, NEW s \in Ids, RunNext(c, s)
  PROVE  IInv'
<1>1. PICK k, r : k = call[c] /\ r = remote[c][s]
  OBVIOUS
<1>2. At1(c, s, "open") /\ UNCHANGED Local /\ H(k).how = "commands" /\ ~k.expect
  BY <1>1 DEF RunNext
<1>3. k \in Records /\ r.step = "open" /\ RemoteSound(k, s, r) /\ r \in Remotes
  BY <1>1, <1>2, At1Is
<1>4. CASE Len(r.results) = Len(k.commands) /\ Go(c, s, "ok")
  BY <1>1, <1>2, <1>4, GoStep
<1>5. ASSUME Len(r.results) # Len(k.commands), NEW x \in NextResults("lost" \in ToSet(r.results)),
             Leaves(c, s, Ran(Answers(r, x), Begun(x)))
      PROVE  IInv'
  <2>12. CommandsOK(k, r) /\ r.results \in Seq(Results)
    BY <1>2, <1>3 DEF RemoteSound, Remotes, Results
  <2>13. x \in Results /\ Begun(x) \in Nat /\ NoneAfterLost(Append(r.results, x))
    BY <2>12, AfterLost DEF CommandsOK
  <2>0. PICK n \in Nat : n = Begun(x)
    BY <2>13
  <2>1. PICK m : m = Answers(r, x)
    OBVIOUS
  <2>2. /\ m \in Remotes /\ m.step = r.step /\ m.results = Append(r.results, x) /\ m.runs = r.runs
        /\ m.job = r.job
    BY <1>3, <2>1, <2>13, AnswersIs
  <2>3. PICK q : q = Ran(m, n)
    OBVIOUS
  <2>4. /\ q \in Remotes /\ q.step = m.step /\ q.results = m.results /\ q.runs = m.runs + n
        /\ q.job = m.job
    BY <2>2, <2>3, RanIs
  <2>5. r.results \in Seq(Results) /\ r.runs \in Nat /\ Len(k.commands) \in Nat /\ Len(r.results) \in Nat
    BY <1>3 DEF Remotes, Results, Records
  <2>6. CommandsOK(k, r)
    BY <1>2, <1>3 DEF RemoteSound
  <2>7. Len(q.results) <= Len(k.commands)
    <3>1. Len(q.results) = Len(r.results) + 1
      BY <2>2, <2>4, <2>5, <2>13, AppendProperties
    <3> QED
      BY <1>5, <2>5, <2>6, <3>1 DEF CommandsOK
  <2>8. q.runs = RunsOf(q.results)
    <3>1. q.results = Append(r.results, x) /\ q.runs = r.runs + n /\ r.runs = RunsOf(r.results)
      BY <2>2, <2>4, <2>6 DEF CommandsOK
    <3> QED
      BY <2>0, <2>5, <2>13, <3>1, RunsOfAppend
  <2>9. CommandsOK(k, q)
    BY <1>3, <2>2, <2>4, <2>7, <2>8, <2>13 DEF CommandsOK
  <2>10. Policed(k) => s \in Reached(k)
    BY <1>3 DEF RemoteSound
  <2>11. NoScript(q)
    BY <1>2, <1>3, <2>2, <2>4 DEF RemoteSound, NoScript
  <2> QED
    BY <1>1, <1>2, <1>5, <2>0, <2>1, <2>3, <2>4, <2>9, <2>10, <2>11, ServerStep
<1>6. CASE Len(r.results) = Len(k.commands)
  BY <1>1, <1>4, <1>6 DEF RunNext
<1>7. CASE Len(r.results) # Len(k.commands)
  <2>1. PICK x \in NextResults("lost" \in ToSet(r.results)) : Leaves(c, s, Ran(Answers(r, x), Begun(x)))
    BY <1>1, <1>7 DEF RunNext
  <2> QED
    BY <1>5, <1>7, <2>1
<1> QED
  BY <1>6, <1>7

LEMMA RunPTYStep ==
  ASSUME IInv, NEW c \in Calls, NEW s \in Ids, RunPTY(c, s)
  PROVE  IInv'
<1>1. PICK k, r : k = call[c] /\ r = remote[c][s]
  OBVIOUS
<1>2. At1(c, s, "open") /\ UNCHANGED Local /\ H(k).how = "commands" /\ k.expect
  BY <1>1 DEF RunPTY
<1>3. k \in Records /\ r.step = "open" /\ RemoteSound(k, s, r) /\ r \in Remotes
  BY <1>1, <1>2, At1Is
<1>4. CASE Go(c, s, "failed")
  BY <1>1, <1>2, <1>4, GoStep
<1>5. ASSUME NEW n \in 1..Len(k.commands), Leaves(c, s, To(Ran(Answers(r, "pty"), n), "ok"))
      PROVE  IInv'
  <2>1. PICK m : m = Answers(r, "pty")
    OBVIOUS
  <2>2. m \in Remotes /\ m.job = r.job
    BY <1>3, <2>1, AnswersIs DEF Results
  <2>3. PICK p : p = Ran(m, n)
    OBVIOUS
  <2>4. p \in Remotes /\ p.job = m.job
    <3>1. n \in Nat
      OBVIOUS
    <3> QED
      BY <2>2, <2>3, <3>1, RanIs
  <2>5. PICK q : q = To(p, "ok")
    OBVIOUS
  <2>6. q \in Remotes /\ NoScript(q)
    BY <1>2, <1>3, <2>2, <2>4, <2>5, ToIs DEF Steps, RemoteSound, NoScript
  <2>7. Policed(k) => s \in Reached(k)
    BY <1>3 DEF RemoteSound
  <2> QED
    BY <1>1, <1>2, <1>5, <2>1, <2>3, <2>5, <2>6, <2>7, ServerStep
<1> QED
  BY <1>1, <1>4, <1>5 DEF RunPTY

LEMMA CopyStep ==
  ASSUME IInv, NEW c \in Calls, NEW s \in Ids, Copy(c, s)
  PROVE  IInv'
BY GoStep DEF Copy

LEMMA UploadStep ==
  ASSUME IInv, NEW c \in Calls, NEW s \in Ids, Upload(c, s)
  PROVE  IInv'
<1>1. PICK k, r : k = call[c] /\ r = remote[c][s]
  OBVIOUS
<1>2. At1(c, s, "open") /\ UNCHANGED Local /\ H(k).how = "script"
  BY <1>1 DEF Upload
<1>3. k \in Records /\ r.step = "open" /\ RemoteSound(k, s, r) /\ r \in Remotes
  BY <1>1, <1>2, At1Is
<1>4. PICK y \in {"uploaded", "failed"}, file \in BOOLEAN :
        (y = "uploaded" => file) /\ Leaves(c, s, To(FileIs(r, file), y))
  BY <1>1 DEF Upload
<1>5. PICK m : m = FileIs(r, file)
  OBVIOUS
<1>6. /\ m \in Remotes /\ m.step = r.step /\ m.results = r.results /\ m.runs = r.runs
      /\ m.file = file /\ m.job = r.job
  BY <1>3, <1>5, FileIsIs
<1>7. PICK q : q = To(m, y)
  OBVIOUS
<1>8. /\ q \in Remotes /\ q.step = y /\ q.results = r.results /\ q.runs = r.runs
      /\ q.file = file /\ q.job = r.job
  BY <1>6, <1>7, ToIs DEF Steps
<1>9. ScriptOK(k, q)
  BY <1>2, <1>3, <1>4, <1>8 DEF RemoteSound, ScriptOK, Good
<1>10. ~Policed(k)
  BY <1>2, <1>3, HandlerFits DEF Fitting, Policed, H, Records, Kind
<1> QED
  BY <1>1, <1>2, <1>4, <1>5, <1>7, <1>8, <1>9, <1>10, ServerStep

LEMMA SendLineStep ==
  ASSUME IInv, NEW c \in Calls, NEW s \in Ids, SendLine(c, s)
  PROVE  IInv'
<1>1. PICK k, r : k = call[c] /\ r = remote[c][s]
  OBVIOUS
<1>2. At1(c, s, "uploaded") /\ UNCHANGED Local
  BY DEF SendLine
<1>3. k \in Records /\ r.step = "uploaded" /\ RemoteSound(k, s, r) /\ r \in Remotes
  BY <1>1, <1>2, At1Is
<1>4. CASE Go(c, s, "failed")
  BY <1>1, <1>2, <1>4, GoStep
<1>5. ASSUME NEW y \in {"sent", "failed"}, Leaves(c, s, To(Job(r, "running"), y))
      PROVE  IInv'
  <2>1. H(k).how = "script"
    BY <1>3 DEF RemoteSound, NoScript
  <2>2. PICK m : m = Job(r, "running")
    OBVIOUS
  <2>3. /\ m \in Remotes /\ m.step = r.step /\ m.results = r.results /\ m.runs = r.runs
        /\ m.file = r.file /\ m.job = "running"
    BY <1>3, <2>2, JobIs DEF JobStates
  <2>4. PICK q : q = To(m, y)
    OBVIOUS
  <2>5. /\ q \in Remotes /\ q.step = y /\ q.results = r.results /\ q.runs = r.runs
        /\ q.file = r.file /\ q.job = "running"
    BY <2>3, <2>4, ToIs DEF Steps
  <2>6. ScriptOK(k, q)
    BY <1>3, <2>1, <2>5 DEF RemoteSound, ScriptOK
  <2>7. ~Policed(k)
    BY <1>3, <2>1, HandlerFits DEF Fitting, Policed, H, Records, Kind
  <2> QED
    BY <1>1, <1>2, <1>5, <2>1, <2>2, <2>4, <2>5, <2>6, <2>7, ServerStep
<1> QED
  BY <1>1, <1>4, <1>5 DEF SendLine

\* What goes on at the server when the call may have returned.
LEMMA JobStep ==
  ASSUME IInv, NEW c \in Calls, NEW s \in Ids, remote[c][s].job \in {"running", "ran"},
         NEW k, k = call[c], NEW q \in Remotes, Leaves(c, s, q), UNCHANGED Local,
         q.step = remote[c][s].step, H(k).how = "script" => ScriptOK(k, q)
  PROVE  IInv'
<1>1. PICK r : r = remote[c][s]
  OBVIOUS
<1>2. r # Untouched
  BY <1>1, UntouchedIs
<1>3. k # NoCall
  BY <1>1, <1>2 DEF IInv, RemoteOK
<1>4. k \in Records /\ RemoteSound(k, s, r)
  BY <1>1, <1>3, IsCalled DEF CallSound
<1>5. H(k).how = "script"
  BY <1>1, <1>4 DEF RemoteSound, NoScript
<1>6. Fitting(k.kind, H(k))
  BY <1>4, HandlerFits DEF Records, Kind, H
<1>7. H(k).how # "commands" /\ ~Policed(k)
  BY <1>5, <1>6 DEF Fitting, Policed
<1>8. RemoteSound(k, s, q)
  BY <1>1, <1>2, <1>4, <1>5, <1>7 DEF RemoteSound
<1> QED
  BY <1>3, <1>8, RemoteStep

LEMMA RunScriptFileStep ==
  ASSUME IInv, NEW c \in Calls, NEW s \in Ids, RunScriptFile(c, s)
  PROVE  IInv'
<1>1. PICK k, r : k = call[c] /\ r = remote[c][s]
  OBVIOUS
<1>2. r.job = "running" /\ UNCHANGED Local /\ r \in Remotes
  BY <1>1 DEF RunScriptFile, IInv
<1>3. PICK y \in {"ran", "done"} : y = IF k.keep THEN "done" ELSE "ran"
  OBVIOUS
<1>4. PICK m : m = Job(r, y)
  OBVIOUS
<1>5. /\ m \in Remotes /\ m.step = r.step /\ m.results = r.results /\ m.runs = r.runs
      /\ m.file = r.file /\ m.job = y
  BY <1>2, <1>4, JobIs DEF JobStates
<1>6. PICK q : q = Ran(m, 1)
  OBVIOUS
<1>7. /\ q \in Remotes /\ q.step = r.step /\ q.runs = r.runs + 1 /\ q.file = r.file /\ q.job = y
      /\ q.results = r.results
  BY <1>5, <1>6, RanIs
<1>8. H(k).how = "script" => ScriptOK(k, q)
  <2>1. k # NoCall
    BY <1>1, <1>2, UntouchedIs DEF IInv, RemoteOK
  <2>2. RemoteSound(k, s, r) /\ k \in Records
    BY <1>1, <2>1, IsCalled DEF CallSound
  <2>3. H(k).how = "script" => ScriptOK(k, r)
    BY <2>2 DEF RemoteSound
  <2>4. k.keep \in BOOLEAN /\ r.file \in BOOLEAN
    BY <1>2, <2>2 DEF Records, Remotes
  <2> QED
    BY <1>2, <1>3, <1>7, <2>3, <2>4 DEF ScriptOK, Good
<1>9. Leaves(c, s, q)
  BY <1>1, <1>3, <1>4, <1>6 DEF RunScriptFile
<1> QED
  BY <1>1, <1>2, <1>7, <1>8, <1>9, JobStep

LEMMA RemoveScriptFileStep ==
  ASSUME IInv, NEW c \in Calls, NEW s \in Ids, RemoveScriptFile(c, s)
  PROVE  IInv'
<1>1. PICK k, r : k = call[c] /\ r = remote[c][s]
  OBVIOUS
<1>2. r.job = "ran" /\ UNCHANGED Local /\ r \in Remotes
  BY <1>1 DEF RemoveScriptFile, IInv
<1>3. PICK m : m = Job(r, "done")
  OBVIOUS
<1>4. /\ m \in Remotes /\ m.step = r.step /\ m.results = r.results /\ m.runs = r.runs /\ m.job = "done"
  BY <1>2, <1>3, JobIs DEF JobStates
<1>5. PICK q, f : f \in BOOLEAN /\ f = FALSE /\ q = FileIs(m, f)
  OBVIOUS
<1>6. /\ q \in Remotes /\ q.step = r.step /\ q.runs = r.runs /\ q.file = f /\ q.job = "done"
      /\ q.results = r.results
  BY <1>4, <1>5, FileIsIs
<1>7. H(k).how = "script" => ScriptOK(k, q)
  <2>1. k # NoCall
    BY <1>1, <1>2, UntouchedIs DEF IInv, RemoteOK
  <2>2. RemoteSound(k, s, r) /\ k \in Records
    BY <1>1, <2>1, IsCalled DEF CallSound
  <2>3. H(k).how = "script" => ScriptOK(k, r)
    BY <2>2 DEF RemoteSound
  <2>4. H(k).how = "script" => k.keep = FALSE
    BY <1>2, <2>2, <2>3 DEF Records, ScriptOK
  <2> QED
    BY <1>2, <1>5, <1>6, <2>3, <2>4 DEF ScriptOK, Good
<1>8. Leaves(c, s, q)
  BY <1>1, <1>3, <1>5 DEF RemoveScriptFile
<1> QED
  BY <1>1, <1>2, <1>6, <1>7, <1>8, JobStep

LEMMA ScriptReturnsStep ==
  ASSUME IInv, NEW c \in Calls, NEW s \in Ids, ScriptReturns(c, s)
  PROVE  IInv'
<1>1. PICK k, r : k = call[c] /\ r = remote[c][s]
  OBVIOUS
<1>2. At1(c, s, "sent") /\ UNCHANGED Local
  BY DEF ScriptReturns
<1>3. k \in Records /\ r.step = "sent" /\ RemoteSound(k, s, r) /\ r \in Remotes
  BY <1>1, <1>2, At1Is
<1>4. PICK x \in Statuses(r), y \in {"ok", "failed"} :
        y = Outcome(k, x) /\ Leaves(c, s, To(Answers(r, x), y))
  BY <1>1 DEF ScriptReturns, Outcome
<1>5. x \in {"zero", "nonzero", "timeout"} /\ (x # "timeout" => r.job = "done")
  BY <1>4 DEF Statuses
<1>6. H(k).how = "script" /\ ScriptOK(k, r) /\ ~Policed(k)
  <2>1. H(k).how = "script"
    BY <1>3 DEF RemoteSound, NoScript
  <2> QED
    BY <1>3, <2>1, HandlerFits DEF RemoteSound, Fitting, Policed, H, Records, Kind
<1>7. PICK m : m = Answers(r, x)
  OBVIOUS
<1>8. Append(<<>>, x) = <<x>>
  OBVIOUS
<1>9. /\ m \in Remotes /\ m.results = <<x>> /\ m.runs = r.runs
      /\ m.file = r.file /\ m.job = r.job
  BY <1>3, <1>5, <1>6, <1>7, <1>8, AnswersIs DEF Results, ScriptOK
<1>10. PICK q : q = To(m, y)
  OBVIOUS
<1>11. /\ q \in Remotes /\ q.step = y /\ q.results = <<x>> /\ q.runs = r.runs
       /\ q.file = r.file /\ q.job = r.job
  BY <1>9, <1>10, ToIs DEF Steps
<1>12. q.results \in {<<"zero">>, <<"nonzero">>} => q.job = "done"
  BY <1>5, <1>11
<1>13. q.step = "ok" => Good(k, q)
  BY <1>4, <1>5, <1>11 DEF Good, Outcome
<1>14. ScriptOK(k, q)
  BY <1>3, <1>6, <1>11, <1>12, <1>13 DEF ScriptOK
<1> QED
  BY <1>1, <1>2, <1>4, <1>6, <1>7, <1>10, <1>11, <1>14, ServerStep

----------------------------------------------------------------------------
\* People, the audit log and its tail.

LEMMA EditStep ==
  ASSUME IInv, UNCHANGED <<world, global, call, remote, log>>, SettingOK',
         \A s \in Ids : servers'[s].here => servers[s].here
  PROVE  IInv'
<1>1. ASSUME NEW c \in Calls
      PROVE  CallOK(call[c])'
  <2>1. PICK k : k = call[c]
    OBVIOUS
  <2>2. k = NoCall \/ (CallSound(k) /\ Absent(k) /\ VerdictObeys(k))
    BY <2>1 DEF IInv, CallOK
  <2>3. VerdictObeys(k)' <=> VerdictObeys(k)
    BY DEF VerdictObeys, PolicyFor, Loaded
  <2>4. ASSUME CallSound(k), Absent(k)
        PROVE  Absent(k)'
    <3>1. ASSUME NEW n \in 1..k.read
          PROVE  k.targets[n] \in Ids
      BY <2>4 DEF CallSound, Records
    <3> QED
      BY <2>4, <3>1 DEF Absent
  <2>5. CallOK(k)'
    BY <2>2, <2>3, <2>4 DEF CallOK
  <2>6. call'[c] = k
    BY <2>1
  <2> QED
    BY <2>5, <2>6, CallPrime
<1>2. TailOK'
  BY TailFrame DEF IInv, log
<1> QED
  BY <1>1, <1>2 DEF IInv

LEMMA SetServerPolicyStep ==
  ASSUME IInv, NEW s \in Ids, SetServerPolicy(s)
  PROVE  IInv'
<1>1. PICK f \in Locals[world] : servers' = [servers EXCEPT ![s].policy = f]
  BY DEF SetServerPolicy, Edit
<1>2. UNCHANGED <<world, global, call, remote, log, members>>
  BY DEF SetServerPolicy, Edit
<1>3. servers \in [Ids -> [here : BOOLEAN, policy : Locals[world] \cup {NoFile}]]
  BY DEF IInv, SettingOK
<1>4. PICK row : row = [servers[s] EXCEPT !.policy = f]
  OBVIOUS
<1>5. row \in [here : BOOLEAN, policy : Locals[world] \cup {NoFile}] /\ row.here = servers[s].here
  BY <1>3, <1>4
<1>6. servers' = [servers EXCEPT ![s] = row]
  BY <1>1, <1>4
<1>7. /\ servers' \in [Ids -> [here : BOOLEAN, policy : Locals[world] \cup {NoFile}]]
      /\ \A t \in Ids : servers'[t].here = servers[t].here
  BY <1>3, <1>5, <1>6
<1>8. SettingOK'
  BY <1>2, <1>7 DEF IInv, SettingOK
<1> QED
  BY <1>2, <1>7, <1>8, EditStep

LEMMA DeleteServerStep ==
  ASSUME IInv, NEW s \in Ids, DeleteServer(s)
  PROVE  IInv'
<1>1. /\ servers' = [servers EXCEPT ![s] = [here |-> FALSE, policy |-> NoFile]]
      /\ members' = members \ {s}
      /\ UNCHANGED <<world, global, call, remote, log>>
  BY DEF DeleteServer, Edit
<1>2. servers \in [Ids -> [here : BOOLEAN, policy : Locals[world] \cup {NoFile}]]
  BY DEF IInv, SettingOK
<1>3. PICK row : row = [here |-> FALSE, policy |-> NoFile]
  OBVIOUS
<1>4. row \in [here : BOOLEAN, policy : Locals[world] \cup {NoFile}] /\ ~row.here
  BY <1>3
<1>5. /\ servers' \in [Ids -> [here : BOOLEAN, policy : Locals[world] \cup {NoFile}]]
      /\ \A t \in Ids : servers'[t].here => servers[t].here
  BY <1>1, <1>2, <1>3, <1>4
<1>6. SettingOK'
  BY <1>1, <1>5 DEF IInv, SettingOK
<1> QED
  BY <1>1, <1>5, <1>6, EditStep

LEMMA SetTrustStep ==
  ASSUME IInv, SetTrust
  PROVE  IInv'
<1>1. UNCHANGED <<world, global, call, remote, log, servers, members>>
  BY DEF SetTrust, Edit
<1>2. SettingOK'
  BY <1>1, SettingFrame DEF IInv
<1> QED
  BY <1>1, <1>2, EditStep

LEMMA LogStep ==
  ASSUME IInv, UNCHANGED <<world, registry, call, remote>>, TailOK'
  PROVE  IInv'
<1>1. UNCHANGED <<global, servers, members>>
  BY DEF registry
<1>2. ASSUME NEW c \in Calls
      PROVE  CallOK(call[c])'
  <2>1. PICK k : k = call[c]
    OBVIOUS
  <2>2. CallOK(k) /\ call'[c] = k
    BY <2>1 DEF IInv
  <2> QED
    BY <1>1, <2>2, CallPrime, CallFrame
<1>3. SettingOK'
  BY <1>1, SettingFrame DEF IInv
<1> QED
  BY <1>2, <1>3 DEF IInv

LEMMA AuditedElsewhereStep ==
  ASSUME IInv, AuditedElsewhere
  PROVE  IInv'
BY AuditGrows, LogStep DEF AuditedElsewhere, IInv

LEMMA TickStep ==
  ASSUME IInv, Tick
  PROVE  IInv'
<1>1. TailOK'
  BY DEF Tick, IInv, TailOK, TailShowsEachOnce
<1> QED
  BY <1>1, LogStep DEF Tick

LEMMA StartTailStep ==
  ASSUME IInv, StartTail
  PROVE  IInv'
<1>1. PICK n \in Nat : n = Len(audit)
  <2>1. audit \in Seq(Nat)
    BY DEF IInv, TailOK
  <2> QED
    BY <2>1
<1>2. tail.shown = <<>> /\ tail.burst \in BOOLEAN /\ audit \in Seq(Nat) /\ clock \in Nat
  BY DEF StartTail, IInv, TailOK
<1>3. tail' = [on |-> TRUE, from |-> n, seen |-> n, shown |-> tail.shown, burst |-> tail.burst]
  BY <1>1 DEF StartTail
<1>4. /\ tail' \in [on : BOOLEAN, from : Nat, seen : Nat, shown : Seq(Nat), burst : BOOLEAN]
      /\ tail'.from = n /\ tail'.seen = n /\ tail'.shown = <<>> /\ UNCHANGED <<audit, clock>>
  BY <1>1, <1>2, <1>3 DEF StartTail
<1>5. TailShowsEachOnce'
  <2>1. (n + 1)..n = {}
    BY <1>1
  <2>2. IsInjective(<<>>) /\ ToSet(<<>>) = {}
    BY DEF IsInjective, ToSet
  <2> QED
    BY <1>4, <2>1, <2>2 DEF TailShowsEachOnce
<1>6. TailOK'
  BY <1>1, <1>2, <1>4, <1>5 DEF TailOK
<1> QED
  BY <1>6, LogStep DEF StartTail

LEMMA MaxIs ==
  ASSUME NEW n \in Nat, NEW S \in SUBSET (0..n), S # {}
  PROVE  Max(S) \in S /\ \A x \in S : x <= Max(S)
<1> DEFINE T == {n - x : x \in S}
<1>1. T \in SUBSET Nat /\ T # {}
  <2>1. ASSUME NEW x \in S
        PROVE  n - x \in Nat
    <3>1. x \in 0..n
      OBVIOUS
    <3> QED
      BY <3>1
  <2> QED
    BY <2>1
<1>2. PICK t \in T : \A i \in T : t <= i
  BY <1>1, Least
<1>3. PICK m \in S : t = n - m
  OBVIOUS
<1>4. ASSUME NEW x \in S
      PROVE  m >= x
  <2>1. n - x \in T /\ m \in 0..n /\ x \in 0..n
    OBVIOUS
  <2>2. t <= n - x
    BY <1>2, <2>1
  <2> QED
    BY <1>3, <2>1, <2>2
<1>5. Max(S) \in S /\ \A x \in S : Max(S) >= x
  BY <1>4 DEF Max
<1> QED
  BY <1>5

LEMMA ReverseIs ==
  ASSUME NEW q \in Seq(Nat), IsInjective(q)
  PROVE  Reverse(q) \in Seq(Nat) /\ ToSet(Reverse(q)) = ToSet(q) /\ IsInjective(Reverse(q))
<1> DEFINE r == Reverse(q)
           n == Len(q)
<1>1. n \in Nat /\ DOMAIN q = 1..n
  OBVIOUS
<1>2. r = [i \in 1..n |-> q[(n - i) + 1]]
  BY DEF Reverse
<1>3. \A i \in 1..n : (n - i) + 1 \in 1..n /\ q[i] \in Nat
  BY <1>1
<1>4. r \in [1..n -> Nat]
  BY <1>2, <1>3
<1>5. r \in Seq(Nat) /\ DOMAIN r = 1..n
  BY <1>1, <1>4
<1>6. ToSet(r) = ToSet(q)
  <2>1. ASSUME NEW i \in 1..n
        PROVE  r[i] \in ToSet(q) /\ q[i] \in ToSet(r)
    <3>1. r[i] = q[(n - i) + 1] /\ (n - i) + 1 \in 1..n
      BY <1>2, <1>3
    <3>2. r[(n - i) + 1] = q[i] /\ (n - i) + 1 \in DOMAIN r
      <4>1. PICK j \in 1..n : j = (n - i) + 1
        BY <1>3
      <4>2. (n - j) + 1 = i
        BY <1>1, <4>1
      <4> QED
        BY <1>2, <1>5, <4>1, <4>2
    <3> QED
      BY <1>1, <3>1, <3>2 DEF ToSet
  <2> QED
    BY <1>1, <1>5, <2>1 DEF ToSet
<1>7. IsInjective(r)
  <2>1. ASSUME NEW i \in 1..n, NEW j \in 1..n, r[i] = r[j]
        PROVE  i = j
    <3>1. q[(n - i) + 1] = q[(n - j) + 1]
      BY <1>2, <2>1
    <3>2. (n - i) + 1 = (n - j) + 1
      BY <1>1, <1>3, <3>1 DEF IsInjective
    <3> QED
      BY <1>1, <3>2
  <2> QED
    BY <1>5, <2>1 DEF IsInjective
<1> QED
  BY <1>5, <1>6, <1>7

LEMMA JoinIs ==
  ASSUME NEW p \in Seq(Nat), NEW q \in Seq(Nat), IsInjective(p), IsInjective(q),
         ToSet(p) \cap ToSet(q) = {}
  PROVE  p \o q \in Seq(Nat) /\ IsInjective(p \o q) /\ ToSet(p \o q) = ToSet(p) \cup ToSet(q)
<1> DEFINE r == p \o q
           m == Len(p)
           n == Len(q)
<1>1. /\ r \in Seq(Nat) /\ m \in Nat /\ n \in Nat /\ DOMAIN r = 1..m + n
      /\ DOMAIN p = 1..m /\ DOMAIN q = 1..n
      /\ \A i \in 1..m + n : r[i] = IF i <= m THEN p[i] ELSE q[i - m]
  OBVIOUS
<1>2. \A i \in 1..m + n : i \in 1..m \/ (i - m \in 1..n /\ ~(i <= m))
  BY <1>1
<1>3. ASSUME NEW i \in 1..m
      PROVE  i \in 1..m + n /\ r[i] = p[i] /\ p[i] \in ToSet(p)
  BY <1>1 DEF ToSet
<1>4. ASSUME NEW i \in 1..m + n, i \notin 1..m
      PROVE  i - m \in 1..n /\ r[i] = q[i - m] /\ q[i - m] \in ToSet(q)
  BY <1>1, <1>2, <1>4 DEF ToSet
<1>5. ASSUME NEW i \in 1..n
      PROVE  i + m \in 1..m + n /\ r[i + m] = q[i]
  BY <1>1
<1>6. ToSet(r) = ToSet(p) \cup ToSet(q)
  <2>1. ToSet(r) \subseteq ToSet(p) \cup ToSet(q)
    BY <1>1, <1>3, <1>4 DEF ToSet
  <2>2. ToSet(p) \subseteq ToSet(r)
    BY <1>1, <1>3 DEF ToSet
  <2>3. ToSet(q) \subseteq ToSet(r)
    BY <1>1, <1>5 DEF ToSet
  <2> QED
    BY <2>1, <2>2, <2>3
<1>7. ASSUME NEW i \in 1..m + n, NEW j \in 1..m + n, r[i] = r[j]
      PROVE  i = j
  <2>1. CASE i \in 1..m /\ j \in 1..m
    BY <1>1, <1>3, <1>7, <2>1 DEF IsInjective
  <2>2. CASE i \notin 1..m /\ j \notin 1..m
    <3>1. i - m = j - m
      BY <1>1, <1>4, <1>7, <2>2 DEF IsInjective
    <3> QED
      BY <1>1, <3>1
  <2>3. CASE i \in 1..m /\ j \notin 1..m
    BY <1>3, <1>4, <1>7, <2>3
  <2>4. CASE i \notin 1..m /\ j \in 1..m
    BY <1>3, <1>4, <1>7, <2>4
  <2> QED
    BY <2>1, <2>2, <2>3, <2>4
<1>8. IsInjective(r)
  BY <1>1, <1>7 DEF IsInjective
<1> QED
  BY <1>1, <1>6, <1>8

\* The rows of a poll of a log of n rows behind the row seen, whatever their order.
Polled(q, seen, n, limit) ==
  LET rows == (seen + 1)..n
      size == IF Cardinality(rows) < limit THEN Cardinality(rows) ELSE limit IN
  q \in [1..size -> rows] /\ IsInjective(q)

\* A poll that asks for enough rows gets all of them.
LEMMA RowsAre ==
  ASSUME NEW seen \in Nat, NEW n \in Nat, seen <= n, NEW limit \in Nat, NEW q, Polled(q, seen, n, limit)
  PROVE  /\ q \in Seq(Nat) /\ IsInjective(q) /\ ToSet(q) \subseteq (seen + 1)..n
         /\ n - seen <= limit => ToSet(q) = (seen + 1)..n
<1>0. PICK rows, size :
        /\ rows = (seen + 1)..n /\ size = IF Cardinality(rows) < limit THEN Cardinality(rows) ELSE limit
        /\ q \in [1..size -> rows] /\ IsInjective(q)
  BY DEF Polled
<1>1. IsFiniteSet(rows) /\ Cardinality(rows) = n - seen
  <2>1. PICK a \in Int : a = seen + 1
    OBVIOUS
  <2>2. IsFiniteSet(a..n) /\ Cardinality(a..n) = IF a > n THEN 0 ELSE n - a + 1
    BY FS_Interval
  <2>3. n - seen = IF a > n THEN 0 ELSE n - a + 1
    BY <2>1
  <2> QED
    BY <1>0, <2>1, <2>2, <2>3
<1>2. size \in Nat
  BY <1>0, <1>1
<1>3. q \in [1..size -> Nat] /\ ToSet(q) \subseteq rows
  BY <1>0 DEF ToSet
<1>4. q \in Seq(Nat)
  BY <1>2, <1>3
<1>5. ASSUME n - seen <= limit
      PROVE  ToSet(q) = rows
  <2>1. size = Cardinality(rows)
    BY <1>0, <1>1, <1>5
  <2>2. q \in Injection(1..size, rows)
    BY <1>0 DEF Injection
  <2>3. Cardinality(1..size) = size
    <3>1. PICK a \in Int : a = 1
      OBVIOUS
    <3>2. Cardinality(a..size) = IF a > size THEN 0 ELSE size - a + 1
      <4>1. size \in Int
        BY <1>2
      <4> QED
        BY <4>1, FS_Interval
    <3>3. size = IF a > size THEN 0 ELSE size - a + 1
      BY <1>2, <3>1
    <3> QED
      BY <3>1, <3>2, <3>3
  <2>4. q \in Surjection(1..size, rows)
    BY <1>1, <2>1, <2>2, <2>3, FS_Injection
  <2> QED
    BY <1>3, <2>4 DEF Surjection, ToSet
<1> QED
  BY <1>0, <1>3, <1>4, <1>5

LEMMA PollStep ==
  ASSUME IInv, Poll
  PROVE  IInv'
<1>1. PICK seen, n, t, b, shown, from :
        /\ seen = tail.seen /\ n = Len(audit) /\ t = tail /\ b = tail.burst /\ shown = tail.shown
        /\ from = tail.from
  OBVIOUS
<1>2. /\ audit \in Seq(Nat) /\ clock \in Nat /\ from <= seen /\ seen <= n
      /\ t \in [on : BOOLEAN, from : Nat, seen : Nat, shown : Seq(Nat), burst : BOOLEAN]
  BY <1>1 DEF IInv, TailOK
<1>3. from \in Nat /\ seen \in Nat /\ n \in Nat /\ shown \in Seq(Nat) /\ b \in BOOLEAN
  BY <1>1, <1>2
<1>4. /\ IsInjective(shown) /\ ToSet(shown) \subseteq (from + 1)..seen
      /\ ~b => ToSet(shown) = (from + 1)..seen
  BY <1>1 DEF IInv, TailOK, TailShowsEachOnce
<1>5. PICK q \in Lists(seen, TailLimit) :
        tail' = [on |-> TRUE, from |-> from, seen |-> SeenAfter(q), shown |-> shown \o Reverse(q),
                 burst |-> b \/ n - seen > TailLimit]
  BY <1>1 DEF Poll
<1>6. TailLimit \in Nat
  BY AgentAssumption
<1>7. PICK rows : rows = (seen + 1)..n
  OBVIOUS
<1>8. /\ q \in Seq(Nat) /\ IsInjective(q) /\ ToSet(q) \subseteq rows
      /\ n - seen <= TailLimit => ToSet(q) = rows
  <2>1. Polled(q, seen, n, TailLimit)
    BY <1>1, <1>5 DEF Lists, Polled
  <2> QED
    BY <1>2, <1>3, <1>6, <1>7, <2>1, RowsAre
<1>9. PICK m : m = SeenAfter(q)
  OBVIOUS
<1>10. PICK S : S = ToSet(q) \cup {seen}
  OBVIOUS
<1>11. S \in SUBSET (0..n) /\ S # {} /\ m = Max(S)
  BY <1>1, <1>2, <1>3, <1>7, <1>8, <1>9, <1>10 DEF SeenAfter
<1>12. m \in S /\ \A x \in S : x <= m
  BY <1>3, <1>11, MaxIs
<1>13. m \in Nat /\ seen <= m /\ m <= n /\ \A x \in ToSet(q) : seen < x /\ x <= m /\ x \in Nat
  <2>1. m \in 0..n
    BY <1>11, <1>12
  <2>2. seen <= m /\ \A x \in ToSet(q) : x <= m
    BY <1>10, <1>12
  <2>3. \A x \in ToSet(q) : seen < x /\ x \in Nat
    BY <1>3, <1>7, <1>8
  <2> QED
    BY <1>3, <2>1, <2>2, <2>3
<1>14. n - seen <= TailLimit => ToSet(q) = (seen + 1)..m
  <2>1. ASSUME n - seen <= TailLimit
        PROVE  m = n
    <3>1. n \in S
      BY <1>2, <1>3, <1>7, <1>8, <1>10, <2>1
    <3> QED
      BY <1>3, <1>12, <1>13, <3>1
  <2> QED
    BY <1>7, <1>8, <2>1
<1>15. PICK r : r = Reverse(q)
  OBVIOUS
<1>16. r \in Seq(Nat) /\ ToSet(r) = ToSet(q) /\ IsInjective(r)
  BY <1>7, <1>8, <1>15, ReverseIs
<1>17. ToSet(shown) \cap ToSet(r) = {}
  BY <1>3, <1>4, <1>13, <1>16
<1>18. PICK p : p = shown \o r
  OBVIOUS
<1>19. p \in Seq(Nat) /\ IsInjective(p) /\ ToSet(p) = ToSet(shown) \cup ToSet(q)
  BY <1>3, <1>4, <1>16, <1>17, <1>18, JoinIs
<1>20. PICK d \in BOOLEAN : d <=> b \/ n - seen > TailLimit
  OBVIOUS
<1>21. tail' = [on |-> TRUE, from |-> from, seen |-> m, shown |-> p, burst |-> d]
  BY <1>5, <1>9, <1>15, <1>18, <1>20
<1>22. /\ tail' \in [on : BOOLEAN, from : Nat, seen : Nat, shown : Seq(Nat), burst : BOOLEAN]
       /\ tail'.on /\ tail'.from = from /\ tail'.seen = m /\ tail'.shown = p /\ (tail'.burst <=> d)
  BY <1>3, <1>13, <1>19, <1>21
<1>23. UNCHANGED <<world, registry, call, remote, audit, clock>>
  BY DEF Poll
<1>24. ToSet(p) \subseteq (from + 1)..m
  <2>1. ASSUME NEW x \in ToSet(shown)
        PROVE  x \in (from + 1)..m
    <3>1. x \in (from + 1)..seen
      BY <1>4
    <3> QED
      BY <1>3, <1>13, <3>1
  <2>2. ASSUME NEW x \in ToSet(q)
        PROVE  x \in (from + 1)..m
    BY <1>2, <1>3, <1>13
  <2> QED
    BY <1>19, <2>1, <2>2
<1>25. ~d => ToSet(p) = (from + 1)..m
  <2>1. ASSUME ~d
        PROVE  ToSet(p) = (from + 1)..m
    <3>1. ~b /\ n - seen <= TailLimit
      BY <1>3, <1>6, <1>20, <2>1
    <3>2. ToSet(p) = ((from + 1)..seen) \cup ((seen + 1)..m)
      BY <1>4, <1>14, <1>19, <3>1
    <3> QED
      BY <1>2, <1>3, <1>13, <3>2
  <2> QED
    BY <2>1
<1>26. TailShowsEachOnce'
  BY <1>19, <1>22, <1>24, <1>25 DEF TailShowsEachOnce
<1>27. TailOK'
  BY <1>1, <1>2, <1>13, <1>22, <1>23, <1>26 DEF TailOK
<1> QED
  BY <1>23, <1>27, LogStep

----------------------------------------------------------------------------
\* The theorems.

LEMMA InitHolds ==
  ASSUME Init
  PROVE  IInv
<1>1. PICK w \in Worlds :
        /\ world = w /\ global \in Globals[w] /\ servers \in [Ids -> [here : {TRUE}, policy : Locals[w]]]
        /\ members = Ids /\ call = [c \in Calls |-> NoCall]
        /\ remote = [c \in Calls |-> [s \in Ids |-> Untouched]]
        /\ audit = <<>> /\ clock = 0
        /\ tail = [on |-> FALSE, from |-> 0, seen |-> 0, shown |-> <<>>, burst |-> FALSE]
  BY DEF Init
<1>2. SettingOK
  <2>1. servers \in [Ids -> [here : BOOLEAN, policy : Locals[w] \cup {NoFile}]]
    BY <1>1
  <2> QED
    BY <1>1, <2>1 DEF SettingOK
<1>3. TailOK
  <2>1. PICK zero \in Nat, e \in Seq(Nat) : zero = 0 /\ e = <<>> /\ Len(e) = zero
    BY EmptySeq
  <2>2. tail = [on |-> FALSE, from |-> zero, seen |-> zero, shown |-> e, burst |-> FALSE]
    BY <1>1, <2>1
  <2>3. /\ tail \in [on : BOOLEAN, from : Nat, seen : Nat, shown : Seq(Nat), burst : BOOLEAN]
        /\ tail.from = zero /\ tail.seen = zero /\ tail.shown = e
    BY <2>1, <2>2
  <2>4. IsInjective(e) /\ ToSet(e) = {} /\ (zero + 1)..zero = {}
    BY <2>1 DEF IsInjective, ToSet
  <2>5. TailShowsEachOnce
    BY <2>3, <2>4 DEF TailShowsEachOnce
  <2>6. audit = e /\ clock = zero
    BY <1>1, <2>1
  <2> QED
    BY <2>1, <2>3, <2>5, <2>6 DEF TailOK
<1>4. call = [c \in Calls |-> call[c]] /\ \A c \in Calls : CallOK(call[c]) /\ call[c] = NoCall
  BY <1>1 DEF CallOK
<1>5. /\ remote \in [Calls -> [Ids -> Remotes]]
      /\ \A c \in Calls, s \in Ids : remote[c][s] = Untouched
  BY <1>1, UntouchedIs
<1>6. \A c \in Calls, s \in Ids : RemoteOK(call[c], s, remote[c][s])
  BY <1>4, <1>5 DEF RemoteOK
<1> QED
  BY <1>2, <1>3, <1>4, <1>5, <1>6 DEF IInv

LEMMA StutterHolds ==
  ASSUME IInv, UNCHANGED vars
  PROVE  IInv'
<1>1. UNCHANGED <<world, registry, call, remote>> /\ TailOK'
  BY TailFrame DEF vars, registry, IInv
<1> QED
  BY <1>1, LogStep

LEMMA NextHolds ==
  ASSUME IInv, Next
  PROVE  IInv'
<1>1. ASSUME NEW c \in Calls, \/ Begin(c) \/ LookUp(c) \/ WriteAudit(c) \/ Decide(c) \/ Answer(c)
                              \/ Prepare(c) \/ Return(c)
      PROVE  IInv'
  BY <1>1, BeginStep, LookUpStep, WriteAuditStep, DecideStep, AnswerStep, PrepareStep, ReturnStep
<1>2. ASSUME NEW c \in Calls, NEW s \in Ids,
             \/ Dial(c, s) \/ Launch(c, s) \/ RunNext(c, s) \/ RunPTY(c, s) \/ Copy(c, s)
             \/ Upload(c, s) \/ SendLine(c, s) \/ RunScriptFile(c, s) \/ RemoveScriptFile(c, s)
             \/ ScriptReturns(c, s)
      PROVE  IInv'
  BY <1>2, DialStep, LaunchStep, RunNextStep, RunPTYStep, CopyStep, UploadStep, SendLineStep,
     RunScriptFileStep, RemoveScriptFileStep, ScriptReturnsStep
<1>3. ASSUME NEW s \in Ids, SetServerPolicy(s) \/ DeleteServer(s)
      PROVE  IInv'
  BY <1>3, SetServerPolicyStep, DeleteServerStep
<1>4. ASSUME SetTrust \/ AuditedElsewhere \/ Tick \/ StartTail \/ Poll
      PROVE  IInv'
  BY <1>4, SetTrustStep, AuditedElsewhereStep, TickStep, StartTailStep, PollStep
<1> QED
  BY <1>1, <1>2, <1>3, <1>4 DEF Next

\* The records of the calls, of what they did to the servers, and of the tail hold
\* together in every state.
THEOREM Inductive == Spec => []IInv
<1>1. Init => IInv
  BY InitHolds
<1>2. IInv /\ [Next]_vars => IInv'
  BY NextHolds, StutterHolds
<1> QED
  BY <1>1, <1>2, PTL DEF Spec

\* A verdict, of a call or of a dry run, is what the policy of one of its servers asks
\* for, and as strict as any of the others asks for: for every policy file, request and
\* minute, and whatever people edit meanwhile (policy.go:102-166, 199-217, 303-318).
THEOREM Judged == Spec => []VerdictsObeyPolicy
<1>1. IInv => VerdictsObeyPolicy
  <2>1. VerdictObeys(NoCall)
    BY NoCallIs DEF VerdictObeys
  <2> QED
    BY <2>1 DEF IInv, CallOK, VerdictsObeyPolicy
<1> QED
  BY <1>1, Inductive, PTL

\* A policed command runs on a server only when the verdict of its call allows it or a
\* person or a window approved it, and only on a server that was there to be looked up
\* when its policy was read (tools.go:437-483, 527-610, exec.go:78-106).
THEOREM Sanctioned == Spec => []RunsAreSanctioned
<1>1. ASSUME IInv
      PROVE  RunsAreSanctioned
  <2>1. ASSUME NEW c \in Calls, NEW s \in Ids, Policed(call[c]), remote[c][s].runs > 0, call[c].by # "skip"
        PROVE  /\ \/ call[c].verdict = "allow"
                  \/ call[c].verdict = "require_approval" /\ call[c].by \in {"trust", "person"}
               /\ s \in ToSet(call[c].targets) \cap (call[c].found \cup call[c].missed)
    <3>1. PICK k, r : k = call[c] /\ r = remote[c][s]
      OBVIOUS
    <3>2. k # NoCall
      BY <2>1, <3>1, NoCallIs DEF Policed, None
    <3>3. CallSound(k) /\ RemoteSound(k, s, r)
      BY <1>1, <3>1, <3>2, IsCalled
    <3>4. r # Untouched /\ k.kind # "exec_app"
      BY <2>1, <3>1, UntouchedIs DEF Policed
    <3>5. s \in ToSet(k.targets) /\ Stage(k) = "run" /\ s \in k.found \cup k.missed
      BY <2>1, <3>1, <3>3, <3>4 DEF RemoteSound, Reached
    <3>6. "policy" \notin ToCome(k)
      BY <3>3, <3>5, ToComeIs DEF CallSound
    <3> QED
      BY <2>1, <3>1, <3>3, <3>5, <3>6 DEF CallSound
  <2> QED
    BY <2>1 DEF RunsAreSanctioned
<1> QED
  BY <1>1, Inductive, PTL

\* What a call returns accounts for all it did to each of its servers, and it touches
\* no other (exec.go:78-131, tools.go:573-610, cluster_exec.go:80-120, cluster.go:111-140).
THEOREM Complete == Spec => []ResultsAreComplete
<1>1. ASSUME IInv
      PROVE  ResultsAreComplete
  <2>1. ASSUME NEW c \in Calls, NEW s \in Ids, NEW k, k = call[c], NEW r, r = remote[c][s]
        PROVE  /\ s \notin ToSet(k.targets) => r = Untouched
               /\ k.end \in {"refused", "told"} /\ k.kind # "exec_app" => r.runs = 0 /\ r.step = "dial"
               /\ r.step = "ok" /\ H(k).how = "commands" /\ ~k.expect =>
                    /\ Len(r.results) = Len(k.commands) /\ NoneAfterLost(r.results)
                    /\ r.runs = RunsOf(r.results)
    <3>1. CASE k = NoCall
      BY <1>1, <2>1, <3>1, UntouchedIs DEF IInv, RemoteOK
    <3>2. CASE k # NoCall
      <4>1. CallSound(k) /\ RemoteSound(k, s, r)
        BY <1>1, <2>1, <3>2, IsCalled
      <4>2. k.end \in {"refused", "told"} /\ k.kind # "exec_app" => r = Untouched
        BY <4>1 DEF CallSound, RemoteSound
      <4> QED
        BY <4>1, <4>2, UntouchedIs DEF RemoteSound, CommandsOK
    <3> QED
      BY <3>1, <3>2
  <2>2. ASSUME NEW c \in Calls, call[c].end = "ok", ~Many(call[c]), NEW t \in ToSet(call[c].targets)
        PROVE  remote[c][t].step = "ok"
    <3>1. PICK k : k = call[c]
      OBVIOUS
    <3>2. k # NoCall
      BY <2>2, <3>1, NoCallIs DEF None
    <3>3. t \in Ids
      BY <1>1, <2>2, <3>1, <3>2, IsCalled DEF CallSound, Records, ToSet
    <3> QED
      BY <1>1, <2>2, <3>1, <3>2, <3>3, IsCalled DEF RemoteSound
  <2> QED
    BY <2>1, <2>2 DEF ResultsAreComplete
<1> QED
  BY <1>1, Inductive, PTL

\* A script runs at most once; when its call tells an exit status, zero or not, it has
\* run and its file is gone unless it was to be kept, but for the 130 of a timeout
\* (file_transfer.go:84-175, 254-358, run_script.go:43-128, run_local.go:44-134,
\* managed_session.go:179-203).
THEOREM Scripted == Spec => []ScriptsVanish
<1>1. ASSUME IInv
      PROVE  ScriptsVanish
  <2>1. ASSUME NEW c \in Calls, NEW s \in Ids, NEW k, k = call[c], NEW r, r = remote[c][s], k.kind \in Scripts
        PROVE  /\ r.runs <= 1
               /\ r.results \in {<<"zero">>, <<"nonzero">>} => r.runs = 1 /\ r.file = k.keep
               /\ k.end = "ok" /\ s \in ToSet(k.targets) => Good(k, r)
    <3>1. k # NoCall
      BY <2>1, NoCallIs DEF Scripts, None
    <3>2. CallSound(k) /\ RemoteSound(k, s, r)
      BY <1>1, <2>1, <3>1, IsCalled
    <3>3. k.kind \in Kind
      BY <3>2 DEF CallSound, Records, Kind
    <3>4. Fitting(k.kind, H(k))
      BY <3>3, HandlerFits DEF H
    <3>5. H(k).how = "script" /\ ~Many(k)
      BY <2>1, <3>4 DEF Fitting, Many
    <3> QED
      BY <3>2, <3>5 DEF RemoteSound, ScriptOK
  <2> QED
    BY <2>1 DEF ScriptsVanish
<1> QED
  BY <1>1, Inductive, PTL

\* The tail shows each row written since it started once, and misses none unless more
\* were written between two polls than it asks for (agent_audit.go:145-200,
\* audit_repo.go:96-151).
THEOREM Tailing == Spec => []TailShowsEachOnce
<1>1. IInv => TailShowsEachOnce
  BY DEF IInv, TailOK
<1> QED
  BY <1>1, Inductive, PTL
=============================================================================
