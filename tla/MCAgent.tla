------------------------------ MODULE MCAgent ------------------------------
EXTENDS Agent
Rule(n, a) == [named |-> n, action |-> a, commands |-> {}, agents |-> {}, servers |-> {},
               clusters |-> {}, window |-> <<>>]
File(d, rs) == [default |-> d, skip |-> FALSE, rules |-> rs]
Pool == {Rule(TRUE, "deny"), Rule(FALSE, "allow"),
         [Rule(TRUE, "allow") EXCEPT !.commands = {"rm"}],
         [Rule(FALSE, "deny") EXCEPT !.commands = {"rm"}],
         [Rule(TRUE, "deny") EXCEPT !.agents = {"bot"}],
         [Rule(TRUE, "require_approval") EXCEPT !.servers = {1}],
         [Rule(TRUE, "deny") EXCEPT !.clusters = {Cluster}, !.commands = {"ls"}],
         [Rule(TRUE, "require_approval") EXCEPT !.window = <<1, 3>>],
         [Rule(TRUE, "deny") EXCEPT !.window = <<3, 1>>],
         [Rule(TRUE, "allow") EXCEPT !.window = <<2, 2>>]}
AllFiles == {File(d, rs) : d \in {"allow", "deny", "require_approval"}, rs \in SeqOf(Pool, 2)}
Open == File("allow", <<>>)
Asks == File("require_approval", <<>>)
Denies == File("allow", <<[Rule(TRUE, "deny") EXCEPT !.commands = {"rm"}]>>)
Skip == [File("deny", <<>>) EXCEPT !.skip = TRUE]

MCWorlds == {"dry", "one", "many", "direct", "tail"}
In(dry, one, many, direct, tl) ==
  [w \in MCWorlds |-> CASE w = "dry" -> dry [] w = "one" -> one [] w = "many" -> many
                       [] w = "direct" -> direct [] w = "tail" -> tl]
MCKinds == In(DryRuns, {"exec_command", "ssh_cmd"}, {"exec_on_cluster"},
              DOMAIN Handlers \ (DryRuns \cup {"exec_command", "ssh_cmd", "exec_on_cluster"}),
              {"push_file"})
MCAsked == In({<<"ls">>, <<"ls", "rm">>}, {<<"ls">>, <<"ls", "rm">>}, {<<"ls">>, <<"rm">>},
              {<<"ls", "rm">>}, {<<"ls">>})
MCGlobals == In(AllFiles \cup {NoFile, BadFile}, {NoFile, BadFile, Skip}, {NoFile}, {NoFile}, {NoFile})
MCLocals == In({NoFile, Denies}, {NoFile, BadFile, Denies}, {NoFile, Denies, Asks}, {NoFile}, {NoFile})
MCRouters == In({}, {}, {}, {2}, {})
MCMaxEdits == In(0, 1, 1, 1, 0)
MCMaxEvents == In(0, 1, 1, 1, 4)
MCTailed == {"tail"}
MCDefaultDeny == {"one"}
=============================================================================
