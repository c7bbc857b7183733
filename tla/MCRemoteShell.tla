---------------------------- MODULE MCRemoteShell ----------------------------
EXTENDS RemoteShell
MCWorlds == {"alone", "told", "overlap"}
In(alone, told, overlap) ==
  [w \in MCWorlds |-> CASE w = "alone" -> alone [] w = "told" -> told [] w = "overlap" -> overlap]
MCMaxCalls == In(4, 3, 3)
MCOverlap == In(1, 1, 2)
MCAsked == In({"exit", "ls", "logout"}, {"", "status", "cd", "pushd"}, {"exit", "ls", "pty"})
=============================================================================
