------------------------------- MODULE MCTui -------------------------------
EXTENDS Tui
MCStart == {"welcome", "server", "gateway", "cluster", "hosts", "tunnel", "app-server", "profile"}
MCScope == [s \in MCStart |-> CASE s = "welcome" -> {"server"}
                                [] s = "hosts" -> {"hosts", "plugin", "tunnel"}
                                [] s = "tunnel" -> {"server", "tunnel"}
                                [] OTHER -> {s}]
MCEdited == [s \in MCStart |-> IF s = "tunnel" THEN {} ELSE MCScope[s] \cap Forms]
MCStored == [s \in MCStart |-> [t \in Tables |->
              CASE s = "cluster" /\ t = s -> {1}
                [] t = "server" /\ s \notin {"welcome", "gateway"} -> {1}
                [] t \in MCScope[s] \cup {"server"} -> {1, 2}
                [] t = "plugin" \/ (t = "gateway" /\ s # "welcome") -> {1}
                [] OTHER -> {}]]
MCElsewhere == [s \in MCStart |-> IF s \in {"profile", "cluster"} THEN 1 ELSE 0]
MCMaxCmds == [s \in MCStart |-> IF s \in {"hosts", "server", "tunnel", "app-server", "profile"} THEN 2 ELSE 1]
MCCreator == {"tunnel"}
MCProfile == {"profile"}
=============================================================================
