----------------------------- MODULE MCRegistry -----------------------------
EXTENDS Registry
MCNames == {"a", "ab"}
MCLonger == [n \in MCNames |-> IF n = "a" THEN {"ab"} ELSE {}]
MCWorlds == {"routes", "groups", "owned", "others", "profiles", "old file", "sessions", "age", "keychain",
             "three", "mac"}
All == MCWorlds \cup {"plain"}

Servers(k) == [EmptyDb EXCEPT !.rows["servers"] = [i \in 1..k |-> Row(<<"a", "ab">>[i], 0)],
                              !.next["servers"] = k]
Gateway(db, ks) == [db EXCEPT !.rows["gateways"] = 1 :> Row("a", 0), !.next["gateways"] = 1,
                              !.kids["gateways"] = 1 :> ks]
Cluster(db, ks) == [db EXCEPT !.rows["clusters"] = 1 :> Row("a", 0), !.next["clusters"] = 1,
                              !.kids["clusters"] = 1 :> ks]
Profiles(db) == [db EXCEPT !.rows["profiles"] = [i \in 1..2 |-> [Row(<<"a", "ab">>[i], 0) EXCEPT !.active = i = 1]],
                           !.next["profiles"] = 2, !.kids["profiles"] = 1 :> <<1>> @@ 2 :> <<>>]
Has(db, t) == [db EXCEPT !.rows[t] = 1 :> Row("a", 1), !.next[t] = 1]
RoutedServer(db) == [db EXCEPT !.rows["servers"][1].ref = 1]

MCStart == [w \in All |->
  CASE w = "routes" -> RoutedServer(Gateway(Servers(2), <<2>>))
    [] w = "groups" -> Cluster(Servers(2), <<1, 2>>)
    [] w = "profiles" -> Profiles(Gateway(Servers(1), <<1>>))
    [] w = "owned" -> Has(Has(Servers(1), "tunnels"), "app_servers")
    [] w = "others" -> Has(Has(Servers(1), "aliases"), "notes")
    [] w = "old file" -> Has(Cluster(RoutedServer(Gateway(Servers(2), <<2>>)), <<1>>), "tunnels")
    [] w = "sessions" -> Has(Servers(1), "tunnels")
    [] w \in {"age", "keychain", "three", "plain", "mac"} -> EmptyDb]
MCUses == [w \in All |->
  CASE w = "routes" -> {"servers", "gateways"}
    [] w = "groups" -> {"servers", "clusters"}
    [] w = "profiles" -> {"gateways", "profiles"}
    [] w = "owned" -> {"servers", "tunnels", "app_servers"}
    [] w = "others" -> {"servers", "aliases", "hosts", "notes", "policy"}
    [] w = "old file" -> {"servers", "gateways", "clusters", "tunnels"}
    [] w = "sessions" -> {"tunnels", "sessions"}
    [] w \in {"age", "keychain", "three", "plain", "mac"} -> {"passwords", "policy"}]
MCForeignKeys == [w \in All |-> IF w = "old file" THEN {} ELSE Clients]
MCChain == [w \in All |-> CASE w = "age" -> <<"age", "plaintext">>
                                 [] w \in {"keychain", "mac"} -> <<"keychain", "plaintext">>
                                 [] w = "three" -> <<"keychain", "age", "plaintext">>
                                 [] OTHER -> <<"plaintext">>]
MCQuota == [w \in All |-> [p \in Clients |->
             IF w \in {"age", "keychain", "three", "plain", "mac"} THEN (IF p = 1 THEN 4 ELSE 0)
             ELSE IF w = "old file" THEN (IF p = 1 THEN 1 ELSE 1) ELSE (IF p = 1 THEN 2 ELSE 1)]]
MCRefuted == {"old file", "plain", "mac"}
MCReplacing == {"mac"}
=============================================================================
