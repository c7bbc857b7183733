------------------------------ MODULE MCConnect ------------------------------
(* Settings of Connect for TLC. Servers 1 and 2 are gateways, 3 is a destination.
   "edits": two edits fall between the reads of one call of any kind.
   "keys": two calls, and a server that is reinstalled between them.
   "shells": the CLI over two hops that refuse to forward, chunk by chunk, with every
   answer an ssh can give and connections that end by themselves.
   "chunks" and "floods": the same with chunks of several tokens, and with output. *)
EXTENDS Connect

CONSTANT office

All == [servers |-> Servers, routes |-> Routes, hops |-> [r \in Routes |-> IF r = 1 THEN <<1, 2>> ELSE <<2, 3>>],
        own |-> [s \in Servers |-> IF s = 3 THEN 2 ELSE 0], profiles |-> Profiles,
        via |-> [p \in Profiles |-> 1], active |-> office]
Quietly == [All EXCEPT !.active = 0]

MCStart == [w \in Worlds |-> IF w \in {"edits", "keys"} THEN All ELSE Quietly]
MCKinds == [w \in Worlds |-> CASE w = "edits" -> {"cli", "mcp", "web"} [] w = "keys" -> {"mcp"} [] OTHER -> {"cli", "args"}]
MCArgs == [w \in Worlds |-> {<<1, 3>>, <<2, 1, 3>>}]
MCMaxCalls == [w \in Worlds |-> IF w = "keys" THEN 2 ELSE 1]
MCMaxEdits == [w \in Worlds |-> CASE w = "edits" -> 2 [] w = "keys" -> 1 [] OTHER -> 0]
MCOutput == [w \in Worlds |-> IF w = "floods" THEN 4 ELSE 1]
MCWorlds == {"edits", "keys", "shells"}
MCChained == {"shells", "chunks", "floods"} \cap Worlds
MCCoalesced == {"chunks"} \cap Worlds
MCRefuted == {"shells", "chunks", "keys"}
OnlyFloods == {"floods"}
OnlyEdits == {"edits"}
=============================================================================
