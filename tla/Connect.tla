------------------------------- MODULE Connect -------------------------------
(* How a call reaches a server: the three copies of buildHopChain (internal/cli/connect.go,
   mcp/exec.go, web/terminal/ws_pty.go) read the route from the database one
   statement at a time while others edit it; DialChain (ssh/proxy.go, ssh/client.go)
   dials hop after hop; and the CLI falls back to ShellChain (ssh/shell_chain.go), which
   types "ssh" into the shell of one hop after the other and reads its way by patterns.

   A hop is its server. What is on a terminal is a sequence of tokens, the things the
   patterns can see; a chunk is what one Read returns. *)
EXTENDS Integers, FiniteSets, Sequences, SequencesExt, FiniteSetsExt, Functions

CONSTANTS Servers, Routes, Profiles,
          Worlds,
          Start,      \* of a world: its database
          Kinds,      \* of a world: the kinds of its calls
          Args,       \* of a world: what "args" may be given
          MaxCalls,   \* bound: [Worlds -> Nat], calls one after the other
          MaxEdits,   \* bound: [Worlds -> Nat], edits by others and new host keys
          Chained,    \* SUBSET Worlds: a hop may refuse to forward, and the shells take over
          Coalesced,  \* SUBSET Worlds: one Read may return several tokens
          Output,     \* [Worlds -> Nat]: what the command prints
          ChanCap,    \* the capacity of the reader's channel (64 in the code)
          MaxTries    \* bound: passwords that ssh asks for

\* Servers and routes by their numbers; 0 is NULL. hops: of a route; own: the route of
\* a server; via: the route of a profile. A number may be that of a row that is gone.
Databases == [servers : SUBSET Servers, routes : SUBSET Routes, hops : [Routes -> Seq(Servers)],
              own : [Servers -> Routes \cup {0}], profiles : SUBSET Profiles,
              via : [Profiles -> Routes \cup {0}], active : Profiles \cup {0}]
CallKinds == {"cli", "args", "mcp", "web"}

ASSUME ConnectAssumption ==
  /\ ChanCap \in Nat \ {0} /\ MaxTries \in Nat /\ Output \in [Worlds -> Nat]
  /\ Start \in [Worlds -> Databases] /\ Kinds \in [Worlds -> SUBSET CallKinds]
  /\ Args \in [Worlds -> SUBSET (Seq(Servers) \ {<<>>})]
  /\ Chained \subseteq Worlds /\ Coalesced \subseteq Worlds /\ 0 \notin Servers \cup Routes \cup Profiles

KeyTypes == {"ecdsa", "ed25519"}

VARIABLES world,
          d,        \* the database: servers, their gateway routes, routes, hops, profiles
          seen,     \* history: the databases there were since the call began
          key,      \* of a server: the generation of its host keys
          known,    \* known_hosts: a set of <<server, type, generation>>
          accepted, \* history: of a server, the keys that were accepted for it, and how
          call,
          open,     \* the connections of the call, by the number of their hop
          sh,       \* the shells of ShellChain: terminal, reader and conductor
          web,      \* the Web terminal: is the browser there, is the shell
          ran,      \* history: the hops on which the command of the call was run
          leaked,   \* history: a password was typed into a shell
          astray,   \* history: an ssh has failed in unknown words ("words"), or ended unasked ("gone")
          calls, edits

vars == <<world, d, seen, key, known, accepted, call, open, sh, web, ran, leaked, astray, calls, edits>>
files == <<key, known, accepted>>
history == <<ran, leaked, astray>>
terminals == <<sh, web, history>>

Idle == [kind |-> "none", dest |-> 0, args |-> <<>>, override |-> "", pc |-> "idle", part |-> "none",
         own |-> 0, via |-> 0, row |-> 0, todo |-> <<>>, hops |-> <<>>,
         half |-> FALSE, after |-> "idle"]
NoShell == [hop |-> 0, typed |-> <<>>, out |-> <<>>, chan |-> <<>>, held |-> FALSE, acc |-> <<>>,
            depth |-> 0, asks |-> "shell", tries |-> 0]

Init ==
  /\ world \in Worlds /\ d = Start[world] /\ seen = {}
  /\ key = [s \in Servers |-> 1]
  /\ known \in SUBSET {<<s, t, 1>> : s \in Servers \cap {1}, t \in KeyTypes}
  /\ accepted = [s \in Servers |-> <<>>]
  /\ call = Idle /\ open = {} /\ sh = NoShell /\ web = [browser |-> FALSE, shell |-> FALSE]
  /\ ran = {} /\ leaked = FALSE /\ astray = "no" /\ calls = 0 /\ edits = 0

----------------------------------------------------------------------------
\* Others edit the database, one statement or transaction at a time. cascade: their
\* connection enforces foreign keys (Registry.tla).

\* A route without s: of[i] is what is left of its first i hops.
Without(hops, s) ==
  LET of[i \in 0..Len(hops)] ==
        IF i = 0 THEN <<>> ELSE IF hops[i] = s THEN of[i - 1] ELSE Append(of[i - 1], hops[i])
  IN  of[Len(hops)]
WithoutServer(s, cascade) ==
  [d EXCEPT !.servers = @ \ {s},
            !.hops = IF cascade THEN [r \in Routes |-> Without(@[r], s)] ELSE @]
WithoutRoute(r, cascade) ==
  [d EXCEPT !.routes = @ \ {r},
            !.hops[r] = IF cascade THEN <<>> ELSE @,
            !.own = IF cascade THEN [s \in Servers |-> IF @[s] = r THEN 0 ELSE @[s]] ELSE @,
            !.via = IF cascade THEN [p \in Profiles |-> IF @[p] = r THEN 0 ELSE @[p]] ELSE @]
WithRoute(r, hops) == [d EXCEPT !.hops[r] = hops]
WithOwn(s, r) == [d EXCEPT !.own[s] = r]
WithActive(p) == [d EXCEPT !.active = p]
WithoutProfile(p) == [d EXCEPT !.profiles = @ \ {p}, !.active = IF @ = p THEN 0 ELSE @]

Edits ==
  {WithoutServer(s, c) : s \in d.servers, c \in BOOLEAN} \cup {WithoutRoute(r, c) : r \in d.routes, c \in BOOLEAN}
  \cup {WithRoute(r, <<s, t>>) : r \in d.routes, s, t \in d.servers}
  \cup {WithOwn(s, r) : s \in d.servers, r \in d.routes \cup {0}}
  \cup {WithActive(p) : p \in d.profiles \cup {0}} \cup {WithoutProfile(p) : p \in d.profiles}

Edit ==
  /\ edits < MaxEdits[world] /\ edits' = edits + 1 /\ call.pc \notin {"idle", "use", "web", "shell", "close"}
  /\ d' \in Edits /\ seen' = seen \cup {d'}
  /\ UNCHANGED <<world, files, call, open, terminals, calls>>
\* A server is reinstalled.
Rekey(s) ==
  /\ edits < MaxEdits[world] /\ edits' = edits + 1 /\ call.pc = "idle"
  /\ key' = [key EXCEPT ![s] = @ + 1]
  /\ UNCHANGED <<world, d, seen, known, accepted, call, open, terminals, calls>>

----------------------------------------------------------------------------
\* The route.

Go(c, pc) == [c EXCEPT !.pc = pc]
\* Every way out closes what is open (CloseAll below).
Fail ==
  /\ call' = Go([call EXCEPT !.half = FALSE], "close")
  /\ sh' = NoShell /\ web' = [browser |-> FALSE, shell |-> FALSE]
  /\ UNCHANGED <<world, d, seen, files, open, history, calls, edits>>
Step(c) == call' = c /\ UNCHANGED <<world, d, seen, files, open, terminals, calls, edits>>

Begins(c) ==
  /\ call' = c /\ calls' = calls + 1 /\ seen' = {d} /\ ran' = {} /\ leaked' = FALSE /\ astray' = "no"
  /\ UNCHANGED <<world, d, files, open, sh, web, edits>>

\* A server by its name or alias; a name that the registry does not have is dialled
\* as it is (connectDirect), which only the CLI does.
Begin(kind, dest, override) ==
  /\ call.pc = "idle" /\ calls < MaxCalls[world] /\ kind \in Kinds[world] \ {"args"}
  /\ kind = "mcp" => override = ""
  /\ LET c == [Idle EXCEPT !.kind = kind, !.dest = dest, !.override = override] IN
     \/ dest \in d.servers /\ Begins([c EXCEPT !.pc = "profile", !.own = d.own[dest]])
     \/ dest \notin d.servers /\ kind = "cli" /\ Begins([c EXCEPT !.pc = "dial", !.hops = <<dest>>])

\* doConnectChain: the hops are the arguments, each looked up, or dialled as it is.
BeginArgs(args) ==
  /\ call.pc = "idle" /\ calls < MaxCalls[world] /\ "args" \in Kinds[world]
  /\ Begins([Idle EXCEPT !.kind = "args", !.dest = Last(args), !.args = args, !.todo = args, !.pc = "args"])
LookUpArg ==
  /\ call.pc = "args"
  /\ Step(IF call.todo = <<>> THEN Go(call, "dial")
          ELSE [call EXCEPT !.hops = Append(@, Head(call.todo)), !.todo = Tail(@)])

ProfileOf(x) == IF call.override = "" THEN x.active ELSE call.override
ReadProfile ==
  /\ call.pc = "profile"
  /\ CASE call.override = "none" -> Step([call EXCEPT !.pc = "own", !.part = "server"])
       [] call.override \notin {"none", ""} /\ call.override \notin d.profiles -> Fail
       [] OTHER ->
          LET p == ProfileOf(d) IN
          Step(IF p = 0 \/ d.via[p] = 0 THEN [call EXCEPT !.pc = "own", !.part = "server"]
               ELSE [call EXCEPT !.pc = "row", !.part = "profile", !.via = d.via[p], !.row = d.via[p]])

\* The route of the server itself comes second, unless it is the one of the profile.
ReadOwn ==
  /\ call.pc = "own"
  /\ Step(IF call.own # 0 /\ call.own # call.via THEN [call EXCEPT !.pc = "row", !.row = call.own]
          ELSE Go(call, "dest"))

\* GetByID of a route is two statements.
ReadRow == call.pc = "row" /\ IF call.row \in d.routes THEN Step(Go(call, "hops")) ELSE Fail
After(c) == IF c.part = "profile" THEN [c EXCEPT !.pc = "own", !.part = "server"] ELSE Go(c, "dest")
KeptUnlessProfile(hops, part, dest) ==
  IF part = "profile" /\ dest \in ToSet(hops) THEN <<>> ELSE hops
\* The destination is no hop before itself: it voids the route of a profile and is
\* left out of its own.
Kept(hops, part, dest) ==
  IF part = "server" THEN Without(hops, dest)
  ELSE IF dest \in ToSet(hops) THEN <<>> ELSE hops
ReadHops ==
  /\ call.pc = "hops"
  /\ Step([call EXCEPT !.pc = "hop", !.todo = Kept(d.hops[call.row], call.part, call.dest)])
ReadHop ==
  /\ call.pc = "hop"
  /\ IF call.todo = <<>> THEN Step(After(call))
     ELSE IF Head(call.todo) \notin d.servers THEN Fail
     ELSE Step([call EXCEPT !.hops = Append(@, Head(call.todo)), !.todo = Tail(@)])
ReadDest ==
  /\ call.pc = "dest" /\ Step([call EXCEPT !.pc = "dial", !.hops = Append(@, call.dest)])

----------------------------------------------------------------------------
\* DialChain.

\* buildHostKeyCallback. The algorithms of known_hosts are nil as soon as there is an
\* empty line, and the split of a file that ends in a newline has one: the order of
\* golang.org/x/crypto decides what key the server shows.
Shown(s) == <<s, "ecdsa", key[s]>>
OnFile(s) == {k \in known : k[1] = s}
TrustsAnyKey(s, k) == TRUE
Trusts(s, k) == k \in OnFile(s) \/ OnFile(s) = {}
Ways == {"known", "added", "unsaved", "unread", "inner"}
Accepts(s, way) == accepted' = [accepted EXCEPT ![s] = Append(@, [key |-> Shown(s), how |-> way])] /\ UNCHANGED key
\* A key that is on file, or one of a host that is not, whose line may fail to be
\* written; and any key at all when known_hosts cannot be read or parsed.
Met(s) ==
  \/ Trusts(s, Shown(s)) /\ Shown(s) \in known /\ Accepts(s, "known") /\ UNCHANGED known
  \/ /\ Trusts(s, Shown(s)) /\ Shown(s) \notin known
     /\ \/ Accepts(s, "added") /\ known' = known \cup {Shown(s)}
        \/ Accepts(s, "unsaved") /\ UNCHANGED known
  \/ Accepts(s, "unread") /\ UNCHANGED known

\* Dial checks the key of the first hop, DialVia that of none.
DialFirst ==
  /\ call.pc = "dial" /\ open = {}
  /\ LET s == Head(call.hops) IN
     /\ Met(s) /\ open' = {1}
     /\ UNCHANGED <<world, d, seen, call, terminals, calls, edits>>
\* A channel through the hop before, and the handshake in it.
DialVia ==
  /\ call.pc = "dial" /\ open # {} /\ Cardinality(open) < Len(call.hops) /\ ~call.half
  /\ Step([call EXCEPT !.half = TRUE])
Handshake ==
  /\ call.pc = "dial" /\ call.half
  /\ LET n == Cardinality(open) + 1 IN
     open' = open \cup {n} /\ Accepts(call.hops[n], "inner") /\ UNCHANGED known
  /\ call' = [call EXCEPT !.half = FALSE]
  /\ UNCHANGED <<world, d, seen, terminals, calls, edits>>
\* A dial that fails closes what was dialled; a connection that ends in the handshake
\* sends the CLI to the shells after that.
DialFails(eof) ==
  /\ call.pc = "dial" /\ Cardinality(open) < Len(call.hops)
  /\ eof => call.half /\ world \in Chained
  /\ Step(Go([call EXCEPT !.half = FALSE,
                 !.after = IF eof /\ call.kind \in {"cli", "args"} THEN "redial" ELSE "idle"], "close"))

CloseAllButFirst ==
  /\ call.pc = "close"
  /\ IF open \ {1} # {} THEN open' = open \ {Max(open)} /\ UNCHANGED call
     ELSE call' = (IF call.after = "idle" THEN Idle ELSE Go(call, "redial")) /\ UNCHANGED open
  /\ UNCHANGED <<world, d, seen, files, terminals, calls, edits>>
\* The last connection first: each of the others carries the next.
CloseAll ==
  /\ call.pc = "close"
  /\ IF open # {} THEN open' = open \ {Max(open)} /\ UNCHANGED call
     ELSE call' = (IF call.after = "idle" THEN Idle ELSE Go(call, "redial")) /\ UNCHANGED open
  /\ UNCHANGED <<world, d, seen, files, terminals, calls, edits>>

\* The chain stands: the CLI runs its command or its shell on the last hop.
Use ==
  /\ call.pc = "dial" /\ open # {} /\ open = DOMAIN call.hops
  /\ call' = Go(call, IF call.kind = "web" THEN "web" ELSE "use")
  /\ ran' = IF call.kind \in {"cli", "args"} THEN {Len(call.hops)} ELSE ran
  /\ web' = IF call.kind = "web" THEN [browser |-> TRUE, shell |-> TRUE] ELSE web
  /\ UNCHANGED <<world, d, seen, files, open, sh, leaked, astray, calls, edits>>
Return == call.pc = "use" /\ Fail

\* The Web terminal returns when the shell has ended and both pumps have: the one from
\* the browser ends with the browser, which closes the shell's standard input.
BrowserLeaves ==
  /\ call.pc = "web" /\ web.browser /\ web' = [web EXCEPT !.browser = FALSE]
  /\ UNCHANGED <<world, d, seen, files, call, open, sh, history, calls, edits>>
WebShellEnds ==
  /\ call.pc = "web" /\ web.shell /\ web' = [web EXCEPT !.shell = FALSE]
  /\ UNCHANGED <<world, d, seen, files, call, open, sh, history, calls, edits>>
WebReturns == call.pc = "web" /\ ~web.browser /\ ~web.shell /\ Fail

----------------------------------------------------------------------------
\* ShellChain.

Shell(s) == sh' = s /\ UNCHANGED <<world, d, seen, files, call, open, web, calls, edits>>
Quiet == UNCHANGED history

\* The first hop again, with a terminal and a shell that shows its prompt.
Redial ==
  /\ call.pc = "redial"
  /\ Met(Head(call.hops))
  /\ open' = {1} /\ call' = [call EXCEPT !.pc = "shell", !.after = "idle"]
  /\ sh' = [NoShell EXCEPT !.hop = 1, !.depth = 1, !.out = <<"text", "prompt">>]
  /\ UNCHANGED <<world, d, seen, web, history, calls, edits>>
RedialFails == call.pc = "redial" /\ Step([call EXCEPT !.pc = "close", !.after = "idle"])

\* startShellReader: what is read is shown, and then sent, if need be waiting for room.
Reads ==
  /\ call.pc = "shell" /\ ~sh.held /\ sh.out # <<>>
  /\ \E n \in (IF world \in Coalesced THEN 1..Len(sh.out) ELSE {1}) :
       LET chunk == SubSeq(sh.out, 1, n)  rest == SubSeq(sh.out, n + 1, Len(sh.out)) IN
       Shell(IF Len(sh.chan) < ChanCap THEN [sh EXCEPT !.out = rest, !.chan = Append(@, chunk)]
             ELSE [sh EXCEPT !.out = rest, !.chan = Append(@, chunk), !.held = TRUE])
  /\ Quiet
\* The blocked send goes through.
Sends == call.pc = "shell" /\ sh.held /\ Len(sh.chan) <= ChanCap /\ Shell([sh EXCEPT !.held = FALSE]) /\ Quiet

\* waitAny: the patterns in their order, the prompts at the end of what was accumulated.
PatternsWithoutDenied == <<"prompt", "password", "hostkey", "refused", "noroute", "closed">>
Patterns == <<"prompt", "password", "hostkey", "denied", "refused", "noroute", "closed">>
Matches(p, acc) == IF p \in {"prompt", "password"} THEN Last(acc) = p ELSE p \in ToSet(acc)
Hit(acc) ==
  LET ps == IF sh.hop = 1 THEN <<"prompt">> ELSE Patterns
      js == {j \in DOMAIN ps : Matches(ps[j], acc)} IN
  IF js = {} THEN "none" ELSE ps[Min(js)]

\* Past the last hop: the locale, and the command with its "; exit".
Handed(s) == [s EXCEPT !.hop = @ + 1, !.typed = @ \o <<"export", "command">>]
Conducts ==
  /\ call.pc = "shell" /\ sh.hop <= Len(call.hops) /\ sh.chan # <<>>
  /\ LET acc == sh.acc \o Head(sh.chan)
         hit == Hit(acc)
         taken == [sh EXCEPT !.chan = Tail(@), !.acc = IF hit = "none" THEN acc ELSE <<>>]
         types(line) == [taken EXCEPT !.typed = Append(@, line)] IN
     CASE hit = "none" -> Shell(taken) /\ Quiet
       [] hit = "prompt" /\ sh.hop = Len(call.hops) -> Shell(Handed(taken)) /\ Quiet
       [] hit = "prompt" /\ sh.hop < Len(call.hops) -> Shell([types("ssh") EXCEPT !.hop = @ + 1]) /\ Quiet
       [] hit = "password" -> (Shell(types("password")) /\ Quiet) \/ Fail      \* auth_method key
       [] hit = "hostkey" -> Shell(types("yes")) /\ Quiet
       [] OTHER -> Fail
ConductTimesOut == call.pc = "shell" /\ sh.hop <= Len(call.hops) /\ Fail

\* The remote side: the shell of the hop at depth, or the ssh that runs in it and asks.
Prints(s, tokens) == [s EXCEPT !.out = @ \o tokens]
Line == [sh EXCEPT !.typed = Tail(@)]
Back(s, why) == Prints([s EXCEPT !.asks = "shell"], <<why, "prompt">>)
LogsIn(s) == Prints([s EXCEPT !.asks = "shell", !.depth = @ + 1], <<"text", "prompt">>)
Asks(s, what) == Prints([s EXCEPT !.asks = what], <<what>>)
Leaves(s, text) ==
  LET up == [s EXCEPT !.depth = @ - 1] IN
  IF up.depth = 0 THEN Prints(up, text) ELSE Prints(up, text \o <<"prompt">>)
Typed(line, asks) == call.pc = "shell" /\ sh.typed # <<>> /\ Head(sh.typed) = line /\ sh.asks = asks

\* An ssh that fails leaves its shell's prompt behind what it says: one of the failures
\* that the patterns know, or "text" (a reset or timed out connection, no common
\* algorithm, no ssh on this host, ...).
Failures == {"denied", "refused", "noroute", "closed", "text"}
SshFails ==
  \E why \in Failures :
    /\ Shell(Back(Line, why))
    /\ astray' = IF why = "text" /\ astray = "no" THEN "words" ELSE astray
SshRuns ==
  /\ Typed("ssh", "shell") /\ UNCHANGED <<ran, leaked>>
  /\ \/ Shell(LogsIn(Line)) /\ UNCHANGED astray
     \/ \E what \in {"password", "hostkey"} : Shell(Asks([Line EXCEPT !.tries = 0], what)) /\ UNCHANGED astray
     \/ SshFails
HostKeyAnswered ==
  /\ Typed("yes", "hostkey") /\ UNCHANGED <<ran, leaked>>
  /\ \/ Shell(LogsIn(Line)) /\ UNCHANGED astray
     \/ Shell(Asks(Line, "password")) /\ UNCHANGED astray
     \/ SshFails
\* Whatever is typed while ssh asks is a password.
PasswordTyped ==
  /\ call.pc = "shell" /\ sh.typed # <<>> /\ sh.asks = "password"
  /\ \/ Head(sh.typed) = "password" /\ Shell(LogsIn(Line)) /\ UNCHANGED astray
     \/ sh.tries < MaxTries /\ Shell(Prints([Line EXCEPT !.tries = @ + 1], <<"denied", "password">>)) /\ UNCHANGED astray
     \/ SshFails
  /\ ran' = IF Head(sh.typed) = "command" THEN ran \cup {0} ELSE ran
  /\ UNCHANGED leaked
\* An ssh, or one below it, loses its connection while no line of its own is at it.
SshEnds ==
  /\ call.pc = "shell" /\ astray' = "gone" /\ UNCHANGED <<ran, leaked>>
  /\ \E why \in {"closed", "text"}, n \in 1..(IF sh.asks = "shell" THEN sh.depth - 1 ELSE sh.depth) :
       Shell(Back([sh EXCEPT !.depth = n], why))
\* A line that is no command, a command, the end of a shell.
OtherLine ==
  /\ \E line \in {"export", "yes", "password"} : Typed(line, "shell") /\ leaked' = (leaked \/ line = "password")
  /\ Shell(Prints(Line, <<"prompt">>)) /\ UNCHANGED <<ran, astray>>
CommandRuns ==
  /\ Typed("command", "shell")
  /\ Shell(Leaves(Line, [i \in 1..Output[world] |-> "text"])) /\ ran' = ran \cup {sh.depth} /\ UNCHANGED <<leaked, astray>>
UserExits ==
  /\ call.pc = "shell" /\ sh.hop > Len(call.hops) /\ sh.typed = <<>> /\ sh.asks = "shell" /\ sh.depth > 0
  /\ Shell(Leaves(sh, <<>>)) /\ Quiet
ShellOver == call.pc = "shell" /\ sh.depth = 0 /\ Fail

Remote == SshRuns \/ HostKeyAnswered \/ PasswordTyped \/ OtherLine \/ CommandRuns
Local == Reads \/ Sends \/ Conducts \/ ConductTimesOut \/ ShellOver \/ CloseAll

Next ==
  \/ Edit
  \/ \E s \in Servers : Rekey(s)
  \/ \E kind \in Kinds[world], s \in Servers, o \in {"", "none"} \cup Profiles : Begin(kind, s, o)
  \/ \E args \in Args[world] : BeginArgs(args)
  \/ LookUpArg \/ ReadProfile \/ ReadOwn \/ ReadRow \/ ReadHops \/ ReadHop \/ ReadDest
  \/ DialFirst \/ DialVia \/ Handshake \/ (\E eof \in BOOLEAN : DialFails(eof)) \/ Use \/ Return
  \/ BrowserLeaves \/ WebShellEnds \/ WebReturns
  \/ Redial \/ RedialFails \/ Local \/ Remote \/ SshEnds \/ UserExits

\* The goroutines run and what the network brings arrives; users and servers need not
\* do anything, nor need a dial succeed.
Spec == Init /\ [][Next]_vars /\ WF_vars(Local) /\ WF_vars(Remote) /\ WF_vars(WebReturns)

----------------------------------------------------------------------------
\* Properties.

\* The route of a call is the route of the profile without loops, the server's own
\* route without the server, unless it is the same, and the server, once; each part is as it was
\* configured at some time during the call, however the edits fall between the reads
\* (docs/architecture.md:40-41, connect.go:196-315).
RouteWasConfigured ==
  call.kind \in {"cli", "mcp", "web"} /\ call.pc \in {"dial", "use", "web", "redial", "shell"} =>
    \/ call.hops = <<call.dest>> /\ \E x \in seen : call.dest \notin x.servers
    \/ \E x, y, z, w \in seen :
         LET p == IF call.override = "none" THEN 0 ELSE ProfileOf(x)
             via == IF p = 0 THEN 0 ELSE x.via[p]
             own == y.own[call.dest]
             first == IF via = 0 \/ call.dest \in ToSet(z.hops[via]) THEN <<>> ELSE z.hops[via]
             second == IF own \in {0, via} THEN <<>> ELSE Without(w.hops[own], call.dest) IN
         call.hops = first \o second \o <<call.dest>>

\* Whatever way a call ends or turns to the shells, no connection of its chain outlives
\* it, whichever hop failed and whoever took over; and at no moment is a connection closed
\* under one that it still carries (proxy.go:24-56, client.go:103-129, connect.go:162-174,
\* ws_pty.go:94-98).
NothingLeftOpen ==
  /\ call.pc \in {"idle", "redial"} => open = {} /\ ~call.half
  /\ \A i \in open : i = 1 \/ i - 1 \in open

\* What ShellChain types is read by whom it is meant for, as long as each token comes in
\* a chunk of its own and no ssh ends while a line is on its way to it: a password by
\* a prompt that asked for one, and the command by a shell, that of the last hop as long as
\* every ssh that fails says so in words that have a pattern. After other words the previous
\* hop's prompt counts as a login, and the command runs on an earlier hop
\* (shell_chain.go:130-159, 191-231).
InputReachesItsReader ==
  world \notin Coalesced /\ call.pc # "idle" /\ astray # "gone" =>
    /\ ~leaked /\ ran \subseteq 1..Len(call.hops)
    /\ astray = "no" => ran \subseteq {Len(call.hops)}

\* A host is the one it was when it was recorded: once known_hosts has a key for it, no
\* other is accepted from it, over several calls and reinstallations, by a dial that
\* can read known_hosts. A key whose line was not written binds nobody; a dial that
\* cannot read the file, and a hop that is reached through another, accept
\* any (client.go:113-114, 251-284).
OnRecord == {"known", "added"}
TrustIsKept ==
  \A s \in Servers : \A j \in DOMAIN accepted[s] : \A i \in 1..j - 1 :
    accepted[s][i].how \in OnRecord /\ accepted[s][j].how \in OnRecord \cup {"unsaved"} =>
      accepted[s][i].key = accepted[s][j].key

\* The comment of the algorithms (client.go:235-239): a host of which known_hosts has
\* the right key is not refused for showing another.
KnownHostsAreAccepted ==
  call.pc = "dial" /\ open = {} =>
    LET s == Head(call.hops) IN <<s, "ed25519", key[s]>> \in known => Trusts(s, Shown(s))

\* Everything printed is copied to the terminal (shell_chain.go:120-121).
OutputIsCopied == sh.out # <<>> ~> sh.out = <<>>

\* A Web terminal ends when its browser has left.
WebLeavesNothing == (call.pc = "web" /\ ~web.browser) ~> call.pc = "idle"

\* The command of a call is run on the last hop, whatever the chunks.
CommandRunsOnDestination == call.pc # "idle" => ran \subseteq {Len(call.hops)}

----------------------------------------------------------------------------
\* What Connect_proofs rests on.

Tokens == {"text", "prompt", "password", "hostkey", "denied", "refused", "noroute", "closed"}
Lines == {"ssh", "password", "yes", "export", "command"}
Reading == {"args", "profile", "own", "row", "hops", "hop", "dest"}
Pcs == Reading \cup {"idle", "dial", "use", "web", "close", "redial", "shell"}
CallType == [kind : CallKinds \cup {"none"}, dest : Servers \cup {0}, args : Seq(Servers),
             override : {"", "none"} \cup Profiles,
             pc : Pcs, part : {"none", "profile", "server"}, own : Routes \cup {0}, via : Routes \cup {0},
             row : Routes \cup {0}, todo : Seq(Servers), hops : Seq(Servers), half : BOOLEAN,
             after : {"idle", "redial"}]
ShellType == [hop : Nat, typed : Seq(Lines), out : Seq(Tokens), chan : Seq(Seq(Tokens)), held : BOOLEAN,
              acc : Seq(Tokens), depth : Int, asks : {"shell", "password", "hostkey"}, tries : Nat]
CallOK(c) == c \in CallType /\ (c.pc # "idle" => c.dest \in Servers) /\ (c.pc = "hops" => c.row \in Routes)
TypeOK ==
  /\ world \in Worlds /\ d \in Databases /\ CallOK(call) /\ sh \in ShellType
  /\ astray \in {"no", "words", "gone"}
  /\ accepted \in [Servers -> Seq([key : Servers \X KeyTypes \X Nat, how : Ways])] /\ key \in [Servers -> Nat]

\* The connections are those of the first hops, and a channel is opened
\* only by a dial, through the last of them, to the next hop.
OpenInv ==
  /\ IsFiniteSet(open) /\ open = 1..Cardinality(open)
  /\ call.pc \in Reading \cup {"idle", "redial"} => open = {}
  /\ call.half => call.pc = "dial" /\ Cardinality(open) \in 1..Len(call.hops) - 1

\* known_hosts has one key of a type for a host, and every key that was accepted on
\* record; behind one of those no other goes unrecorded.
TrustInv ==
  /\ \A k, l \in known : k[1] = l[1] /\ k[2] = l[2] => k = l
  /\ \A s \in Servers : \A i \in DOMAIN accepted[s] :
       LET k == accepted[s][i].key IN
       /\ k[1] = s /\ k[2] = "ecdsa" /\ (accepted[s][i].how \in OnRecord => k \in known)
       /\ accepted[s][i].how = "unsaved" => \A j \in 1..i - 1 : accepted[s][j].how \notin OnRecord

\* What the call c has read of its route, by where it is; the databases of S are those
\* it may have met.
ViaIn(c, x) ==
  LET p == IF c.override = "none" THEN 0 ELSE IF c.override = "" THEN x.active ELSE c.override IN
  IF p = 0 THEN 0 ELSE x.via[p]
FirstIn(c, x) == IF c.via = 0 \/ c.dest \in ToSet(x.hops[c.via]) THEN <<>> ELSE x.hops[c.via]
SecondIn(c, x) == IF c.own \in {0, c.via} THEN <<>> ELSE Without(x.hops[c.own], c.dest)
ViaKnown(c, S) == \E x \in S : c.via = ViaIn(c, x)
OwnKnown(c, S) == \E x \in S : c.own = x.own[c.dest]
Half1(c, S, hops) == \E x \in S : hops = FirstIn(c, x)
Both(c, S, hops) == \E x, y \in S : hops = FirstIn(c, x) \o SecondIn(c, y)
Routed(c, S) ==
  \/ c.hops = <<c.dest>> /\ \E x \in S : c.dest \notin x.servers
  \/ /\ ViaKnown(c, S) /\ OwnKnown(c, S)
     /\ \E x, y \in S : c.hops = FirstIn(c, x) \o SecondIn(c, y) \o <<c.dest>>
Walks == {"dial", "use", "web", "redial", "shell"}
RouteOK(c, S) ==
  c.kind \in {"cli", "mcp", "web"} =>
    /\ c.pc \in Reading => c.pc # "args" /\ c.after = "idle" /\ OwnKnown(c, S)
    /\ c.pc \in Reading \ {"profile"} => ViaKnown(c, S)
    /\ c.pc = "profile" => c.hops = <<>> /\ c.via = 0
    /\ c.pc \in {"row", "hops", "hop"} => c.part \in {"profile", "server"}
    /\ c.pc \in {"row", "hops"} /\ c.part = "profile" => c.hops = <<>> /\ c.row = c.via /\ c.via # 0
    /\ c.pc \in {"row", "hops"} /\ c.part = "server" => Half1(c, S, c.hops) /\ c.row = c.own /\ c.own \notin {0, c.via}
    /\ c.pc = "own" => c.part = "server" /\ Half1(c, S, c.hops)
    /\ c.pc = "hop" /\ c.part = "profile" => Half1(c, S, c.hops \o c.todo)
    /\ c.pc = "hop" /\ c.part = "server" => Both(c, S, c.hops \o c.todo)
    /\ c.pc = "dest" => Both(c, S, c.hops)
    /\ c.pc \in Walks \/ c.after = "redial" => Routed(c, S)
RouteInv == (call.pc # "idle" => d \in seen) /\ RouteOK(call, seen)

\* The conversation of the shells while each token is a chunk of its own: the conductor
\* waits for what is on its way, or the remote side has one line to answer. As long as
\* things go straight the shell is where the conductor takes it to be, and later no further.
Ones(tokens) == [i \in DOMAIN tokens |-> <<tokens[i]>>]
Hears(s, acc, tokens) == s.acc = acc /\ s.chan \o Ones(s.out) = Ones(tokens)
Answers == {<<"ssh", "shell">>, <<"password", "password">>, <<"yes", "hostkey">>}
Placed(s, straight, n) == s.depth \in 1..n /\ (straight => s.depth = n)
Greeted(s) ==
  /\ s.typed = <<>> /\ s.asks = "shell" /\ s.hop >= 1
  /\ Hears(s, <<>>, <<"text", "prompt">>) \/ Hears(s, <<"text">>, <<"prompt">>)
Refused(s) ==
  /\ s.typed = <<>> /\ s.asks = "shell"
  /\ \E why \in Failures \ {"text"} : Hears(s, <<>>, <<why, "prompt">>)
Asked(s) ==
  /\ s.typed = <<>>
  /\ \/ s.asks = "password" /\ (Hears(s, <<>>, <<"password">>) \/ Hears(s, <<>>, <<"denied", "password">>))
     \/ s.asks = "hostkey" /\ Hears(s, <<>>, <<"hostkey">>)
Spoken(s) == Hears(s, <<>>, <<>>) /\ \E a \in Answers : s.typed = <<a[1]>> /\ s.asks = a[2]
Converses(s, straight) ==
  \/ Greeted(s) /\ Placed(s, straight, s.hop)
  \/ s.hop > 1 /\ Placed(s, straight, s.hop - 1) /\ (Refused(s) \/ Asked(s) \/ Spoken(s))
Handover(s, straight, hops) ==
  /\ s.asks = "shell" /\ s.typed \in {<<"export", "command">>, <<"command">>, <<>>}
  /\ s.typed # <<>> => Placed(s, straight, hops)
Talk(s, straight, hops) == IF s.hop <= hops THEN Converses(s, straight) ELSE Handover(s, straight, hops)
ShellInv ==
  /\ call.pc # "shell" => sh = NoShell
  /\ call.pc \in Reading => ran = {}
  /\ world \notin Coalesced /\ call.pc = "shell" /\ astray # "gone" => Talk(sh, astray = "no", Len(call.hops))

IInv == TypeOK /\ OpenInv /\ TrustInv /\ RouteInv /\ ShellInv /\ InputReachesItsReader
=============================================================================
