---------------------------- MODULE SessionBridge ----------------------------
(* Sessions of the CLI (internal/cli/session.go, session_ipc_unix.go and
   session_proc_unix.go): "ssh session start" puts a bridge process into a tmux
   session, which keeps one bash on the server and serves one request at a time on a
   Unix socket; "exec" and "stop" are processes of their own that meet the bridge
   through tmux, the directory of the session, and the socket.

   A process is a call here. Of the bash (ManagedSession.tla) is left what it reads,
   runs and answers: a command ends on its own and its sentinel comes back, and an Exec
   takes the first sentinel it meets, unless its timer is over; that leaves a Ctrl-C in
   front of the next command and the old one running. *)
EXTENDS Integers, FiniteSets, Sequences, SequencesExt

CONSTANTS Ids, Calls, Worlds,
          Generated,  \* SUBSET Worlds: every start has an id of its own (no --id)
          MaxFaults   \* bound: signals to bridges and lost connections

ASSUME SessionBridgeAssumption ==
  /\ 0 \notin Calls /\ Generated \subseteq Worlds /\ MaxFaults \in Nat

VARIABLES world,
          tmux,    \* the tmux sessions of bridges
          dir,     \* the directories sessions/<id>
          sock,    \* of an id: the bridge whose socket is there, 0 when there is none
          bridge,  \* the bridge of an id
          made,    \* bridges made so far
          call,    \* the processes start, exec and stop
          real,    \* of an exec: what its command came to in the bash
          runs,    \* and how often it was started
          faults

vars == <<world, tmux, dir, sock, bridge, made, call, real, runs, faults>>
files == <<tmux, dir, sock, made>>

NoCall == [kind |-> "none", id |-> 0, pc |-> "none", after |-> FALSE, got |-> "nothing", end |-> "none"]
\* typed: what bash has not read, 0 is a Ctrl-C; cmd: what it runs; out: the sentinels
\* that nobody has read; late: some Exec has given up.
NoBridge == [n |-> 0, pc |-> "gone", serves |-> {}, queue |-> <<>>, ctx |-> TRUE, ssh |-> "up",
             bash |-> "up", typed |-> <<>>, cmd |-> 0, out |-> <<>>, late |-> FALSE]

Init ==
  /\ world \in Worlds
  /\ tmux = {} /\ dir = {} /\ sock = [i \in Ids |-> 0]
  /\ bridge = [i \in Ids |-> NoBridge] /\ made = 0
  /\ call = [c \in Calls |-> NoCall]
  /\ real = [c \in Calls |-> "none"] /\ runs = [c \in Calls |-> 0] /\ faults = 0

----------------------------------------------------------------------------
At(c, kind, pc) == call[c].kind = kind /\ call[c].pc = pc
Id(c) == call[c].id
Running(i) == i \in tmux                                  \* sessionIsRunning
Ended(cs, c, how) == [cs EXCEPT ![c].pc = "done", ![c].end = how]
End(c, how) == call' = Ended(call, c, how)
Go(c, pc) == call' = [call EXCEPT ![c].pc = pc]

\* The connections of a process that dies end; those that it, or a listener that is
\* closed, has not accepted are reset.
Tell(cs, c, what) == [cs EXCEPT ![c].got = IF @ = "nothing" THEN what ELSE @]
Hung(cs, lost, what) ==
  [c \in Calls |-> IF c \in lost /\ cs[c].got = "nothing" THEN [cs[c] EXCEPT !.got = what] ELSE cs[c]]
Waiting(i) == ToSet(bridge[i].queue) \ {0}
\* A socket that listens: a file without its process refuses.
Listens(i) == sock[i] # 0 /\ bridge[i].n = sock[i] /\ bridge[i].pc \in {"accept", "busy"} /\ bridge[i].ctx

RemoveAll(i) == dir' = dir \ {i} /\ sock' = [sock EXCEPT ![i] = 0]

\* tmux kill-session: the bridge dies of SIGHUP, which is not one of its shutdownSignals,
\* and its deferred calls do not run.
Killed(cs, i) == Hung(Hung(cs, Waiting(i), "reset"), bridge[i].serves, "eof")
Kill(i) == tmux' = tmux \ {i} /\ bridge' = [bridge EXCEPT ![i] = NoBridge]

----------------------------------------------------------------------------
\* session start.

Start(c) ==
  /\ call[c].kind = "none"
  /\ \E i \in Ids :
       /\ world \in Generated => \A d \in Calls : ~(call[d].kind = "start" /\ Id(d) = i)
       /\ call' = [call EXCEPT ![c].kind = "start", ![c].id = i,
                     ![c].pc = IF Running(i) THEN "done" ELSE "prepare",
                     ![c].end = IF Running(i) THEN "error" ELSE @]
  /\ UNCHANGED <<world, files, bridge, real, runs, faults>>

\* MkdirAll, and the socket of an earlier bridge is removed.
Prepare(c) ==
  /\ At(c, "start", "prepare")
  /\ dir' = dir \cup {Id(c)} /\ sock' = [sock EXCEPT ![Id(c)] = 0] /\ Go(c, "meta")
  /\ UNCHANGED <<world, tmux, made, bridge, real, runs, faults>>
WriteMeta(c) ==
  /\ At(c, "start", "meta")
  /\ IF Id(c) \in dir THEN Go(c, "spawn") ELSE End(c, "error")
  /\ UNCHANGED <<world, files, bridge, real, runs, faults>>

\* tmux new-session -d -s, which fails when there is a session of that name.
Spawn(c) ==
  /\ At(c, "start", "spawn")
  /\ LET i == Id(c) IN
     IF Running(i) THEN RemoveAll(i) /\ End(c, "error") /\ UNCHANGED <<tmux, made, bridge>>
     ELSE /\ tmux' = tmux \cup {i} /\ made' = made + 1
          /\ bridge' = [bridge EXCEPT ![i] = [NoBridge EXCEPT !.n = made + 1, !.pc = "dial"]]
          /\ Go(c, "poll") /\ UNCHANGED <<dir, sock>>
  /\ UNCHANGED <<world, real, runs, faults>>

\* The loop of 15 seconds: the deadline, the bridge that is gone, and the probe, a
\* connection that is closed at once (0 in the queue).
StartTimesOut(c) ==
  /\ At(c, "start", "poll")
  /\ RemoveAll(Id(c)) /\ Kill(Id(c))
  /\ call' = Ended(Killed(call, Id(c)), c, "error")
  /\ UNCHANGED <<world, made, real, runs, faults>>
BridgeIsGone(c) ==
  /\ At(c, "start", "poll") /\ ~Running(Id(c))
  /\ RemoveAll(Id(c)) /\ End(c, "error")
  /\ UNCHANGED <<world, tmux, made, bridge, real, runs, faults>>
Probe(c) ==
  /\ At(c, "start", "poll") /\ Running(Id(c)) /\ Listens(Id(c))
  /\ bridge' = [bridge EXCEPT ![Id(c)].queue = Append(@, 0)] /\ End(c, "zero")
  /\ UNCHANGED <<world, files, real, runs, faults>>

----------------------------------------------------------------------------
\* The bridge: session run.

Exits(i) ==
  /\ sock' = [sock EXCEPT ![i] = 0] /\ tmux' = tmux \ {i}
  /\ bridge' = [bridge EXCEPT ![i] = NoBridge]
  /\ call' = Killed(call, i)

\* The row, the hops, the connection and the bash.
Connect(i) ==
  /\ bridge[i].pc = "dial"
  /\ \/ bridge' = [bridge EXCEPT ![i].pc = "listen"] /\ UNCHANGED <<sock, tmux, call>>
     \/ tmux' = tmux \ {i} /\ bridge' = [bridge EXCEPT ![i] = NoBridge] /\ UNCHANGED <<sock, call>>
  /\ UNCHANGED <<world, dir, made, real, runs, faults>>

\* sessionListen removes what is there and binds; without the directory it fails.
Listen(i) ==
  /\ bridge[i].pc = "listen"
  /\ IF i \in dir
     THEN /\ sock' = [sock EXCEPT ![i] = bridge[i].n]
          /\ bridge' = [bridge EXCEPT ![i].pc = "accept"] /\ UNCHANGED <<tmux, call>>
     ELSE Exits(i)
  /\ UNCHANGED <<world, dir, made, real, runs, faults>>

\* What becomes of a line for bash: only a write that fails is an error of Exec.
Writes(i) == IF bridge[i].ssh = "up" /\ bridge[i].bash = "up" THEN {"arrives"} ELSE {"lost", "fails"}

\* One request after the other. A request that names a command is handed to Exec, although
\* its client may have left meanwhile; a probe is closed. A line that cannot be written is
\* answered with an error line and the marker 1.
Taken(i) ==
  LET c == Head(bridge[i].queue)
      rest == Tail(bridge[i].queue) IN
  \/ /\ c = 0 \/ "fails" \in Writes(i)
     /\ bridge' = [bridge EXCEPT ![i].queue = rest]
     /\ IF c = 0 THEN UNCHANGED call ELSE call' = Tell(call, c, "failed")
  \/ \E w \in Writes(i) \ {"fails"} :
       /\ c # 0 /\ call' = [call EXCEPT ![c].after = bridge[i].late]
       /\ bridge' = [bridge EXCEPT ![i].queue = rest, ![i].serves = @ \cup {c}, ![i].pc = "busy",
                       ![i].typed = IF w = "arrives" THEN Append(@, c) ELSE @]

AcceptAnyTime(i) ==
  /\ bridge[i].pc \in {"accept", "busy"} /\ bridge[i].queue # <<>> /\ bridge[i].ctx
  /\ Taken(i)
  /\ UNCHANGED <<world, files, real, runs, faults>>
AcceptOrReturn(i) ==
  /\ bridge[i].pc = "accept" /\ bridge[i].queue # <<>> /\ bridge[i].ctx
  /\ IF Head(bridge[i].queue) = 0 THEN Exits(i) /\ UNCHANGED <<dir, made>>
     ELSE Taken(i) /\ UNCHANGED files
  /\ UNCHANGED <<world, real, runs, faults>>
Accept(i) ==
  /\ bridge[i].pc = "accept" /\ bridge[i].queue # <<>> /\ bridge[i].ctx
  /\ Taken(i)
  /\ UNCHANGED <<world, files, real, runs, faults>>

\* bash reads its next line when the last command is done. A Ctrl-C in front of it makes
\* a line that it cannot parse, and it ends.
BashReads(i) ==
  /\ bridge[i].bash = "up" /\ bridge[i].cmd = 0 /\ bridge[i].typed # <<>>
  /\ LET c == Head(bridge[i].typed)
         rest == Tail(bridge[i].typed) IN
     IF c = 0
     THEN /\ rest # <<>> /\ UNCHANGED <<real, runs>>
          /\ bridge' = [bridge EXCEPT ![i].typed = <<>>, ![i].bash = "ended"]
     ELSE /\ bridge' = [bridge EXCEPT ![i].typed = rest, ![i].cmd = c]
          /\ real' = [real EXCEPT ![c] = "running"] /\ runs' = [runs EXCEPT ![c] = @ + 1]
  /\ UNCHANGED <<world, files, call, faults>>
\* A command ends, with a status or with the bash, or eats what was meant for the bash. It
\* may also never end.
CommandEnds(i) ==
  /\ bridge[i].cmd # 0
  /\ \E what \in {"zero", "nonzero", "exited"} :
       /\ real' = [real EXCEPT ![bridge[i].cmd] = what]
       /\ bridge' = [bridge EXCEPT ![i].cmd = 0,
            ![i].bash = IF what = "exited" THEN "ended" ELSE @,
            ![i].out = IF what = "exited" \/ bridge[i].ssh = "lost" THEN @ ELSE Append(@, what)]
  /\ UNCHANGED <<world, files, call, runs, faults>>
CommandReads(i) ==
  /\ bridge[i].cmd # 0 /\ bridge[i].typed # <<>>
  /\ bridge' = [bridge EXCEPT ![i].typed = Tail(@)]
  /\ UNCHANGED <<world, files, call, real, runs, faults>>

\* ManagedSession.Exec returns, at a sentinel.
Sentinel(i) ==
  \E c \in bridge[i].serves :
    /\ bridge[i].out # <<>>
    /\ bridge' = [bridge EXCEPT ![i].serves = @ \ {c}, ![i].pc = "accept", ![i].out = Tail(@)]
    /\ call' = Tell(call, c, Head(bridge[i].out))
    /\ UNCHANGED <<world, files, real, runs, faults>>
\* Or its time is over (the one the client sends, or two minutes) or the bridge is told
\* to end: it writes a Ctrl-C, empties its buffer and gives 130.
GivesUp(i, c) ==
  /\ bridge' = [bridge EXCEPT ![i].serves = @ \ {c}, ![i].pc = "accept", ![i].out = <<>>,
       ![i].late = TRUE, ![i].typed = IF "arrives" \in Writes(i) THEN Append(@, 0) ELSE @]
  /\ call' = Tell(call, c, "interrupted")
  /\ UNCHANGED <<world, files, real, runs, faults>>
TimerWhenTold(i) == ~bridge[i].ctx /\ \E c \in bridge[i].serves : GivesUp(i, c)
Timer(i) == \E c \in bridge[i].serves : GivesUp(i, c)

\* SIGTERM: the listener is closed, which removes the socket; the bridge leaves the loop
\* when it has finished what it serves.
Sigterm(i) ==
  /\ bridge[i].pc # "gone" /\ bridge[i].ctx /\ faults < MaxFaults /\ faults' = faults + 1
  /\ bridge' = [bridge EXCEPT ![i].ctx = FALSE, ![i].queue = <<>>]
  /\ sock' = [sock EXCEPT ![i] = IF @ = bridge[i].n THEN 0 ELSE @]
  /\ call' = Hung(call, Waiting(i), "reset")
  /\ UNCHANGED <<world, tmux, dir, made, real, runs>>
Leave(i) ==
  /\ bridge[i].pc = "accept" /\ ~bridge[i].ctx /\ Exits(i)
  /\ UNCHANGED <<world, dir, made, real, runs, faults>>
\* The connection to the server is lost. The bridge stays.
Lose(i) ==
  /\ bridge[i].pc \in {"listen", "accept", "busy"} /\ bridge[i].ssh = "up"
  /\ faults < MaxFaults /\ faults' = faults + 1
  /\ bridge' = [bridge EXCEPT ![i].ssh = "lost"]
  /\ UNCHANGED <<world, files, call, real, runs>>

----------------------------------------------------------------------------
\* session exec.

Exec(c) ==
  /\ call[c].kind = "none"
  /\ \E i \in Ids :
       call' = [call EXCEPT ![c].kind = "exec", ![c].id = i,
                  ![c].pc = IF Running(i) THEN "dial" ELSE "done",
                  ![c].end = IF Running(i) THEN @ ELSE "error"]
  /\ UNCHANGED <<world, files, bridge, real, runs, faults>>
Dial(c) ==
  /\ At(c, "exec", "dial")
  /\ IF Listens(Id(c)) THEN Go(c, "read") /\ bridge' = [bridge EXCEPT ![Id(c)].queue = Append(@, c)]
     ELSE End(c, "error") /\ UNCHANGED bridge
  /\ UNCHANGED <<world, files, real, runs, faults>>
\* The output has lost its final newline, so the marker behind it is a line of its own
\* only when there is no output or an error line.
Glued(got, output) == got \in {"nonzero", "interrupted"} /\ output
\* Lines are printed until one is the marker; the end of the connection without one
\* leaves the exit status at 0, a reset is an error.
Exit(got, output) ==
  CASE got = "reset" -> "error"
    [] got \in {"nonzero", "interrupted", "failed"} /\ ~Glued(got, output) -> "nonzero"
    [] OTHER -> "zero"
Read(c) ==
  /\ At(c, "exec", "read") /\ call[c].got # "nothing"
  /\ \E output \in BOOLEAN : End(c, Exit(call[c].got, output))
  /\ UNCHANGED <<world, files, bridge, real, runs, faults>>
\* The deadline of a client that has one (--timeout is not 0).
ReadTimesOut(c) ==
  /\ At(c, "exec", "read")
  /\ call' = [Ended(call, c, "error") EXCEPT ![c].got = "left"]
  /\ UNCHANGED <<world, files, bridge, real, runs, faults>>

\* session stop.
Stop(c) ==
  /\ call[c].kind = "none"
  /\ \E i \in Ids :
       IF Running(i)
       THEN call' = [call EXCEPT ![c].kind = "stop", ![c].id = i, ![c].pc = "kill"] /\ UNCHANGED <<dir, sock>>
       ELSE /\ call' = [call EXCEPT ![c].kind = "stop", ![c].id = i, ![c].pc = "done", ![c].end = "error"]
            /\ RemoveAll(i)
  /\ UNCHANGED <<world, tmux, made, bridge, real, runs, faults>>
StopKills(c) ==
  /\ At(c, "stop", "kill")
  /\ LET i == Id(c) IN
     IF Running(i) THEN Kill(i) /\ call' = [Killed(call, i) EXCEPT ![c].pc = "remove"]
     ELSE End(c, "error") /\ UNCHANGED <<tmux, bridge>>
  /\ UNCHANGED <<world, dir, sock, made, real, runs, faults>>
StopRemoves(c) ==
  /\ At(c, "stop", "remove") /\ RemoveAll(Id(c)) /\ End(c, "zero")
  /\ UNCHANGED <<world, tmux, made, bridge, real, runs, faults>>

ClientStep(c) ==
  \/ Prepare(c) \/ WriteMeta(c) \/ Spawn(c) \/ StartTimesOut(c) \/ BridgeIsGone(c) \/ Probe(c)
  \/ Dial(c) \/ Read(c) \/ StopKills(c) \/ StopRemoves(c)
BridgeStep(i) == Connect(i) \/ Listen(i) \/ Accept(i) \/ Sentinel(i) \/ Timer(i) \/ Leave(i)
BashStep(i) == BashReads(i) \/ CommandEnds(i) \/ CommandReads(i)

Next ==
  \/ \E c \in Calls : Start(c) \/ Exec(c) \/ Stop(c) \/ ReadTimesOut(c) \/ ClientStep(c)
  \/ \E i \in Ids : BridgeStep(i) \/ BashStep(i) \/ Sigterm(i) \/ Lose(i)

\* Processes run; the loop of start ends at its deadline, and Exec has a timer of its own.
\* Nobody has to call, no client has to have a deadline, no command has to end, and
\* nothing has to fail.
Spec ==
  /\ Init /\ [][Next]_vars
  /\ \A c \in Calls : WF_vars(ClientStep(c))
  /\ \A i \in Ids : WF_vars(BridgeStep(i))

----------------------------------------------------------------------------
\* Properties.

\* A bridge serves one request at a time, whoever asks and however many wait ("bash state
\* is not safe for concurrent access", session.go:345-346); no command is run twice, nor
\* any whose client was told that it could not be written. Until an Exec gives up, the
\* bash runs what the bridge serves, and a client that is told a status is told that of
\* its own command, also when it gives up itself later; after that the old command goes
\* on and the next request gets its status (managed_session.go:179-203; StatusIsOwn).
OneCommandAtATime ==
  /\ \A i \in Ids :
       /\ Cardinality(bridge[i].serves) <= 1
       /\ bridge[i].cmd # 0 /\ ~bridge[i].late => bridge[i].cmd \in bridge[i].serves
  /\ \A c \in Calls :
       /\ runs[c] <= 1 /\ (call[c].got = "failed" => runs[c] = 0)
       /\ ~call[c].after /\ call[c].got \in {"zero", "nonzero"} => real[c] = call[c].got

\* A session that start has told of, with an id of its own, can be reached until somebody
\* stops it or its process is told to end: its directory is there, its socket is that of
\* its bridge, and the bridge serves (session.go:100-141, 234-254, 340-351).
ServesUntilStopped ==
  world \in Generated =>
    \A c \in Calls :
      LET i == Id(c) IN
      call[c].kind = "start" /\ call[c].end = "zero" =>
        \/ \E d \in Calls : call[d].kind = "stop" /\ Id(d) = i
        \/ bridge[i].ctx = FALSE
        \/ bridge[i].pc = "gone" /\ faults > 0
        \/ Running(i) /\ i \in dir /\ Listens(i)

\* Every start, exec and stop returns, also one without a deadline that waits behind a
\* command that does not end (session.go:127-141, 182-221, managed_session.go:158-160).
CallsReturn == \A c \in Calls : call[c].kind # "none" ~> call[c].pc = "done"

\* The protocol of session.go:354-357: the output lines, then the marker with the exit
\* status. So an exec that is told the status of its own command exits with it. (One whose
\* bridge is killed exits with 0 too, which no line denies.)
SuccessIsTruthful ==
  \A c \in Calls :
    /\ call[c].kind = "exec" /\ call[c].pc = "done"
    /\ call[c].got \in {"zero", "nonzero"} /\ call[c].got = real[c]
    => call[c].end = real[c]

\* The same lines, of any request: the status is that of its command.
StatusIsOwn ==
  \A c \in Calls : call[c].got \in {"zero", "nonzero"} => real[c] = call[c].got

----------------------------------------------------------------------------
\* What SessionBridge_proofs rests on.

Bridge == [n : Nat, pc : {"gone", "dial", "listen", "accept", "busy"}, serves : SUBSET Calls,
           queue : Seq(Calls \cup {0}), ctx : BOOLEAN, ssh : {"up", "lost"},
           bash : {"up", "ended"}, typed : Seq(Calls \cup {0}), cmd : Calls \cup {0},
           out : Seq({"zero", "nonzero"}), late : BOOLEAN]
Pcs == {"none", "prepare", "meta", "spawn", "poll", "dial", "read", "kill", "remove", "done"}
Ends == {"none", "error", "zero", "nonzero"}
Process == [kind : {"none", "start", "exec", "stop"}, id : Ids \cup {0}, pc : Pcs,
            after : BOOLEAN,
            got : {"nothing", "eof", "reset", "left", "zero", "nonzero", "interrupted", "failed"},
            end : Ends]
Processes == {cs \in [Calls -> Process] : \A c \in Calls : cs[c].kind # "none" => cs[c].id \in Ids}
Outcomes == {"zero", "nonzero", "exited"}

TypeOK ==
  /\ world \in Worlds /\ tmux \subseteq Ids /\ dir \subseteq Ids /\ sock \in [Ids -> Nat]
  /\ bridge \in [Ids -> Bridge] /\ made \in Nat
  /\ call \in Processes
  /\ real \in [Calls -> {"none", "running"} \cup Outcomes] /\ runs \in [Calls -> Nat] /\ faults \in Nat

\* A request is in the queue of its bridge once, and served after that, alone; its line is
\* in the input of the bash once, before its command is started.
Has(q, x) == \E k \in DOMAIN q : q[k] = x
Once(q, x) == \A k, l \in DOMAIN q : q[k] = x /\ q[l] = x => k = l
Queued(i, c) == Has(bridge[i].queue, c)
Typed(i, c) == Has(bridge[i].typed, c)
ServesOne(i) == \A c \in bridge[i].serves : bridge[i].pc = "busy" /\ bridge[i].serves = {c}
RequestInv(i, c) ==
  /\ Queued(i, c) \/ c \in bridge[i].serves \/ Typed(i, c) \/ bridge[i].cmd = c =>
       call[c].kind = "exec" /\ Id(c) = i /\ call[c].pc # "dial"
  /\ Queued(i, c) => /\ real[c] = "none" /\ c \notin bridge[i].serves /\ ~Typed(i, c)
                     /\ call[c].got \notin {"failed", "zero", "nonzero"}
  /\ Typed(i, c) => real[c] = "none" /\ call[c].got # "failed"
  /\ bridge[i].cmd = c => real[c] = "running"
  /\ c \in bridge[i].serves => call[c].got # "failed" /\ (bridge[i].late => call[c].after)
  /\ Once(bridge[i].queue, c) /\ Once(bridge[i].typed, c)
\* Until an Exec gives up, all that is on its way to the bash and back is of the request
\* that is served.
BashInv(i) ==
  ~bridge[i].late =>
    /\ bridge[i].cmd # 0 => bridge[i].cmd \in bridge[i].serves /\ bridge[i].out = <<>>
    /\ ToSet(bridge[i].typed) \subseteq bridge[i].serves
    /\ bridge[i].typed # <<>> => bridge[i].out = <<>>
    /\ bridge[i].out # <<>> => \E c \in bridge[i].serves : bridge[i].out = <<real[c]>>
CallInv(c) ==
  /\ runs[c] <= 1 /\ (real[c] = "none" => runs[c] = 0) /\ (call[c].kind = "none" => call[c].end = "none")
  /\ call[c].kind = "none" \/ call[c].pc = "dial" => real[c] = "none" /\ call[c].got = "nothing"
  /\ call[c].got = "failed" => real[c] = "none"
  /\ ~call[c].after /\ call[c].got \in {"zero", "nonzero"} => real[c] = call[c].got
RequestsInOrder ==
  /\ \A i \in Ids : ServesOne(i) /\ BashInv(i) /\ \A c \in Calls : RequestInv(i, c)
  /\ \A c \in Calls : CallInv(c)

\* Of an id that has one start and no stop: nothing is there before the bridge, and a
\* bridge that listens has the socket, until a signal sends it away.
Stopped(i) == \E d \in Calls : call[d].kind = "stop" /\ Id(d) = i
Reachable(i) == Running(i) /\ i \in dir /\ (bridge[i].pc \in {"accept", "busy"} => sock[i] = bridge[i].n)
StartInv(c) ==
  LET i == Id(c) IN
  call[c].kind = "start" /\ ~Stopped(i) =>
    /\ call[c].pc \in {"prepare", "meta", "spawn"} => ~Running(i)
    /\ call[c].pc \in {"meta", "spawn"} => i \in dir
    /\ call[c].pc = "poll" => bridge[i].pc = "gone" \/ ~bridge[i].ctx \/ Reachable(i)
    /\ call[c].end = "zero" =>
         \/ bridge[i].pc = "gone" /\ faults > 0
         \/ ~bridge[i].ctx
         \/ Reachable(i) /\ bridge[i].pc \in {"accept", "busy"}
BridgeInv(i) ==
  /\ Running(i) <=> bridge[i].pc # "gone"
  /\ Running(i) => bridge[i].n > 0
  /\ ~bridge[i].ctx => Running(i) /\ faults > 0
SessionsInOrder ==
  /\ \A i \in Ids : BridgeInv(i)
  /\ \A c \in Calls : call[c].end # "none" => call[c].pc = "done"
  /\ world \in Generated =>
       /\ \A c, d \in Calls : call[c].kind = "start" /\ call[d].kind = "start" /\ Id(c) = Id(d) => c = d
       /\ \A c \in Calls : StartInv(c)
IInv == TypeOK /\ RequestsInOrder /\ SessionsInOrder
=============================================================================
