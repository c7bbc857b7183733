----------------------------- MODULE RemoteShell -----------------------------
(* The MCP tool remote_shell (internal/mcp/remote_shell.go): persistent sessions in
   a store of the process, used by tool handlers that run concurrently, with a
   command sent again on a new connection when the old one is gone.

   A session is one object with two pointers, to its connection and to the bash in
   it (ManagedSession.tla has the inside of that); handlers read and write them
   without a lock. Calls are numbered in the order they arrive, a session has the
   number of the call that made it, and connections are numbered as they are
   dialled. What the policy decides is abstract here (Agent.tla). *)
EXTENDS Integers, FiniteSets, Sequences, SequencesExt, Functions

CONSTANTS Worlds,
          MaxCalls,    \* bound: [Worlds -> Nat], calls of the tool
          Overlap,     \* bound: [Worlds -> Nat], calls in progress at once
          Asked,       \* [Worlds -> SUBSET Commands]
          MaxConns,    \* bound: connections
          HistoryMax   \* historyMax

\* Commands as the handler tells them apart: "pty" is any with the flag pty; "cd" is
\* one that updatePwd looks for, "pushd" changes the directory too, and "logout" is a
\* line that ends bash ("exit 3").
Commands == {"", "exit", "status", "ls", "cd", "pushd", "logout", "pty"}
Unknown == "unknown"

ASSUME RemoteShellAssumption ==
  /\ \A w \in Worlds : MaxCalls[w] \in Nat /\ Overlap[w] \in Nat /\ Asked[w] \subseteq Commands
  /\ MaxConns \in Nat /\ HistoryMax \in Nat \ {0}

VARIABLES world,
          store,   \* globalShellStore: the sessions that can be found
          sess,    \* of session i: chain, managed, history, lastPwd
          conn,    \* the connections, with the bash and what is written to it
          call,    \* the calls
          runs,    \* of call i: how often its command was started
          evicted  \* connections of sessions given up with one open

vars == <<world, store, sess, conn, call, runs, evicted>>

Init ==
  /\ world \in Worlds
  /\ store = {} /\ sess = <<>> /\ conn = <<>> /\ call = <<>> /\ runs = <<>> /\ evicted = {}

----------------------------------------------------------------------------
\* The connections. line: "up", "dropped" by the network or "closed" by us; bash:
\* "up", or "ended" on its own, or "closed"; queue: the calls whose command is written
\* and not started yet.

Calls == DOMAIN call
Sid(c) == call[c].sid
Shell(c) == sess[Sid(c)]
NewConn == [line |-> "up", bash |-> "up", queue |-> <<>>, cwd |-> "home"]
Closed(cs, k) == [cs EXCEPT ![k].line = "closed", ![k].bash = "closed"]

\* What writing to bash's standard input comes to: it arrives, it is lost without
\* anybody noticing, or it fails. Only that is an error of ManagedSession.Exec.
Writes(k) ==
  LET n == conn[k] IN
  IF n.line = "closed" \/ n.bash = "closed" THEN {"fails"}
  ELSE IF n.line = "dropped" \/ n.bash = "ended" THEN {"lost", "fails"} ELSE {"arrives"}

\* Answers to one of the handler's own questions (pwd, whoami): the directory, or
\* nothing when it fails or takes too long. Told(k, was) is what "was" becomes.
Told(k, was) ==
  (IF "fails" \in Writes(k) THEN {was} ELSE {}) \cup {Unknown}
  \cup (IF Writes(k) = {"arrives"} /\ conn[k].queue = <<>> THEN {conn[k].cwd} ELSE {})

Go(c, pc) == call' = [call EXCEPT ![c].pc = pc]
Answer(c, a) == call' = [call EXCEPT ![c].pc = "done", ![c].answer = a, ![c].to = 0]
At(c, pc) == call[c].pc = pc
Busy == {c \in Calls : call[c].pc # "done"}

----------------------------------------------------------------------------
\* The call: a session of its own, or one that is found.

Begin ==
  /\ Len(call) < MaxCalls[world] /\ Cardinality(Busy) < Overlap[world]
  /\ \E asks \in Asked[world], sid \in {0} \cup {c \in Calls : call[c].new} :
       call' = Append(call, [pc |-> IF sid = 0 THEN "create" ELSE "get", asks |-> asks,
                  sid |-> IF sid = 0 THEN Len(call) + 1 ELSE sid, new |-> sid = 0, to |-> 0,
                  retried |-> FALSE, answer |-> "", told |-> <<>>])
  /\ sess' = Append(sess, [chain |-> 0, managed |-> 0, history |-> <<>>, lastPwd |-> Unknown])
  /\ runs' = Append(runs, 0)
  /\ UNCHANGED <<world, store, conn, evicted>>

\* The row, the audit event, the policy, the hops and the connection.
Create(c) ==
  /\ At(c, "create")
  /\ \/ Answer(c, "error") /\ UNCHANGED conn
     \/ /\ Len(conn) < MaxConns
        /\ conn' = Append(conn, NewConn)
        /\ call' = [call EXCEPT ![c].to = Len(conn) + 1, ![c].pc = "start"]
  /\ UNCHANGED <<world, store, sess, runs, evicted>>

StartAndForget(c) ==
  /\ At(c, "start")
  /\ \/ Answer(c, "error") /\ UNCHANGED <<conn, store, sess>>
     \/ /\ store' = store \cup {c}
        /\ sess' = [sess EXCEPT ![c].chain = call[c].to, ![c].managed = call[c].to]
        /\ Go(c, "dispatch") /\ UNCHANGED conn
  /\ UNCHANGED <<world, runs, evicted>>
\* NewManagedSession, and the session goes to the store.
Start(c) ==
  /\ At(c, "start")
  /\ \/ Answer(c, "error") /\ conn' = Closed(conn, call[c].to) /\ UNCHANGED <<store, sess>>
     \/ /\ store' = store \cup {c}
        /\ sess' = [sess EXCEPT ![c].chain = call[c].to, ![c].managed = call[c].to]
        /\ Go(c, "dispatch") /\ UNCHANGED conn
  /\ UNCHANGED <<world, runs, evicted>>

Get(c) ==
  /\ At(c, "get")
  /\ IF Sid(c) \in store THEN Go(c, "dispatch") ELSE Answer(c, "error")
  /\ UNCHANGED <<world, store, sess, conn, runs, evicted>>

----------------------------------------------------------------------------
\* Exit, status, and no command at all.

Exit(c) ==
  /\ At(c, "dispatch") /\ call[c].asks = "exit"
  /\ store' = store \ {Sid(c)} /\ Go(c, "close bash")
  /\ UNCHANGED <<world, sess, conn, runs, evicted>>

\* ManagedSession.Close, which waits 50 ms, and then chain.CloseAll: of the session's
\* present bash and, after that, of its present connection.
CloseManaged(c) ==
  /\ call[c].pc \in {"close bash", "reclose bash"}
  /\ LET k == Shell(c).managed IN conn' = [conn EXCEPT ![k].bash = "closed"]
  /\ Go(c, IF At(c, "close bash") THEN "close" ELSE "reclose")
  /\ UNCHANGED <<world, store, sess, runs, evicted>>
CloseChain(c) ==
  /\ call[c].pc \in {"close", "reclose"}
  /\ conn' = Closed(conn, Shell(c).chain)
  /\ IF At(c, "close") THEN Answer(c, "closed") ELSE Go(c, "redial")
  /\ UNCHANGED <<world, store, sess, runs, evicted>>

\* The last known directory, asked for only when there is none.
Status(c) ==
  /\ At(c, "dispatch") /\ call[c].asks = "status"
  /\ \E pwd \in IF Shell(c).lastPwd # Unknown THEN {Shell(c).lastPwd} ELSE Told(Shell(c).managed, Unknown) :
       /\ sess' = [sess EXCEPT ![Sid(c)].lastPwd = pwd]
       /\ call' = [call EXCEPT ![c].pc = "done", ![c].answer = "ok",
                               ![c].told = <<pwd, conn[Shell(c).managed].cwd>>]
  /\ UNCHANGED <<world, store, conn, runs, evicted>>

\* whoami && pwd; a new session's preflight asks more and keeps nothing.
NoCommand(c) ==
  /\ At(c, "dispatch") /\ call[c].asks = ""
  /\ \E pwd \in Told(Shell(c).managed, Shell(c).lastPwd) :
       sess' = [sess EXCEPT ![Sid(c)].lastPwd = IF pwd = Unknown THEN @ ELSE pwd]
  /\ Answer(c, "ok")
  /\ UNCHANGED <<world, store, conn, runs, evicted>>

----------------------------------------------------------------------------
\* A command in a terminal of its own.

\* The request reaches the server and is confirmed, or does not reach it, or reaches it and
\* the connection is lost before sess.Start has the confirmation.
RunPTY(c) ==
  /\ At(c, "dispatch") /\ call[c].asks = "pty"
  /\ LET k == Shell(c).chain IN
     \/ /\ conn[k].line = "up" /\ Go(c, "pty")
        /\ runs' = [runs EXCEPT ![c] = @ + 1] /\ UNCHANGED conn
     \/ Answer(c, "error") /\ UNCHANGED <<runs, conn>>
     \/ /\ conn[k].line = "up" /\ Answer(c, "error")
        /\ runs' = [runs EXCEPT ![c] = @ + 1] /\ conn' = [conn EXCEPT ![k].line = "dropped"]
  /\ UNCHANGED <<world, store, sess, evicted>>
\* The timer only sends SIGINT: the call waits for the program to end.
PTYEnds(c) ==
  /\ At(c, "pty") /\ Answer(c, "ok")
  /\ UNCHANGED <<world, store, sess, conn, runs, evicted>>

----------------------------------------------------------------------------
\* A command in the bash of the session.

Lines == {"ls", "cd", "pushd", "logout"}
Remembered(h, what) == LET all == Append(h, what) IN
  IF Len(all) > HistoryMax THEN Tail(all) ELSE all

\* Exec writes the line. On an error the first time a new connection is made, and
\* the second time the session is given up, without closing what it has.
Send(c) ==
  /\ \/ At(c, "send")
     \/ At(c, "dispatch") /\ call[c].asks \in Lines
  /\ LET k == Shell(c).managed IN
     \E w \in Writes(k) :
       \/ /\ w # "fails" /\ call' = [call EXCEPT ![c].pc = "wait", ![c].to = k]
          /\ conn' = IF w = "lost" THEN conn ELSE [conn EXCEPT ![k].queue = Append(@, c)]
          /\ UNCHANGED <<store, sess, evicted>>
       \/ /\ w = "fails" /\ ~call[c].retried
          /\ sess' = [sess EXCEPT ![Sid(c)].history = Remembered(@, <<c, "failed">>)]
          /\ Go(c, "reclose bash") /\ UNCHANGED <<store, conn, evicted>>
       \/ /\ w = "fails" /\ call[c].retried
          /\ store' = store \ {Sid(c)} /\ evicted' = evicted \cup {Shell(c).chain}
          /\ Answer(c, "error") /\ UNCHANGED <<conn, sess>>
  /\ UNCHANGED <<world, runs>>

\* bash starts the next line, whether or not anybody waits for it.
BashRuns(k) ==
  /\ conn[k].queue # <<>>
  /\ LET c == Head(conn[k].queue)
         asks == call[c].asks IN
     /\ runs' = [runs EXCEPT ![c] = @ + 1]
     /\ conn' = [conn EXCEPT
          ![k].queue = IF asks = "logout" THEN <<>> ELSE Tail(@),
          ![k].bash = IF asks = "logout" /\ @ = "up" THEN "ended" ELSE @,
          ![k].cwd = IF asks \in {"cd", "pushd"} THEN "elsewhere" ELSE @]
  /\ UNCHANGED <<world, store, sess, call, evicted>>

TimesOutAsError(c) ==
  /\ At(c, "wait")
  /\ LET ran == ~Contains(conn[call[c].to].queue, c) /\ runs[c] > 0 IN
     IF ran THEN /\ sess' = [sess EXCEPT ![Sid(c)].history = Remembered(@, <<c, "ran">>)]
                 /\ Answer(c, "ok")
     ELSE Go(c, IF call[c].retried THEN "done" ELSE "reclose bash") /\ UNCHANGED sess
  /\ UNCHANGED <<world, store, conn, runs, evicted>>
\* The sentinel came, or the time is over, which is an exit status and not an error.
\* After a line that looks like cd the directory is asked for.
Return(c) ==
  /\ At(c, "wait")
  /\ LET ran == ~Contains(conn[call[c].to].queue, c) /\ runs[c] > 0
         s == Shell(c) IN
     \E how \in {"timeout"} \cup (IF ran THEN {"ran"} ELSE {}),
        pwd \in IF call[c].asks = "cd" THEN Told(s.managed, s.lastPwd) ELSE {s.lastPwd} :
       sess' = [sess EXCEPT ![Sid(c)].history = Remembered(@, <<c, how>>), ![Sid(c)].lastPwd = pwd]
  /\ Answer(c, "ok")
  /\ UNCHANGED <<world, store, conn, runs, evicted>>

----------------------------------------------------------------------------
\* reconnectSession, after it has closed what the session had.

RedialAndKeep(c) ==
  /\ At(c, "redial")
  /\ \/ Answer(c, "error") /\ UNCHANGED conn
     \/ /\ Len(conn) < MaxConns /\ conn' = Append(conn, NewConn)
        /\ call' = [call EXCEPT ![c].to = Len(conn) + 1, ![c].pc = "restart"]
  /\ UNCHANGED <<world, store, sess, runs, evicted>>
\* Without a new connection the session is given up.
Redial(c) ==
  /\ At(c, "redial")
  /\ \/ Answer(c, "error") /\ store' = store \ {Sid(c)} /\ UNCHANGED conn
     \/ /\ Len(conn) < MaxConns /\ conn' = Append(conn, NewConn)
        /\ call' = [call EXCEPT ![c].to = Len(conn) + 1, ![c].pc = "restart"]
        /\ UNCHANGED store
  /\ UNCHANGED <<world, sess, runs, evicted>>
Restart(c) ==
  /\ At(c, "restart")
  /\ \/ Answer(c, "error") /\ store' = store \ {Sid(c)} /\ conn' = Closed(conn, call[c].to)
     \/ Go(c, "set chain") /\ UNCHANGED <<store, conn>>
  /\ UNCHANGED <<world, sess, runs, evicted>>
SetChain(c) ==
  /\ At(c, "set chain")
  /\ sess' = [sess EXCEPT ![Sid(c)].chain = call[c].to] /\ Go(c, "set managed")
  /\ UNCHANGED <<world, store, conn, runs, evicted>>
SetManaged(c) ==
  /\ At(c, "set managed")
  /\ sess' = [sess EXCEPT ![Sid(c)].managed = call[c].to]
  /\ call' = [call EXCEPT ![c].pc = "send", ![c].retried = TRUE]
  /\ UNCHANGED <<world, store, conn, runs, evicted>>

----------------------------------------------------------------------------
\* The network drops a connection, and the bash of one that is gone ends.

Drop(k) ==
  /\ conn[k].line = "up" /\ conn' = [conn EXCEPT ![k].line = "dropped"]
  /\ UNCHANGED <<world, store, sess, call, runs, evicted>>
Dies(k) ==
  /\ conn[k].line # "up" \/ conn[k].bash # "up"
  /\ conn[k].queue # <<>> /\ conn' = [conn EXCEPT ![k].queue = <<>>]
  /\ UNCHANGED <<world, store, sess, call, runs, evicted>>

Next ==
  \/ Begin
  \/ \E c \in Calls :
       \/ Create(c) \/ Start(c) \/ Get(c) \/ Exit(c) \/ CloseManaged(c) \/ CloseChain(c)
       \/ Status(c) \/ NoCommand(c) \/ RunPTY(c) \/ PTYEnds(c) \/ Send(c) \/ Return(c)
       \/ Redial(c) \/ Restart(c) \/ SetChain(c) \/ SetManaged(c)
  \/ \E k \in DOMAIN conn : BashRuns(k) \/ Drop(k) \/ Dies(k)

Spec == Init /\ [][Next]_vars

----------------------------------------------------------------------------
\* Properties.

\* Whatever drops, reconnects and overlaps, a command is started at most once, and one
\* that was answered with an error will not be started any more. If it was meant for the
\* bash of the session it has not been started either: a retry is safe because only a
\* failed write asks for one (remote_shell.go:263-300, managed_session.go:157-226). One
\* with a terminal of its own may have been, when the connection was lost before its
\* request was confirmed (lines 418 to 420).
CommandRunsOnce ==
  \A c \in Calls :
    /\ runs[c] <= 1
    /\ call[c].answer = "error" =>
         /\ call[c].asks # "pty" => runs[c] = 0
         /\ \A k \in DOMAIN conn : ~Contains(conn[k].queue, c)

\* Calls that do not overlap leave no connection behind: one that is not closed is that
\* of a session in the store, or of the call in progress, or was left by the one way
\* out that forgets it, the second failure (remote_shell.go:98-164, 266-300, 378-395).
ConnectionsAreOwned ==
  Overlap[world] = 1 =>
    \A k \in DOMAIN conn :
      \/ conn[k].line = "closed"
      \/ k \in {sess[s].chain : s \in store} \cup evicted
      \/ \E c \in Busy : k \in {call[c].to, Shell(c).chain}

\* Between calls a stored session has one connection with a bash in it, and it is one
\* that nobody closed: its id goes on working after any number of reconnects
\* (remote_shell.go:266-300, 378-395, SYSTEM_PROMPT.md:209).
StoredSessionsWork ==
  Overlap[world] = 1 =>
    \A s \in store :
      (\A c \in Busy : Sid(c) # s) =>
        LET k == sess[s].managed IN
        k > 0 /\ sess[s].chain = k /\ conn[k].line # "closed" /\ conn[k].bash # "closed"

\* remote_shell.go:34: lastPwd is the "last known pwd (updated on every exec)", so the
\* directory that status tells is the one the session is in.
PwdIsTrue ==
  \A c \in Calls : call[c].told # <<>> => call[c].told[1] \in {Unknown, call[c].told[2]}

----------------------------------------------------------------------------
\* What RemoteShell_proofs rests on.

Directories == {Unknown, "home", "elsewhere"}
Conn == [line : {"up", "dropped", "closed"}, bash : {"up", "ended", "closed"}, queue : Seq(Nat),
         cwd : {"home", "elsewhere"}]
History == {h \in Seq(Nat \X {"failed", "ran", "timeout"}) : Len(h) <= HistoryMax}
Session == [chain : Nat, managed : Nat, history : History, lastPwd : Directories]
\* A call on its way uses its session, and some steps do so with a new connection.
Alive == {"dispatch", "pty", "send", "wait", "reclose bash", "reclose", "redial", "restart", "set chain", "set managed"}
Using == Alive \cup {"close bash", "close"}
Making == {"start", "restart", "set chain"}
Pcs == {"create", "start", "get", "done"} \cup Using
Call == [pc : Pcs, asks : Commands, sid : Nat, new : BOOLEAN, to : Nat, retried : BOOLEAN,
         answer : {"", "error", "ok", "closed"}, told : Seq(Directories)]
TypeOK ==
  /\ world \in Worlds /\ store \subseteq Calls /\ evicted \subseteq Nat
  /\ conn \in Seq(Conn) /\ sess \in Seq(Session) /\ call \in Seq(Call) /\ runs \in Seq(Nat)
  /\ Len(sess) = Len(call) /\ Len(runs) = Len(call)

\* What a call points to is there, and it is answered when it is done.
CallInv(c) ==
  /\ Sid(c) \in Calls /\ call[c].to \in 0..Len(conn)
  /\ call[c].pc \in {"create", "start"} => Sid(c) = c
  /\ call[c].pc \in Making \cup {"set managed"} => call[c].to > 0
  /\ call[c].pc \in Using => Shell(c).chain > 0 /\ Shell(c).managed > 0
  /\ call[c].answer # "" => call[c].pc = "done"
SessionInv(s) ==
  /\ sess[s].chain \in 0..Len(conn) /\ sess[s].managed \in 0..Len(conn)
  /\ s \in store => sess[s].chain > 0 /\ sess[s].managed > 0
PointersHold == \A c \in Calls : CallInv(c) /\ SessionInv(c)

\* A command is in one queue once, before it is started, and only when its call has
\* written it and not answered with an error.
Queued(k, c) == \E j \in DOMAIN conn[k].queue : conn[k].queue[j] = c
Written(k, c) ==
  /\ c \in Calls /\ runs[c] = 0 /\ call[c].pc \in {"wait", "done"} /\ call[c].answer # "error"
  /\ \A l \in DOMAIN conn : Queued(l, c) => l = k
QueueInv(k) ==
  /\ \A i, j \in DOMAIN conn[k].queue : conn[k].queue[i] = conn[k].queue[j] => i = j
  /\ \A j \in DOMAIN conn[k].queue : Written(k, conn[k].queue[j])
CommandsInOrder ==
  /\ \A k \in DOMAIN conn : QueueInv(k)
  /\ \A c \in Calls :
       /\ runs[c] <= 1
       /\ call[c].answer = "error" /\ call[c].asks # "pty" => runs[c] = 0
       /\ call[c].pc \notin {"wait", "pty", "done"} => runs[c] = 0

\* Calls one after the other: no two sessions have the same connection, a new one is
\* nobody's until it is the session's, and a session in the store works unless the call
\* in progress is about to mend it.
Open(k) == conn[k].line # "closed" /\ conn[k].bash # "closed"
Mending == {"reclose bash", "reclose", "redial", "restart", "set chain", "set managed"}
Owned(k) ==
  \/ conn[k].line = "closed"
  \/ \E s \in store : k = sess[s].chain
  \/ k \in evicted
  \/ \E c \in Busy :
       \/ call[c].pc \in Making /\ k = call[c].to
       \/ call[c].pc \in {"close bash", "close"} /\ k = Shell(c).chain
BusyInv(c) ==
  /\ call[c].pc \in Making =>
       Open(call[c].to) /\ \A s \in Calls : sess[s].chain # call[c].to /\ sess[s].managed # call[c].to
  /\ call[c].pc = "set managed" => Open(call[c].to) /\ Shell(c).chain = call[c].to
  /\ call[c].pc \in Alive => Sid(c) \in store
  /\ call[c].pc \in {"create", "start", "close bash", "close"} => Sid(c) \notin store
  /\ call[c].pc \in {"redial", "restart", "set chain"} => conn[Shell(c).chain].line = "closed"
OneByOne ==
  /\ \A c, d \in Busy : c = d
  /\ \A s, t \in Calls : sess[s].chain = sess[t].chain /\ sess[s].chain > 0 => s = t
  /\ \A s \in Calls : sess[s].managed = sess[s].chain \/ \E c \in Busy : At(c, "set managed") /\ Sid(c) = s
  /\ \A s \in store : Open(sess[s].chain) \/ \E c \in Busy : call[c].pc \in Mending /\ Sid(c) = s
  /\ \A c \in Busy : BusyInv(c)
  /\ \A k \in DOMAIN conn : Owned(k)
IInv == TypeOK /\ PointersHold /\ CommandsInOrder /\ (Overlap[world] = 1 => OneByOne)
=============================================================================
