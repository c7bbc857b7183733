-------------------------- MODULE RemoteShell_proofs --------------------------
(***************************************************************************)
(* Proofs about RemoteShell, for any number of calls, of calls at once and *)
(* of connections, and any commands asked for.                             *)
(***************************************************************************)
EXTENDS RemoteShell, SequenceTheorems, FiniteSetTheorems, TLAPS

(* An element of a sequence that is replaced, and one that is appended. *)
LEMMA SeqSet ==
  ASSUME NEW S, NEW s \in Seq(S), NEW k \in DOMAIN s, NEW e \in S
  PROVE  LET t == [s EXCEPT ![k] = e] IN
         /\ t \in Seq(S) /\ Len(t) = Len(s) /\ DOMAIN t = DOMAIN s /\ t[k] = e
         /\ \A j \in DOMAIN s : j # k => t[j] = s[j]
<1>1. k \in 1..Len(s)
  BY LenProperties
<1>2. QED
  BY <1>1, ExceptSeq, LenProperties

LEMMA SeqAppend ==
  ASSUME NEW S, NEW s \in Seq(S), NEW e \in S
  PROVE  LET t == Append(s, e) IN
         /\ t \in Seq(S) /\ Len(t) = Len(s) + 1 /\ DOMAIN t = DOMAIN s \cup {Len(s) + 1} /\ Len(s) + 1 \notin DOMAIN s
         /\ t[Len(s) + 1] = e /\ \A j \in DOMAIN s : t[j] = s[j]
BY AppendProperties, LenProperties

LEMMA SeqIn ==
  ASSUME NEW S, NEW s \in Seq(S)
  PROVE  /\ Len(s) \in Nat /\ DOMAIN s = 1..Len(s)
         /\ \A k \in DOMAIN s : s[k] \in S /\ k \in Nat
BY LenProperties, ElementOfSeq

LEMMA RangeGrows ==
  ASSUME NEW m \in Nat, NEW n \in Nat, n >= m
  PROVE  \A k \in 0..m : k \in 0..n
OBVIOUS

(* What a step changes: of a call, of a session, of a connection. *)
CallMoves(c, pc, to, answer) ==
  /\ call' \in Seq(Call) /\ Len(call') = Len(call) /\ Calls' = Calls
  /\ call'[c].pc = pc /\ call'[c].to = to /\ call'[c].answer = answer /\ call'[c].sid = call[c].sid
  /\ \A d \in Calls : d # c => call'[d] = call[d]
SessMoves(s, chain, managed) ==
  /\ sess' \in Seq(Session) /\ Len(sess') = Len(sess)
  /\ sess'[s].chain = chain /\ sess'[s].managed = managed
  /\ \A t \in Calls : t # s => sess'[t] = sess[t]
ConnMoves(k, line, bash, queue) ==
  /\ conn' \in Seq(Conn) /\ Len(conn') = Len(conn) /\ DOMAIN conn' = DOMAIN conn
  /\ conn'[k].line = line /\ conn'[k].bash = bash /\ conn'[k].queue = queue
  /\ \A l \in DOMAIN conn : l # k => conn'[l] = conn[l]
ConnMade ==
  /\ conn' \in Seq(Conn) /\ Len(conn') = Len(conn) + 1 /\ DOMAIN conn' = DOMAIN conn \cup {Len(conn) + 1}
  /\ Len(conn) + 1 \notin DOMAIN conn
  /\ conn'[Len(conn) + 1] = NewConn
  /\ \A l \in DOMAIN conn : conn'[l] = conn[l]

LEMMA Elements ==
  ASSUME TypeOK
  PROVE  /\ Calls = 1..Len(call) /\ DOMAIN sess = Calls /\ DOMAIN runs = Calls /\ Len(call) \in Nat
         /\ Len(conn) \in Nat /\ DOMAIN conn = 1..Len(conn)
         /\ \A c \in Calls : call[c] \in Call /\ sess[c] \in Session /\ runs[c] \in Nat /\ c \in Nat
         /\ \A k \in DOMAIN conn : conn[k] \in Conn /\ k \in Nat
BY SeqIn DEF TypeOK, Calls

(* The next state of a call. *)
LEMMA CallSet ==
  ASSUME TypeOK, NEW c \in Calls, NEW x \in Call, x.sid = call[c].sid, call' = [call EXCEPT ![c] = x]
  PROVE  CallMoves(c, x.pc, x.to, x.answer)
<1>1. call \in Seq(Call) /\ c \in DOMAIN call
  BY DEF TypeOK, Calls
<1>2. QED
  BY <1>1, SeqSet DEF CallMoves, Calls

LEMMA Goes ==
  ASSUME TypeOK, NEW c \in Calls, NEW pc \in Pcs, Go(c, pc)
  PROVE  CallMoves(c, pc, call[c].to, call[c].answer)
<1> DEFINE x == [call[c] EXCEPT !.pc = pc]
<1>1. call[c] \in Call
  BY Elements
<1>2. x \in Call /\ x.sid = call[c].sid /\ x.pc = pc /\ x.to = call[c].to /\ x.answer = call[c].answer
  BY <1>1 DEF Call
<1>3. call' = [call EXCEPT ![c] = x]
  BY DEF Go
<1> HIDE DEF x
<1>4. CallMoves(c, x.pc, x.to, x.answer)
  BY <1>2, <1>3, CallSet
<1>5. QED
  BY <1>2, <1>4

LEMMA CallTo ==
  ASSUME TypeOK, NEW c \in Calls, NEW pc \in Pcs, NEW to \in Nat, call' = [call EXCEPT ![c].to = to, ![c].pc = pc]
  PROVE  CallMoves(c, pc, to, call[c].answer)
<1> DEFINE x == [call[c] EXCEPT !.to = to, !.pc = pc]
<1>1. call[c] \in Call
  BY Elements
<1>2. x \in Call /\ x.sid = call[c].sid /\ x.pc = pc /\ x.to = to /\ x.answer = call[c].answer
  BY <1>1 DEF Call
<1>3. call' = [call EXCEPT ![c] = x]
  OBVIOUS
<1> HIDE DEF x
<1>4. CallMoves(c, x.pc, x.to, x.answer)
  BY <1>2, <1>3, CallSet
<1>5. QED
  BY <1>2, <1>4

LEMMA Answers ==
  ASSUME TypeOK, NEW c \in Calls, NEW a \in {"error", "ok", "closed"}, Answer(c, a)
  PROVE  CallMoves(c, "done", 0, a)
<1> DEFINE x == [call[c] EXCEPT !.pc = "done", !.answer = a, !.to = 0]
<1>1. call[c] \in Call
  BY Elements
<1>2. x \in Call /\ x.sid = call[c].sid /\ x.pc = "done" /\ x.to = 0 /\ x.answer = a
  BY <1>1 DEF Call, Pcs
<1>3. call' = [call EXCEPT ![c] = x]
  BY DEF Answer
<1> HIDE DEF x
<1>4. CallMoves(c, x.pc, x.to, x.answer)
  BY <1>2, <1>3, CallSet
<1>5. QED
  BY <1>2, <1>4

LEMMA SessSet ==
  ASSUME TypeOK, NEW s \in Calls, NEW x \in Session, sess' = [sess EXCEPT ![s] = x]
  PROVE  SessMoves(s, x.chain, x.managed)
<1>1. sess \in Seq(Session) /\ DOMAIN sess = Calls
  BY Elements DEF TypeOK
<1>2. QED
  BY <1>1, SeqSet DEF SessMoves

LEMMA ConnSet ==
  ASSUME TypeOK, NEW k \in DOMAIN conn, NEW x \in Conn, conn' = [conn EXCEPT ![k] = x]
  PROVE  ConnMoves(k, x.line, x.bash, x.queue)
<1>1. conn \in Seq(Conn)
  BY DEF TypeOK
<1>2. QED
  BY <1>1, SeqSet DEF ConnMoves

LEMMA ConnCloses ==
  ASSUME TypeOK, NEW k \in DOMAIN conn, conn' = Closed(conn, k)
  PROVE  ConnMoves(k, "closed", "closed", conn[k].queue)
<1> DEFINE x == [conn[k] EXCEPT !.line = "closed", !.bash = "closed"]
<1>1. conn[k] \in Conn
  BY Elements
<1>2. x \in Conn /\ x.line = "closed" /\ x.bash = "closed" /\ x.queue = conn[k].queue
  BY <1>1 DEF Conn
<1>3. conn' = [conn EXCEPT ![k] = x]
  BY DEF Closed
<1> HIDE DEF x
<1>4. ConnMoves(k, x.line, x.bash, x.queue)
  BY <1>2, <1>3, ConnSet
<1>5. QED
  BY <1>2, <1>4

LEMMA ConnAppends ==
  ASSUME TypeOK, conn' = Append(conn, NewConn)
  PROVE  ConnMade
<1>1. NewConn \in Conn
  BY EmptySeq DEF NewConn, Conn
<1>2. conn \in Seq(Conn)
  BY DEF TypeOK
<1>3. QED
  BY <1>1, <1>2, SeqAppend DEF ConnMade

(* The history keeps its bound. *)
LEMMA HistoryFits ==
  ASSUME NEW h \in History, NEW what \in Nat \X {"failed", "ran", "timeout"}
  PROVE  Remembered(h, what) \in History
<1> DEFINE S == Nat \X {"failed", "ran", "timeout"}
           all == Append(h, what)
<1> HIDE DEF S
<1>0. HistoryMax \in Nat
  BY RemoteShellAssumption
<1>1. h \in Seq(S) /\ Len(h) <= HistoryMax /\ Len(h) \in Nat /\ what \in S
  BY LenProperties DEF History, S
<1>2. all \in Seq(S) /\ Len(all) = Len(h) + 1 /\ all # <<>>
  BY <1>1, AppendProperties
<1>3. Tail(all) \in Seq(S) /\ Len(Tail(all)) = Len(all) - 1
  BY <1>2, HeadTailProperties
<1>4. QED
  BY <1>0, <1>1, <1>2, <1>3 DEF Remembered, History, S

-----------------------------------------------------------------------------
(* Sessions and connections of which a step changes nothing that matters. *)
SessFixed ==
  /\ sess' \in Seq(Session) /\ Len(sess') = Len(sess)
  /\ \A s \in Calls : sess'[s].chain = sess[s].chain /\ sess'[s].managed = sess[s].managed

LEMMA SessSame == ASSUME TypeOK, UNCHANGED sess PROVE SessFixed
BY DEF SessFixed, TypeOK

LEMMA Remembers ==
  ASSUME TypeOK, NEW s \in Calls, NEW h \in History, NEW pwd \in Directories,
         sess' = [sess EXCEPT ![s].history = h, ![s].lastPwd = pwd]
  PROVE  SessFixed
<1> DEFINE x == [sess[s] EXCEPT !.history = h, !.lastPwd = pwd]
<1>1. sess[s] \in Session
  BY Elements
<1>2. x \in Session /\ x.chain = sess[s].chain /\ x.managed = sess[s].managed
  BY <1>1 DEF Session
<1>3. sess' = [sess EXCEPT ![s] = x]
  OBVIOUS
<1> HIDE DEF x
<1>4. SessMoves(s, x.chain, x.managed)
  BY <1>2, <1>3, SessSet
<1>5. QED
  BY <1>2, <1>4 DEF SessMoves, SessFixed

(* A directory that is told is one. *)
LEMMA ToldIs ==
  ASSUME TypeOK, NEW k \in DOMAIN conn, NEW was \in Directories, NEW pwd \in Told(k, was)
  PROVE  pwd \in Directories
<1>1. conn[k].cwd \in Directories
  BY Elements DEF Conn, Directories
<1>2. Unknown \in Directories
  BY DEF Directories
<1>3. QED
  BY <1>1, <1>2 DEF Told

(* The pointers of a call that uses its session. *)
LEMMA PointersAre ==
  ASSUME TypeOK, PointersHold, NEW c \in Calls
  PROVE  /\ Sid(c) \in Calls
         /\ call[c].pc \in Making \cup {"set managed"} => call[c].to \in DOMAIN conn
         /\ call[c].pc \in Using => Shell(c).chain \in DOMAIN conn /\ Shell(c).managed \in DOMAIN conn
         /\ Shell(c) \in Session /\ Shell(c) = sess[Sid(c)]
<1>1. CallInv(c) /\ Sid(c) \in Calls
  BY DEF PointersHold, CallInv
<1>2. SessionInv(Sid(c))
  BY <1>1 DEF PointersHold
<1>3. Shell(c) \in Session /\ Shell(c) = sess[Sid(c)]
  BY <1>1, Elements DEF Shell
<1>4. \A k \in 0..Len(conn) : k > 0 => k \in DOMAIN conn
  BY Elements
<1>5. call[c].pc \in Making \cup {"set managed"} => call[c].to \in DOMAIN conn
  BY <1>1, <1>4 DEF CallInv
<1>6. call[c].pc \in Using => Shell(c).chain \in DOMAIN conn /\ Shell(c).managed \in DOMAIN conn
  BY <1>1, <1>2, <1>3, <1>4 DEF CallInv, SessionInv
<1>7. QED
  BY <1>1, <1>3, <1>5, <1>6

(* What the actions do. *)
LEMMA CreateDoes ==
  ASSUME TypeOK, NEW c \in Calls, Create(c)
  PROVE  /\ call[c].pc = "create" /\ UNCHANGED <<world, store, sess, runs, evicted>>
         /\ \/ CallMoves(c, "done", 0, "error") /\ UNCHANGED conn
            \/ CallMoves(c, "start", Len(conn) + 1, call[c].answer) /\ ConnMade
<1>1. CASE Answer(c, "error") /\ UNCHANGED conn
  BY <1>1, Answers DEF Create, At
<1>2. CASE /\ conn' = Append(conn, NewConn)
           /\ call' = [call EXCEPT ![c].to = Len(conn) + 1, ![c].pc = "start"]
  <2>1. Len(conn) + 1 \in Nat
    BY Elements
  <2>2. CallMoves(c, "start", Len(conn) + 1, call[c].answer)
    BY <1>2, <2>1, CallTo DEF Pcs
  <2>3. QED
    BY <1>2, <2>2, ConnAppends DEF Create, At
<1>3. QED
  BY <1>1, <1>2 DEF Create

LEMMA StartDoes ==
  ASSUME TypeOK, PointersHold, NEW c \in Calls, Start(c)
  PROVE  /\ call[c].pc = "start" /\ UNCHANGED <<world, runs, evicted>> /\ Sid(c) = c /\ call[c].to \in DOMAIN conn
         /\ \/ /\ CallMoves(c, "done", 0, "error") /\ ConnMoves(call[c].to, "closed", "closed", conn[call[c].to].queue)
               /\ UNCHANGED <<store, sess>>
            \/ /\ CallMoves(c, "dispatch", call[c].to, call[c].answer) /\ SessMoves(c, call[c].to, call[c].to)
               /\ store' = store \cup {c} /\ UNCHANGED conn
<1>0. /\ call[c].pc = "start" /\ UNCHANGED <<world, runs, evicted>> /\ Sid(c) = c /\ call[c].to \in DOMAIN conn
  BY PointersAre DEF Start, At, PointersHold, CallInv, Making
<1>1. CASE Answer(c, "error") /\ conn' = Closed(conn, call[c].to) /\ UNCHANGED <<store, sess>>
  BY <1>0, <1>1, Answers, ConnCloses
<1>2. CASE /\ store' = store \cup {c}
           /\ sess' = [sess EXCEPT ![c].chain = call[c].to, ![c].managed = call[c].to]
           /\ Go(c, "dispatch") /\ UNCHANGED conn
  <2> DEFINE x == [sess[c] EXCEPT !.chain = call[c].to, !.managed = call[c].to]
  <2>1. sess[c] \in Session /\ call[c].to \in Nat
    BY <1>0, Elements
  <2>2. x \in Session /\ x.chain = call[c].to /\ x.managed = call[c].to
    BY <2>1 DEF Session
  <2>3. sess' = [sess EXCEPT ![c] = x]
    BY <1>2
  <2> HIDE DEF x
  <2>4. SessMoves(c, x.chain, x.managed)
    BY <2>2, <2>3, SessSet
  <2>5. CallMoves(c, "dispatch", call[c].to, call[c].answer)
    BY <1>2, Goes DEF Pcs, Using, Alive
  <2>6. QED
    BY <1>0, <1>2, <2>2, <2>4, <2>5
<1>3. QED
  BY <1>1, <1>2 DEF Start

LEMMA GetDoes ==
  ASSUME TypeOK, NEW c \in Calls, Get(c)
  PROVE  /\ call[c].pc = "get" /\ UNCHANGED <<world, store, sess, conn, runs, evicted>>
         /\ \/ Sid(c) \in store /\ CallMoves(c, "dispatch", call[c].to, call[c].answer)
            \/ CallMoves(c, "done", 0, "error")
BY Goes, Answers DEF Get, At, Pcs, Using, Alive

LEMMA ExitDoes ==
  ASSUME TypeOK, NEW c \in Calls, Exit(c)
  PROVE  /\ call[c].pc = "dispatch" /\ UNCHANGED <<world, sess, conn, runs, evicted>>
         /\ store' = store \ {Sid(c)} /\ CallMoves(c, "close bash", call[c].to, call[c].answer)
BY Goes DEF Exit, At, Pcs, Using

LEMMA CloseManagedDoes ==
  ASSUME TypeOK, PointersHold, NEW c \in Calls, CloseManaged(c)
  PROVE  /\ UNCHANGED <<world, store, sess, runs, evicted>> /\ Shell(c).managed \in DOMAIN conn
         /\ ConnMoves(Shell(c).managed, conn[Shell(c).managed].line, "closed", conn[Shell(c).managed].queue)
         /\ \/ call[c].pc = "close bash" /\ CallMoves(c, "close", call[c].to, call[c].answer)
            \/ call[c].pc = "reclose bash" /\ CallMoves(c, "reclose", call[c].to, call[c].answer)
<1> DEFINE k == Shell(c).managed
           x == [conn[k] EXCEPT !.bash = "closed"]
<1>1. k \in DOMAIN conn
  BY PointersAre DEF CloseManaged, Using, Alive
<1>2. conn[k] \in Conn
  BY <1>1, Elements
<1>3. x \in Conn /\ x.line = conn[k].line /\ x.bash = "closed" /\ x.queue = conn[k].queue
  BY <1>2 DEF Conn
<1>4. conn' = [conn EXCEPT ![k] = x]
  BY DEF CloseManaged
<1>5. /\ UNCHANGED <<world, store, sess, runs, evicted>>
      /\ \/ call[c].pc = "close bash" /\ CallMoves(c, "close", call[c].to, call[c].answer)
         \/ call[c].pc = "reclose bash" /\ CallMoves(c, "reclose", call[c].to, call[c].answer)
  BY Goes DEF CloseManaged, At, Pcs, Using, Alive
<1> HIDE DEF x, k
<1>6. ConnMoves(k, x.line, x.bash, x.queue)
  BY <1>1, <1>3, <1>4, ConnSet
<1>7. QED
  BY <1>1, <1>3, <1>5, <1>6 DEF k

LEMMA CloseChainDoes ==
  ASSUME TypeOK, PointersHold, NEW c \in Calls, CloseChain(c)
  PROVE  /\ UNCHANGED <<world, store, sess, runs, evicted>> /\ Shell(c).chain \in DOMAIN conn
         /\ ConnMoves(Shell(c).chain, "closed", "closed", conn[Shell(c).chain].queue)
         /\ \/ call[c].pc = "close" /\ CallMoves(c, "done", 0, "closed")
            \/ call[c].pc = "reclose" /\ CallMoves(c, "redial", call[c].to, call[c].answer)
<1>1. Shell(c).chain \in DOMAIN conn
  BY PointersAre DEF CloseChain, Using, Alive
<1>2. /\ UNCHANGED <<world, store, sess, runs, evicted>> /\ conn' = Closed(conn, Shell(c).chain)
      /\ \/ call[c].pc = "close" /\ CallMoves(c, "done", 0, "closed")
         \/ call[c].pc = "reclose" /\ CallMoves(c, "redial", call[c].to, call[c].answer)
  BY Goes, Answers DEF CloseChain, At, Pcs, Using, Alive
<1>3. QED
  BY <1>1, <1>2, ConnCloses

(* The steps that answer with "ok". *)
LEMMA AnswersOk ==
  ASSUME TypeOK, PointersHold, NEW c \in Calls, Status(c) \/ NoCommand(c) \/ PTYEnds(c) \/ Return(c)
  PROVE  /\ UNCHANGED <<world, store, conn, runs, evicted>> /\ SessFixed
         /\ call[c].pc \in {"dispatch", "pty", "wait"} /\ \E to \in {0, call[c].to} : CallMoves(c, "done", to, "ok")
<1> DEFINE s == Shell(c)
           h == sess[Sid(c)].history
<1>1. /\ s \in Session /\ s = sess[Sid(c)] /\ Sid(c) \in Calls /\ h \in History
      /\ s.history \in History /\ s.lastPwd \in Directories /\ s.managed \in Nat
      /\ call[c] \in Call /\ call[c].sid = Sid(c) /\ call[c].to \in Nat /\ call[c].asks \in Commands
  <2>1. s \in Session /\ s = sess[Sid(c)] /\ Sid(c) \in Calls
    BY PointersAre
  <2>2. call[c] \in Call
    BY Elements
  <2>3. QED
    BY <2>1, <2>2 DEF Session, Call, Sid
<1>2. call[c].pc \in {"dispatch", "pty", "wait"} /\ UNCHANGED <<world, store, conn, runs, evicted>>
  BY DEF Status, NoCommand, PTYEnds, Return, At
<1>3. s.managed \in DOMAIN conn
  BY <1>2, PointersAre DEF Using, Alive
<1>4. \A was \in Directories : \A pwd \in Told(s.managed, was) : pwd \in Directories
  BY <1>3, ToldIs
<1>5. Answer(c, "ok") => \E to \in {0, call[c].to} : CallMoves(c, "done", to, "ok")
  BY Answers
<1>6. CASE Status(c)
  <2>1. PICK pwd \in IF s.lastPwd # Unknown THEN {s.lastPwd} ELSE Told(s.managed, Unknown) :
          /\ sess' = [sess EXCEPT ![Sid(c)].lastPwd = pwd]
          /\ call' = [call EXCEPT ![c].pc = "done", ![c].answer = "ok", ![c].told = <<pwd, conn[s.managed].cwd>>]
    BY <1>6 DEF Status
  <2>2. pwd \in Directories /\ conn[s.managed].cwd \in Directories
    <3>1. Unknown \in Directories
      BY DEF Directories
    <3>2. conn[s.managed].cwd \in Directories
      BY <1>3, Elements DEF Conn, Directories
    <3>3. QED
      BY <1>1, <1>4, <3>1, <3>2
  <2>3. SessFixed
    <3> DEFINE x == [s EXCEPT !.lastPwd = pwd]
    <3>1. x \in Session /\ x.chain = s.chain /\ x.managed = s.managed
      BY <1>1, <2>2 DEF Session
    <3>2. sess' = [sess EXCEPT ![Sid(c)] = x]
      BY <1>1, <2>1
    <3> HIDE DEF x
    <3>3. SessMoves(Sid(c), x.chain, x.managed)
      BY <1>1, <3>1, <3>2, SessSet
    <3>4. QED
      BY <1>1, <3>1, <3>3 DEF SessMoves, SessFixed
  <2>4. CallMoves(c, "done", call[c].to, "ok")
    <3> DEFINE told == <<pwd, conn[s.managed].cwd>>
               x == [call[c] EXCEPT !.pc = "done", !.answer = "ok", !.told = told]
    <3>1. told \in Seq(Directories)
      BY <2>2
    <3>2. call' = [call EXCEPT ![c] = x]
      BY <2>1
    <3> HIDE DEF told
    <3>3. x \in Call /\ x.sid = call[c].sid /\ x.pc = "done" /\ x.to = call[c].to /\ x.answer = "ok"
      BY <1>1, <3>1 DEF Call, Pcs
    <3> HIDE DEF x
    <3>4. CallMoves(c, x.pc, x.to, x.answer)
      BY <3>2, <3>3, CallSet
    <3>5. QED
      BY <3>3, <3>4
  <2>5. QED
    BY <1>1, <1>2, <2>3, <2>4
<1>7. CASE NoCommand(c)
  <2>1. PICK pwd \in Told(s.managed, s.lastPwd) :
          sess' = [sess EXCEPT ![Sid(c)].lastPwd = IF pwd = Unknown THEN @ ELSE pwd]
    BY <1>7 DEF NoCommand
  <2> DEFINE keeps == IF pwd = Unknown THEN s.lastPwd ELSE pwd
  <2>2. keeps \in Directories
    BY <1>1, <1>4
  <2>3. SessFixed
    <3> DEFINE x == [s EXCEPT !.lastPwd = keeps]
    <3>1. sess' = [sess EXCEPT ![Sid(c)] = x]
      BY <1>1, <2>1
    <3> HIDE DEF keeps
    <3>2. x \in Session /\ x.chain = s.chain /\ x.managed = s.managed
      BY <1>1, <2>2 DEF Session
    <3> HIDE DEF x
    <3>3. SessMoves(Sid(c), x.chain, x.managed)
      BY <1>1, <3>1, <3>2, SessSet
    <3>4. QED
      BY <1>1, <3>2, <3>3 DEF SessMoves, SessFixed
  <2>4. QED
    BY <1>2, <1>5, <1>7, <2>3 DEF NoCommand
<1>8. CASE PTYEnds(c)
  BY <1>2, <1>5, <1>8, SessSame DEF PTYEnds
<1>9. CASE Return(c)
  <2>1. PICK how \in {"timeout", "ran"}, pwd \in IF call[c].asks = "cd" THEN Told(s.managed, s.lastPwd) ELSE {s.lastPwd} :
          sess' = [sess EXCEPT ![Sid(c)].history = Remembered(@, <<c, how>>), ![Sid(c)].lastPwd = pwd]
    <3>1. \A ran : {"timeout"} \cup (IF ran THEN {"ran"} ELSE {}) \subseteq {"timeout", "ran"}
      OBVIOUS
    <3>2. QED
      BY <1>9, <3>1 DEF Return
  <2>2. pwd \in Directories
    BY <1>1, <1>4
  <2>3. Remembered(h, <<c, how>>) \in History
    <3>1. <<c, how>> \in Nat \X {"failed", "ran", "timeout"}
      BY Elements
    <3>2. QED
      BY <1>1, <3>1, HistoryFits
  <2>4. sess' = [sess EXCEPT ![Sid(c)].history = Remembered(h, <<c, how>>), ![Sid(c)].lastPwd = pwd]
    BY <2>1
  <2>5. SessFixed
    BY <1>1, <2>2, <2>3, <2>4, Remembers
  <2>6. QED
    BY <1>2, <1>5, <1>9, <2>5 DEF Return
<1>10. QED
  BY <1>6, <1>7, <1>8, <1>9

LEMMA RunPTYDoes ==
  ASSUME TypeOK, PointersHold, NEW c \in Calls, RunPTY(c)
  PROVE  /\ call[c].pc = "dispatch" /\ UNCHANGED <<world, store, sess, evicted>>
         /\ \/ /\ CallMoves(c, "pty", call[c].to, call[c].answer) /\ UNCHANGED conn
               /\ runs' = [runs EXCEPT ![c] = @ + 1]
            \/ CallMoves(c, "done", 0, "error") /\ UNCHANGED <<runs, conn>>
            \/ /\ CallMoves(c, "done", 0, "error") /\ call'[c].asks = "pty"
               /\ runs' = [runs EXCEPT ![c] = @ + 1]
               /\ \E k \in DOMAIN conn : /\ conn[k].line = "up"
                                       /\ ConnMoves(k, "dropped", conn[k].bash, conn[k].queue)
<1>1. call[c].pc = "dispatch" /\ call[c].asks = "pty" /\ UNCHANGED <<world, store, sess, evicted>>
  BY DEF RunPTY, At
<1>2. ASSUME Go(c, "pty") PROVE CallMoves(c, "pty", call[c].to, call[c].answer)
  BY <1>2, Goes DEF Pcs, Using, Alive
<1>3. ASSUME Answer(c, "error") PROVE CallMoves(c, "done", 0, "error") /\ call'[c].asks = "pty"
  <2>1. call' = [call EXCEPT ![c].pc = "done", ![c].answer = "error", ![c].to = 0] /\ c \in DOMAIN call
    BY <1>3 DEF Answer, Calls
  <2>2. call[c] \in Call /\ call[c].asks = "pty" /\ call' = [call EXCEPT ![c] = [call[c] EXCEPT !.pc = "done", !.answer = "error", !.to = 0]]
    BY <1>1, <2>1, Elements
  <2>3. call'[c] = [call[c] EXCEPT !.pc = "done", !.answer = "error", !.to = 0]
    BY <2>1, <2>2
  <2>4. call'[c].asks = "pty"
    BY <2>2, <2>3 DEF Call
  <2> QED BY <1>3, <2>4, Answers
<1>4. ASSUME NEW k, k = Shell(c).chain, conn[k].line = "up", conn' = [conn EXCEPT ![k].line = "dropped"]
      PROVE  k \in DOMAIN conn /\ ConnMoves(k, "dropped", conn[k].bash, conn[k].queue)
  <2>1. k \in DOMAIN conn
    BY <1>1, <1>4, PointersAre DEF Using, Alive
  <2> DEFINE x == [conn[k] EXCEPT !.line = "dropped"]
  <2>3. conn[k] \in Conn
    BY <2>1, Elements
  <2>4. x \in Conn /\ x.line = "dropped" /\ x.bash = conn[k].bash /\ x.queue = conn[k].queue
    BY <2>3 DEF Conn
  <2>5. conn' = [conn EXCEPT ![k] = x]
    BY <1>4
  <2> HIDE DEF x
  <2>6. ConnMoves(k, x.line, x.bash, x.queue)
    BY <2>1, <2>4, <2>5, ConnSet
  <2> QED BY <2>1, <2>4, <2>6
<1> QED
  BY <1>1, <1>2, <1>3, <1>4 DEF RunPTY

(* The call writes its command, or mends its session, or gives it up. *)
LEMMA SendDoes ==
  ASSUME TypeOK, PointersHold, NEW c \in Calls, Send(c)
  PROVE  /\ call[c].pc \in {"dispatch", "send"} /\ UNCHANGED <<world, runs>>
         /\ \/ /\ CallMoves(c, "wait", Shell(c).managed, call[c].answer) /\ UNCHANGED <<store, sess, evicted>>
               /\ \/ UNCHANGED conn
                  \/ LET k == Shell(c).managed IN
                     k \in DOMAIN conn /\ ConnMoves(k, conn[k].line, conn[k].bash, Append(conn[k].queue, c))
            \/ CallMoves(c, "reclose bash", call[c].to, call[c].answer) /\ SessFixed /\ UNCHANGED <<store, conn, evicted>>
            \/ /\ CallMoves(c, "done", 0, "error") /\ UNCHANGED <<conn, sess>>
               /\ store' = store \ {Sid(c)} /\ evicted' = evicted \cup {Shell(c).chain}
<1> DEFINE s == Shell(c)
           k == s.managed
<1>1. call[c].pc \in {"dispatch", "send"} /\ UNCHANGED <<world, runs>>
  BY DEF Send, At
<1>2. /\ s \in Session /\ s = sess[Sid(c)] /\ Sid(c) \in Calls /\ k \in Nat /\ s.history \in History /\ s.lastPwd \in Directories
      /\ k \in DOMAIN conn /\ c \in Nat
  BY <1>1, PointersAre, Elements DEF Session, Using, Alive
<1>3. PICK w \in Writes(k) :
        \/ /\ w # "fails" /\ call' = [call EXCEPT ![c].pc = "wait", ![c].to = k]
           /\ conn' = IF w = "lost" THEN conn ELSE [conn EXCEPT ![k].queue = Append(@, c)]
           /\ UNCHANGED <<store, sess, evicted>>
        \/ /\ w = "fails" /\ ~call[c].retried
           /\ sess' = [sess EXCEPT ![Sid(c)].history = Remembered(@, <<c, "failed">>)]
           /\ Go(c, "reclose bash") /\ UNCHANGED <<store, conn, evicted>>
        \/ /\ w = "fails" /\ call[c].retried
           /\ store' = store \ {Sid(c)} /\ evicted' = evicted \cup {Shell(c).chain}
           /\ Answer(c, "error") /\ UNCHANGED <<conn, sess>>
  BY DEF Send
<1>4. CASE /\ call' = [call EXCEPT ![c].pc = "wait", ![c].to = k]
           /\ conn' = IF w = "lost" THEN conn ELSE [conn EXCEPT ![k].queue = Append(@, c)]
           /\ UNCHANGED <<store, sess, evicted>>
  <2>1. CallMoves(c, "wait", k, call[c].answer)
    <3>1. call' = [call EXCEPT ![c].to = k, ![c].pc = "wait"]
      BY <1>4, Elements DEF Call
    <3>2. QED
      BY <1>2, <3>1, CallTo DEF Pcs, Using, Alive
  <2>2. CASE conn' = [conn EXCEPT ![k].queue = Append(@, c)]
    <3> DEFINE q == Append(conn[k].queue, c)
               x == [conn[k] EXCEPT !.queue = q]
    <3>1. conn[k] \in Conn
      BY <1>2, Elements
    <3>2. q \in Seq(Nat)
      BY <1>2, <3>1, AppendProperties DEF Conn
    <3>3. conn' = [conn EXCEPT ![k] = x]
      BY <2>2
    <3> HIDE DEF q
    <3>4. x \in Conn /\ x.line = conn[k].line /\ x.bash = conn[k].bash /\ x.queue = q
      BY <3>1, <3>2 DEF Conn
    <3> HIDE DEF x
    <3>5. ConnMoves(k, x.line, x.bash, x.queue)
      BY <1>2, <3>3, <3>4, ConnSet
    <3>6. QED
      BY <1>1, <1>2, <1>4, <2>1, <3>4, <3>5 DEF q
  <2>3. QED
    BY <1>1, <1>4, <2>1, <2>2
<1>5. CASE /\ sess' = [sess EXCEPT ![Sid(c)].history = Remembered(@, <<c, "failed">>)]
           /\ Go(c, "reclose bash") /\ UNCHANGED <<store, conn, evicted>>
  <2> DEFINE h == Remembered(s.history, <<c, "failed">>)
             x == [s EXCEPT !.history = h]
  <2>1. h \in History
    <3>1. <<c, "failed">> \in Nat \X {"failed", "ran", "timeout"}
      BY <1>2
    <3>2. QED
      BY <1>2, <3>1, HistoryFits
  <2>2. sess' = [sess EXCEPT ![Sid(c)] = x]
    BY <1>2, <1>5
  <2> HIDE DEF h
  <2>3. x \in Session /\ x.chain = s.chain /\ x.managed = s.managed
    BY <1>2, <2>1 DEF Session
  <2> HIDE DEF x
  <2>4. SessMoves(Sid(c), x.chain, x.managed)
    BY <1>2, <2>2, <2>3, SessSet
  <2>5. SessFixed
    BY <1>2, <2>3, <2>4 DEF SessMoves, SessFixed
  <2>6. CallMoves(c, "reclose bash", call[c].to, call[c].answer)
    BY <1>5, Goes DEF Pcs, Using, Alive
  <2>7. QED
    BY <1>1, <1>5, <2>5, <2>6
<1>6. CASE /\ store' = store \ {Sid(c)} /\ evicted' = evicted \cup {Shell(c).chain}
           /\ Answer(c, "error") /\ UNCHANGED <<conn, sess>>
  BY <1>1, <1>6, Answers
<1>7. QED
  BY <1>3, <1>4, <1>5, <1>6

LEMMA RedialDoes ==
  ASSUME TypeOK, NEW c \in Calls, Redial(c)
  PROVE  /\ call[c].pc = "redial" /\ UNCHANGED <<world, sess, runs, evicted>>
         /\ \/ CallMoves(c, "done", 0, "error") /\ store' = store \ {Sid(c)} /\ UNCHANGED conn
            \/ CallMoves(c, "restart", Len(conn) + 1, call[c].answer) /\ UNCHANGED store /\ ConnMade
<1>1. CASE Answer(c, "error") /\ store' = store \ {Sid(c)} /\ UNCHANGED conn
  BY <1>1, Answers DEF Redial, At
<1>2. CASE /\ conn' = Append(conn, NewConn)
           /\ call' = [call EXCEPT ![c].to = Len(conn) + 1, ![c].pc = "restart"]
           /\ UNCHANGED store
  <2>1. Len(conn) + 1 \in Nat
    BY Elements
  <2>2. CallMoves(c, "restart", Len(conn) + 1, call[c].answer)
    BY <1>2, <2>1, CallTo DEF Pcs, Using, Alive
  <2>3. QED
    BY <1>2, <2>2, ConnAppends DEF Redial, At
<1>3. QED
  BY <1>1, <1>2 DEF Redial

LEMMA RestartDoes ==
  ASSUME TypeOK, PointersHold, NEW c \in Calls, Restart(c)
  PROVE  /\ call[c].pc = "restart" /\ UNCHANGED <<world, sess, runs, evicted>> /\ call[c].to \in DOMAIN conn
         /\ \/ /\ CallMoves(c, "done", 0, "error") /\ store' = store \ {Sid(c)}
               /\ ConnMoves(call[c].to, "closed", "closed", conn[call[c].to].queue)
            \/ CallMoves(c, "set chain", call[c].to, call[c].answer) /\ UNCHANGED <<store, conn>>
<1>1. call[c].pc = "restart" /\ UNCHANGED <<world, sess, runs, evicted>> /\ call[c].to \in DOMAIN conn
  BY PointersAre DEF Restart, At, Making
<1>2. QED
  BY <1>1, Goes, Answers, ConnCloses DEF Restart, Pcs, Using, Alive

LEMMA SetChainDoes ==
  ASSUME TypeOK, PointersHold, NEW c \in Calls, SetChain(c)
  PROVE  /\ call[c].pc = "set chain" /\ UNCHANGED <<world, store, conn, runs, evicted>> /\ call[c].to \in DOMAIN conn
         /\ SessMoves(Sid(c), call[c].to, Shell(c).managed) /\ CallMoves(c, "set managed", call[c].to, call[c].answer)
<1> DEFINE x == [Shell(c) EXCEPT !.chain = call[c].to]
<1>1. call[c].pc = "set chain" /\ UNCHANGED <<world, store, conn, runs, evicted>> /\ call[c].to \in DOMAIN conn
  BY PointersAre DEF SetChain, At, Making
<1>2. Shell(c) \in Session /\ Sid(c) \in Calls /\ Shell(c) = sess[Sid(c)] /\ call[c].to \in Nat
  BY <1>1, PointersAre, Elements
<1>3. x \in Session /\ x.chain = call[c].to /\ x.managed = Shell(c).managed
  BY <1>2 DEF Session
<1>4. sess' = [sess EXCEPT ![Sid(c)] = x]
  BY <1>2 DEF SetChain
<1> HIDE DEF x
<1>5. SessMoves(Sid(c), x.chain, x.managed)
  BY <1>2, <1>3, <1>4, SessSet
<1>6. CallMoves(c, "set managed", call[c].to, call[c].answer)
  BY Goes DEF SetChain, Pcs, Using, Alive
<1>7. QED
  BY <1>1, <1>3, <1>5, <1>6

LEMMA SetManagedDoes ==
  ASSUME TypeOK, PointersHold, NEW c \in Calls, SetManaged(c)
  PROVE  /\ call[c].pc = "set managed" /\ UNCHANGED <<world, store, conn, runs, evicted>> /\ call[c].to \in DOMAIN conn
         /\ SessMoves(Sid(c), Shell(c).chain, call[c].to) /\ CallMoves(c, "send", call[c].to, call[c].answer)
<1> DEFINE x == [Shell(c) EXCEPT !.managed = call[c].to]
           y == [call[c] EXCEPT !.pc = "send", !.retried = TRUE]
<1>1. call[c].pc = "set managed" /\ UNCHANGED <<world, store, conn, runs, evicted>> /\ call[c].to \in DOMAIN conn
  BY PointersAre DEF SetManaged, At
<1>2. Shell(c) \in Session /\ Sid(c) \in Calls /\ Shell(c) = sess[Sid(c)] /\ call[c].to \in Nat /\ call[c] \in Call
  BY <1>1, PointersAre, Elements
<1>3. x \in Session /\ x.managed = call[c].to /\ x.chain = Shell(c).chain
  BY <1>2 DEF Session
<1>4. sess' = [sess EXCEPT ![Sid(c)] = x] /\ call' = [call EXCEPT ![c] = y]
  BY <1>2 DEF SetManaged
<1>5. y \in Call /\ y.pc = "send" /\ y.to = call[c].to /\ y.answer = call[c].answer /\ y.sid = call[c].sid
  BY <1>2 DEF Call, Pcs, Using, Alive
<1> HIDE DEF x, y
<1>6. SessMoves(Sid(c), x.chain, x.managed)
  BY <1>2, <1>3, <1>4, SessSet
<1>7. CallMoves(c, y.pc, y.to, y.answer)
  BY <1>4, <1>5, CallSet
<1>8. QED
  BY <1>1, <1>3, <1>5, <1>6, <1>7

(* The steps of a connection. *)
ConnStep(k) == BashRuns(k) \/ Drop(k) \/ Dies(k)

LEMMA QueueIs ==
  ASSUME TypeOK, NEW k \in DOMAIN conn
  PROVE  /\ conn[k].queue \in Seq(Nat) /\ Len(conn[k].queue) \in Nat
         /\ DOMAIN conn[k].queue = 1..Len(conn[k].queue)
         /\ conn[k].queue # <<>> => Len(conn[k].queue) > 0 /\ Head(conn[k].queue) = conn[k].queue[1]
<1>1. conn[k].queue \in Seq(Nat)
  BY Elements DEF Conn
<1>2. QED
  BY <1>1, LenProperties, EmptySeq

LEMMA BashRunsDoes ==
  ASSUME TypeOK, CommandsInOrder, NEW k \in DOMAIN conn, BashRuns(k)
  PROVE  LET c == Head(conn[k].queue) IN
         /\ conn[k].queue # <<>> /\ UNCHANGED <<world, store, sess, call, evicted>>
         /\ c \in Calls /\ Queued(k, c) /\ runs' = [runs EXCEPT ![c] = @ + 1]
         /\ \E bash \in {conn[k].bash, "ended"}, queue \in {<<>>, Tail(conn[k].queue)} :
              (bash # conn[k].bash => conn[k].bash = "up") /\ ConnMoves(k, conn[k].line, bash, queue)
<1> DEFINE c == Head(conn[k].queue)
           logout == call[c].asks = "logout"
           bash == IF logout /\ conn[k].bash = "up" THEN "ended" ELSE conn[k].bash
           queue == IF logout THEN <<>> ELSE Tail(conn[k].queue)
           cwd == IF call[c].asks \in {"cd", "pushd"} THEN "elsewhere" ELSE conn[k].cwd
           x == [conn[k] EXCEPT !.queue = queue, !.bash = bash, !.cwd = cwd]
<1>1. conn[k].queue # <<>> /\ UNCHANGED <<world, store, sess, call, evicted>> /\ runs' = [runs EXCEPT ![c] = @ + 1]
  BY DEF BashRuns
<1>2. c \in Calls /\ Queued(k, c)
  <2>1. 1 \in DOMAIN conn[k].queue /\ c = conn[k].queue[1]
    BY <1>1, QueueIs
  <2>2. Written(k, conn[k].queue[1])
    BY <2>1 DEF CommandsInOrder, QueueInv
  <2>3. QED
    BY <2>1, <2>2 DEF Written, Queued
<1>3. conn[k] \in Conn
  BY Elements
<1>4. conn' = [conn EXCEPT ![k] = x]
  BY <1>3 DEF BashRuns, Conn
<1>5. queue \in Seq(Nat) /\ queue \in {<<>>, Tail(conn[k].queue)}
  <2>1. Tail(conn[k].queue) \in Seq(Nat)
    BY <1>1, QueueIs, HeadTailProperties
  <2>2. QED
    BY <2>1, EmptySeq
<1>6. bash \in {"up", "ended", "closed"} /\ bash \in {conn[k].bash, "ended"} /\ (bash # conn[k].bash => conn[k].bash = "up")
  BY <1>3 DEF Conn
<1>7. cwd \in {"home", "elsewhere"}
  BY <1>3 DEF Conn
<1> HIDE DEF queue, bash, cwd, c, logout
<1>8. x \in Conn /\ x.line = conn[k].line /\ x.bash = bash /\ x.queue = queue
  BY <1>3, <1>5, <1>6, <1>7 DEF Conn
<1> HIDE DEF x
<1>9. ConnMoves(k, x.line, x.bash, x.queue)
  BY <1>4, <1>8, ConnSet
<1>10. ConnMoves(k, conn[k].line, bash, queue)
  BY <1>8, <1>9
<1>11. QED
  BY <1>1, <1>2, <1>5, <1>6, <1>10 DEF c

LEMMA DropDoes ==
  ASSUME TypeOK, NEW k \in DOMAIN conn, Drop(k)
  PROVE  /\ UNCHANGED <<world, store, sess, call, runs, evicted>>
         /\ conn[k].line = "up" /\ ConnMoves(k, "dropped", conn[k].bash, conn[k].queue)
<1> DEFINE x == [conn[k] EXCEPT !.line = "dropped"]
<1>1. conn[k] \in Conn
  BY Elements
<1>2. x \in Conn /\ x.line = "dropped" /\ x.bash = conn[k].bash /\ x.queue = conn[k].queue
  BY <1>1 DEF Conn
<1>3. conn' = [conn EXCEPT ![k] = x]
  BY DEF Drop
<1> HIDE DEF x
<1>4. ConnMoves(k, x.line, x.bash, x.queue)
  BY <1>2, <1>3, ConnSet
<1>5. QED
  BY <1>2, <1>4 DEF Drop

LEMMA DiesDoes ==
  ASSUME TypeOK, NEW k \in DOMAIN conn, Dies(k)
  PROVE  /\ UNCHANGED <<world, store, sess, call, runs, evicted>>
         /\ ConnMoves(k, conn[k].line, conn[k].bash, <<>>)
<1> DEFINE x == [conn[k] EXCEPT !.queue = <<>>]
<1>1. conn[k] \in Conn
  BY Elements
<1>2. x \in Conn /\ x.line = conn[k].line /\ x.bash = conn[k].bash /\ x.queue = <<>>
  BY <1>1, EmptySeq DEF Conn
<1>3. conn' = [conn EXCEPT ![k] = x]
  BY DEF Dies
<1> HIDE DEF x
<1>4. ConnMoves(k, x.line, x.bash, x.queue)
  BY <1>2, <1>3, ConnSet
<1>5. QED
  BY <1>2, <1>4 DEF Dies

(* A call arrives, with a session of its own or one of an earlier call. *)
Arrives(n) ==
  /\ n = Len(call) + 1 /\ n \notin Calls /\ Calls' = Calls \cup {n} /\ UNCHANGED <<world, store, conn, evicted>>
  /\ call' \in Seq(Call) /\ Len(call') = n /\ \A d \in Calls : call'[d] = call[d]
  /\ sess' \in Seq(Session) /\ Len(sess') = n /\ \A d \in Calls : sess'[d] = sess[d]
  /\ runs' \in Seq(Nat) /\ Len(runs') = n /\ \A d \in Calls : runs'[d] = runs[d]
  /\ call'[n].pc \in {"create", "get"} /\ call'[n].sid \in Calls \cup {n} /\ call'[n].to = 0 /\ call'[n].answer = ""
  /\ call'[n].pc = "create" => call'[n].sid = n
  /\ sess'[n].chain = 0 /\ sess'[n].managed = 0 /\ runs'[n] = 0

LEMMA BeginDoes ==
  ASSUME TypeOK, Begin
  PROVE  Cardinality(Busy) < Overlap[world] /\ \E n \in Nat : Arrives(n)
<1> DEFINE n == Len(call) + 1
           s == [chain |-> 0, managed |-> 0, history |-> <<>>, lastPwd |-> Unknown]
<1>1. PICK asks \in Asked[world], sid \in {0} \cup {c \in Calls : call[c].new} :
        call' = Append(call, [pc |-> IF sid = 0 THEN "create" ELSE "get", asks |-> asks,
                  sid |-> IF sid = 0 THEN Len(call) + 1 ELSE sid, new |-> sid = 0, to |-> 0,
                  retried |-> FALSE, answer |-> "", told |-> <<>>])
  BY DEF Begin
<1> DEFINE id == IF sid = 0 THEN n ELSE sid
           pc == IF sid = 0 THEN "create" ELSE "get"
           x == [pc |-> pc, asks |-> asks, sid |-> id, new |-> sid = 0, to |-> 0,
                 retried |-> FALSE, answer |-> "", told |-> <<>>]
<1>2. /\ call \in Seq(Call) /\ sess \in Seq(Session) /\ runs \in Seq(Nat) /\ Len(call) \in Nat
      /\ Len(sess) = Len(call) /\ Len(runs) = Len(call) /\ Calls = DOMAIN call /\ DOMAIN sess = Calls /\ DOMAIN runs = Calls
  BY Elements DEF TypeOK, Calls
<1>3. s \in Session
  <2>1. <<>> \in History
    BY RemoteShellAssumption DEF History
  <2>2. QED
    BY <2>1 DEF Session, Directories
<1>4. id \in Nat /\ pc \in Pcs /\ id \in Calls \cup {n} /\ pc \in {"create", "get"} /\ (pc = "create" => id = n)
  BY <1>2, Elements DEF Pcs
<1>5. asks \in Commands
  BY RemoteShellAssumption DEF TypeOK
<1>6. call' = Append(call, x)
  BY <1>1
<1> HIDE DEF id, pc
<1>7. x \in Call /\ x.pc = pc /\ x.sid = id /\ x.to = 0 /\ x.answer = ""
  BY <1>4, <1>5, EmptySeq DEF Call
<1> HIDE DEF x
<1>8. call' \in Seq(Call) /\ Len(call') = n /\ DOMAIN call' = Calls \cup {n} /\ call'[n] = x /\ \A d \in Calls : call'[d] = call[d]
  <2>1. LET t == Append(call, x) IN
        t \in Seq(Call) /\ Len(t) = n /\ DOMAIN t = DOMAIN call \cup {n} /\ t[n] = x /\ \A d \in DOMAIN call : t[d] = call[d]
    <3>1. call \in Seq(Call) /\ x \in Call
      BY <1>2, <1>7
    <3>2. QED
      BY <3>1, SeqAppend
  <2>2. QED
    BY <1>2, <1>6, <2>1
<1>9. sess' = Append(sess, s) /\ runs' = Append(runs, 0) /\ UNCHANGED <<world, store, conn, evicted>> /\ Cardinality(Busy) < Overlap[world]
  BY DEF Begin
<1>10. sess' \in Seq(Session) /\ Len(sess') = n /\ sess'[n] = s /\ \A d \in Calls : sess'[d] = sess[d]
  BY <1>2, <1>3, <1>9, SeqAppend
<1>11. runs' \in Seq(Nat) /\ Len(runs') = n /\ runs'[n] = 0 /\ \A d \in Calls : runs'[d] = runs[d]
  BY <1>2, <1>9, SeqAppend
<1>12. n \notin Calls /\ n \in Nat
  BY Elements
<1>13. Arrives(n)
  <2>1. s.chain = 0 /\ s.managed = 0
    OBVIOUS
  <2>2. Calls' = Calls \cup {n}
    BY <1>8 DEF Calls
  <2> HIDE DEF s
  <2>3. QED
    BY <1>4, <1>7, <1>8, <1>9, <1>10, <1>11, <1>12, <2>1, <2>2 DEF Arrives
<1>14. QED
  BY <1>9, <1>12, <1>13

-----------------------------------------------------------------------------
(* Types. *)
LEMMA TypesInit == Init => TypeOK /\ PointersHold /\ CommandsInOrder /\ OneByOne
<1> SUFFICES ASSUME Init PROVE TypeOK /\ PointersHold /\ CommandsInOrder /\ OneByOne
  OBVIOUS
<1>1. Calls = {} /\ store = {} /\ DOMAIN conn = {} /\ Busy = {}
  BY DEF Init, Calls, Busy
<1>2. TypeOK
  BY <1>1, EmptySeq DEF Init, TypeOK
<1>3. QED
  BY <1>1, <1>2 DEF PointersHold, CommandsInOrder, OneByOne

LEMMA TypesStay ==
  ASSUME TypeOK, world' = world, store' \subseteq Calls', evicted' \subseteq Nat, conn' \in Seq(Conn), sess' \in Seq(Session),
         call' \in Seq(Call), runs' \in Seq(Nat), Len(sess') = Len(call'), Len(runs') = Len(call')
  PROVE  TypeOK'
BY DEF TypeOK, Calls

(* A call that moves keeps the pointers in order, when its own are. *)
LEMMA PointersStay ==
  ASSUME TypeOK, TypeOK', PointersHold, NEW c \in Calls,
         Calls' = Calls, call'[c].sid = call[c].sid, \A d \in Calls : d # c => call'[d] = call[d],
         \A t \in Calls : t # Sid(c) => sess'[t].chain = sess[t].chain /\ sess'[t].managed = sess[t].managed,
         Len(conn') >= Len(conn),
         call'[c].to \in 0..Len(conn'), sess'[Sid(c)].chain \in 0..Len(conn'), sess'[Sid(c)].managed \in 0..Len(conn'),
         Shell(c).chain > 0 => sess'[Sid(c)].chain > 0, Shell(c).managed > 0 => sess'[Sid(c)].managed > 0,
         store' \subseteq store \cup {Sid(c)},
         Sid(c) \in store' => sess'[Sid(c)].chain > 0 /\ sess'[Sid(c)].managed > 0,
         call'[c].pc \in {"create", "start"} => Sid(c) = c,
         call'[c].pc \in Making \cup {"set managed"} => call'[c].to > 0,
         call'[c].pc \in Using => sess'[Sid(c)].chain > 0 /\ sess'[Sid(c)].managed > 0,
         call'[c].answer # "" => call'[c].pc = "done"
  PROVE  PointersHold'
<1>0. /\ Len(conn) \in Nat /\ Len(conn') \in Nat /\ \A s \in Calls : sess[s].chain \in Nat /\ sess[s].managed \in Nat
  BY Elements, SeqIn DEF TypeOK, Session
<1>1. Sid(c) \in Calls /\ Shell(c) = sess[Sid(c)] /\ CallInv(c)
  BY PointersAre DEF PointersHold
<1>2. ASSUME NEW t \in Calls PROVE SessionInv(t)'
  <2>1. SessionInv(t)
    BY DEF PointersHold
  <2>2. CASE t = Sid(c)
    BY <2>2 DEF SessionInv
  <2>3. CASE t # Sid(c)
    <3>1. sess'[t].chain = sess[t].chain /\ sess'[t].managed = sess[t].managed
      BY <2>3
    <3>2. t \in store' => t \in store
      BY <2>3
    <3>3. \A k \in 0..Len(conn) : k \in 0..Len(conn')
      BY <1>0, RangeGrows
    <3>4. QED
      BY <2>1, <3>1, <3>2, <3>3 DEF SessionInv
  <2>4. QED
    BY <2>2, <2>3
<1>3. \A t \in Calls : /\ sess[t].chain > 0 => sess'[t].chain > 0
                       /\ sess[t].managed > 0 => sess'[t].managed > 0
  BY <1>1
<1>4. ASSUME NEW d \in Calls PROVE CallInv(d)'
  <2>1. CallInv(d)
    BY DEF PointersHold
  <2>2. CASE d = c
    BY <1>1, <2>2 DEF CallInv, Sid, Shell
  <2>3. CASE d # c
    <3>1. call'[d] = call[d] /\ Sid(d) \in Calls /\ Sid(d) = call[d].sid /\ Shell(d) = sess[Sid(d)]
      BY <2>1, <2>3 DEF CallInv, Sid, Shell
    <3>2. Shell(d)' = sess'[Sid(d)] /\ Sid(d)' = Sid(d)
      BY <3>1 DEF Sid, Shell
    <3>3. \A k \in 0..Len(conn) : k \in 0..Len(conn')
      BY <1>0, RangeGrows
    <3>4. /\ Shell(d).chain > 0 => Shell(d)'.chain > 0
          /\ Shell(d).managed > 0 => Shell(d)'.managed > 0
      BY <1>3, <3>1, <3>2
    <3>5. QED
      BY <2>1, <3>1, <3>2, <3>3, <3>4 DEF CallInv
  <2>4. QED
    BY <2>2, <2>3
<1>5. QED
  BY <1>2, <1>4 DEF PointersHold

CallStep(c) ==
  \/ Create(c) \/ Start(c) \/ Get(c) \/ Exit(c) \/ CloseManaged(c) \/ CloseChain(c)
  \/ Status(c) \/ NoCommand(c) \/ RunPTY(c) \/ PTYEnds(c) \/ Send(c) \/ Return(c)
  \/ Redial(c) \/ Restart(c) \/ SetChain(c) \/ SetManaged(c)

(* What the steps of a call have in common. *)
Frame(c) ==
  /\ world' = world /\ Calls' = Calls /\ call' \in Seq(Call) /\ Len(call') = Len(call)
  /\ call'[c].sid = call[c].sid /\ \A d \in Calls : d # c => call'[d] = call[d]
  /\ sess' \in Seq(Session) /\ Len(sess') = Len(sess)
  /\ \A t \in Calls : t # Sid(c) => sess'[t].chain = sess[t].chain /\ sess'[t].managed = sess[t].managed
  /\ conn' \in Seq(Conn) /\ Len(conn') >= Len(conn)
  /\ store' \subseteq store \cup {Sid(c)} /\ evicted' \subseteq Nat
  /\ runs' \in Seq(Nat) /\ Len(runs') = Len(runs)

LEMMA FrameTypes ==
  ASSUME TypeOK, PointersHold, NEW c \in Calls, Frame(c)
  PROVE  TypeOK'
<1>1. Sid(c) \in Calls
  BY PointersAre
<1>2. store' \subseteq Calls'
  BY <1>1 DEF TypeOK, Frame
<1>3. QED
  BY <1>2, TypesStay DEF Frame, TypeOK

(* The parts of the frame. *)
LEMMA FrameOf ==
  ASSUME TypeOK, PointersHold, NEW c \in Calls, NEW pc, NEW to, NEW a, CallMoves(c, pc, to, a), world' = world,
         \/ UNCHANGED sess
         \/ SessFixed
         \/ \E chain, managed \in Nat : SessMoves(Sid(c), chain, managed),
         \/ UNCHANGED conn
         \/ ConnMade
         \/ \E k, line, bash, queue : ConnMoves(k, line, bash, queue),
         \/ UNCHANGED store
         \/ store' = store \ {Sid(c)}
         \/ store' = store \cup {Sid(c)},
         UNCHANGED evicted \/ evicted' = evicted \cup {Shell(c).chain},
         UNCHANGED runs \/ runs' = [runs EXCEPT ![c] = @ + 1]
  PROVE  Frame(c)
<1>1. /\ Calls' = Calls /\ call' \in Seq(Call) /\ Len(call') = Len(call)
      /\ call'[c].sid = call[c].sid /\ \A d \in Calls : d # c => call'[d] = call[d]
  BY DEF CallMoves
<1>2. /\ sess' \in Seq(Session) /\ Len(sess') = Len(sess)
      /\ \A t \in Calls : t # Sid(c) => sess'[t].chain = sess[t].chain /\ sess'[t].managed = sess[t].managed
  BY DEF SessFixed, SessMoves, TypeOK
<1>3. conn' \in Seq(Conn) /\ Len(conn') >= Len(conn)
  <2>1. Len(conn) \in Nat /\ conn \in Seq(Conn)
    BY Elements DEF TypeOK
  <2>2. CASE UNCHANGED conn
    BY <2>1, <2>2
  <2>3. CASE ConnMade
    BY <2>1, <2>3 DEF ConnMade
  <2>4. CASE \E k, line, bash, queue : ConnMoves(k, line, bash, queue)
    BY <2>1, <2>4 DEF ConnMoves
  <2>5. QED
    BY <2>2, <2>3, <2>4
<1>4. store' \subseteq store \cup {Sid(c)} /\ evicted' \subseteq Nat
  <2>1. Shell(c).chain \in Nat
    BY PointersAre DEF Session
  <2>2. QED
    BY <2>1 DEF TypeOK
<1>5. runs' \in Seq(Nat) /\ Len(runs') = Len(runs)
  <2>1. runs \in Seq(Nat) /\ c \in DOMAIN runs /\ runs[c] \in Nat /\ runs[c] + 1 \in Nat
    BY Elements DEF TypeOK
  <2>2. CASE runs' = [runs EXCEPT ![c] = runs[c] + 1]
    BY <2>1, <2>2, SeqSet
  <2>3. QED
    BY <2>1, <2>2
<1>6. QED
  BY <1>1, <1>2, <1>3, <1>4, <1>5 DEF Frame

LEMMA FrameHolds ==
  ASSUME TypeOK, PointersHold, NEW c \in Calls, CallStep(c)
  PROVE  Frame(c)
<1>0. call[c].to \in Nat /\ Shell(c).chain \in Nat /\ Shell(c).managed \in Nat
  BY PointersAre, Elements DEF Call, Session
<1>1. CASE Create(c)
  BY <1>1, CreateDoes, FrameOf
<1>2. CASE Start(c)
  BY <1>0, <1>2, StartDoes, FrameOf
<1>3. CASE Get(c)
  BY <1>3, GetDoes, FrameOf
<1>4. CASE Exit(c)
  BY <1>4, ExitDoes, FrameOf
<1>5. CASE CloseManaged(c)
  BY <1>5, CloseManagedDoes, FrameOf
<1>6. CASE CloseChain(c)
  BY <1>6, CloseChainDoes, FrameOf
<1>7. CASE Status(c) \/ NoCommand(c) \/ PTYEnds(c) \/ Return(c)
  BY <1>7, AnswersOk, FrameOf
<1>8. CASE RunPTY(c)
  BY <1>8, RunPTYDoes, FrameOf
<1>9. CASE Send(c)
  BY <1>9, SendDoes, FrameOf
<1>10. CASE Redial(c)
  BY <1>10, RedialDoes, FrameOf
<1>11. CASE Restart(c)
  BY <1>11, RestartDoes, FrameOf
<1>12. CASE SetChain(c)
  BY <1>0, <1>12, SetChainDoes, FrameOf
<1>13. CASE SetManaged(c)
  BY <1>0, <1>13, SetManagedDoes, FrameOf
<1>14. QED
  BY <1>1, <1>2, <1>3, <1>4, <1>5, <1>6, <1>7, <1>8, <1>9, <1>10, <1>11, <1>12, <1>13 DEF CallStep

(* The pointers of the call that moves, and of its session. *)
Pointed(c) ==
  /\ call'[c].to \in 0..Len(conn')
  /\ sess'[Sid(c)].chain \in 0..Len(conn') /\ sess'[Sid(c)].managed \in 0..Len(conn')
  /\ Shell(c).chain > 0 => sess'[Sid(c)].chain > 0
  /\ Shell(c).managed > 0 => sess'[Sid(c)].managed > 0
  /\ Sid(c) \in store' => sess'[Sid(c)].chain > 0 /\ sess'[Sid(c)].managed > 0
  /\ call'[c].pc \in {"create", "start"} => Sid(c) = c
  /\ call'[c].pc \in Making \cup {"set managed"} => call'[c].to > 0
  /\ call'[c].pc \in Using => sess'[Sid(c)].chain > 0 /\ sess'[Sid(c)].managed > 0
  /\ call'[c].answer # "" => call'[c].pc = "done"

LEMMA PointedStay ==
  ASSUME TypeOK, TypeOK', PointersHold, NEW c \in Calls, Frame(c), Pointed(c)
  PROVE  PointersHold'
BY PointersStay DEF Frame, Pointed

(* A call whose session keeps its pointers. *)
LEMMA PointedSame ==
  ASSUME TypeOK, PointersHold, NEW c \in Calls, Frame(c), NEW pc, NEW to, NEW a, CallMoves(c, pc, to, a),
         sess'[Sid(c)].chain = Shell(c).chain, sess'[Sid(c)].managed = Shell(c).managed,
         to \in 0..Len(conn'), Sid(c) \in store' => Sid(c) \in store,
         pc \in {"create", "start"} => Sid(c) = c,
         pc \in Making \cup {"set managed"} => to > 0,
         pc \in Using => call[c].pc \in Using \/ Sid(c) \in store,
         a # "" => pc = "done"
  PROVE  Pointed(c)
<1>1. Sid(c) \in Calls /\ Shell(c) = sess[Sid(c)] /\ CallInv(c)
  BY PointersAre DEF PointersHold
<1>2. SessionInv(Sid(c))
  BY <1>1 DEF PointersHold
<1>3. Len(conn) \in Nat /\ Len(conn') \in Nat /\ Len(conn') >= Len(conn)
  BY Elements, SeqIn DEF Frame
<1>4. \A k \in 0..Len(conn) : k \in 0..Len(conn')
  BY <1>3, RangeGrows
<1>5. /\ call'[c].to = to /\ call'[c].pc = pc /\ call'[c].answer = a
  BY DEF CallMoves
<1>6. sess'[Sid(c)].chain \in 0..Len(conn') /\ sess'[Sid(c)].managed \in 0..Len(conn')
  BY <1>1, <1>2, <1>4 DEF SessionInv
<1>7. Sid(c) \in store \/ call[c].pc \in Using => Shell(c).chain > 0 /\ Shell(c).managed > 0
  BY <1>1, <1>2 DEF CallInv, SessionInv
<1>8. QED
  BY <1>5, <1>6, <1>7 DEF Pointed

LEMMA PointersStep ==
  ASSUME TypeOK, PointersHold, NEW c \in Calls, CallStep(c)
  PROVE  TypeOK' /\ PointersHold'
<1>1. Frame(c) /\ TypeOK'
  BY FrameHolds, FrameTypes
<1>2. SUFFICES Pointed(c)
  BY <1>1, PointedStay
<1>3. /\ Sid(c) \in Calls /\ Shell(c) = sess[Sid(c)] /\ call[c].to \in 0..Len(conn) /\ Len(conn) \in Nat /\ Len(conn') \in Nat
      /\ call[c].answer # "" => call[c].pc = "done"
      /\ call[c].pc \in {"create", "start"} => Sid(c) = c
      /\ call[c].pc \in Making \cup {"set managed"} => call[c].to > 0
      /\ call[c].pc \in Using => Shell(c).chain > 0 /\ Shell(c).managed > 0
  BY <1>1, PointersAre, Elements, SeqIn DEF PointersHold, CallInv, Frame
<1>4. /\ \A k \in 0..Len(conn) : k \in 0..Len(conn')
      /\ 0 \in 0..Len(conn') /\ \A k \in DOMAIN conn : k \in 0..Len(conn) /\ k > 0
  <2>1. Len(conn') >= Len(conn)
    BY <1>1 DEF Frame
  <2>2. DOMAIN conn = 1..Len(conn)
    BY Elements
  <2>3. \A k \in 0..Len(conn) : k \in 0..Len(conn')
    BY <1>3, <2>1, RangeGrows
  <2>4. \A n \in Nat : 0 \in 0..n /\ \A k \in 1..n : k \in 0..n /\ k > 0
    OBVIOUS
  <2>5. QED
    BY <1>3, <2>2, <2>3, <2>4
<1>5. UNCHANGED sess \/ SessFixed => sess'[Sid(c)].chain = Shell(c).chain /\ sess'[Sid(c)].managed = Shell(c).managed
  BY <1>3 DEF SessFixed
<1> USE DEF Making, Using, Alive
<1>6. CASE Create(c)
  <2>1. CASE CallMoves(c, "done", 0, "error") /\ UNCHANGED <<sess, store>>
    BY <1>1, <1>3, <1>4, <1>5, <2>1, PointedSame
  <2>2. CASE CallMoves(c, "start", Len(conn) + 1, call[c].answer) /\ ConnMade /\ UNCHANGED <<sess, store>> /\ call[c].pc = "create"
    <3>0. Len(conn') = Len(conn) + 1
      BY <2>2 DEF ConnMade
    <3>1. Len(conn) + 1 \in 0..Len(conn') /\ Len(conn) + 1 > 0
      <4>1. \A n \in Nat : n + 1 \in 0..(n + 1) /\ n + 1 > 0
        OBVIOUS
      <4>2. QED
        BY <1>3, <3>0, <4>1
    <3>2. QED
      BY <1>1, <1>3, <1>4, <1>5, <2>2, <3>1, PointedSame
  <2>3. QED
    BY <1>6, <2>1, <2>2, CreateDoes
<1>7. CASE Start(c)
  <2>0. call[c].pc = "start" /\ Sid(c) = c /\ call[c].to \in DOMAIN conn
    BY <1>7, StartDoes
  <2>1. CASE CallMoves(c, "done", 0, "error") /\ UNCHANGED <<sess, store>>
    BY <1>1, <1>3, <1>4, <1>5, <2>1, PointedSame
  <2>2. CASE CallMoves(c, "dispatch", call[c].to, call[c].answer) /\ SessMoves(c, call[c].to, call[c].to)
    BY <1>3, <1>4, <2>0, <2>2 DEF SessMoves, CallMoves, Pointed
  <2>3. QED
    BY <1>7, <2>1, <2>2, StartDoes
<1>8. CASE Get(c)
  BY <1>1, <1>3, <1>4, <1>5, <1>8, GetDoes, PointedSame
<1>9. CASE Exit(c)
  BY <1>1, <1>3, <1>4, <1>5, <1>9, ExitDoes, PointedSame
<1>10. CASE CloseManaged(c)
  BY <1>1, <1>3, <1>4, <1>5, <1>10, CloseManagedDoes, PointedSame
<1>11. CASE CloseChain(c)
  BY <1>1, <1>3, <1>4, <1>5, <1>11, CloseChainDoes, PointedSame
<1>12. CASE Status(c) \/ NoCommand(c) \/ PTYEnds(c) \/ Return(c)
  <2>1. PICK to \in {0, call[c].to} : CallMoves(c, "done", to, "ok")
    BY <1>12, AnswersOk
  <2>2. SessFixed /\ UNCHANGED store
    BY <1>12, AnswersOk
  <2>3. QED
    BY <1>1, <1>3, <1>4, <1>5, <2>1, <2>2, PointedSame
<1>13. CASE RunPTY(c)
  <2>1. Len(conn') = Len(conn)
    BY <1>13, RunPTYDoes DEF ConnMoves
  <2> QED BY <1>1, <1>3, <1>4, <1>5, <1>13, <2>1, RunPTYDoes, PointedSame
<1>14. CASE Send(c)
  <2>1. CASE CallMoves(c, "wait", Shell(c).managed, call[c].answer) /\ UNCHANGED <<store, sess>>
    <3>1. call[c].pc \in {"dispatch", "send"}
      BY <1>14, SendDoes
    <3>2. Shell(c).managed \in 0..Len(conn')
      BY <1>4, <3>1, PointersAre
    <3>3. QED
      BY <1>1, <1>3, <1>4, <1>5, <2>1, <3>1, <3>2, PointedSame
  <2>2. CASE CallMoves(c, "reclose bash", call[c].to, call[c].answer) /\ SessFixed /\ UNCHANGED store /\ call[c].pc \in {"dispatch", "send"}
    BY <1>1, <1>3, <1>4, <1>5, <2>2, PointedSame
  <2>3. CASE CallMoves(c, "done", 0, "error") /\ UNCHANGED sess /\ store' = store \ {Sid(c)}
    BY <1>1, <1>3, <1>4, <1>5, <2>3, PointedSame
  <2>4. QED
    BY <1>14, <2>1, <2>2, <2>3, SendDoes
<1>15. CASE Redial(c)
  <2>0. call[c].pc = "redial" /\ UNCHANGED sess
    BY <1>15, RedialDoes
  <2>1. CASE CallMoves(c, "done", 0, "error") /\ store' = store \ {Sid(c)}
    BY <1>1, <1>3, <1>4, <1>5, <2>0, <2>1, PointedSame
  <2>2. CASE CallMoves(c, "restart", Len(conn) + 1, call[c].answer) /\ UNCHANGED store /\ ConnMade
    <3>0. Len(conn') = Len(conn) + 1
      BY <2>2 DEF ConnMade
    <3>1. Len(conn) + 1 \in 0..Len(conn') /\ Len(conn) + 1 > 0
      <4>1. \A n \in Nat : n + 1 \in 0..(n + 1) /\ n + 1 > 0
        OBVIOUS
      <4>2. QED
        BY <1>3, <3>0, <4>1
    <3>2. QED
      BY <1>1, <1>3, <1>4, <1>5, <2>0, <2>2, <3>1, PointedSame
  <2>3. QED
    BY <1>15, <2>1, <2>2, RedialDoes
<1>16. CASE Restart(c)
  BY <1>1, <1>3, <1>4, <1>5, <1>16, RestartDoes, PointedSame
<1>17. CASE SetChain(c)
  <2>0. /\ call[c].pc = "set chain" /\ call[c].to \in DOMAIN conn
        /\ SessMoves(Sid(c), call[c].to, Shell(c).managed) /\ CallMoves(c, "set managed", call[c].to, call[c].answer)
    BY <1>17, SetChainDoes
  <2>1. Shell(c).managed \in DOMAIN conn
    BY <2>0, PointersAre
  <2>2. QED
    BY <1>3, <1>4, <2>0, <2>1 DEF SessMoves, CallMoves, Pointed
<1>18. CASE SetManaged(c)
  <2>0. /\ call[c].pc = "set managed" /\ call[c].to \in DOMAIN conn
        /\ SessMoves(Sid(c), Shell(c).chain, call[c].to) /\ CallMoves(c, "send", call[c].to, call[c].answer)
    BY <1>18, SetManagedDoes
  <2>1. Shell(c).chain \in DOMAIN conn
    BY <2>0, PointersAre
  <2>2. QED
    BY <1>3, <1>4, <2>0, <2>1 DEF SessMoves, CallMoves, Pointed
<1>19. QED
  BY <1>6, <1>7, <1>8, <1>9, <1>10, <1>11, <1>12, <1>13, <1>14, <1>15, <1>16, <1>17, <1>18 DEF CallStep

-----------------------------------------------------------------------------
(* Commands. *)
Unanswered(c) ==
  (call[c].answer = "error" /\ call[c].asks # "pty") \/ call[c].pc \notin {"wait", "pty", "done"}
Counted(c) == runs[c] <= 1 /\ (Unanswered(c) => runs[c] = 0)
Waits(c) == c \in Calls /\ runs[c] = 0 /\ call[c].pc \in {"wait", "done"} /\ call[c].answer # "error"
Single(k) == \A i, j \in DOMAIN conn[k].queue : conn[k].queue[i] = conn[k].queue[j] => i = j

LEMMA CommandsAre ==
  CommandsInOrder <=>
    /\ \A k \in DOMAIN conn : Single(k)
    /\ \A k \in DOMAIN conn : \A x : Queued(k, x) => Waits(x) /\ \A l \in DOMAIN conn : Queued(l, x) => l = k
    /\ \A c \in Calls : Counted(c)
BY DEF CommandsInOrder, QueueInv, Written, Single, Queued, Waits, Counted, Unanswered

LEMMA CommandsWere ==
  CommandsInOrder' <=>
    /\ \A k \in DOMAIN conn' : Single(k)'
    /\ \A k \in DOMAIN conn' : \A x : Queued(k, x)' => Waits(x)' /\ \A l \in DOMAIN conn' : Queued(l, x)' => l = k
    /\ \A c \in Calls' : Counted(c)'
BY DEF CommandsInOrder, QueueInv, Written, Single, Queued, Waits, Counted, Unanswered

(* Queues that are emptied, or left as they are. *)
LEMMA QueuesStay ==
  ASSUME CommandsInOrder, NEW k \in DOMAIN conn',
         \/ conn'[k].queue = <<>>
         \/ k \in DOMAIN conn /\ conn'[k].queue = conn[k].queue
  PROVE  Single(k)' /\ \A x : Queued(k, x)' => k \in DOMAIN conn /\ Queued(k, x)
<1>1. CASE conn'[k].queue = <<>>
  BY <1>1 DEF Single, Queued
<1>2. CASE k \in DOMAIN conn /\ conn'[k].queue = conn[k].queue
  BY <1>2, CommandsAre DEF Single, Queued
<1>3. QED
  BY <1>1, <1>2

(* Steps that put nothing into a queue. *)
LEMMA CommandsStay ==
  ASSUME CommandsInOrder, \A k \in DOMAIN conn' : Single(k)' /\ \A x : Queued(k, x)' => k \in DOMAIN conn /\ Queued(k, x),
         \A k \in DOMAIN conn' : \A x : Queued(k, x)' => Waits(x)',
         \A c \in Calls' : Counted(c)'
  PROVE  CommandsInOrder'
BY CommandsAre, CommandsWere

LEMMA CommandsQuiet ==
  ASSUME TypeOK, PointersHold, CommandsInOrder, NEW c \in Calls, Frame(c),
         \A k \in DOMAIN conn' : conn'[k].queue = <<>> \/ (k \in DOMAIN conn /\ conn'[k].queue = conn[k].queue),
         \/ runs' = runs
         \/ /\ call[c].pc \notin {"wait", "pty", "done"} /\ runs' = [runs EXCEPT ![c] = @ + 1]
            /\ ~Unanswered(c)',
         call[c].pc = "wait" => call'[c].pc \in {"wait", "done"} /\ call'[c].answer # "error",
         call[c].pc # "done",
         Unanswered(c)' => call[c].pc \notin {"wait", "pty", "done"}
  PROVE  CommandsInOrder'
<1>1. \A k \in DOMAIN conn' : Single(k)' /\ \A x : Queued(k, x)' => k \in DOMAIN conn /\ Queued(k, x)
  BY QueuesStay
<1>2. Calls' = Calls /\ \A d \in Calls : d # c => call'[d] = call[d]
  BY DEF Frame
<1>3. \A d \in Calls : Counted(d) /\ runs[d] \in Nat
  BY CommandsAre, Elements
<1>4. c \in DOMAIN runs /\ DOMAIN runs = Calls
  BY Elements
<1>5. ASSUME NEW k \in DOMAIN conn', NEW x, Queued(k, x)' PROVE Waits(x)'
  <2>1. Waits(x)
    BY <1>1, <1>5, CommandsAre
  <2>2. CASE x = c
    BY <1>2, <2>1, <2>2 DEF Waits
  <2>3. CASE x # c
    <3>1. runs'[x] = runs[x]
      BY <1>4, <2>1, <2>3 DEF Waits
    <3>2. QED
      BY <1>2, <2>1, <2>3, <3>1 DEF Waits
  <2>4. QED
    BY <2>2, <2>3
<1>6. ASSUME NEW d \in Calls PROVE Counted(d)'
  <2>1. CASE d = c
    <3>1. CASE runs' = runs
      BY <1>3, <2>1, <3>1 DEF Counted, Unanswered
    <3>2. CASE /\ call[c].pc \notin {"wait", "pty", "done"} /\ runs' = [runs EXCEPT ![c] = @ + 1]
               /\ ~Unanswered(c)'
      <4>1. runs[c] = 0
        BY <1>3, <3>2 DEF Counted, Unanswered
      <4>2. runs'[c] = 1
        BY <1>4, <3>2, <4>1
      <4>3. QED
        BY <2>1, <3>2, <4>2 DEF Counted, Unanswered
    <3>3. QED
      BY <3>1, <3>2
  <2>2. CASE d # c
    <3>1. runs'[d] = runs[d] /\ call'[d] = call[d]
      BY <1>2, <1>4, <2>2
    <3>2. QED
      BY <1>3, <3>1 DEF Counted, Unanswered
  <2>3. QED
    BY <2>1, <2>2
<1>7. QED
  BY <1>1, <1>2, <1>5, <1>6, CommandsStay

(* A command is written: it was in no queue, and is now at the end of one. *)
LEMMA CommandsWritten ==
  ASSUME TypeOK, PointersHold, CommandsInOrder, NEW c \in Calls, Frame(c), NEW k \in DOMAIN conn,
         ConnMoves(k, conn[k].line, conn[k].bash, Append(conn[k].queue, c)),
         call[c].pc \in {"dispatch", "send"}, call'[c].pc = "wait", call'[c].answer = call[c].answer, UNCHANGED runs
  PROVE  CommandsInOrder'
<1> DEFINE q == conn[k].queue
           n == Len(q) + 1
<1>1. /\ q \in Seq(Nat) /\ Len(q) \in Nat /\ DOMAIN q = 1..Len(q) /\ c \in Nat
  BY QueueIs, Elements
<1>2. /\ DOMAIN conn'[k].queue = DOMAIN q \cup {n} /\ n \notin DOMAIN q
      /\ conn'[k].queue[n] = c /\ \A j \in DOMAIN q : conn'[k].queue[j] = q[j]
  <2>1. conn'[k].queue = Append(q, c)
    BY DEF ConnMoves
  <2>2. q \in Seq(Nat) /\ c \in Nat
    BY <1>1
  <2>3. QED
    BY <2>1, <2>2, SeqAppend
<1>3. DOMAIN conn' = DOMAIN conn /\ \A l \in DOMAIN conn : l # k => conn'[l].queue = conn[l].queue
  BY DEF ConnMoves
<1>4. Calls' = Calls /\ \A d \in Calls : d # c => call'[d] = call[d]
  BY DEF Frame
<1>5. call[c].answer = "" /\ runs[c] = 0 /\ ~Waits(c)
  <2>1. call[c].answer = ""
    BY DEF PointersHold, CallInv
  <2>2. QED
    BY <2>1, CommandsAre DEF Counted, Unanswered, Waits
<1>6. \A l \in DOMAIN conn : ~Queued(l, c)
  BY <1>5, CommandsAre
<1>7. \A x : Queued(k, x)' <=> Queued(k, x) \/ x = c
  BY <1>2 DEF Queued
<1>8. \A l \in DOMAIN conn : l # k => \A x : Queued(l, x)' <=> Queued(l, x)
  BY <1>3 DEF Queued
<1>9. \A l \in DOMAIN conn' : Single(l)'
  <2>1. Single(k)'
    <3>1. \A j \in DOMAIN q : q[j] # c
      BY <1>6 DEF Queued
    <3>2. \A i, j \in DOMAIN q : q[i] = q[j] => i = j
      BY CommandsAre DEF Single
    <3> HIDE DEF q, n
    <3>3. QED
      BY <1>2, <3>1, <3>2 DEF Single
  <2>2. \A l \in DOMAIN conn : l # k => Single(l)'
    BY <1>3, CommandsAre DEF Single
  <2>3. QED
    BY <1>3, <2>1, <2>2
<1>10. \A x : Waits(x) \/ x = c => Waits(x)'
  <2>1. Waits(c)'
    BY <1>4, <1>5 DEF Waits
  <2>2. \A x : Waits(x) /\ x # c => Waits(x)'
    BY <1>4 DEF Waits
  <2>3. QED
    BY <2>1, <2>2
<1>11. \A l \in DOMAIN conn : \A x : Queued(l, x)' => Waits(x)' /\ \A m \in DOMAIN conn : Queued(m, x)' => m = l
  BY <1>6, <1>7, <1>8, <1>10, CommandsAre
<1>12. \A d \in Calls : Counted(d)'
  <2>1. Counted(c)'
    <3>1. runs'[c] = 0
      BY <1>5
    <3>2. QED
      BY <3>1 DEF Counted
  <2>2. \A d \in Calls : d # c => Counted(d)'
    BY <1>4, CommandsAre DEF Counted, Unanswered
  <2>3. QED
    BY <2>1, <2>2
<1>13. QED
  BY <1>3, <1>4, <1>9, <1>11, <1>12, CommandsWere

LEMMA CommandsStep ==
  ASSUME TypeOK, PointersHold, CommandsInOrder, NEW c \in Calls, CallStep(c)
  PROVE  CommandsInOrder'
<1>1. Frame(c)
  BY FrameHolds
<1>2. call[c].pc # "done" => call[c].answer = ""
  BY DEF PointersHold, CallInv
<1>3. UNCHANGED conn => \A k \in DOMAIN conn' : k \in DOMAIN conn /\ conn'[k].queue = conn[k].queue
  OBVIOUS
<1>4. ConnMade => \A k \in DOMAIN conn' : conn'[k].queue = <<>> \/ (k \in DOMAIN conn /\ conn'[k].queue = conn[k].queue)
  BY DEF ConnMade, NewConn
<1>5. ASSUME NEW k \in DOMAIN conn, NEW line, NEW bash, ConnMoves(k, line, bash, conn[k].queue)
      PROVE  \A l \in DOMAIN conn' : l \in DOMAIN conn /\ conn'[l].queue = conn[l].queue
  BY <1>5 DEF ConnMoves
<1> USE DEF CallMoves, Unanswered
<1>6. CASE Create(c)
  BY <1>1, <1>2, <1>3, <1>4, <1>6, CreateDoes, CommandsQuiet
<1>7. CASE Start(c)
  BY <1>1, <1>2, <1>3, <1>5, <1>7, StartDoes, CommandsQuiet
<1>8. CASE Get(c)
  BY <1>1, <1>2, <1>3, <1>8, GetDoes, CommandsQuiet
<1>9. CASE Exit(c)
  BY <1>1, <1>2, <1>3, <1>9, ExitDoes, CommandsQuiet
<1>10. CASE CloseManaged(c)
  BY <1>1, <1>2, <1>5, <1>10, CloseManagedDoes, CommandsQuiet
<1>11. CASE CloseChain(c)
  BY <1>1, <1>2, <1>5, <1>11, CloseChainDoes, CommandsQuiet
<1>12. CASE Status(c) \/ NoCommand(c) \/ PTYEnds(c) \/ Return(c)
  <2>1. /\ UNCHANGED <<world, store, conn, runs, evicted>>
        /\ call[c].pc \in {"dispatch", "pty", "wait"} /\ call'[c].pc = "done" /\ call'[c].answer = "ok"
    BY <1>12, AnswersOk
  <2>2. QED
    BY <1>1, <1>2, <1>3, <2>1, CommandsQuiet
<1>13. CASE RunPTY(c)
  BY <1>1, <1>2, <1>3, <1>5, <1>13, RunPTYDoes, CommandsQuiet
<1>14. CASE Send(c)
  <2>0. call[c].pc \in {"dispatch", "send"} /\ UNCHANGED runs
    BY <1>14, SendDoes
  <2>1. CASE call'[c].pc = "wait" /\ call'[c].answer = call[c].answer /\ UNCHANGED conn
    BY <1>1, <1>2, <1>3, <2>0, <2>1, CommandsQuiet
  <2>2. CASE /\ call'[c].pc = "wait" /\ call'[c].answer = call[c].answer
             /\ LET k == Shell(c).managed IN k \in DOMAIN conn /\ ConnMoves(k, conn[k].line, conn[k].bash, Append(conn[k].queue, c))
    <3>1. PICK k \in DOMAIN conn : ConnMoves(k, conn[k].line, conn[k].bash, Append(conn[k].queue, c))
      BY <2>2
    <3>2. QED
      BY <1>1, <2>0, <2>2, <3>1, CommandsWritten
  <2>3. CASE call'[c].pc = "reclose bash" /\ call'[c].answer = call[c].answer /\ UNCHANGED conn
    BY <1>1, <1>2, <1>3, <2>0, <2>3, CommandsQuiet
  <2>4. CASE call'[c].pc = "done" /\ call'[c].answer = "error" /\ UNCHANGED conn
    BY <1>1, <1>2, <1>3, <2>0, <2>4, CommandsQuiet
  <2>5. QED
    BY <1>14, <2>1, <2>2, <2>3, <2>4, SendDoes
<1>15. CASE Redial(c)
  BY <1>1, <1>2, <1>3, <1>4, <1>15, RedialDoes, CommandsQuiet
<1>16. CASE Restart(c)
  BY <1>1, <1>2, <1>3, <1>5, <1>16, RestartDoes, CommandsQuiet
<1>17. CASE SetChain(c)
  BY <1>1, <1>2, <1>3, <1>17, SetChainDoes, CommandsQuiet
<1>18. CASE SetManaged(c)
  BY <1>1, <1>2, <1>3, <1>18, SetManagedDoes, CommandsQuiet
<1>19. QED
  BY <1>6, <1>7, <1>8, <1>9, <1>10, <1>11, <1>12, <1>13, <1>14, <1>15, <1>16, <1>17, <1>18 DEF CallStep

(* bash takes the first command of its queue, or loses the rest. *)
LEMMA CommandsConn ==
  ASSUME TypeOK, PointersHold, CommandsInOrder, NEW k \in DOMAIN conn, ConnStep(k)
  PROVE  TypeOK' /\ PointersHold' /\ CommandsInOrder'
<1> DEFINE q == conn[k].queue
<1>0. UNCHANGED <<world, store, sess, call, evicted>> /\ \E line, bash, queue : ConnMoves(k, line, bash, queue)
  BY BashRunsDoes, DropDoes, DiesDoes DEF ConnStep
<1>1. conn' \in Seq(Conn) /\ Len(conn') = Len(conn) /\ DOMAIN conn' = DOMAIN conn /\ \A l \in DOMAIN conn : l # k => conn'[l] = conn[l]
  BY <1>0 DEF ConnMoves
<1>2. runs' \in Seq(Nat) /\ Len(runs') = Len(runs)
  <2>1. CASE UNCHANGED runs
    BY <2>1 DEF TypeOK
  <2>2. CASE BashRuns(k)
    <3> DEFINE c == Head(q)
    <3>1. c \in Calls /\ runs' = [runs EXCEPT ![c] = runs[c] + 1]
      BY <2>2, BashRunsDoes
    <3>2. runs \in Seq(Nat) /\ c \in DOMAIN runs /\ runs[c] + 1 \in Nat
      BY <3>1, Elements DEF TypeOK
    <3>3. QED
      BY <3>1, <3>2, SeqSet
  <2>3. QED
    BY <2>1, <2>2, DropDoes, DiesDoes DEF ConnStep
<1>3. TypeOK'
  BY <1>0, <1>1, <1>2, TypesStay DEF TypeOK, Calls
<1>4. Calls' = Calls
  BY <1>0 DEF Calls
<1>5. PointersHold'
  BY <1>0, <1>1, <1>4 DEF PointersHold, CallInv, SessionInv, Sid, Shell
<1>6. \A l \in DOMAIN conn : l # k => Single(l)' /\ \A x : Queued(l, x)' => Queued(l, x)
  BY <1>1, CommandsAre DEF Single, Queued
<1>7. ASSUME UNCHANGED runs, Single(k)', \A x : Queued(k, x)' => Queued(k, x) PROVE CommandsInOrder'
  <2>1. \A l \in DOMAIN conn' : Single(l)' /\ \A x : Queued(l, x)' => l \in DOMAIN conn /\ Queued(l, x)
    BY <1>1, <1>6, <1>7
  <2>2. \A x : Waits(x) => Waits(x)'
    BY <1>0, <1>4, <1>7 DEF Waits
  <2>3. \A l \in DOMAIN conn' : \A x : Queued(l, x)' => Waits(x)'
    BY <2>1, <2>2, CommandsAre
  <2>4. \A d \in Calls' : Counted(d)'
    BY <1>0, <1>4, <1>7, CommandsAre DEF Counted, Unanswered
  <2>5. QED
    BY <2>1, <2>3, <2>4, CommandsStay
<1>8. CASE Drop(k)
  <2>1. UNCHANGED runs /\ conn'[k].queue = conn[k].queue
    BY <1>8, DropDoes DEF ConnMoves
  <2>2. Single(k)' /\ \A x : Queued(k, x)' => Queued(k, x)
    BY <2>1, CommandsAre DEF Single, Queued
  <2>3. QED
    BY <1>3, <1>5, <1>7, <2>1, <2>2
<1>9. CASE Dies(k)
  <2>1. UNCHANGED runs /\ conn'[k].queue = <<>>
    BY <1>9, DiesDoes DEF ConnMoves
  <2>2. Single(k)' /\ \A x : Queued(k, x)' => Queued(k, x)
    BY <2>1 DEF Single, Queued
  <2>3. QED
    BY <1>3, <1>5, <1>7, <2>1, <2>2
<1>10. CASE BashRuns(k)
  <2>0. Head(q) \in Calls
    BY <1>10, BashRunsDoes
  <2> PICK c \in Calls : c = Head(q)
    BY <2>0
  <2>1. q # <<>> /\ c \in Calls /\ Queued(k, c) /\ runs' = [runs EXCEPT ![c] = @ + 1]
    BY <1>10, BashRunsDoes
  <2>2. conn'[k].queue \in {<<>>, Tail(q)}
    BY <1>10, BashRunsDoes DEF ConnMoves
  <2>3. q \in Seq(Nat) /\ Len(q) \in Nat /\ Len(q) > 0 /\ DOMAIN q = 1..Len(q) /\ c = q[1]
    BY <2>1, QueueIs
  <2>4. \A i, j \in DOMAIN q : q[i] = q[j] => i = j
    BY CommandsAre DEF Single
  <2>5. Single(k)' /\ \A x : Queued(k, x)' => Queued(k, x) /\ x # c
    <3>1. CASE conn'[k].queue = <<>>
      BY <3>1 DEF Single, Queued
    <3>2. CASE conn'[k].queue = Tail(q)
      <4>1. Tail(q) \in Seq(Nat) /\ Len(Tail(q)) = Len(q) - 1 /\ \A i \in 1..Len(Tail(q)) : Tail(q)[i] = q[i + 1]
        BY <2>1, <2>3, HeadTailProperties
      <4> DEFINE t == Tail(q)
      <4>2. DOMAIN t = 1..(Len(q) - 1)
        BY <4>1, LenProperties
      <4>3. \A i \in DOMAIN t : t[i] = q[i + 1] /\ i + 1 \in DOMAIN q /\ i + 1 # 1 /\ 1 \in DOMAIN q /\ i \in Nat
        BY <2>3, <4>1, <4>2
      <4>4. \A i \in DOMAIN t : t[i] # c
        BY <2>3, <2>4, <4>3
      <4>5. \A i, j \in DOMAIN t : t[i] = t[j] => i = j
        BY <2>4, <4>3
      <4> HIDE DEF t
      <4>6. QED
        BY <3>2, <4>3, <4>4, <4>5 DEF Single, Queued, t
    <3>3. QED
      BY <2>2, <3>1, <3>2
  <2>6. Waits(c) /\ \A l \in DOMAIN conn : Queued(l, c) => l = k
    BY <2>1, CommandsAre
  <2>7. \A l \in DOMAIN conn' : Single(l)' /\ \A x : Queued(l, x)' => l \in DOMAIN conn /\ Queued(l, x) /\ x # c
    BY <1>1, <1>6, <2>5, <2>6
  <2>8. runs'[c] = 1 /\ \A d \in Calls : d # c => runs'[d] = runs[d]
    BY <2>1, <2>6, Elements DEF Waits
  <2>9. \A x : Waits(x) /\ x # c => Waits(x)'
    BY <1>0, <1>4, <2>8 DEF Waits
  <2>10. \A l \in DOMAIN conn' : \A x : Queued(l, x)' => Waits(x)'
    BY <2>7, <2>9, CommandsAre
  <2>11. \A d \in Calls' : Counted(d)'
    <3>1. Counted(c)'
      BY <1>0, <2>6, <2>8 DEF Counted, Unanswered, Waits
    <3>2. \A d \in Calls : d # c => Counted(d)'
      BY <1>0, <2>8, CommandsAre DEF Counted, Unanswered
    <3>3. QED
      BY <1>4, <3>1, <3>2
  <2>12. QED
    BY <1>3, <1>5, <2>7, <2>10, <2>11, CommandsStay
<1>11. QED
  BY <1>3, <1>5, <1>8, <1>9, <1>10 DEF ConnStep

-----------------------------------------------------------------------------
(* Calls one after the other. What OneByOne says when c is the call in       *)
(* progress, or was.                                                         *)
Distinct == \A s, t \in Calls : sess[s].chain = sess[t].chain /\ sess[s].chain > 0 => s = t
Paired(c) == \A s \in Calls : sess[s].managed = sess[s].chain \/ (call[c].pc = "set managed" /\ Sid(c) = s)
Working(c) == \A s \in store : Open(sess[s].chain) \/ (call[c].pc \in Mending /\ Sid(c) = s)
OwnedBy(c, k) ==
  \/ conn[k].line = "closed"
  \/ \E s \in store : k = sess[s].chain
  \/ k \in evicted
  \/ call[c].pc \in Making /\ k = call[c].to
  \/ call[c].pc \in {"close bash", "close"} /\ k = Shell(c).chain
OneOf(c) ==
  /\ Busy \subseteq {c} /\ Distinct /\ Paired(c) /\ Working(c) /\ BusyInv(c)
  /\ \A k \in DOMAIN conn : OwnedBy(c, k)

LEMMA OneIs == ASSUME OneByOne, NEW c \in Busy PROVE OneOf(c)
<1>1. \A d \in Busy : d = c
  BY DEF OneByOne
<1>2. Distinct /\ BusyInv(c)
  BY DEF OneByOne, Distinct
<1>3. Paired(c)
  BY <1>1 DEF OneByOne, Paired, At
<1>4. Working(c)
  BY <1>1 DEF OneByOne, Working
<1>5. ASSUME NEW k \in DOMAIN conn PROVE OwnedBy(c, k)
  <2>1. Owned(k)
    BY DEF OneByOne
  <2>2. QED
    BY <1>1, <2>1 DEF Owned, OwnedBy
<1>6. QED
  BY <1>1, <1>2, <1>3, <1>4, <1>5 DEF OneOf

LEMMA OneWas == ASSUME NEW c, c \in Calls', OneOf(c)' PROVE OneByOne'
<1>1. call'[c].pc \in Making \cup Mending \cup {"set managed", "close bash", "close"} => c \in Busy'
  BY DEF Busy, Making, Mending
<1>2. /\ \A k \in DOMAIN conn' : OwnedBy(c, k)' => Owned(k)'
  BY <1>1 DEF OwnedBy, Owned
<1>3. Paired(c)' => \A s \in Calls' : sess'[s].managed = sess'[s].chain \/ \E d \in Busy' : At(d, "set managed")' /\ Sid(d)' = s
  BY <1>1 DEF Paired, At, Sid
<1>4. Working(c)' => \A s \in store' : Open(sess[s].chain)' \/ \E d \in Busy' : call'[d].pc \in Mending /\ Sid(d)' = s
  BY <1>1 DEF Working, Sid
<1>5. \A d \in Busy' : BusyInv(d)'
  BY DEF OneOf
<1>6. QED
  BY <1>2, <1>3, <1>4, <1>5 DEF OneByOne, OneOf, Distinct

(* What is known of the call that moves. *)
Facts(c) ==
  /\ Sid(c) \in Calls /\ Shell(c) = sess[Sid(c)] /\ Sid(c)' = Sid(c) /\ Shell(c)' = sess'[Sid(c)]
  /\ Calls' = Calls /\ store \subseteq Calls /\ Len(conn) \in Nat
  /\ \A k \in DOMAIN conn : k > 0
  /\ \A s \in Calls : sess[s].chain \in Nat /\ (sess[s].chain > 0 => sess[s].chain \in DOMAIN conn)
                   /\ sess[s].managed \in Nat /\ (sess[s].managed > 0 => sess[s].managed \in DOMAIN conn)
  /\ \A s \in store : sess[s].chain > 0
  /\ call[c].pc \in Using => Shell(c).chain > 0
  /\ call[c].pc \in Making \cup {"set managed"} => call[c].to > 0 /\ call[c].to \in DOMAIN conn

LEMMA FactsHold ==
  ASSUME TypeOK, PointersHold, NEW c \in Calls, Frame(c)
  PROVE  Facts(c)
<1>1. /\ Sid(c) \in Calls /\ Shell(c) = sess[Sid(c)] /\ CallInv(c)
      /\ call[c].pc \in Making \cup {"set managed"} => call[c].to > 0 /\ call[c].to \in DOMAIN conn
  BY PointersAre DEF PointersHold, CallInv
<1>2. Sid(c)' = Sid(c) /\ Shell(c)' = sess'[Sid(c)] /\ Calls' = Calls
  BY DEF Frame, Sid, Shell
<1>3. Len(conn) \in Nat /\ DOMAIN conn = 1..Len(conn)
  BY Elements
<1>4. \A k \in 0..Len(conn) : k \in Nat /\ (k > 0 => k \in 1..Len(conn))
  BY <1>3
<1>5. \A k \in 1..Len(conn) : k > 0
  BY <1>3
<1>6. \A s \in Calls : SessionInv(s)
  BY DEF PointersHold
<1>7. store \subseteq Calls
  BY DEF TypeOK
<1>8. \A s \in Calls : sess[s].chain \in Nat /\ (sess[s].chain > 0 => sess[s].chain \in DOMAIN conn)
                    /\ sess[s].managed \in Nat /\ (sess[s].managed > 0 => sess[s].managed \in DOMAIN conn)
  BY <1>3, <1>4, <1>6 DEF SessionInv
<1>9. \A s \in store : sess[s].chain > 0
  BY <1>6, <1>7 DEF SessionInv
<1>10. call[c].pc \in Using => Shell(c).chain > 0
  BY <1>1 DEF CallInv
<1>11. QED
  BY <1>1, <1>2, <1>3, <1>5, <1>7, <1>8, <1>9, <1>10 DEF Facts

LEMMA BusyStays ==
  ASSUME NEW c \in Calls, Frame(c), Busy \subseteq {c}
  PROVE  Busy' \subseteq {c}
BY DEF Frame, Busy

(* Steps that leave sessions and connections as they are. *)
\* What is open stays open, though it may be dropped; what is closed stays closed.
ConnCalm ==
  /\ DOMAIN conn' = DOMAIN conn
  /\ \A k \in DOMAIN conn :
       /\ conn'[k].line = "closed" <=> conn[k].line = "closed"
       /\ conn'[k].bash = conn[k].bash
SessCalm == \A s \in Calls : sess'[s].chain = sess[s].chain /\ sess'[s].managed = sess[s].managed

LEMMA CalmOne ==
  ASSUME TypeOK, PointersHold, NEW c \in Calls, Frame(c), OneOf(c), SessCalm, ConnCalm,
         evicted \subseteq evicted', store' \subseteq store, store \ store' \subseteq {Sid(c)},
         call[c].pc \notin {"set managed", "close bash", "close"},
         call[c].pc \in Mending => call'[c].pc \in Mending \/ Sid(c) \notin store',
         call[c].pc \in Making => call'[c].pc \in Making /\ call'[c].to = call[c].to,
         Sid(c) \in store \ store' =>
           \/ conn[Shell(c).chain].line = "closed"
           \/ Shell(c).chain \in evicted'
           \/ call'[c].pc \in {"close bash", "close"},
         BusyInv(c)'
  PROVE  OneOf(c)'
<1>1. Facts(c) /\ Busy' \subseteq {c}
  BY FactsHold, BusyStays DEF OneOf
<1>2. Distinct' /\ Paired(c)'
  <2>1. Calls' = Calls /\ \A s \in Calls : sess'[s].chain = sess[s].chain /\ sess'[s].managed = sess[s].managed
    BY <1>1 DEF Facts, SessCalm
  <2>2. Distinct'
    <3>1. \A s, t \in Calls : sess[s].chain = sess[t].chain /\ sess[s].chain > 0 => s = t
      BY DEF OneOf, Distinct
    <3>2. \A s, t \in Calls : sess'[s].chain = sess'[t].chain /\ sess'[s].chain > 0 => s = t
      BY <2>1, <3>1
    <3>3. QED
      BY <2>1, <3>2 DEF Distinct
  <2>3. \A s \in Calls : sess[s].managed = sess[s].chain
    BY DEF OneOf, Paired
  <2>4. QED
    BY <2>1, <2>2, <2>3 DEF Paired
<1>3. Working(c)'
  <2>1. ASSUME NEW s \in store' PROVE Open(sess[s].chain)' \/ (call'[c].pc \in Mending /\ Sid(c)' = s)
    <3>1. s \in store /\ s \in Calls /\ sess'[s].chain = sess[s].chain /\ sess[s].chain \in DOMAIN conn
      BY <1>1 DEF Facts, SessCalm
    <3>2. Open(sess[s].chain) => Open(sess[s].chain)'
      BY <3>1 DEF Open, ConnCalm
    <3>3. QED
      BY <1>1, <3>1, <3>2 DEF OneOf, Working, Facts
  <2>2. QED
    BY <2>1 DEF Working
<1>4. ASSUME NEW k \in DOMAIN conn' PROVE OwnedBy(c, k)'
  <2>1. k \in DOMAIN conn /\ (conn'[k].line = "closed" <=> conn[k].line = "closed") /\ OwnedBy(c, k)
    BY DEF ConnCalm, OneOf
  <2>2. CASE \E s \in store : k = sess[s].chain
    <3>1. PICK s \in store : k = sess[s].chain
      BY <2>2
    <3>2. CASE s \in store'
      BY <1>1, <3>1, <3>2 DEF OwnedBy, SessCalm, Facts
    <3>3. CASE s \notin store'
      <4>1. s = Sid(c) /\ Shell(c).chain = k /\ Shell(c)'.chain = k
        BY <1>1, <3>1, <3>3 DEF Facts, SessCalm
      <4>2. QED
        BY <2>1, <3>1, <3>3, <4>1 DEF OwnedBy
    <3>4. QED
      BY <3>2, <3>3
  <2>3. CASE ~\E s \in store : k = sess[s].chain
    BY <2>1, <2>3 DEF OwnedBy
  <2>4. QED
    BY <2>2, <2>3
<1>5. QED
  BY <1>1, <1>2, <1>3, <1>4 DEF OneOf

(* A connection is made for a session that has none, or none that is open. *)
LEMMA MadeOne ==
  ASSUME TypeOK, PointersHold, NEW c \in Calls, Frame(c), OneOf(c), UNCHANGED <<store, sess, evicted>>, ConnMade,
         \/ call[c].pc = "create" /\ Sid(c) = c /\ CallMoves(c, "start", Len(conn) + 1, call[c].answer)
         \/ call[c].pc = "redial" /\ CallMoves(c, "restart", Len(conn) + 1, call[c].answer)
  PROVE  OneOf(c)'
<1>1. Facts(c) /\ Busy' \subseteq {c}
  BY FactsHold, BusyStays DEF OneOf
<1>2. PICK n \in Nat : n = Len(conn) + 1 /\ n > 0
  <2>1. Len(conn) \in Nat
    BY Elements
  <2>2. QED
    BY <2>1
<1>3. /\ n \notin DOMAIN conn /\ DOMAIN conn' = DOMAIN conn \cup {n}
      /\ conn'[n].line = "up" /\ conn'[n].bash = "up" /\ \A k \in DOMAIN conn : conn'[k] = conn[k]
  BY <1>2 DEF ConnMade, NewConn
<1>4. call'[c].to = n /\ call'[c].pc \in {"start", "restart"}
      /\ \/ call[c].pc = "create" /\ call'[c].pc = "start"
         \/ call[c].pc = "redial" /\ call'[c].pc = "restart"
  BY <1>2 DEF CallMoves
<1>5. Distinct' /\ Paired(c)'
  BY <1>1, <1>4 DEF OneOf, Distinct, Paired, Facts
<1>6. Working(c)'
  BY <1>1, <1>3, <1>4 DEF OneOf, Working, Open, Facts, Mending
<1>7. BusyInv(c)'
  <2>1. Open(call[c].to)' /\ \A s \in Calls' : sess'[s].chain # call'[c].to /\ sess'[s].managed # call'[c].to
    BY <1>1, <1>2, <1>3, <1>4 DEF Open, Facts
  <2>2. call[c].pc = "create" => Sid(c)' \notin store'
    BY <1>1 DEF OneOf, BusyInv, Facts
  <2>3. call[c].pc = "redial" => Sid(c)' \in store' /\ conn'[Shell(c)'.chain].line = "closed"
    <3>1. ASSUME call[c].pc = "redial" PROVE Sid(c) \in store /\ conn[Shell(c).chain].line = "closed" /\ Shell(c).chain \in DOMAIN conn
      BY <1>1, <3>1 DEF OneOf, BusyInv, Facts, Using, Alive
    <3>2. QED
      BY <1>1, <1>3, <3>1 DEF Facts
  <2>4. QED
    BY <1>4, <2>1, <2>2, <2>3 DEF BusyInv, Making, Alive
<1>8. \A k \in DOMAIN conn' : OwnedBy(c, k)'
  <2>1. OwnedBy(c, n)'
    BY <1>4 DEF OwnedBy, Making
  <2>2. \A k \in DOMAIN conn : OwnedBy(c, k)'
    BY <1>3, <1>4 DEF OneOf, OwnedBy, Making
  <2>3. QED
    BY <1>3, <2>1, <2>2
<1>9. QED
  BY <1>1, <1>5, <1>6, <1>7, <1>8 DEF OneOf

(* A session is made, with the connection made for it. *)
LEMMA StartedOne ==
  ASSUME TypeOK, PointersHold, NEW c \in Calls, Frame(c), OneOf(c), UNCHANGED <<conn, evicted>>,
         call[c].pc = "start", Sid(c) = c, store' = store \cup {c},
         CallMoves(c, "dispatch", call[c].to, call[c].answer), SessMoves(c, call[c].to, call[c].to)
  PROVE  OneOf(c)'
<1>1. Facts(c) /\ Busy' \subseteq {c}
  BY FactsHold, BusyStays DEF OneOf
<1>2. /\ call'[c].pc = "dispatch" /\ sess'[c].chain = call[c].to /\ sess'[c].managed = call[c].to
      /\ \A t \in Calls : t # c => sess'[t] = sess[t]
  BY DEF CallMoves, SessMoves
<1>3. /\ c \notin store /\ Open(call[c].to) /\ \A s \in Calls : sess[s].chain # call[c].to
  BY <1>1 DEF OneOf, BusyInv, Making, Facts
<1>4. Distinct' /\ Paired(c)'
  BY <1>1, <1>2, <1>3 DEF OneOf, Distinct, Paired, Facts
<1>5. Working(c)' /\ BusyInv(c)'
  BY <1>1, <1>2, <1>3 DEF OneOf, Working, BusyInv, Open, Facts, Mending, Making, Alive
<1>6. ASSUME NEW k \in DOMAIN conn' PROVE OwnedBy(c, k)'
  <2>1. OwnedBy(c, k)
    BY DEF OneOf
  <2>2. CASE k = call[c].to
    BY <1>2, <2>2 DEF OwnedBy
  <2>3. CASE \E s \in store : k = sess[s].chain
    BY <1>1, <1>2, <1>3, <2>3 DEF OwnedBy, Facts
  <2>4. QED
    BY <2>1, <2>2, <2>3 DEF OwnedBy
<1>7. QED
  BY <1>1, <1>4, <1>5, <1>6 DEF OneOf

(* The new connection is closed when there is no bash in it. *)
LEMMA DiscardedOne ==
  ASSUME TypeOK, PointersHold, NEW c \in Calls, Frame(c), OneOf(c), UNCHANGED <<sess, evicted>>,
         CallMoves(c, "done", 0, "error"), NEW q, ConnMoves(call[c].to, "closed", "closed", q),
         \/ call[c].pc = "start" /\ UNCHANGED store
         \/ call[c].pc = "restart" /\ store' = store \ {Sid(c)}
  PROVE  OneOf(c)'
<1>1. Facts(c) /\ Busy' \subseteq {c}
  BY FactsHold, BusyStays DEF OneOf
<1>2. /\ DOMAIN conn' = DOMAIN conn /\ conn'[call[c].to].line = "closed"
      /\ \A k \in DOMAIN conn : k # call[c].to => conn'[k] = conn[k]
      /\ call'[c].pc = "done"
  BY DEF CallMoves, ConnMoves
<1>3. \A s \in Calls : sess[s].chain # call[c].to
  BY DEF OneOf, BusyInv, Making
<1>4. Distinct' /\ Paired(c)'
  BY <1>1 DEF OneOf, Distinct, Paired, Facts
<1>5. Working(c)'
  <2>1. ASSUME NEW s \in store' PROVE Open(sess[s].chain)'
    <3>1. s \in store /\ s \in Calls /\ sess[s].chain # call[c].to /\ sess[s].chain \in DOMAIN conn
      BY <1>1, <1>3 DEF Facts
    <3>2. Open(sess[s].chain)
      BY <1>1, <3>1 DEF OneOf, Working, Facts, Mending
    <3>3. QED
      BY <1>2, <3>1, <3>2 DEF Open
  <2>2. QED
    BY <2>1 DEF Working
<1>6. BusyInv(c)'
  BY <1>2 DEF BusyInv, Making, Alive
<1>7. ASSUME NEW k \in DOMAIN conn' PROVE OwnedBy(c, k)'
  <2>1. OwnedBy(c, k)
    BY <1>2 DEF OneOf
  <2>2. CASE k = call[c].to
    BY <1>2, <2>2 DEF OwnedBy
  <2>3. CASE k # call[c].to
    <3>1. conn'[k] = conn[k]
      BY <1>2, <2>3
    <3>2. CASE \E s \in store : k = sess[s].chain
      <4>1. PICK s \in store : k = sess[s].chain
        BY <3>2
      <4>2. call[c].pc = "restart" => conn[Shell(c).chain].line = "closed"
        BY DEF OneOf, BusyInv
      <4>3. QED
        BY <1>1, <3>1, <4>1, <4>2 DEF OwnedBy, Facts
    <3>3. QED
      BY <2>1, <2>3, <3>1, <3>2 DEF OwnedBy
  <2>4. QED
    BY <2>2, <2>3
<1>8. QED
  BY <1>1, <1>4, <1>5, <1>6, <1>7 DEF OneOf

(* The bash is closed, and then the connection: of a session given up, or of *)
(* one that is mended.                                                       *)
LEMMA BashClosedOne ==
  ASSUME TypeOK, PointersHold, NEW c \in Calls, Frame(c), OneOf(c), UNCHANGED <<store, sess, evicted>>,
         NEW q, ConnMoves(Shell(c).managed, conn[Shell(c).managed].line, "closed", q), Shell(c).managed \in DOMAIN conn,
         \/ call[c].pc = "close bash" /\ CallMoves(c, "close", call[c].to, call[c].answer)
         \/ call[c].pc = "reclose bash" /\ CallMoves(c, "reclose", call[c].to, call[c].answer)
  PROVE  OneOf(c)'
<1>1. Facts(c) /\ Busy' \subseteq {c}
  BY FactsHold, BusyStays DEF OneOf
<1>2. Shell(c).managed = Shell(c).chain
  <2>1. call[c].pc # "set managed"
    OBVIOUS
  <2>2. Paired(c) /\ Sid(c) \in Calls /\ Shell(c) = sess[Sid(c)]
    BY <1>1 DEF OneOf, Facts
  <2>3. QED
    BY <2>1, <2>2 DEF Paired
<1>3. PICK j \in DOMAIN conn : j = Shell(c).chain
  BY <1>2
<1>4. /\ DOMAIN conn' = DOMAIN conn /\ \A k \in DOMAIN conn : conn'[k].line = conn[k].line
      /\ \A k \in DOMAIN conn : k # j => conn'[k] = conn[k]
  BY <1>2, <1>3 DEF ConnMoves
<1>5. \/ call[c].pc = "close bash" /\ call'[c].pc = "close" /\ Sid(c) \notin store
      \/ call[c].pc = "reclose bash" /\ call'[c].pc = "reclose" /\ Sid(c) \in store
  BY DEF CallMoves, OneOf, BusyInv, Alive
<1>6. Distinct' /\ Paired(c)'
  BY <1>1, <1>5 DEF OneOf, Distinct, Paired, Facts
<1>7. Working(c)'
  <2>1. ASSUME NEW s \in store', s # Sid(c) PROVE Open(sess[s].chain)'
    <3>1. s \in store /\ s \in Calls /\ sess[s].chain > 0 /\ sess[s].chain \in DOMAIN conn
      BY <1>1 DEF Facts
    <3>2. sess[s].chain # j
      BY <1>1, <1>3, <2>1, <3>1 DEF Facts, OneOf, Distinct
    <3>3. Open(sess[s].chain)
      BY <2>1, <3>1 DEF OneOf, Working
    <3>4. QED
      BY <1>4, <3>1, <3>2, <3>3 DEF Open
  <2>2. QED
    BY <1>1, <1>5, <2>1 DEF Working, Mending, Facts
<1>8. BusyInv(c)'
  BY <1>1, <1>5 DEF BusyInv, Making, Alive, Facts
<1>9. ASSUME NEW k \in DOMAIN conn' PROVE OwnedBy(c, k)'
  BY <1>1, <1>4, <1>5 DEF OneOf, OwnedBy, Facts, Making
<1>10. QED
  BY <1>1, <1>6, <1>7, <1>8, <1>9 DEF OneOf

LEMMA ChainClosedOne ==
  ASSUME TypeOK, PointersHold, NEW c \in Calls, Frame(c), OneOf(c), UNCHANGED <<store, sess, evicted>>,
         NEW q, ConnMoves(Shell(c).chain, "closed", "closed", q), Shell(c).chain \in DOMAIN conn,
         \/ call[c].pc = "close" /\ CallMoves(c, "done", 0, "closed")
         \/ call[c].pc = "reclose" /\ CallMoves(c, "redial", call[c].to, call[c].answer)
  PROVE  OneOf(c)'
<1>1. Facts(c) /\ Busy' \subseteq {c}
  BY FactsHold, BusyStays DEF OneOf
<1>3. PICK j \in DOMAIN conn : j = Shell(c).chain
  OBVIOUS
<1>4. /\ DOMAIN conn' = DOMAIN conn /\ conn'[j].line = "closed"
      /\ \A k \in DOMAIN conn : k # j => conn'[k] = conn[k]
  BY <1>3 DEF ConnMoves
<1>5. \/ call[c].pc = "close" /\ call'[c].pc = "done" /\ Sid(c) \notin store
      \/ call[c].pc = "reclose" /\ call'[c].pc = "redial" /\ Sid(c) \in store
  BY DEF CallMoves, OneOf, BusyInv, Alive
<1>6. Distinct' /\ Paired(c)'
  BY <1>1, <1>5 DEF OneOf, Distinct, Paired, Facts
<1>7. Working(c)'
  <2>1. ASSUME NEW s \in store', s # Sid(c) PROVE Open(sess[s].chain)'
    <3>1. s \in store /\ s \in Calls /\ sess[s].chain > 0 /\ sess[s].chain \in DOMAIN conn
      BY <1>1 DEF Facts
    <3>2. sess[s].chain # j
      BY <1>1, <1>3, <2>1, <3>1 DEF Facts, OneOf, Distinct
    <3>3. Open(sess[s].chain)
      BY <2>1, <3>1 DEF OneOf, Working
    <3>4. QED
      BY <1>4, <3>1, <3>2, <3>3 DEF Open
  <2>2. QED
    BY <1>1, <1>5, <2>1 DEF Working, Mending, Facts
<1>8. BusyInv(c)'
  <2>1. Shell(c)'.chain = j
    BY <1>1, <1>3 DEF Facts
  <2>2. QED
    BY <1>1, <1>4, <1>5, <2>1 DEF BusyInv, Making, Alive, Facts
<1>9. ASSUME NEW k \in DOMAIN conn' PROVE OwnedBy(c, k)'
  <2>1. OwnedBy(c, k)
    BY <1>4 DEF OneOf
  <2>2. CASE k = j
    BY <1>4, <2>2 DEF OwnedBy
  <2>3. CASE k # j
    BY <1>1, <1>3, <1>4, <1>5, <2>1, <2>3 DEF OwnedBy, Facts, Making
  <2>4. QED
    BY <2>2, <2>3
<1>10. QED
  BY <1>1, <1>6, <1>7, <1>8, <1>9 DEF OneOf

(* The session gets the new connection, and then the bash in it. *)
LEMMA ChainSetOne ==
  ASSUME TypeOK, PointersHold, NEW c \in Calls, Frame(c), OneOf(c), UNCHANGED <<store, conn, evicted>>,
         call[c].pc = "set chain", SessMoves(Sid(c), call[c].to, Shell(c).managed),
         CallMoves(c, "set managed", call[c].to, call[c].answer)
  PROVE  OneOf(c)'
<1>1. Facts(c) /\ Busy' \subseteq {c}
  BY FactsHold, BusyStays DEF OneOf
<1>2. /\ call'[c].pc = "set managed" /\ call'[c].to = call[c].to /\ sess'[Sid(c)].chain = call[c].to
      /\ \A t \in Calls : t # Sid(c) => sess'[t] = sess[t]
  BY DEF CallMoves, SessMoves
<1>3. /\ Sid(c) \in store /\ Open(call[c].to) /\ \A s \in Calls : sess[s].chain # call[c].to
      /\ conn[Shell(c).chain].line = "closed"
  BY <1>1 DEF OneOf, BusyInv, Making, Alive, Facts
<1>4. Distinct' /\ Paired(c)'
  <2>1. \A s, t \in Calls : sess[s].chain = sess[t].chain /\ sess[s].chain > 0 => s = t
    BY DEF OneOf, Distinct
  <2>2. Distinct'
    <3>1. \A s, t \in Calls : sess'[s].chain = sess'[t].chain /\ sess'[s].chain > 0 => s = t
      BY <1>2, <1>3, <2>1
    <3>2. Calls' = Calls
      BY <1>1 DEF Facts
    <3>3. QED
      BY <3>1, <3>2 DEF Distinct
  <2>3. \A s \in Calls : sess[s].managed = sess[s].chain
    BY DEF OneOf, Paired
  <2>4. Paired(c)'
    BY <1>1, <1>2, <2>3 DEF Paired, Facts
  <2>5. QED
    BY <2>2, <2>4
<1>5. Working(c)'
  BY <1>1, <1>2 DEF OneOf, Working, Open, Facts, Mending
<1>6. BusyInv(c)'
  BY <1>1, <1>2, <1>3 DEF BusyInv, Open, Facts, Making, Alive
<1>7. ASSUME NEW k \in DOMAIN conn' PROVE OwnedBy(c, k)'
  <2>1. OwnedBy(c, k)
    BY DEF OneOf
  <2>2. CASE k = call[c].to
    BY <1>1, <1>2, <1>3, <2>2 DEF OwnedBy
  <2>3. CASE k = Shell(c).chain
    BY <1>3, <2>3 DEF OwnedBy
  <2>4. CASE \E s \in store : s # Sid(c) /\ k = sess[s].chain
    BY <1>1, <1>2, <2>4 DEF OwnedBy, Facts
  <2>5. QED
    BY <1>1, <2>1, <2>2, <2>3, <2>4 DEF OwnedBy, Facts
<1>8. QED
  BY <1>1, <1>4, <1>5, <1>6, <1>7 DEF OneOf

LEMMA ManagedSetOne ==
  ASSUME TypeOK, PointersHold, NEW c \in Calls, Frame(c), OneOf(c), UNCHANGED <<store, conn, evicted>>,
         call[c].pc = "set managed", SessMoves(Sid(c), Shell(c).chain, call[c].to),
         CallMoves(c, "send", call[c].to, call[c].answer)
  PROVE  OneOf(c)'
<1>1. Facts(c) /\ Busy' \subseteq {c}
  BY FactsHold, BusyStays DEF OneOf
<1>2. /\ call'[c].pc = "send" /\ sess'[Sid(c)].chain = sess[Sid(c)].chain /\ sess'[Sid(c)].managed = call[c].to
      /\ \A t \in Calls : t # Sid(c) => sess'[t] = sess[t]
  BY <1>1 DEF CallMoves, SessMoves, Facts
<1>3. Sid(c) \in store /\ Open(call[c].to) /\ sess[Sid(c)].chain = call[c].to
  BY <1>1 DEF OneOf, BusyInv, Alive, Facts
<1>4. \A t \in Calls : sess'[t].chain = sess[t].chain
  BY <1>2
<1>5. Distinct' /\ Paired(c)'
  <2>1. Distinct'
    <3>1. \A s, t \in Calls : sess[s].chain = sess[t].chain /\ sess[s].chain > 0 => s = t
      BY DEF OneOf, Distinct
    <3>2. \A s, t \in Calls : sess'[s].chain = sess'[t].chain /\ sess'[s].chain > 0 => s = t
      BY <1>4, <3>1
    <3>3. QED
      BY <1>1, <3>2 DEF Distinct, Facts
  <2>2. Paired(c)'
    BY <1>1, <1>2, <1>3 DEF OneOf, Paired, Facts
  <2>3. QED
    BY <2>1, <2>2
<1>6. Working(c)'
  <2>1. ASSUME NEW s \in store' PROVE Open(sess[s].chain)'
    <3>1. s \in store /\ s \in Calls /\ sess'[s].chain = sess[s].chain
      BY <1>1, <1>4 DEF Facts
    <3>2. Open(sess[s].chain)
      BY <1>1, <1>3, <3>1 DEF OneOf, Working, Facts
    <3>3. QED
      BY <3>1, <3>2 DEF Open
  <2>2. QED
    BY <2>1 DEF Working
<1>7. BusyInv(c)'
  BY <1>1, <1>2, <1>3 DEF BusyInv, Facts, Making, Alive
<1>8. ASSUME NEW k \in DOMAIN conn' PROVE OwnedBy(c, k)'
  <2>1. OwnedBy(c, k)
    BY DEF OneOf
  <2>2. QED
    BY <1>1, <1>4, <2>1 DEF OwnedBy, Facts, Making
<1>9. QED
  BY <1>1, <1>5, <1>6, <1>7, <1>8 DEF OneOf

LEMMA OneStep ==
  ASSUME TypeOK, PointersHold, NEW c \in Calls, CallStep(c), OneOf(c)
  PROVE  OneOf(c)'
<1>1. Frame(c)
  BY FrameHolds
<1>2. Facts(c) /\ BusyInv(c)
  BY <1>1, FactsHold DEF OneOf
<1>3. UNCHANGED conn => ConnCalm
  BY DEF ConnCalm
<1>4. UNCHANGED sess \/ SessFixed => SessCalm
  BY DEF SessCalm, SessFixed
<1>5. call'[c].pc = "done" => BusyInv(c)'
  BY DEF BusyInv, Making, Alive
<1>6. ASSUME UNCHANGED store, Sid(c) \in store,
             call'[c].pc \in {"dispatch", "pty", "send", "wait", "reclose bash"} PROVE BusyInv(c)'
  BY <1>2, <1>6 DEF BusyInv, Making, Alive, Facts
<1>7. CASE Create(c)
  <2>0. call[c].pc = "create" /\ Sid(c) = c /\ UNCHANGED <<store, sess, evicted>>
    BY <1>7, CreateDoes DEF PointersHold, CallInv
  <2>1. CASE CallMoves(c, "done", 0, "error") /\ UNCHANGED conn
    <3>1. call'[c].pc = "done"
      BY <2>1 DEF CallMoves
    <3>2. QED
      BY <1>1, <1>3, <1>4, <1>5, <2>0, <2>1, <3>1, CalmOne DEF Mending, Making
  <2>2. CASE CallMoves(c, "start", Len(conn) + 1, call[c].answer) /\ ConnMade
    BY <1>1, <2>0, <2>2, MadeOne
  <2>3. QED
    BY <1>7, <2>1, <2>2, CreateDoes
<1>8. CASE Start(c)
  BY <1>1, <1>8, StartDoes, StartedOne, DiscardedOne
<1>9. CASE Get(c)
  <2>0. /\ call[c].pc = "get" /\ UNCHANGED <<store, sess, conn, evicted>>
        /\ (Sid(c) \in store /\ call'[c].pc = "dispatch") \/ call'[c].pc = "done"
    BY <1>9, GetDoes DEF CallMoves
  <2>1. QED
    BY <1>1, <1>3, <1>4, <1>5, <1>6, <2>0, CalmOne DEF Mending, Making
<1>10. CASE Exit(c)
  <2>0. call[c].pc = "dispatch" /\ call'[c].pc = "close bash" /\ UNCHANGED <<sess, conn, evicted>> /\ store' = store \ {Sid(c)}
    BY <1>10, ExitDoes DEF CallMoves
  <2>1. BusyInv(c)'
    BY <1>2, <2>0 DEF BusyInv, Making, Alive, Facts
  <2>2. QED
    BY <1>1, <1>3, <1>4, <2>0, <2>1, CalmOne DEF Mending, Making
<1>11. CASE CloseManaged(c)
  BY <1>1, <1>11, CloseManagedDoes, BashClosedOne
<1>12. CASE CloseChain(c)
  BY <1>1, <1>12, CloseChainDoes, ChainClosedOne
<1>13. CASE Status(c) \/ NoCommand(c) \/ PTYEnds(c) \/ Return(c)
  <2>0. /\ call[c].pc \in {"dispatch", "pty", "wait"} /\ call'[c].pc = "done" /\ SessFixed /\ UNCHANGED <<store, conn, evicted>>
    BY <1>13, AnswersOk DEF CallMoves
  <2>1. QED
    BY <1>1, <1>3, <1>4, <1>5, <2>0, CalmOne DEF Mending, Making
<1>14. CASE RunPTY(c)
  <2>0. /\ call[c].pc = "dispatch" /\ call'[c].pc \in {"pty", "done"} /\ UNCHANGED <<store, sess, evicted>>
    BY <1>14, RunPTYDoes DEF CallMoves
  <2>3. ConnCalm
    BY <1>3, <1>14, RunPTYDoes DEF ConnMoves, ConnCalm
  <2>1. Sid(c) \in store
    BY <1>2, <2>0 DEF BusyInv, Alive
  <2>2. QED
    BY <1>1, <1>4, <1>5, <1>6, <2>0, <2>1, <2>3, CalmOne DEF Mending, Making
<1>15. CASE Send(c)
  <2>0. call[c].pc \in {"dispatch", "send"}
    BY <1>15, SendDoes
  <2>1. Sid(c) \in store
    BY <1>2, <2>0 DEF BusyInv, Alive
  <2>2. ASSUME call'[c].pc = "wait", UNCHANGED <<store, sess, evicted>>, ConnCalm PROVE OneOf(c)'
    BY <1>1, <1>4, <1>6, <2>0, <2>1, <2>2, CalmOne DEF Mending, Making
  <2>3. CASE call'[c].pc = "wait" /\ UNCHANGED <<store, sess, evicted, conn>>
    BY <1>3, <2>2, <2>3
  <2>4. CASE /\ call'[c].pc = "wait" /\ UNCHANGED <<store, sess, evicted>>
             /\ LET k == Shell(c).managed IN k \in DOMAIN conn /\ ConnMoves(k, conn[k].line, conn[k].bash, Append(conn[k].queue, c))
    <3>1. ConnCalm
      BY <2>4 DEF ConnMoves, ConnCalm
    <3>2. QED
      BY <2>2, <2>4, <3>1
  <2>5. CASE call'[c].pc = "reclose bash" /\ SessFixed /\ UNCHANGED <<store, conn, evicted>>
    BY <1>1, <1>3, <1>4, <1>6, <2>0, <2>1, <2>5, CalmOne DEF Mending, Making
  <2>6. CASE /\ call'[c].pc = "done" /\ UNCHANGED <<conn, sess>>
             /\ store' = store \ {Sid(c)} /\ evicted' = evicted \cup {Shell(c).chain}
    BY <1>1, <1>3, <1>4, <1>5, <2>0, <2>6, CalmOne DEF Mending, Making
  <2>7. QED
    BY <1>15, <2>3, <2>4, <2>5, <2>6, SendDoes DEF CallMoves
<1>16. CASE Redial(c)
  <2>0. call[c].pc = "redial" /\ UNCHANGED <<sess, evicted>> /\ conn[Shell(c).chain].line = "closed"
    BY <1>2, <1>16, RedialDoes DEF BusyInv
  <2>1. CASE CallMoves(c, "done", 0, "error") /\ store' = store \ {Sid(c)} /\ UNCHANGED conn
    <3>1. call'[c].pc = "done"
      BY <2>1 DEF CallMoves
    <3>2. QED
      BY <1>1, <1>3, <1>4, <1>5, <2>0, <2>1, <3>1, CalmOne DEF Mending, Making
  <2>2. CASE CallMoves(c, "restart", Len(conn) + 1, call[c].answer) /\ UNCHANGED store /\ ConnMade
    BY <1>1, <2>0, <2>2, MadeOne
  <2>3. QED
    BY <1>16, <2>1, <2>2, RedialDoes
<1>17. CASE Restart(c)
  <2>0. call[c].pc = "restart" /\ UNCHANGED <<sess, evicted>> /\ call[c].to \in DOMAIN conn
    BY <1>17, RestartDoes
  <2>1. CASE CallMoves(c, "set chain", call[c].to, call[c].answer) /\ UNCHANGED <<store, conn>>
    <3>1. call'[c].pc = "set chain" /\ call'[c].to = call[c].to
      BY <2>1 DEF CallMoves
    <3>2. BusyInv(c)'
      BY <1>2, <2>0, <2>1, <3>1 DEF BusyInv, Making, Alive, Facts, Open
    <3>3. QED
      BY <1>1, <1>3, <1>4, <2>0, <2>1, <3>1, <3>2, CalmOne DEF Mending, Making
  <2>2. CASE /\ CallMoves(c, "done", 0, "error") /\ store' = store \ {Sid(c)}
             /\ ConnMoves(call[c].to, "closed", "closed", conn[call[c].to].queue)
    BY <1>1, <2>0, <2>2, DiscardedOne
  <2>3. QED
    BY <1>17, <2>1, <2>2, RestartDoes
<1>18. CASE SetChain(c)
  BY <1>1, <1>18, SetChainDoes, ChainSetOne
<1>19. CASE SetManaged(c)
  BY <1>1, <1>19, SetManagedDoes, ManagedSetOne
<1>20. QED
  BY <1>7, <1>8, <1>9, <1>10, <1>11, <1>12, <1>13, <1>14, <1>15, <1>16, <1>17, <1>18, <1>19 DEF CallStep

LEMMA CallsBusy == ASSUME NEW c \in Calls, CallStep(c) PROVE c \in Busy
BY DEF CallStep, Busy, At, Create, Start, Get, Exit, CloseManaged, CloseChain, Status, NoCommand, RunPTY, PTYEnds, Send, Return,
       Redial, Restart, SetChain, SetManaged

(* A connection that drops, or whose bash ends, is not closed by it. *)
LEMMA OneConn ==
  ASSUME TypeOK, PointersHold, CommandsInOrder, OneByOne, NEW k \in DOMAIN conn, ConnStep(k)
  PROVE  OneByOne'
<1>1. /\ UNCHANGED <<world, store, sess, call, evicted>>
      /\ \E line \in {conn[k].line, "dropped"}, bash \in {conn[k].bash, "ended"} : \E queue :
           /\ ConnMoves(k, line, bash, queue)
           /\ (line # conn[k].line => conn[k].line = "up") /\ (bash # conn[k].bash => conn[k].bash = "up")
  BY BashRunsDoes, DropDoes, DiesDoes DEF ConnStep
<1>2. /\ DOMAIN conn' = DOMAIN conn
      /\ \A l \in DOMAIN conn : /\ conn'[l].line = "closed" <=> conn[l].line = "closed"
                                /\ conn'[l].bash = "closed" <=> conn[l].bash = "closed"
  BY <1>1 DEF ConnMoves
<1>3. /\ Calls' = Calls /\ Busy' = Busy
  BY <1>1 DEF Calls, Busy
<1>4. \A l \in DOMAIN conn : Open(l)' <=> Open(l)
  BY <1>2 DEF Open
<1>5. \A c \in Calls : Sid(c)' = Sid(c) /\ Shell(c)' = Shell(c)
  BY <1>1 DEF Sid, Shell
<1>6. ASSUME NEW s \in store PROVE sess[s].chain \in DOMAIN conn
  <2>1. SessionInv(s) /\ sess[s].chain > 0
    BY DEF PointersHold, SessionInv, TypeOK
  <2>2. Len(conn) \in Nat /\ DOMAIN conn = 1..Len(conn)
    BY Elements
  <2>3. QED
    BY <2>1, <2>2 DEF SessionInv
<1>7. ASSUME NEW l \in DOMAIN conn PROVE Owned(l)'
  <2>1. Owned(l)
    BY DEF OneByOne
  <2>2. \A c \in Busy : Shell(c)' = Shell(c)
    BY <1>5 DEF Busy
  <2>3. QED
    BY <1>1, <1>2, <1>3, <2>1, <2>2 DEF Owned
<1>8. ASSUME NEW c \in Busy PROVE BusyInv(c)'
  <2>1. c \in Calls /\ BusyInv(c)
    BY DEF OneByOne, Busy
  <2>2. /\ call[c].pc \in Making \cup {"set managed"} => call[c].to \in DOMAIN conn
        /\ call[c].pc \in Using => Shell(c).chain \in DOMAIN conn
    BY <2>1, PointersAre
  <2>3. QED
    BY <1>1, <1>2, <1>3, <1>4, <1>5, <2>1, <2>2 DEF BusyInv, Making, Using, Alive
<1>9. /\ \A c, d \in Busy' : c = d
      /\ \A s, t \in Calls' : sess'[s].chain = sess'[t].chain /\ sess'[s].chain > 0 => s = t
      /\ \A s \in Calls' : sess'[s].managed = sess'[s].chain \/ \E c \in Busy' : At(c, "set managed")' /\ Sid(c)' = s
  BY <1>1, <1>3 DEF OneByOne, At, Sid
<1>10. \A s \in store' : Open(sess[s].chain)' \/ \E c \in Busy' : call'[c].pc \in Mending /\ Sid(c)' = s
  <2>1. ASSUME NEW s \in store PROVE Open(sess[s].chain)' <=> Open(sess[s].chain)
    <3>1. PICK l \in DOMAIN conn : l = sess[s].chain /\ l = sess'[s].chain
      BY <1>1, <1>6
    <3>2. Open(l)' <=> Open(l)
      BY <1>4
    <3>3. QED
      BY <3>1, <3>2 DEF Open
  <2>2. QED
    BY <1>1, <1>3, <2>1 DEF OneByOne, Sid
<1>11. QED
  BY <1>1, <1>2, <1>3, <1>7, <1>8, <1>9, <1>10 DEF OneByOne

(* A call that arrives when none is in progress. *)
LEMMA BeginStep ==
  ASSUME TypeOK, PointersHold, CommandsInOrder, Begin
  PROVE  TypeOK' /\ PointersHold' /\ CommandsInOrder' /\ (Overlap[world] = 1 /\ OneByOne => OneByOne')
<1>1. PICK n \in Nat : Arrives(n)
  BY BeginDoes
<1>2. Len(call) \in Nat /\ Len(conn) \in Nat /\ \A c \in Calls : Sid(c) \in Calls
  BY Elements DEF PointersHold, CallInv
<1>3. TypeOK'
  BY <1>1, TypesStay DEF Arrives, TypeOK
<1>4. /\ Calls' = Calls \cup {n} /\ n \notin Calls /\ UNCHANGED <<world, store, conn, evicted>>
      /\ \A d \in Calls : call'[d] = call[d] /\ sess'[d] = sess[d] /\ runs'[d] = runs[d]
      /\ call'[n].pc \in {"create", "get"} /\ call'[n].sid \in Calls \cup {n} /\ call'[n].to = 0 /\ call'[n].answer = ""
      /\ call'[n].pc = "create" => call'[n].sid = n
      /\ sess'[n].chain = 0 /\ sess'[n].managed = 0 /\ runs'[n] = 0
  BY <1>1 DEF Arrives
<1>5. \A d \in Calls : Sid(d)' = Sid(d) /\ Shell(d)' = Shell(d)
  BY <1>2, <1>4 DEF Sid, Shell
<1>6. store \subseteq Calls
  BY DEF TypeOK
<1>7. PointersHold'
  <2>1. \A d \in Calls : CallInv(d)' /\ SessionInv(d)'
    BY <1>4, <1>5 DEF PointersHold, CallInv, SessionInv
  <2>2. 0 \in 0..Len(conn)
    BY <1>2
  <2>3. CallInv(n)' /\ SessionInv(n)'
    BY <1>4, <1>6, <2>2 DEF CallInv, SessionInv, Sid, Making, Using, Alive
  <2>4. QED
    BY <1>4, <2>1, <2>3 DEF PointersHold
<1>8. CommandsInOrder'
  <2>1. \A k \in DOMAIN conn' : Single(k)' /\ \A x : Queued(k, x)' => k \in DOMAIN conn /\ Queued(k, x)
    BY <1>4, QueuesStay
  <2>2. \A x : Waits(x) => Waits(x)'
    BY <1>4 DEF Waits
  <2>3. \A k \in DOMAIN conn' : \A x : Queued(k, x)' => Waits(x)'
    BY <2>1, <2>2, CommandsAre
  <2>4. \A d \in Calls : Counted(d)'
    BY <1>4, CommandsAre DEF Counted, Unanswered
  <2>5. Counted(n)'
    <3>1. runs'[n] = 0
      BY <1>4
    <3>2. QED
      BY <3>1 DEF Counted
  <2>6. QED
    BY <1>4, <2>1, <2>3, <2>4, <2>5, CommandsStay
<1>9. ASSUME Overlap[world] = 1, OneByOne PROVE OneByOne'
  <2>1. Busy = {}
    <3>1. IsFiniteSet(Calls)
      BY Elements, FS_Interval
    <3>2. IsFiniteSet(Busy)
      BY <3>1, FS_Subset DEF Busy
    <3>3. Cardinality(Busy) \in Nat /\ Cardinality(Busy) < 1
      BY <1>9, <3>2, BeginDoes, FS_CardinalityType
    <3>4. Cardinality(Busy) = 0
      BY <3>3
    <3>5. QED
      BY <3>2, <3>4, FS_EmptySet
  <2>2. Busy' \subseteq {n}
    BY <1>4, <2>1 DEF Busy
  <2>3. Distinct'
    <3>1. \A s, t \in Calls : sess[s].chain = sess[t].chain /\ sess[s].chain > 0 => s = t
      BY <1>9 DEF OneByOne
    <3>2. ASSUME NEW s \in Calls \cup {n}, NEW t \in Calls \cup {n}, sess'[s].chain = sess'[t].chain, sess'[s].chain > 0
          PROVE  s = t
      <4>0. ~(0 > 0)
        OBVIOUS
      <4>1. sess'[n].chain = 0 /\ ~(0 > 0)
        BY <1>4, <4>0
      <4>2. s \in Calls /\ t \in Calls
        BY <3>2, <4>1
      <4>3. QED
        BY <1>4, <3>1, <3>2, <4>2
    <3>3. QED
      BY <1>4, <3>2 DEF Distinct
  <2>4. Paired(n)'
    <3>1. \A s \in Calls : sess[s].managed = sess[s].chain
      BY <1>9, <2>1 DEF OneByOne
    <3>2. QED
      BY <1>4, <3>1 DEF Paired
  <2>5. Working(n)'
    <3>1. \A s \in store : Open(sess[s].chain)
      BY <1>9, <2>1 DEF OneByOne
    <3>2. \A s \in store : Open(sess[s].chain)'
      BY <1>4, <1>6, <3>1 DEF Open
    <3>3. QED
      BY <1>4, <3>2 DEF Working
  <2>6. BusyInv(n)'
    BY <1>4, <1>6 DEF BusyInv, Making, Alive, Sid
  <2>7. ASSUME NEW k \in DOMAIN conn' PROVE OwnedBy(n, k)'
    <3>1. Owned(k)
      BY <1>4, <1>9 DEF OneByOne
    <3>2. QED
      BY <1>4, <1>6, <2>1, <3>1 DEF Owned, OwnedBy
  <2>8. QED
    BY <1>4, <2>2, <2>3, <2>4, <2>5, <2>6, <2>7, OneWas DEF OneOf
<1>10. QED
  BY <1>3, <1>7, <1>8, <1>9

-----------------------------------------------------------------------------
LEMMA NextInv == IInv /\ [Next]_vars => IInv'
<1> SUFFICES ASSUME IInv, [Next]_vars PROVE IInv'
  OBVIOUS
<1>0. TypeOK /\ PointersHold /\ CommandsInOrder /\ (Overlap[world] = 1 => OneByOne)
  BY DEF IInv
<1>1. CASE Begin
  BY <1>0, <1>1, BeginStep DEF IInv, Begin
<1>2. ASSUME NEW c \in Calls, CallStep(c) PROVE IInv'
  <2>1. Frame(c) /\ c \in Busy /\ c \in Calls'
    BY <1>0, <1>2, FrameHolds, CallsBusy DEF Frame
  <2>2. TypeOK' /\ PointersHold' /\ CommandsInOrder'
    BY <1>0, <1>2, PointersStep, CommandsStep
  <2>3. ASSUME OneByOne PROVE OneByOne'
    BY <1>0, <1>2, <2>1, <2>3, OneIs, OneStep, OneWas
  <2>4. world' = world
    BY <2>1 DEF Frame
  <2>5. QED
    BY <1>0, <2>2, <2>3, <2>4 DEF IInv
<1>3. ASSUME NEW k \in DOMAIN conn, ConnStep(k) PROVE IInv'
  <2>1. TypeOK' /\ PointersHold' /\ CommandsInOrder'
    BY <1>0, <1>3, CommandsConn
  <2>2. OneByOne => OneByOne'
    BY <1>0, <1>3, OneConn
  <2>3. world' = world
    BY <1>3 DEF ConnStep, BashRuns, Drop, Dies
  <2>4. QED
    BY <1>0, <2>1, <2>2, <2>3 DEF IInv
<1>4. CASE UNCHANGED vars
  <2>0. /\ world' = world /\ store' = store /\ sess' = sess /\ conn' = conn /\ call' = call /\ runs' = runs /\ evicted' = evicted
    BY <1>4 DEF vars
  <2>1. TypeOK'
    BY <1>0, <2>0 DEF TypeOK, Calls
  <2>2. PointersHold'
    BY <1>0, <2>0 DEF PointersHold, CallInv, SessionInv, Calls, Sid, Shell
  <2>3. CommandsInOrder'
    BY <1>0, <2>0 DEF CommandsInOrder, QueueInv, Written, Queued, Calls
  <2>4. ASSUME OneByOne PROVE OneByOne'
    <3>1. Calls' = Calls /\ Busy' = Busy
      BY <2>0 DEF Calls, Busy
    <3>2. \A c : (Sid(c)' = Sid(c) /\ Shell(c)' = Shell(c) /\ (BusyInv(c)' <=> BusyInv(c)))
      BY <2>0, <3>1 DEF Sid, Shell, BusyInv, Open
    <3>3. \A k : Owned(k)' <=> Owned(k)
      BY <2>0, <3>1 DEF Owned, Shell, Sid
    <3>4. \A s \in store' : Open(sess[s].chain)' \/ \E c \in Busy' : call'[c].pc \in Mending /\ Sid(c)' = s
      BY <2>0, <2>4, <3>1 DEF OneByOne, Open, Sid
    <3>5. \A s \in Calls' : sess'[s].managed = sess'[s].chain \/ \E c \in Busy' : At(c, "set managed")' /\ Sid(c)' = s
      BY <2>0, <2>4, <3>1 DEF OneByOne, At, Sid
    <3>6. QED
      BY <2>0, <2>4, <3>1, <3>2, <3>3, <3>4, <3>5 DEF OneByOne
  <2>5. QED
    BY <1>0, <2>0, <2>1, <2>2, <2>3, <2>4 DEF IInv
<1>5. QED
  BY <1>1, <1>2, <1>3, <1>4 DEF Next, CallStep, ConnStep

(* The inductive invariant: what calls and sessions point to, the commands in the *)
(* queues of the connections, and, of calls one after the other, the sessions.    *)
THEOREM Inductive == Spec => []IInv
<1>1. Init => IInv
  BY TypesInit DEF IInv
<1>2. QED
  BY <1>1, NextInv, PTL DEF Spec

(* The types of the variables, and the bound of the history (remote_shell.go:39, 303-310). *)
THEOREM TypesHold == Spec => []TypeOK
<1>1. IInv => TypeOK
  BY DEF IInv
<1>2. QED
  BY <1>1, Inductive, PTL

(* No command is started twice, or at all after the answer that it failed         *)
(* (remote_shell.go:263-300): whatever drops, reconnects and overlaps, for any    *)
(* number of calls in progress at once.                                           *)
THEOREM RunsOnce == Spec => []CommandRunsOnce
<1>1. IInv => CommandRunsOnce
  <2> SUFFICES ASSUME IInv, NEW c \in Calls
               PROVE  /\ runs[c] <= 1
                      /\ call[c].answer = "error" /\ call[c].asks # "pty" => runs[c] = 0
                      /\ call[c].answer = "error" => \A k \in DOMAIN conn : ~Contains(conn[k].queue, c)
    BY DEF CommandRunsOnce
  <2>1. TypeOK /\ CommandsInOrder
    BY DEF IInv
  <2>2. Counted(c)
    BY <2>1, CommandsAre
  <2>3. ASSUME NEW k \in DOMAIN conn, Contains(conn[k].queue, c) PROVE call[c].answer # "error"
    <3>1. Queued(k, c)
      BY <2>1, <2>3, QueueIs DEF Contains, Queued
    <3>2. Waits(c)
      BY <2>1, <3>1, CommandsAre
    <3>3. QED
      BY <3>2 DEF Waits
  <2>4. QED
    BY <2>2, <2>3 DEF Counted, Unanswered
<1>2. QED
  BY <1>1, Inductive, PTL

(* Calls that do not overlap leave no connection behind (remote_shell.go:98-164,  *)
(* 266-300, 378-395), however often they reconnect and whatever fails.            *)
THEOREM Owners == Spec => []ConnectionsAreOwned
<1>1. IInv => ConnectionsAreOwned
  <2> SUFFICES ASSUME IInv, Overlap[world] = 1, NEW k \in DOMAIN conn
               PROVE  \/ conn[k].line = "closed"
                      \/ k \in {sess[s].chain : s \in store} \cup evicted
                      \/ \E c \in Busy : k \in {call[c].to, Shell(c).chain}
    BY DEF ConnectionsAreOwned
  <2>1. Owned(k)
    BY DEF IInv, OneByOne
  <2>2. QED
    BY <2>1 DEF Owned
<1>2. QED
  BY <1>1, Inductive, PTL

(* A stored session that no call uses has one open connection with an open bash   *)
(* (remote_shell.go:266-300, 378-395), when calls do not overlap.                 *)
THEOREM SessionsWork == Spec => []StoredSessionsWork
<1>1. IInv => StoredSessionsWork
  <2> SUFFICES ASSUME IInv, Overlap[world] = 1, NEW s \in store, \A c \in Busy : Sid(c) # s
               PROVE  LET k == sess[s].managed IN
                      k > 0 /\ sess[s].chain = k /\ conn[k].line # "closed" /\ conn[k].bash # "closed"
    BY DEF StoredSessionsWork
  <2>1. OneByOne /\ s \in Calls /\ SessionInv(s)
    BY DEF IInv, TypeOK, PointersHold
  <2>2. sess[s].managed = sess[s].chain /\ Open(sess[s].chain) /\ sess[s].chain > 0
    BY <2>1 DEF OneByOne, SessionInv
  <2>3. QED
    BY <2>2 DEF Open
<1>2. QED
  BY <1>1, Inductive, PTL
=============================================================================
