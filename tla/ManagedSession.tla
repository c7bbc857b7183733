--------------------------- MODULE ManagedSession ---------------------------
(***************************************************************************)
(* One persistent bash on a remote host and the Exec calls that share it   *)
(* (internal/ssh/managed_session.go).                                      *)
(*                                                                         *)
(*   Exec --stdin--> bash --pipe.out, pipe.err--> lineBuffer --> Exec      *)
(*                                                                         *)
(* Exec writes a command and a printf of the sentinel to bash's stdin and  *)
(* polls the line buffer until it meets a sentinel line, its deadline or   *)
(* its context's end.  Standard output and standard error are copied into  *)
(* the one buffer by two goroutines.  There is no terminal: the Ctrl-C of  *)
(* a timeout is one more byte of input.                                    *)
(*                                                                         *)
(* The probe that NewManagedSession sends is the call Open, whose reader,  *)
(* drainUntilSentinel, throws lines away; its output is what the login     *)
(* profile prints.  A line is known by the call that printed it and its    *)
(* number there; a command is one line of input and is sent once.          *)
(***************************************************************************)
EXTENDS Integers, Sequences

CONSTANTS
  Calls,      \* the calls of Exec on this session
  Open,       \* the probe of NewManagedSession
  Intr,       \* the interrupt byte
  Output,     \* Output[c]: the lines c prints on standard output, "text" or "blank"
  Errors,     \* Errors[c]: the number of lines c prints on standard error
  Code,       \* Code[c]: the exit status of c
  Exiters,    \* commands that end bash itself, as exit and exec do
  Readers,    \* commands that read standard input until its end
  Cap,        \* capacity of the line buffer (4096)
  OutCap,     \* lines of output Exec keeps (64 KB)
  Noise,      \* lines that all of them together print on standard error, or more
  Concurrent, \* whether Execs of several goroutines may overlap
  Timeouts,   \* whether a deadline may pass or a context end
  Splits      \* whether a read may cut the sentinel line in two

Senders == Calls \cup {Open}

ASSUME NamesAssumption == Open \notin Calls /\ Intr \notin Senders
ASSUME CommandAssumption == /\ Output \in [Senders -> Seq({"text", "blank"})]
                            /\ Errors \in [Senders -> Nat]
                            /\ Code \in [Senders -> 0..255]
                            /\ Exiters \subseteq Senders
                            /\ Readers \subseteq Senders
ASSUME BoundAssumption == Cap \in Nat \ {0} /\ OutCap \in Nat /\ Noise \in Nat
ASSUME SwitchAssumption == {Concurrent, Timeouts, Splits} \subseteq BOOLEAN

VARIABLES
  stdin, \* what has been written to bash and not read by it
  shell, \* what bash is doing
  pipe,  \* pipe.out and pipe.err: lines printed and not yet in the buffer
  buf,   \* the lineBuffer
  exec   \* exec[c]: the call of Exec

vars == <<stdin, shell, pipe, buf, exec>>

-----------------------------------------------------------------------------
(* What bash prints.                                                       *)

NoCode == -1

Line == [of : Senders, kind : {"text", "blank", "end"}, n : Int]

OutLines(c) == [i \in DOMAIN Output[c] |-> [of |-> c, kind |-> Output[c][i], n |-> i]]

ErrLines(c) == [i \in 1..Errors[c] |-> [of |-> c, kind |-> "text", n |-> 0]]

Other(c, kind, n) == [of |-> c, kind |-> kind, n |-> n]

End(c) == Other(c, "end", Code[c])

Newline(c) == Other(c, "blank", Len(Output[c]) + 1)

\* Slips: the status is not that of the command; a prompt follows the sentinel.
ReportsZero(c) == {<<Other(c, "end", 0)>>}

ReportsThenPrompt(c) == {<<End(c), Other(c, "text", Len(Output[c]) + 2)>>}

\* The lines that printf '\n<sentinel> %d\n' $? becomes: the newline ends the last line of
\* the output, or makes a blank line; a read may end after the sentinel, or inside it.
Reports(c) ==
  {<<Newline(c), End(c)>>, <<End(c)>>} \cup
    IF Splits THEN {<<Other(c, "end", NoCode), Other(c, "text", 0)>>,
                    <<Other(c, "text", 0), Other(c, "text", 0)>>}
              ELSE {}

\* bash: what it does with the lines it cannot parse, before it gives up.
Complaint(c) == <<Other(c, "text", 0), Other(c, "text", 0)>>

-----------------------------------------------------------------------------
(* The line buffer.                                                        *)

\* Slip: a full buffer drops the line that comes in.
EnqueueDropsNewest(b, l) == IF Len(b) < Cap THEN Append(b, l) ELSE b

Enqueue(b, l) == IF Len(b) < Cap THEN Append(b, l) ELSE Append(Tail(b), l)

-----------------------------------------------------------------------------

Waiting(c) == exec[c].state = "waiting"

Busy(c) == exec[c].state \in {"waiting", "expiring"}

\* Some Exec has given up.
Expired == \E c \in Senders : exec[c].state \in {"expiring", "expired"}

NewExec == [state |-> "none", out |-> <<>>, skipped |-> FALSE, code |-> NoCode]

Exec == [state : {"none", "waiting", "expiring", "ended", "expired", "failed"},
         out : Seq(Line), skipped : BOOLEAN, code : Int]

Shell == [state : {"idle", "glued", "run", "dead", "closed"}, call : Senders]

TypeOK == /\ stdin \in Seq(Senders \cup {Intr})
          /\ shell \in Shell
          /\ pipe \in [{"out", "err"} -> Seq(Line)]
          /\ buf \in Seq(Line)
          /\ Len(buf) <= Cap
          /\ exec \in [Senders -> Exec]

\* NewManagedSession has started bash and written the probe.
Init == /\ stdin = <<Open>>
        /\ shell = [state |-> "idle", call |-> Open]
        /\ pipe = [s \in {"out", "err"} |-> <<>>]
        /\ buf = <<>>
        /\ exec = [c \in Senders |-> IF c = Open THEN [NewExec EXCEPT !.state = "waiting"] ELSE NewExec]

-----------------------------------------------------------------------------
(* bash                                                                    *)

ShellRead == /\ shell.state = "idle"
             /\ stdin # <<>>
             /\ stdin' = Tail(stdin)
             /\ shell' = IF Head(stdin) = Intr
                           THEN [shell EXCEPT !.state = "glued"]
                           ELSE [state |-> "run", call |-> Head(stdin)]
             /\ UNCHANGED <<pipe, buf, exec>>

\* The interrupt byte is part of the next line, whose first word is then not "{": bash
\* finds no such command, then a "}" that nothing has opened, and ends.
ShellReadGlued == /\ shell.state = "glued"
                  /\ stdin # <<>>
                  /\ stdin' = Tail(stdin)
                  /\ IF Head(stdin) = Intr
                       THEN UNCHANGED <<shell, pipe>>
                       ELSE /\ shell' = [state |-> "dead", call |-> Head(stdin)]
                            /\ pipe' = [pipe EXCEPT !["err"] = @ \o Complaint(Head(stdin))]
                  /\ UNCHANGED <<buf, exec>>

\* A command that reads standard input takes what was meant for bash.
CommandReads == /\ shell.state = "run"
                /\ shell.call \in Readers
                /\ stdin # <<>>
                /\ stdin' = Tail(stdin)
                /\ UNCHANGED <<shell, pipe, buf, exec>>

Printed(c, report) == [pipe EXCEPT !["out"] = @ \o (OutLines(c) \o report),
                                 !["err"] = @ \o ErrLines(c)]

ShellFinish == /\ shell.state = "run"
               /\ shell.call \notin Exiters \cup Readers
               /\ shell' = [shell EXCEPT !.state = "idle"]
               /\ \E report \in Reports(shell.call) : pipe' = Printed(shell.call, report)
               /\ UNCHANGED <<stdin, buf, exec>>

ShellExits == /\ shell.state = "run"
              /\ shell.call \in Exiters
              /\ shell' = [shell EXCEPT !.state = "dead"]
              /\ pipe' = Printed(shell.call, <<>>)
              /\ UNCHANGED <<stdin, buf, exec>>

\* One of the two goroutines that copy bash's output.
Deliver(s) == /\ pipe[s] # <<>>
              /\ buf' = Enqueue(buf, Head(pipe[s]))
              /\ pipe' = [pipe EXCEPT ![s] = Tail(@)]
              /\ UNCHANGED <<stdin, shell, exec>>

-----------------------------------------------------------------------------
(* Exec                                                                    *)

\* Once bash is gone a write fails as soon as the close of the channel has come in.
Call(c) ==
  /\ exec[c].state = "none"
  /\ exec[Open].state = "ended"
  /\ Concurrent \/ \A d \in Calls : ~Busy(d)
  /\ \/ /\ shell.state # "closed"
        /\ stdin' = Append(stdin, c)
        /\ exec' = [exec EXCEPT ![c].state = "waiting"]
     \/ /\ shell.state \in {"dead", "closed"}
        /\ exec' = [exec EXCEPT ![c].state = "failed"]
        /\ UNCHANGED stdin
  /\ UNCHANGED <<shell, pipe, buf>>

\* fmt.Sscanf leaves the code at zero when the sentinel line carries none.
ScannedCode(l) == IF l.n = NoCode THEN 0 ELSE l.n

LastText(out) ==
  CHOOSE n \in 0..Len(out) : /\ n # 0 => out[n].kind # "blank"
                             /\ \A i \in (n + 1)..Len(out) : out[i].kind = "blank"

\* strings.TrimRight of the output: every blank line at its end goes.
Trimmed(out) == SubSeq(out, 1, LastText(out))

\* What Exec returns, at a sentinel and at a deadline.
Settled(e, state, code) ==
  [e EXCEPT !.state = state, !.code = code, !.out = Trimmed(@)]

Ended(e, l) == Settled(e, "ended", ScannedCode(l))

\* Slip: every blank line is skipped.
CollectSkipsBlanks(e, l) ==
  IF l.kind = "blank" THEN [e EXCEPT !.skipped = TRUE]
                      ELSE IF Len(e.out) < OutCap THEN [e EXCEPT !.out = Append(@, l)] ELSE e

\* One line of output.  The first blank line is taken for the newline of the printf.
Collect(e, l) ==
  IF l.kind = "blank" /\ ~e.skipped
    THEN [e EXCEPT !.skipped = TRUE]
    ELSE IF Len(e.out) < OutCap THEN [e EXCEPT !.out = Append(@, l)] ELSE e

\* drainUntilSentinel drops what Exec collects.
Read(c) == /\ Waiting(c)
           /\ buf # <<>>
           /\ buf' = Tail(buf)
           /\ exec' = [exec EXCEPT ![c] =
                         CASE Head(buf).kind = "end" -> Ended(@, Head(buf))
                           [] Head(buf).kind # "end" /\ c = Open -> @
                           [] Head(buf).kind # "end" /\ c # Open -> Collect(@, Head(buf))]
           /\ UNCHANGED <<stdin, shell, pipe>>

\* The deadline has passed or the context is done: Ctrl-C, then a pause of 100 ms.
Interrupt(c) == /\ Timeouts
                /\ c \in Calls
                /\ Waiting(c)
                /\ stdin' = IF shell.state = "closed" THEN stdin ELSE Append(stdin, Intr)
                /\ exec' = [exec EXCEPT ![c].state = "expiring"]
                /\ UNCHANGED <<shell, pipe, buf>>

Drain(c) == /\ exec[c].state = "expiring"
            /\ buf' = <<>>
            /\ exec' = [exec EXCEPT ![c] = Settled(@, "expired", 130)]
            /\ UNCHANGED <<stdin, shell, pipe>>

\* NewManagedSession gives up after 10 s and closes the session.
OpenFails == /\ Timeouts
             /\ Waiting(Open)
             /\ exec' = [exec EXCEPT ![Open].state = "expired"]
             /\ shell' = [shell EXCEPT !.state = "closed"]
             /\ UNCHANGED <<stdin, pipe, buf>>

\* A sequential caller closes the session between two Execs.
Close == /\ exec[Open].state = "ended"
         /\ Concurrent \/ \A d \in Calls : ~Busy(d)
         /\ shell.state # "closed"
         /\ shell' = [shell EXCEPT !.state = "closed"]
         /\ UNCHANGED <<stdin, pipe, buf, exec>>

Next == \/ ShellRead \/ ShellReadGlued \/ CommandReads \/ ShellFinish \/ ShellExits
        \/ Deliver("out") \/ Deliver("err")
        \/ \E c \in Calls : Call(c)
        \/ \E c \in Senders : Read(c)
        \/ \E c \in Calls : Interrupt(c) \/ Drain(c)
        \/ OpenFails \/ Close

Spec == Init /\ [][Next]_vars

\* The remote host runs what bash reads, the two goroutines copy, Exec polls every 50 ms
\* and its deadline passes.  Nothing makes a user call or close.
Fairness == /\ WF_vars(ShellRead) /\ WF_vars(ShellReadGlued)
            /\ WF_vars(ShellFinish) /\ WF_vars(ShellExits)
            /\ WF_vars(Deliver("out")) /\ WF_vars(Deliver("err"))
            /\ \A c \in Senders : WF_vars(Read(c))
            /\ \A c \in Calls : WF_vars(Interrupt(c)) /\ WF_vars(Drain(c))

FairSpec == Spec /\ Fairness

-----------------------------------------------------------------------------
(* What sequential callers are promised, until one Exec gives up.          *)

Done(c) == exec[c].state = "ended"

\* An Exec that ends reports the exit status of its own command, however slowly it reads
\* and whatever the buffer has dropped (Exec, lines 203 to 207; enqueue).
OwnCode == ~Expired => \A c \in Calls : Done(c) => exec[c].code = Code[c]

\* What Exec has collected are lines its command printed on standard output, in the order
\* they were printed, none of them twice; among them lines of standard error (n = 0), its
\* own or late ones of an earlier command, which the second goroutine copies when it is
\* scheduled (Write, enqueue, readLine).
OwnLinesInOrder ==
  ~Expired => \A c \in Calls :
    LET out == exec[c].out IN
      /\ \A i \in DOMAIN out : out[i].n # 0 => out[i].of = c
      /\ \A i, j \in DOMAIN out :
           i < j /\ out[i].n # 0 /\ out[j].n # 0 => out[i].n < out[j].n

FirstBlank(c) == {i \in DOMAIN Output[c] : /\ Output[c][i] = "blank"
                                          /\ \A j \in 1..(i - 1) : Output[c][j] # "blank"}

\* The blank lines that no line of text follows.
LastBlanks(c) == {n \in DOMAIN Output[c] : \A m \in n..Len(Output[c]) : Output[c][m] = "blank"}

\* The output fits the line buffer and the 64 KB, whatever standard error brings along.
Fits(c) == Len(Output[c]) + 2 + Noise <= Cap /\ Len(Output[c]) + Noise <= OutCap

\* When the output fits, all of it is returned, but for the first blank line (taken for
\* the newline of the printf, Exec, lines 209 to 213) and the blank lines at its end (the
\* TrimRight of line 226).
NothingElseLost ==
  ~Expired => \A c \in Calls :
    Done(c) /\ Fits(c) =>
      DOMAIN Output[c] \ (FirstBlank(c) \cup LastBlanks(c))
        \subseteq {exec[c].out[i].n : i \in DOMAIN exec[c].out}

Holds(q, c) == \E i \in DOMAIN q : q[i].kind = "end" /\ q[i].of = c

\* An Exec that waits, waits for something: as long as bash lives its command is on its
\* way, running, or its sentinel is on the way back; a buffer that overflows drops lines,
\* but never the sentinel (enqueue, lines 266 to 277).
SentinelIsKept ==
  ~Expired /\ shell.state \in {"idle", "run"} => \A c \in Calls : Waiting(c) =>
    \/ \E i \in DOMAIN stdin : stdin[i] = c
    \/ shell.state = "run" /\ shell.call = c
    \/ Holds(pipe["out"], c)
    \/ Holds(buf, c)

\* A full buffer whose next line to be dropped is a sentinel.
Crowded == Len(buf) = Cap /\ Head(buf).kind = "end"

\* Execs that overlap share one buffer and take each other's sentinels, but there is one
\* for each of them: an Exec whose command ends returns without the help of its deadline,
\* however often the buffer drops lines, as long as a full one never has a sentinel in
\* front (enqueue, lines 266 to 277).  One Exec at a time cannot bring that about
\* (SentinelIsKept); several can, and then one of them does wait for its deadline, which
\* EveryExecReturns, the comment of Exec (lines 155 to 156), does not admit.
EveryExecReturns == \A c \in Calls : Waiting(c) ~> (Done(c) \/ shell.state = "closed")

ExecReturns == []~Crowded => EveryExecReturns

-----------------------------------------------------------------------------
(* Why a sequential caller reads its own sentinel: its command is in one   *)
(* place only, on its way to bash, running, or as the one sentinel on the  *)
(* way back, and when nobody waits there is none of them.                  *)

NoEnd(q) == \A i \in DOMAIN q : q[i].kind # "end"

OneEnd(q) == \A i, j \in DOMAIN q : q[i].kind = "end" /\ q[j].kind = "end" => i = j

OwnedEnds(q) == \A i \in DOMAIN q : q[i].kind = "end" => Waiting(q[i].of) /\ q[i].n = Code[q[i].of]

OneBusy == \A c, d \in Senders : Busy(c) /\ Busy(d) => c = d

OnItsWay == /\ \A i \in DOMAIN stdin : i = 1 /\ stdin[i] \in Senders /\ Waiting(stdin[i])
            /\ shell.state = "run" => Waiting(shell.call) /\ stdin = <<>>

OnItsWayBack == /\ NoEnd(pipe["err"])
                /\ OneEnd(pipe["out"]) /\ OneEnd(buf)
                /\ OwnedEnds(pipe["out"]) /\ OwnedEnds(buf)
                /\ NoEnd(pipe["out"]) \/ NoEnd(buf)
                /\ stdin # <<>> \/ shell.state = "run" => NoEnd(pipe["out"]) /\ NoEnd(buf)

\* The inductive invariant behind OwnCode, for sequential callers (Exec, lines 157 to 227).
SeqInv == /\ OneBusy
          /\ ~Expired => OnItsWay /\ OnItsWayBack
          /\ OwnCode

\* What sequential callers read: the lines of one command that have not been read are
\* its next ones, in their order, and its sentinel, if it is there, is the last of them.
Unread == buf \o pipe["out"]

IsLineOf(c, l) ==
  /\ l.of = c /\ l.n \in 1..Len(Output[c]) + 1
  /\ l.n \in DOMAIN Output[c] => l.kind = Output[c][l.n]

NextLines(c, q) ==
  /\ \A i \in DOMAIN q : q[i].of = c
  /\ \A i \in DOMAIN q : IF q[i].kind = "end" THEN i = Len(q) ELSE IsLineOf(c, q[i])
  /\ \A i, j \in DOMAIN q : i < j /\ q[j].kind # "end" => q[i].n < q[j].n
  /\ Fits(c) => Len(q) <= Len(Output[c]) + 2

\* What Exec has collected of them: nothing that comes later, and until a blank line has
\* been skipped, nothing but text.
LinesSoFar(c, e, q) ==
  /\ \A k \in DOMAIN e.out : IsLineOf(c, e.out[k]) /\ k <= e.out[k].n
  /\ \A k \in DOMAIN e.out : e.skipped \/ e.out[k].kind = "text"
  /\ \A k, l \in DOMAIN e.out : k < l => e.out[k].n < e.out[l].n
  /\ \A k \in DOMAIN e.out, i \in DOMAIN q : q[i].kind # "end" => e.out[k].n < q[i].n

\* Each line of the output is collected, yet to be read, or the first blank one.
Complete(c, e, q) ==
  Fits(c) => \A n \in DOMAIN Output[c] :
    \/ \E k \in DOMAIN e.out : e.out[k].n = n
    \/ \E i \in DOMAIN q : q[i].kind # "end" /\ q[i].n = n
    \/ e.skipped /\ n \in FirstBlank(c)

\* What Exec returns of it.
Returned(c, e) ==
  Fits(c) => \A n \in DOMAIN Output[c] \ (FirstBlank(c) \cup LastBlanks(c)) :
    \E k \in DOMAIN e.out : e.out[k].n = n

Untouched(e) == e.out = <<>> /\ ~e.skipped

ToPrint == stdin # <<>> \/ shell.state = "run"

Progress(c, e, q) ==
  /\ NextLines(c, q) /\ LinesSoFar(c, e, q)
  /\ c # Open => Complete(c, e, q)
  /\ shell.state = "idle" => q # <<>> /\ q[Len(q)].kind = "end"

LinesInv ==
  /\ pipe["err"] = <<>> /\ shell.state # "glued"
  /\ ToPrint \/ (\A c \in Senders : ~Waiting(c)) => Unread = <<>>
  /\ \A c \in Senders : c = Open \/ exec[c].state \notin {"waiting", "ended"} => Untouched(exec[c])
  /\ \A c \in Senders : Waiting(c) => IF ToPrint THEN Untouched(exec[c]) ELSE Progress(c, exec[c], Unread)
  /\ \A c \in Calls : Done(c) => LinesSoFar(c, exec[c], <<>>) /\ Returned(c, exec[c])

\* The inductive invariant behind OwnLinesInOrder, NothingElseLost and SentinelIsKept, for
\* sequential callers and commands that write on standard output alone.
LineInv == SeqInv /\ (~Expired => LinesInv)

-----------------------------------------------------------------------------
(* What the comments and the documentation say, and the code does not do.  *)

\* managed_session.go, lines 155 and 156: "Exec reads until the sentinel line appears,
\* then returns the collected output and exit code" - of this command, after a timeout
\* too, and wherever a read of the channel ends.
CodeIsOwn == \A c \in Calls : Done(c) => exec[c].code = Code[c]

=============================================================================
