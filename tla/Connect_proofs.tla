--------------------------- MODULE Connect_proofs ---------------------------
EXTENDS Connect, TLAPS, SequenceTheorems, FiniteSetTheorems, WellFoundedInduction

\* Every set of numbers that is not empty has a least one.
LEMMA Least ==
  ASSUME NEW N \in SUBSET Nat, N # {}
  PROVE  \E m \in N : \A n \in N : m <= n
<1> DEFINE R == OpToRel(<, Nat)
<1>1. IsWellFoundedOn(R, Nat)
  BY NatLessThanWellFounded
<1>2. R = {p \in Nat \X Nat : p[1] < p[2]}
  BY DEF OpToRel
<1> HIDE DEF R
<1>3. \A m, n \in Nat : <<n, m>> \notin R => m <= n
  BY <1>2
<1>4. PICK m \in N : \A n \in N : <<n, m>> \notin R
  BY <1>1, WFMin
<1> QED
  BY <1>3, <1>4

\* Induction up to N, with a set where the library has an operator.
LEMMA UpTo ==
  ASSUME NEW N \in Nat, NEW P, 0 \in P, \A n \in 0..N-1 : n \in P => n + 1 \in P
  PROVE  \A n \in 0..N : n \in P
<1> DEFINE Bad == {n \in Nat : n <= N /\ n \notin P}
<1> SUFFICES ASSUME Bad # {} PROVE FALSE
  OBVIOUS
<1>1. PICK m \in Bad : \A n \in Bad : m <= n
  <2> Bad \in SUBSET Nat
    OBVIOUS
  <2> HIDE DEF Bad
  <2> QED
    BY Least
<1>2. m # 0
  OBVIOUS
<1>3. m - 1 \in Nat /\ m - 1 \in 0..N-1 /\ m - 1 \notin Bad
  BY <1>1, <1>2
<1> QED
  BY <1>3

\* Without keeps the type, however long the route is.
LEMMA WithoutType ==
  ASSUME NEW S, NEW q \in Seq(S), NEW x
  PROVE  Without(q, x) \in Seq(S)
<1> DEFINE N == Len(q)
           Up(v, i) == IF q[i] = x THEN v ELSE Append(v, q[i])
           Good(n, f) == f \in [0..n -> Seq(S)] /\ f[0] = <<>> /\ \A i \in 1..n : f[i] = Up(f[i-1], i)
<1>n. N \in Nat
  OBVIOUS
<1>0. \A i \in 1..N, v \in Seq(S) : Up(v, i) \in Seq(S)
  OBVIOUS
<1>1. ASSUME NEW n \in Nat, n < N, NEW f, Good(n, f)
      PROVE  \E g : Good(n + 1, g)
  <2> HIDE DEF Up, N
  <2> DEFINE g == [i \in 0..n+1 |-> IF i = n + 1 THEN Up(f[n], n + 1) ELSE f[i]]
  <2>1. g \in [0..n+1 -> Seq(S)]
    <3>1. Up(f[n], n + 1) \in Seq(S)
      BY <1>n, <1>0, <1>1
    <3> QED
      BY <3>1, <1>1
  <2>2. g[0] = <<>> /\ \A i \in 1..n+1 : g[i] = Up(g[i-1], i)
    BY <1>1
  <2> QED
    BY <2>1, <2>2
<1>2. \E f : Good(0, f)
  <2> Good(0, [i \in 0..0 |-> <<>>])
    OBVIOUS
  <2> QED
    OBVIOUS
<1>3. \E f : Good(N, f)
  <2> DEFINE P == {n \in Nat : \E f : Good(n, f)}
  <2> HIDE DEF Good, N
  <2>1. 0 \in P
    BY <1>2
  <2>2. \A n \in 0..N-1 : n \in P => n + 1 \in P
    BY <1>n, <1>1
  <2> HIDE DEF P
  <2>3. \A n \in 0..N : n \in P
    BY <1>n, <2>1, <2>2, UpTo
  <2>4. N \in P
    BY <1>n, <2>3
  <2> QED
    BY <2>4 DEF P
<1>4. PICK f : Good(N, f)
  BY <1>3
<1> DEFINE Grows(g, i) == IF i = 0 THEN <<>> ELSE IF q[i] = x THEN g[i-1] ELSE Append(g[i-1], q[i])
           IsF(g) == g = [i \in 0..Len(q) |-> Grows(g, i)]
           F == CHOOSE g : IsF(g)
<1>5. IsF(f)
  <2>1. \A i \in 0..Len(q) : f[i] = Grows(f, i)
    <3> TAKE i \in 0..Len(q)
    <3>1. CASE i = 0
      BY <3>1, <1>4
    <3>2. CASE i # 0
      <4>1. i \in 1..N
        BY <3>2
      <4>2. f[i] = Up(f[i-1], i)
        BY <4>1, <1>4
      <4> QED
        BY <4>2, <3>2
    <3> QED
      BY <3>1, <3>2
  <2>2. f \in [0..Len(q) -> Seq(S)]
    BY <1>4
  <2> HIDE DEF Grows
  <2> QED
    BY <2>1, <2>2
<1>6. IsF(F)
  BY <1>5
<1>7. Without(q, x) = F[N]
  BY DEF Without
<1>8. \A n \in 0..N : F[n] \in Seq(S)
  <2> DEFINE P == {n \in Nat : F[n] \in Seq(S)}
  <2> HIDE DEF F
  <2>1. \A i \in 0..Len(q) : F[i] = Grows(F, i)
    <3> HIDE DEF Grows
    <3> QED
      BY <1>6
  <2>a. F[0] = <<>>
    BY <2>1, <1>n
  <2>b. \A n \in 0..N-1 : F[n + 1] = Up(F[n], n + 1)
    <3> TAKE n \in 0..N-1
    <3>1. n + 1 \in 0..Len(q) /\ n + 1 # 0 /\ (n + 1) - 1 = n
      BY <1>n
    <3> QED
      BY <3>1, <2>1
  <2>2. 0 \in P
    <3> <<>> \in Seq(S)
      OBVIOUS
    <3> QED
      BY <2>a
  <2>3. \A n \in 0..N-1 : n \in P => n + 1 \in P
    <3> TAKE n \in 0..N-1
    <3> HIDE DEF Up
    <3>1. n + 1 \in 1..N
      BY <1>n
    <3> QED
      BY <1>0, <2>b, <3>1
  <2> HIDE DEF P
  <2>4. \A n \in 0..N : n \in P
    BY <1>n, <2>2, <2>3, UpTo
  <2> QED
    BY <2>4 DEF P
<1> HIDE DEF F
<1> QED
  BY <1>n, <1>7, <1>8

-----------------------------------------------------------------------------
LEMMA Takes ==
  ASSUME NEW S, NEW h \in Seq(S), NEW q \in Seq(S), q # <<>>
  PROVE  Head(q) \in S /\ Tail(q) \in Seq(S) /\ Append(h, Head(q)) \in Seq(S)
BY HeadTailProperties, AppendProperties

LEMMA EditType ==
  ASSUME d \in Databases, NEW x \in Edits
  PROVE  x \in Databases
<1>1. \A s \in d.servers, c \in BOOLEAN : WithoutServer(s, c) \in Databases
  <2>1. \A s : [r \in Routes |-> Without(d.hops[r], s)] \in [Routes -> Seq(Servers)]
    BY WithoutType DEF Databases
  <2>2. QED
    BY <2>1 DEF Databases, WithoutServer
<1>2. \A r \in d.routes, c \in BOOLEAN : WithoutRoute(r, c) \in Databases
  <2> SUFFICES ASSUME NEW r \in d.routes, NEW c \in BOOLEAN PROVE WithoutRoute(r, c) \in Databases
    OBVIOUS
  <2> DEFINE hops == IF c THEN <<>> ELSE d.hops[r]
             own == IF c THEN [s \in Servers |-> IF d.own[s] = r THEN 0 ELSE d.own[s]] ELSE d.own
             via == IF c THEN [p \in Profiles |-> IF d.via[p] = r THEN 0 ELSE d.via[p]] ELSE d.via
  <2>1. hops \in Seq(Servers) /\ d.routes \ {r} \in SUBSET Routes
    BY EmptySeq DEF Databases
  <2>2. own \in [Servers -> Routes \cup {0}] /\ via \in [Profiles -> Routes \cup {0}]
    BY DEF Databases
  <2>3. WithoutRoute(r, c) = [d EXCEPT !.routes = @ \ {r}, !.hops[r] = hops, !.own = own, !.via = via]
    BY DEF WithoutRoute
  <2> DEFINE all == [d.hops EXCEPT ![r] = hops]
             rest == d.routes \ {r}
  <2>4. WithoutRoute(r, c) = [d EXCEPT !.routes = rest, !.hops = all, !.own = own, !.via = via]
    BY <2>3
  <2>5. all \in [Routes -> Seq(Servers)]
    BY <2>1 DEF Databases
  <2> HIDE DEF hops, own, via, all, rest
  <2>6. rest \in SUBSET Routes
    BY <2>1 DEF rest
  <2>7. QED
    BY <2>2, <2>4, <2>5, <2>6 DEF Databases
<1>3. \A r \in d.routes, s \in d.servers, t \in d.servers : WithRoute(r, <<s, t>>) \in Databases
  <2>1. \A s \in d.servers, t \in d.servers : <<s, t>> \in Seq(Servers)
    BY DEF Databases
  <2>2. \A q \in Seq(Servers) : \A r : WithRoute(r, q) \in Databases
    BY DEF Databases, WithRoute
  <2>3. QED
    BY <2>1, <2>2
<1>4. \A s \in d.servers, r \in d.routes \cup {0} : WithOwn(s, r) \in Databases
  BY DEF Databases, WithOwn
<1>5. \A p \in d.profiles \cup {0} : WithActive(p) \in Databases
  BY DEF Databases, WithActive
<1>6. \A p \in d.profiles : WithoutProfile(p) \in Databases
  BY DEF Databases, WithoutProfile
<1>7. \/ \E s \in d.servers, c \in BOOLEAN : x = WithoutServer(s, c)
      \/ \E r \in d.routes, c \in BOOLEAN : x = WithoutRoute(r, c)
      \/ \E r \in d.routes, s \in d.servers, t \in d.servers : x = WithRoute(r, <<s, t>>)
      \/ \E s \in d.servers, r \in d.routes \cup {0} : x = WithOwn(s, r)
      \/ \E p \in d.profiles \cup {0} : x = WithActive(p)
      \/ \E p \in d.profiles : x = WithoutProfile(p)
  BY DEF Edits
<1>8. QED
  BY <1>1, <1>2, <1>3, <1>4, <1>5, <1>6, <1>7

\* What the steps before the dial leave alone.
Rest == UNCHANGED <<world, key, known, accepted, open, sh, web, ran, leaked, astray>>

LEMMA StepRest == ASSUME NEW c, Step(c) PROVE call' = c /\ Rest /\ UNCHANGED <<d, seen>>
BY DEF Step, Rest, files, terminals, history

LEMMA FailRest ==
  ASSUME Fail
  PROVE  /\ call' = [call EXCEPT !.half = FALSE, !.pc = "close"] /\ sh' = NoShell
         /\ UNCHANGED <<world, d, seen, key, known, accepted, open, ran, leaked, astray>>
BY DEF Fail, Go, files, history

LEMMA Empties == Idle \in CallType /\ NoShell \in ShellType
BY EmptySeq DEF Idle, NoShell, CallType, ShellType, Pcs, Reading

LEMMA FailType == ASSUME TypeOK, Fail, call.pc # "idle" PROVE TypeOK'
<1>1. CallOK([call EXCEPT !.half = FALSE, !.pc = "close"])
  BY DEF TypeOK, CallOK, CallType, Pcs
<1>2. CallOK(call')
  BY <1>1, FailRest
<1>3. QED
  BY <1>2, FailRest, Empties DEF TypeOK, CallOK

LEMMA StepType == ASSUME TypeOK, NEW c, CallOK(c), Step(c) PROVE TypeOK'
BY StepRest DEF TypeOK, Rest, CallOK

\* The reads of the route.
LEMMA ReadType ==
  ASSUME TypeOK, LookUpArg \/ ReadProfile \/ ReadOwn \/ ReadRow \/ ReadHops \/ ReadHop \/ ReadDest
  PROVE  TypeOK'
<1> DEFINE h == call.hops  q == call.todo
<1>0. call.pc \in Reading /\ call.pc # "idle"
  BY DEF LookUpArg, ReadProfile, ReadOwn, ReadRow, ReadHops, ReadHop, ReadDest, Reading
<1>1. /\ call \in CallType /\ d \in Databases /\ h \in Seq(Servers) /\ q \in Seq(Servers)
      /\ call.own \in Routes \cup {0} /\ call.dest \in Servers /\ call.row \in Routes \cup {0}
  BY <1>0 DEF TypeOK, CallOK, CallType
<1>2. q # <<>> => Head(q) \in Servers /\ Tail(q) \in Seq(Servers) /\ Append(h, Head(q)) \in Seq(Servers)
  BY <1>1, Takes
<1>3. \A pc \in Pcs : (pc = "hops" => call.row \in Routes) => CallOK(Go(call, pc))
  BY <1>1 DEF CallOK, CallType, Go
<1> DEFINE x == [call EXCEPT !.hops = Append(h, Head(q)), !.todo = Tail(q)]
<1>x. q # <<>> /\ call.pc # "hops" => CallOK(x)
  <2> SUFFICES ASSUME q # <<>>, call.pc # "hops" PROVE CallOK(x)
    OBVIOUS
  <2> DEFINE g == Append(h, Head(q))  t == Tail(q)
  <2>1. g \in Seq(Servers) /\ t \in Seq(Servers) /\ x = [call EXCEPT !.hops = g, !.todo = t]
    BY <1>2
  <2> HIDE DEF g, t, x
  <2>2. QED
    BY <1>1, <2>1 DEF CallOK, CallType
<1> HIDE DEF x
<1>4. \A t \in Seq(Servers), g \in Seq(Servers) :
        /\ CallOK([call EXCEPT !.pc = "dial", !.hops = g])
        /\ CallOK([call EXCEPT !.pc = "hop", !.todo = t])
  BY <1>1 DEF CallOK, CallType, Pcs, Reading
<1>o. CallOK([call EXCEPT !.pc = "own", !.part = "server"])
  BY <1>1 DEF CallOK, CallType, Pcs, Reading
<1>r. \A r \in Routes \cup {0} :
        /\ CallOK([call EXCEPT !.pc = "row", !.row = r])
        /\ CallOK([call EXCEPT !.pc = "row", !.part = "profile", !.via = r, !.row = r])
  BY <1>1 DEF CallOK, CallType, Pcs, Reading
<1>p. "dial" \in Pcs /\ "dest" \in Pcs /\ "hops" \in Pcs
  BY DEF Pcs, Reading
<1>5. CASE LookUpArg
  <2>1. CASE q = <<>>
    <3>1. Step(Go(call, "dial"))
      BY <1>5, <2>1 DEF LookUpArg
    <3>2. QED
      BY <1>3, <1>p, <3>1, StepType
  <2>2. CASE q # <<>>
    <3>1. Step(x)
      BY <1>5, <2>2 DEF LookUpArg, x
    <3>2. call.pc = "args"
      BY <1>5 DEF LookUpArg
    <3>3. QED
      BY <1>x, <2>2, <3>1, <3>2, StepType
  <2>3. QED
    BY <2>1, <2>2
<1>6. CASE ReadProfile
  <2> DEFINE p == ProfileOf(d)
  <2>1. CASE Fail
    BY <1>0, <2>1, FailType
  <2>2. CASE Step([call EXCEPT !.pc = "own", !.part = "server"])
    BY <1>o, <2>2, StepType
  <2>3. CASE Step([call EXCEPT !.pc = "row", !.part = "profile", !.via = d.via[p], !.row = d.via[p]]) /\ p \in Profiles
    <3>1. d.via[p] \in Routes \cup {0}
      BY <1>1, <2>3 DEF Databases
    <3>2. QED
      BY <1>r, <2>3, <3>1, StepType
  <2>4. call.override \in {"", "none"} \cup Profiles /\ d.active \in Profiles \cup {0} /\ d.profiles \subseteq Profiles
    BY <1>1 DEF CallType, Databases
  <2>5. QED
    BY <1>6, <2>1, <2>2, <2>3, <2>4 DEF ReadProfile, ProfileOf
<1>7. CASE ReadOwn
  <2>1. \/ Step([call EXCEPT !.pc = "row", !.row = call.own])
        \/ Step(Go(call, "dest"))
    BY <1>7 DEF ReadOwn
  <2>2. QED
    BY <1>1, <1>3, <1>p, <1>r, <2>1, StepType
<1>8. CASE ReadRow
  <2>1. CASE call.row \in d.routes /\ Step(Go(call, "hops"))
    <3>1. call.row \in Routes
      BY <1>1, <2>1 DEF Databases
    <3>2. QED
      BY <1>3, <1>p, <2>1, <3>1, StepType
  <2>2. QED
    BY <1>8, <2>1, <1>0, FailType DEF ReadRow
<1>9. CASE ReadHops
  <2> DEFINE t == Kept(d.hops[call.row], call.part, call.dest)
             y == [call EXCEPT !.pc = "hop", !.todo = t]
  <2>1. t \in Seq(Servers)
    <3>1. d.hops[call.row] \in Seq(Servers)
      BY <1>1, <1>9 DEF ReadHops, TypeOK, CallOK, Databases
    <3>2. \A z \in Seq(Servers) : Kept(z, call.part, call.dest) \in Seq(Servers)
      BY WithoutType, EmptySeq DEF Kept
    <3>3. QED
      BY <3>1, <3>2
  <2>2. Step(y)
    BY <1>9 DEF ReadHops
  <2> HIDE DEF t
  <2>3. CallOK(y)
    BY <1>4, <2>1
  <2> HIDE DEF y
  <2>4. QED
    BY <2>2, <2>3, StepType
<1>10. CASE ReadHop
  <2>1. CASE q = <<>>
    <3>1. Step(After(call)) /\ CallOK(After(call))
      BY <1>3, <1>o, <1>p, <1>10, <2>1 DEF ReadHop, After
    <3>2. QED
      BY <3>1, StepType
  <2>2. CASE q # <<>> /\ Head(q) \in d.servers
    <3>1. Step(x)
      BY <1>10, <2>2 DEF ReadHop, x
    <3>2. call.pc = "hop"
      BY <1>10 DEF ReadHop
    <3>3. QED
      BY <1>x, <2>2, <3>1, <3>2, StepType
  <2>3. QED
    BY <1>10, <2>1, <2>2, <1>0, FailType DEF ReadHop
<1>11. CASE ReadDest
  <2> DEFINE g == Append(h, call.dest)
             y == [call EXCEPT !.pc = "dial", !.hops = g]
  <2>1. g \in Seq(Servers)
    BY <1>1
  <2>2. Step(y)
    BY <1>11 DEF ReadDest
  <2> HIDE DEF g
  <2>3. CallOK(y)
    BY <1>4, <2>1
  <2> HIDE DEF y
  <2>4. QED
    BY <2>2, <2>3, StepType
<1>12. QED
  BY <1>5, <1>6, <1>7, <1>8, <1>9, <1>10, <1>11

\* What the remote side makes of the shells.
ShellIs(x, s, typed, out, depth, asks) ==
  /\ x \in ShellType /\ x.typed = typed /\ x.out = out /\ x.depth = depth /\ x.asks = asks
  /\ x.hop = s.hop /\ x.chan = s.chan /\ x.acc = s.acc

LEMMA PrintsIs ==
  ASSUME NEW s \in ShellType, NEW t \in Seq(Tokens)
  PROVE  ShellIs(Prints(s, t), s, s.typed, s.out \o t, s.depth, s.asks)
<1> DEFINE o == s.out \o t
<1>1. o \in Seq(Tokens)
  BY ConcatProperties DEF ShellType
<1>2. Prints(s, t) = [s EXCEPT !.out = o]
  BY DEF Prints
<1> HIDE DEF o
<1>3. ShellIs([s EXCEPT !.out = o], s, s.typed, o, s.depth, s.asks)
  BY <1>1 DEF ShellType, ShellIs
<1>4. QED
  BY <1>2, <1>3 DEF o

LEMMA LineIs ==
  ASSUME sh \in ShellType, sh.typed # <<>>
  PROVE  /\ ShellIs(Line, sh, Tail(sh.typed), sh.out, sh.depth, sh.asks)
         /\ ShellIs([Line EXCEPT !.tries = 0], sh, Tail(sh.typed), sh.out, sh.depth, sh.asks)
         /\ ShellIs([Line EXCEPT !.tries = @ + 1], sh, Tail(sh.typed), sh.out, sh.depth, sh.asks)
<1> DEFINE t == Tail(sh.typed)
<1>1. t \in Seq(Lines)
  BY HeadTailProperties DEF ShellType
<1>2. Line = [sh EXCEPT !.typed = t]
  BY DEF Line
<1> HIDE DEF t
<1>3. ShellIs(Line, sh, t, sh.out, sh.depth, sh.asks)
  BY <1>1, <1>2 DEF ShellType, ShellIs
<1>4. \A n \in Nat : ShellIs([Line EXCEPT !.tries = n], sh, t, sh.out, sh.depth, sh.asks)
  BY <1>3 DEF ShellType, ShellIs
<1>5. Line.tries + 1 \in Nat
  BY <1>3 DEF ShellType, ShellIs
<1>6. QED
  BY <1>3, <1>4, <1>5 DEF t

LEMMA AnswersIs ==
  ASSUME NEW s \in ShellType
  PROVE  /\ ShellIs(LogsIn(s), s, s.typed, s.out \o <<"text", "prompt">>, s.depth + 1, "shell")
         /\ \A what \in {"password", "hostkey"} : ShellIs(Asks(s, what), s, s.typed, s.out \o <<what>>, s.depth, what)
         /\ \A why \in {"refused", "noroute", "closed", "denied", "text"} :
              ShellIs(Back(s, why), s, s.typed, s.out \o <<why, "prompt">>, s.depth, "shell")
<1>1. <<"text", "prompt">> \in Seq(Tokens)
  BY DEF Tokens
<1>2. \A what \in {"password", "hostkey"} : <<what>> \in Seq(Tokens)
  BY DEF Tokens
<1>3. \A why \in {"refused", "noroute", "closed", "denied", "text"} : <<why, "prompt">> \in Seq(Tokens)
  BY DEF Tokens
<1>4. LET x == [s EXCEPT !.asks = "shell", !.depth = @ + 1] IN ShellIs(x, s, s.typed, s.out, s.depth + 1, "shell")
  <2> DEFINE n == s.depth + 1
  <2>1. n \in Int
    BY DEF ShellType
  <2> HIDE DEF n
  <2>2. LET x == [s EXCEPT !.asks = "shell", !.depth = n] IN ShellIs(x, s, s.typed, s.out, n, "shell")
    BY <2>1 DEF ShellIs, ShellType
  <2>3. QED
    BY <2>2 DEF n
<1>5. \A what \in {"shell", "password", "hostkey"} :
        LET x == [s EXCEPT !.asks = what] IN ShellIs(x, s, s.typed, s.out, s.depth, what)
  BY DEF ShellIs, ShellType
<1>6. ShellIs(LogsIn(s), s, s.typed, s.out \o <<"text", "prompt">>, s.depth + 1, "shell")
  <2> DEFINE x == [s EXCEPT !.asks = "shell", !.depth = @ + 1]
  <2>1. LogsIn(s) = Prints(x, <<"text", "prompt">>) /\ ShellIs(x, s, s.typed, s.out, s.depth + 1, "shell")
    BY <1>4 DEF LogsIn
  <2> HIDE DEF x
  <2>2. ShellIs(Prints(x, <<"text", "prompt">>), x, x.typed, x.out \o <<"text", "prompt">>, x.depth, x.asks)
    BY <1>1, <2>1, PrintsIs DEF ShellIs
  <2>3. QED
    BY <2>1, <2>2 DEF ShellIs
<1>7. ASSUME NEW what \in {"password", "hostkey"}
      PROVE  ShellIs(Asks(s, what), s, s.typed, s.out \o <<what>>, s.depth, what)
  <2> DEFINE x == [s EXCEPT !.asks = what]
  <2>1. Asks(s, what) = Prints(x, <<what>>) /\ ShellIs(x, s, s.typed, s.out, s.depth, what)
    BY <1>5 DEF Asks
  <2> HIDE DEF x
  <2>2. ShellIs(Prints(x, <<what>>), x, x.typed, x.out \o <<what>>, x.depth, x.asks)
    BY <1>2, <2>1, PrintsIs DEF ShellIs
  <2>3. QED
    BY <2>1, <2>2 DEF ShellIs
<1>8. ASSUME NEW why \in {"refused", "noroute", "closed", "denied", "text"}
      PROVE  ShellIs(Back(s, why), s, s.typed, s.out \o <<why, "prompt">>, s.depth, "shell")
  <2> DEFINE x == [s EXCEPT !.asks = "shell"]
  <2>1. Back(s, why) = Prints(x, <<why, "prompt">>) /\ ShellIs(x, s, s.typed, s.out, s.depth, "shell")
    BY <1>5 DEF Back
  <2> HIDE DEF x
  <2>2. ShellIs(Prints(x, <<why, "prompt">>), x, x.typed, x.out \o <<why, "prompt">>, x.depth, x.asks)
    BY <1>3, <2>1, PrintsIs DEF ShellIs
  <2>3. QED
    BY <2>1, <2>2 DEF ShellIs
<1>9. QED
  BY <1>6, <1>7, <1>8

LEMMA LeavesIs ==
  ASSUME NEW s \in ShellType, NEW t \in Seq(Tokens)
  PROVE  \E o : ShellIs(Leaves(s, t), s, s.typed, o, s.depth - 1, s.asks)
<1> DEFINE x == [s EXCEPT !.depth = @ - 1]
<1>1. ShellIs(x, s, s.typed, s.out, s.depth - 1, s.asks)
  <2> DEFINE n == s.depth - 1
  <2>1. n \in Int
    BY DEF ShellType
  <2>2. x = [s EXCEPT !.depth = n]
    OBVIOUS
  <2> HIDE DEF n
  <2>3. ShellIs([s EXCEPT !.depth = n], s, s.typed, s.out, n, s.asks)
    BY <2>1 DEF ShellIs, ShellType
  <2>4. QED
    BY <2>2, <2>3 DEF n
<1> HIDE DEF x
<1>2. t \o <<"prompt">> \in Seq(Tokens)
  <2>1. <<"prompt">> \in Seq(Tokens)
    BY DEF Tokens
  <2>2. QED
    BY <2>1, ConcatProperties
<1>3. \A r \in Seq(Tokens) : ShellIs(Prints(x, r), s, s.typed, x.out \o r, s.depth - 1, s.asks)
  BY <1>1, PrintsIs DEF ShellIs
<1>4. Leaves(s, t) = Prints(x, t) \/ Leaves(s, t) = Prints(x, t \o <<"prompt">>)
  BY DEF Leaves, x
<1>5. QED
  BY <1>2, <1>3, <1>4

\* What the actions of the remote side do: they take a line and answer.
Answered(next, out, depth) ==
  /\ Shell(sh') /\ ShellIs(sh', sh, Tail(sh.typed), out, depth, next)
Heard(line, asks) == call.pc = "shell" /\ sh.typed # <<>> /\ Head(sh.typed) = line /\ sh.asks = asks
Reasons == {"denied", "refused", "noroute", "closed"}
Failed == \E why \in Failures :
            /\ Answered("shell", sh.out \o <<why, "prompt">>, sh.depth)
            /\ astray' = IF why = "text" /\ astray = "no" THEN "words" ELSE astray

LEMMA LineThen ==
  ASSUME sh \in ShellType, sh.typed # <<>>, NEW x, x \in {Line, [Line EXCEPT !.tries = 0], [Line EXCEPT !.tries = @ + 1]}
  PROVE  /\ x \in ShellType
         /\ Shell(LogsIn(x)) => Answered("shell", sh.out \o <<"text", "prompt">>, sh.depth + 1)
         /\ \A what \in {"password", "hostkey"} : Shell(Asks(x, what)) => Answered(what, sh.out \o <<what>>, sh.depth)
         /\ \A why \in Failures : Shell(Back(x, why)) => Answered("shell", sh.out \o <<why, "prompt">>, sh.depth)
<1>1. ShellIs(x, sh, Tail(sh.typed), sh.out, sh.depth, sh.asks)
  BY LineIs
<1>2. x \in ShellType
  BY <1>1 DEF ShellIs
<1>3. \A s : Shell(s) => sh' = s /\ Shell(sh')
  BY DEF Shell
<1>4. ShellIs(LogsIn(x), x, x.typed, x.out \o <<"text", "prompt">>, x.depth + 1, "shell")
  BY <1>2, AnswersIs
<1>5. \A what \in {"password", "hostkey"} : ShellIs(Asks(x, what), x, x.typed, x.out \o <<what>>, x.depth, what)
  BY <1>2, AnswersIs
<1>6. \A why \in Failures : ShellIs(Back(x, why), x, x.typed, x.out \o <<why, "prompt">>, x.depth, "shell")
  BY <1>2, AnswersIs DEF Failures
<1>7. QED
  BY <1>1, <1>2, <1>3, <1>4, <1>5, <1>6 DEF Answered, ShellIs

LEMMA FailedIs ==
  ASSUME sh \in ShellType, sh.typed # <<>>, SshFails PROVE Failed
<1>1. PICK why \in Failures :
        /\ Shell(Back(Line, why))
        /\ astray' = IF why = "text" /\ astray = "no" THEN "words" ELSE astray
  BY DEF SshFails
<1>2. Answered("shell", sh.out \o <<why, "prompt">>, sh.depth)
  BY <1>1, LineThen
<1>3. QED
  BY <1>1, <1>2 DEF Failed

LEMMA RemoteDoes ==
  ASSUME TypeOK
  PROVE  /\ SshRuns =>
              /\ Heard("ssh", "shell") /\ UNCHANGED <<ran, leaked>>
              /\ \/ Answered("shell", sh.out \o <<"text", "prompt">>, sh.depth + 1) /\ UNCHANGED astray
                 \/ \E what \in {"password", "hostkey"} : Answered(what, sh.out \o <<what>>, sh.depth) /\ UNCHANGED astray
                 \/ Failed
         /\ HostKeyAnswered =>
              /\ Heard("yes", "hostkey") /\ UNCHANGED <<ran, leaked>>
              /\ \/ Answered("shell", sh.out \o <<"text", "prompt">>, sh.depth + 1) /\ UNCHANGED astray
                 \/ Answered("password", sh.out \o <<"password">>, sh.depth) /\ UNCHANGED astray
                 \/ Failed
         /\ PasswordTyped =>
              /\ Heard(Head(sh.typed), "password") /\ UNCHANGED leaked
              /\ ran' = IF Head(sh.typed) = "command" THEN ran \cup {0} ELSE ran
              /\ \/ Answered("shell", sh.out \o <<"text", "prompt">>, sh.depth + 1) /\ UNCHANGED astray
                 \/ Answered("password", sh.out \o <<"denied", "password">>, sh.depth) /\ UNCHANGED astray
                 \/ Failed
         /\ OtherLine =>
              \E line \in {"export", "yes", "password"} :
                 /\ Heard(line, "shell") /\ leaked' = (leaked \/ line = "password") /\ UNCHANGED <<ran, astray>>
                 /\ Answered("shell", sh.out \o <<"prompt">>, sh.depth)
         /\ CommandRuns =>
              /\ Heard("command", "shell") /\ ran' = ran \cup {sh.depth} /\ UNCHANGED <<leaked, astray>>
              /\ \E out : Answered("shell", out, sh.depth - 1)
         /\ UserExits =>
              /\ call.pc = "shell" /\ sh.hop > Len(call.hops) /\ sh.typed = <<>> /\ sh.asks = "shell" /\ Quiet /\ Shell(sh')
              /\ \E out : ShellIs(sh', sh, <<>>, out, sh.depth - 1, "shell")
<1>1. sh \in ShellType
  BY DEF TypeOK
<1>2. ASSUME SshRuns
      PROVE  /\ Heard("ssh", "shell") /\ UNCHANGED <<ran, leaked>>
             /\ \/ Answered("shell", sh.out \o <<"text", "prompt">>, sh.depth + 1) /\ UNCHANGED astray
                \/ \E what \in {"password", "hostkey"} : Answered(what, sh.out \o <<what>>, sh.depth) /\ UNCHANGED astray
                \/ Failed
  <2>1. Heard("ssh", "shell") /\ UNCHANGED <<ran, leaked>>
    BY <1>2 DEF SshRuns, Typed, Heard
  <2>2. CASE Shell(LogsIn(Line)) /\ UNCHANGED astray
    BY <1>1, <2>1, <2>2, LineThen DEF Heard
  <2>3. CASE \E what \in {"password", "hostkey"} : Shell(Asks([Line EXCEPT !.tries = 0], what)) /\ UNCHANGED astray
    BY <1>1, <2>1, <2>3, LineThen DEF Heard
  <2>4. CASE SshFails
    BY <1>1, <2>1, <2>4, FailedIs DEF Heard
  <2>5. QED
    BY <1>2, <2>1, <2>2, <2>3, <2>4 DEF SshRuns
<1>3. ASSUME HostKeyAnswered
      PROVE  /\ Heard("yes", "hostkey") /\ UNCHANGED <<ran, leaked>>
             /\ \/ Answered("shell", sh.out \o <<"text", "prompt">>, sh.depth + 1) /\ UNCHANGED astray
                \/ Answered("password", sh.out \o <<"password">>, sh.depth) /\ UNCHANGED astray
                \/ Failed
  <2>1. Heard("yes", "hostkey") /\ UNCHANGED <<ran, leaked>>
    BY <1>3 DEF HostKeyAnswered, Typed, Heard
  <2>2. CASE Shell(LogsIn(Line)) /\ UNCHANGED astray
    BY <1>1, <2>1, <2>2, LineThen DEF Heard
  <2>3. CASE Shell(Asks(Line, "password")) /\ UNCHANGED astray
    BY <1>1, <2>1, <2>3, LineThen DEF Heard
  <2>4. CASE SshFails
    BY <1>1, <2>1, <2>4, FailedIs DEF Heard
  <2>5. QED
    BY <1>3, <2>1, <2>2, <2>3, <2>4 DEF HostKeyAnswered
<1>4. ASSUME PasswordTyped
      PROVE  /\ Heard(Head(sh.typed), "password") /\ UNCHANGED leaked
             /\ ran' = IF Head(sh.typed) = "command" THEN ran \cup {0} ELSE ran
             /\ \/ Answered("shell", sh.out \o <<"text", "prompt">>, sh.depth + 1) /\ UNCHANGED astray
                \/ Answered("password", sh.out \o <<"denied", "password">>, sh.depth) /\ UNCHANGED astray
                \/ Failed
  <2>1. /\ Heard(Head(sh.typed), "password") /\ UNCHANGED leaked
        /\ ran' = IF Head(sh.typed) = "command" THEN ran \cup {0} ELSE ran
    BY <1>4 DEF PasswordTyped, Heard
  <2>2. CASE Shell(LogsIn(Line)) /\ UNCHANGED astray
    BY <1>1, <2>1, <2>2, LineThen DEF Heard
  <2>3. CASE Shell(Prints([Line EXCEPT !.tries = @ + 1], <<"denied", "password">>)) /\ UNCHANGED astray
    <3> DEFINE x == [Line EXCEPT !.tries = @ + 1]
    <3>1. ShellIs(x, sh, Tail(sh.typed), sh.out, sh.depth, "password")
      BY <1>1, <2>1, LineIs DEF Heard
    <3> HIDE DEF x
    <3>2. <<"denied", "password">> \in Seq(Tokens)
      BY DEF Tokens
    <3>3. ShellIs(Prints(x, <<"denied", "password">>), x, x.typed, x.out \o <<"denied", "password">>, x.depth, x.asks)
      BY <3>1, <3>2, PrintsIs DEF ShellIs
    <3>4. Shell(Prints(x, <<"denied", "password">>))
      BY <2>3 DEF x
    <3>5. Answered("password", sh.out \o <<"denied", "password">>, sh.depth)
      BY <3>1, <3>3, <3>4 DEF ShellIs, Shell, Answered
    <3>6. QED
      BY <2>1, <2>3, <3>5
  <2>4. CASE SshFails
    BY <1>1, <2>1, <2>4, FailedIs DEF Heard
  <2>5. QED
    BY <1>4, <2>1, <2>2, <2>3, <2>4 DEF PasswordTyped
<1>5. ASSUME OtherLine
      PROVE  \E line \in {"export", "yes", "password"} :
                /\ Heard(line, "shell") /\ leaked' = (leaked \/ line = "password") /\ UNCHANGED <<ran, astray>>
                /\ Answered("shell", sh.out \o <<"prompt">>, sh.depth)
  <2>1. PICK line \in {"export", "yes", "password"} : Typed(line, "shell") /\ leaked' = (leaked \/ line = "password")
    BY <1>5 DEF OtherLine
  <2>2. Shell(Prints(Line, <<"prompt">>)) /\ UNCHANGED <<ran, astray>> /\ Heard(line, "shell")
    BY <1>5, <2>1 DEF OtherLine, Typed, Heard
  <2>3. ShellIs(Line, sh, Tail(sh.typed), sh.out, sh.depth, "shell")
    BY <1>1, <2>2, LineIs DEF Heard
  <2>4. <<"prompt">> \in Seq(Tokens)
    BY DEF Tokens
  <2>5. ShellIs(Prints(Line, <<"prompt">>), Line, Line.typed, Line.out \o <<"prompt">>, Line.depth, Line.asks)
    BY <2>3, <2>4, PrintsIs DEF ShellIs
  <2>6. Answered("shell", sh.out \o <<"prompt">>, sh.depth)
    BY <2>2, <2>3, <2>5 DEF ShellIs, Shell, Answered
  <2>7. QED
    BY <2>1, <2>2, <2>6
<1>6. ASSUME CommandRuns
      PROVE  /\ Heard("command", "shell") /\ ran' = ran \cup {sh.depth} /\ UNCHANGED <<leaked, astray>>
             /\ \E out : Answered("shell", out, sh.depth - 1)
  <2> DEFINE t == [i \in 1..Output[world] |-> "text"]
  <2>1. t \in Seq(Tokens)
    <3>1. Output[world] \in Nat
      BY ConnectAssumption DEF TypeOK
    <3>2. QED
      BY <3>1 DEF Tokens
  <2>2. /\ Heard("command", "shell") /\ ran' = ran \cup {sh.depth} /\ UNCHANGED <<leaked, astray>> /\ Shell(Leaves(Line, t))
    BY <1>6 DEF CommandRuns, Typed, Heard
  <2> HIDE DEF t
  <2>3. ShellIs(Line, sh, Tail(sh.typed), sh.out, sh.depth, "shell")
    BY <1>1, <2>2, LineIs DEF Heard
  <2>4. PICK out : ShellIs(Leaves(Line, t), Line, Line.typed, out, Line.depth - 1, Line.asks)
    BY <2>1, <2>3, LeavesIs DEF ShellIs
  <2>5. Answered("shell", out, sh.depth - 1)
    BY <2>2, <2>3, <2>4 DEF ShellIs, Shell, Answered
  <2>6. QED
    BY <2>2, <2>5
<1>7. ASSUME UserExits
      PROVE  /\ call.pc = "shell" /\ sh.hop > Len(call.hops) /\ sh.typed = <<>> /\ sh.asks = "shell" /\ Quiet /\ Shell(sh')
             /\ \E out : ShellIs(sh', sh, <<>>, out, sh.depth - 1, "shell")
  <2>1. /\ call.pc = "shell" /\ sh.hop > Len(call.hops) /\ sh.typed = <<>> /\ sh.asks = "shell" /\ Quiet /\ Shell(Leaves(sh, <<>>))
    BY <1>7 DEF UserExits
  <2>2. sh' = Leaves(sh, <<>>) /\ Shell(sh')
    BY <2>1 DEF Shell
  <2>3. <<>> \in Seq(Tokens)
    BY EmptySeq
  <2>4. \E out : ShellIs(Leaves(sh, <<>>), sh, sh.typed, out, sh.depth - 1, sh.asks)
    BY <1>1, <2>3, LeavesIs
  <2>5. QED
    BY <2>1, <2>2, <2>4
<1>8. QED
  BY <1>2, <1>3, <1>4, <1>5, <1>6, <1>7

\* An ssh that ends unasked.
LEMMA SshEndsDoes ==
  ASSUME TypeOK, SshEnds
  PROVE  call.pc = "shell" /\ Shell(sh') /\ sh' \in ShellType /\ astray' = "gone" /\ UNCHANGED <<ran, leaked>>
<1>1. PICK why \in Failures, n \in 1..(IF sh.asks = "shell" THEN sh.depth - 1 ELSE sh.depth) :
        Shell(Back([sh EXCEPT !.depth = n], why))
  BY DEF SshEnds, Failures
<1>2. n \in Int /\ sh \in ShellType
  BY <1>1 DEF TypeOK, ShellType
<1> DEFINE x == [sh EXCEPT !.depth = n]
<1>3. x \in ShellType
  BY <1>2 DEF ShellType
<1> HIDE DEF x
<1>4. ShellIs(Back(x, why), x, x.typed, x.out \o <<why, "prompt">>, x.depth, "shell")
  BY <1>3, AnswersIs DEF Failures
<1>5. Shell(Back(x, why))
  BY <1>1 DEF x
<1>6. QED
  BY <1>4, <1>5 DEF Shell, ShellIs, SshEnds

LEMMA RemoteType == ASSUME TypeOK, Remote \/ SshEnds \/ UserExits PROVE TypeOK' /\ Shell(sh')
<1>1. Shell(sh') /\ sh' \in ShellType
  BY RemoteDoes, SshEndsDoes DEF Remote, Answered, ShellIs, Failed
<1>2. astray' \in {"no", "words", "gone"}
  BY RemoteDoes, SshEndsDoes DEF Remote, Failed, TypeOK, history, Quiet
<1>3. QED
  BY <1>1, <1>2 DEF Shell, TypeOK, CallOK, files

-----------------------------------------------------------------------------
\* Chunks of one token.

LEMMA ConcatIs ==
  ASSUME NEW S, NEW s \in Seq(S), NEW t \in Seq(S)
  PROVE  LET u == s \o t IN
         /\ u \in Seq(S) /\ Len(u) = Len(s) + Len(t)
         /\ \A i \in 1..Len(u) : u[i] = IF i <= Len(s) THEN s[i] ELSE t[i - Len(s)]
BY ConcatProperties, LenProperties

LEMMA RestIs ==
  ASSUME NEW S, NEW q \in Seq(S), q # <<>>
  PROVE  LET r == SubSeq(q, 2, Len(q)) IN
         /\ Len(q) \in Nat /\ Len(q) >= 1 /\ r \in Seq(S) /\ Len(r) = Len(q) - 1
         /\ \A i \in 1..Len(r) : r[i] = q[i + 1]
         /\ q[1] \in S /\ SubSeq(q, 1, 1) = <<q[1]>>
<1>1. Len(q) \in Nat /\ Len(q) >= 1
  BY LenProperties, EmptySeq
<1>2. q[1] \in S
  BY <1>1, ElementOfSeq
<1>3. SubSeq(q, 1, 1) = <<q[1]>>
  <2>1. \A i \in 1..1 : q[i] \in S
    BY <1>2
  <2> DEFINE t == SubSeq(q, 1, 1)
  <2>2. t \in Seq(S) /\ Len(t) = 1 /\ t[1] = q[1]
    BY <2>1, SubSeqProperties
  <2>3. LET u == <<q[1]>> IN u \in Seq(S) /\ Len(u) = 1 /\ u[1] = q[1]
    BY <1>2
  <2> HIDE DEF t
  <2> DEFINE u == <<q[1]>>
  <2>4. u \in Seq(S) /\ Len(t) = Len(u) /\ \A i \in 1..Len(t) : t[i] = u[i]
    BY <2>2, <2>3
  <2> HIDE DEF u
  <2>5. t = u
    BY <2>2, <2>4, SeqEqual
  <2>6. QED
    BY <2>5 DEF t, u
<1> DEFINE n == Len(q)
<1>e. n \in Int /\ 2 \in Int /\ \A i \in 2..n : q[i] \in S
  BY <1>1, ElementOfSeq
<1>4. /\ SubSeq(q, 2, n) \in Seq(S) /\ Len(SubSeq(q, 2, n)) = n - 1
      /\ \A i \in 1..n-1 : SubSeq(q, 2, n)[i] = q[i + 1]
  <2>1. /\ SubSeq(q, 2, n) \in Seq(S) /\ Len(SubSeq(q, 2, n)) = IF 2 <= n THEN n-2+1 ELSE 0
        /\ \A i \in 1..n-2+1 : SubSeq(q, 2, n)[i] = q[2+i-1]
    BY <1>e, SubSeqProperties
  <2> DEFINE r == SubSeq(q, 2, n)
  <2> HIDE DEF r
  <2>2. n - 2 + 1 = n - 1 /\ \A i \in 1..n-1 : 2 + i - 1 = i + 1 /\ i \in 1..n-2+1
    BY <1>1
  <2>3. \A i \in 1..n-1 : r[i] = q[i + 1]
    BY <2>1, <2>2 DEF r
  <2>4. Len(r) = n - 1
    <3>1. Len(r) = IF 2 <= n THEN n-2+1 ELSE 0
      BY <2>1 DEF r
    <3>2. n \in Nat /\ n >= 1
      BY <1>1
    <3> HIDE DEF n
    <3>3. QED
      BY <3>1, <3>2
  <2>5. QED
    BY <2>1, <2>3, <2>4 DEF r
<1>5. QED
  BY <1>1, <1>2, <1>3, <1>4

LEMMA TailOfConcat ==
  ASSUME NEW S, NEW s \in Seq(S), NEW t \in Seq(S), s # <<>>
  PROVE  Head(s \o t) = Head(s) /\ Tail(s \o t) = Tail(s) \o t
BY HeadTailProperties, ConcatProperties, LenProperties, EmptySeq

LEMMA OnesIs ==
  ASSUME NEW q \in Seq(Tokens)
  PROVE  Ones(q) \in Seq(Seq(Tokens)) /\ Len(Ones(q)) = Len(q) /\ \A i \in 1..Len(q) : Ones(q)[i] = <<q[i]>>
<1>1. DOMAIN q = 1..Len(q) /\ Len(q) \in Nat /\ \A i \in 1..Len(q) : q[i] \in Tokens
  BY LenProperties, ElementOfSeq
<1>2. Ones(q) = [i \in 1..Len(q) |-> <<q[i]>>]
  BY <1>1 DEF Ones
<1>3. \A i \in 1..Len(q) : <<q[i]>> \in Seq(Tokens)
  BY <1>1
<1>4. QED
  BY <1>1, <1>2, <1>3

LEMMA OnesFew ==
  /\ Ones(<<>>) = <<>>
  /\ \A a \in Tokens : Ones(<<a>>) = << <<a>> >>
  /\ \A a, b \in Tokens : Ones(<<a, b>>) = << <<a>>, <<b>> >>
<1>1. Ones(<<>>) = <<>>
  BY DEF Ones
<1>2. ASSUME NEW a \in Tokens PROVE Ones(<<a>>) = << <<a>> >>
  BY DEF Ones
<1>3. ASSUME NEW a \in Tokens, NEW b \in Tokens PROVE Ones(<<a, b>>) = << <<a>>, <<b>> >>
  BY DEF Ones
<1>4. QED
  BY <1>1, <1>2, <1>3

LEMMA Pushes ==
  ASSUME NEW c \in Seq(Seq(Tokens)), NEW q \in Seq(Tokens), q # <<>>
  PROVE  Append(c, SubSeq(q, 1, 1)) \o Ones(SubSeq(q, 2, Len(q))) = c \o Ones(q)
<1> DEFINE r == SubSeq(q, 2, Len(q))  e == SubSeq(q, 1, 1)  S == Seq(Tokens)
           x == Append(c, e) \o Ones(r)  y == c \o Ones(q)
<1>1. /\ Len(q) \in Nat /\ Len(q) >= 1 /\ r \in S /\ e \in S /\ e = <<q[1]>> /\ Len(r) = Len(q) - 1
      /\ \A i \in 1..Len(r) : r[i] = q[i + 1]
  BY RestIs, ElementOfSeq
<1>2. /\ Ones(r) \in Seq(S) /\ Len(Ones(r)) = Len(r) /\ \A i \in 1..Len(r) : Ones(r)[i] = <<q[i + 1]>>
  BY <1>1, OnesIs
<1>3. /\ Ones(q) \in Seq(S) /\ Len(Ones(q)) = Len(q) /\ \A i \in 1..Len(q) : Ones(q)[i] = <<q[i]>>
  BY OnesIs
<1>4. /\ Append(c, e) \in Seq(S) /\ Len(Append(c, e)) = Len(c) + 1 /\ Len(c) \in Nat
      /\ Append(c, e)[Len(c) + 1] = e /\ \A i \in 1..Len(c) : Append(c, e)[i] = c[i]
  BY <1>1, AppendProperties
<1> HIDE DEF r, e, S, x, y
<1>5. /\ x \in Seq(S) /\ Len(x) = Len(c) + Len(q)
      /\ \A i \in 1..Len(x) : x[i] = IF i <= Len(c) + 1 THEN Append(c, e)[i] ELSE Ones(r)[i - (Len(c) + 1)]
  <2>1. Append(c, e) \in Seq(S) /\ Ones(r) \in Seq(S)
    BY <1>2, <1>4
  <2>2. /\ x \in Seq(S) /\ Len(x) = Len(Append(c, e)) + Len(Ones(r))
        /\ \A i \in 1..Len(x) : x[i] = IF i <= Len(Append(c, e)) THEN Append(c, e)[i] ELSE Ones(r)[i - Len(Append(c, e))]
    BY <2>1, ConcatIs DEF x
  <2>3. Len(Append(c, e)) = Len(c) + 1 /\ Len(Ones(r)) = Len(q) - 1 /\ Len(c) \in Nat /\ Len(q) \in Nat
    BY <1>1, <1>2, <1>4
  <2>4. QED
    BY <2>2, <2>3
<1>6. /\ y \in Seq(S) /\ Len(y) = Len(c) + Len(q)
      /\ \A i \in 1..Len(y) : y[i] = IF i <= Len(c) THEN c[i] ELSE Ones(q)[i - Len(c)]
  <2>1. c \in Seq(S)
    BY DEF S
  <2>2. /\ y \in Seq(S) /\ Len(y) = Len(c) + Len(Ones(q))
        /\ \A i \in 1..Len(y) : y[i] = IF i <= Len(c) THEN c[i] ELSE Ones(q)[i - Len(c)]
    BY <1>3, <2>1, ConcatIs DEF y
  <2>3. QED
    BY <1>3, <2>2
<1>7. ASSUME NEW i \in 1..Len(x) PROVE x[i] = y[i]
  <2>1. i \in Nat /\ i \in 1..Len(y)
    BY <1>5, <1>6
  <2>2. CASE i <= Len(c)
    BY <1>4, <1>5, <1>6, <2>1, <2>2
  <2>3. CASE i = Len(c) + 1
    <3>1. x[i] = e
      BY <1>4, <1>5, <2>3
    <3>2. y[i] = Ones(q)[1]
      BY <1>4, <1>6, <2>1, <2>3
    <3>3. Ones(q)[1] = <<q[1]>>
      BY <1>1, <1>3
    <3>4. QED
      BY <1>1, <3>1, <3>2, <3>3
  <2>4. CASE i > Len(c) + 1
    <3> DEFINE j == i - (Len(c) + 1)
    <3>1. j \in 1..Len(r) /\ j + 1 \in 1..Len(q) /\ j + 1 = i - Len(c)
      BY <1>1, <1>4, <1>5, <2>1, <2>4
    <3>2. x[i] = Ones(r)[j]
      BY <1>4, <1>5, <2>4
    <3>3. y[i] = Ones(q)[j + 1]
      BY <1>4, <1>6, <2>1, <2>4, <3>1
    <3> HIDE DEF j
    <3>4. QED
      BY <1>2, <1>3, <3>1, <3>2, <3>3
  <2>5. QED
    BY <1>4, <2>1, <2>2, <2>3, <2>4
<1>8. QED
  BY <1>5, <1>6, <1>7, SeqEqual DEF x, y, r, e

\* What is on its way to the conductor, and what is left when it has taken a chunk.
LEMMA Pulls ==
  ASSUME NEW c \in Seq(Seq(Tokens)), NEW q \in Seq(Tokens), c # <<>>,
         NEW a \in Tokens, NEW b \in Tokens
  PROVE  /\ c \o Ones(q) = Ones(<<a>>) => Head(c) = <<a>> /\ Tail(c) \o Ones(q) = Ones(<<>>)
         /\ c \o Ones(q) = Ones(<<a, b>>) => Head(c) = <<a>> /\ Tail(c) \o Ones(q) = Ones(<<b>>)
<1> DEFINE S == Seq(Tokens)  t == c \o Ones(q)  u == Tail(c) \o Ones(q)
<1>1. Ones(q) \in Seq(S)
  BY OnesIs
<1>2. Head(t) = Head(c) /\ Tail(t) = u
  BY <1>1, TailOfConcat
<1>3. /\ Head(<< <<a>> >>) = <<a>> /\ Tail(<< <<a>> >>) = <<>>
      /\ Head(<< <<a>>, <<b>> >>) = <<a>> /\ Tail(<< <<a>>, <<b>> >>) = << <<b>> >>
  OBVIOUS
<1>4. /\ <<a>> \in S /\ <<b>> \in S /\ Ones(<<>>) = <<>> /\ Ones(<<a>>) = << <<a>> >> /\ Ones(<<b>>) = << <<b>> >>
      /\ Ones(<<a, b>>) = << <<a>>, <<b>> >>
  BY OnesFew
<1> HIDE DEF S, t, u
<1>5. t = Ones(<<a>>) => Head(c) = <<a>> /\ u = Ones(<<>>)
  BY <1>2, <1>3, <1>4
<1>6. t = Ones(<<a, b>>) => Head(c) = <<a>> /\ u = Ones(<<b>>)
  BY <1>2, <1>3, <1>4
<1>7. QED
  BY <1>5, <1>6 DEF t, u

LEMMA Silent ==
  ASSUME NEW c \in Seq(Seq(Tokens)), NEW q \in Seq(Tokens)
  PROVE  c \o Ones(q) = Ones(<<>>) => c = <<>> /\ q = <<>>
<1>1. Ones(q) \in Seq(Seq(Tokens)) /\ Len(Ones(q)) = Len(q)
  BY OnesIs
<1>2. Len(c \o Ones(q)) = Len(c) + Len(q) /\ Len(c) \in Nat /\ Len(q) \in Nat
  BY <1>1, ConcatProperties, LenProperties
<1>3. Len(c) = 0 => c = <<>>
  BY EmptySeq
<1>4. Len(q) = 0 => q = <<>>
  BY EmptySeq
<1>5. QED
  BY <1>2, <1>3, <1>4, OnesFew

-----------------------------------------------------------------------------
\* What the reader and the conductor do.
Same(x, s) == x \in ShellType /\ x.typed = s.typed /\ x.depth = s.depth /\ x.asks = s.asks

LEMMA ReadsDoes ==
  ASSUME TypeOK, Reads
  PROVE  /\ call.pc = "shell" /\ Quiet /\ Shell(sh') /\ Same(sh', sh) /\ sh'.hop = sh.hop /\ sh'.acc = sh.acc
         /\ world \notin Coalesced => sh'.chan \o Ones(sh'.out) = sh.chan \o Ones(sh.out)
<1>1. sh \in ShellType /\ sh.out \in Seq(Tokens) /\ sh.chan \in Seq(Seq(Tokens)) /\ sh.out # <<>>
  BY DEF TypeOK, ShellType, Reads
<1>2. PICK n \in 1..Len(sh.out) :
        /\ world \notin Coalesced => n = 1
        /\ \E h \in BOOLEAN : Shell([sh EXCEPT !.out = SubSeq(sh.out, n + 1, Len(sh.out)), !.chan = Append(sh.chan, SubSeq(sh.out, 1, n)), !.held = h])
  <2>1. PICK n \in (IF world \in Coalesced THEN 1..Len(sh.out) ELSE {1}) :
          Shell(IF Len(sh.chan) < ChanCap THEN [sh EXCEPT !.out = SubSeq(sh.out, n + 1, Len(sh.out)), !.chan = Append(@, SubSeq(sh.out, 1, n))]
                ELSE [sh EXCEPT !.out = SubSeq(sh.out, n + 1, Len(sh.out)), !.chan = Append(@, SubSeq(sh.out, 1, n)), !.held = TRUE])
    BY DEF Reads
  <2>2. n \in 1..Len(sh.out)
    BY <1>1, <2>1, RestIs
  <2> DEFINE o == SubSeq(sh.out, n + 1, Len(sh.out))  c == Append(sh.chan, SubSeq(sh.out, 1, n))
  <2>3. \A v, w : [sh EXCEPT !.out = v, !.chan = w] = [sh EXCEPT !.out = v, !.chan = w, !.held = sh.held]
    BY <1>1 DEF ShellType
  <2>4. sh.held \in BOOLEAN
    BY <1>1 DEF ShellType
  <2>5. Shell(IF Len(sh.chan) < ChanCap THEN [sh EXCEPT !.out = o, !.chan = c] ELSE [sh EXCEPT !.out = o, !.chan = c, !.held = TRUE])
    BY <2>1
  <2> HIDE DEF o, c
  <2>6. \E h \in BOOLEAN : Shell([sh EXCEPT !.out = o, !.chan = c, !.held = h])
    BY <2>3, <2>4, <2>5
  <2>7. QED
    BY <2>1, <2>2, <2>6 DEF o, c
<1> DEFINE o == SubSeq(sh.out, n + 1, Len(sh.out))  e == SubSeq(sh.out, 1, n)  c == Append(sh.chan, e)
<1>3. o \in Seq(Tokens) /\ e \in Seq(Tokens)
  <2>1. \A i \in 1..Len(sh.out) : sh.out[i] \in Tokens
    BY <1>1, ElementOfSeq
  <2>2. Len(sh.out) \in Nat
    BY <1>1, LenProperties
  <2>3. (\A i \in n+1..Len(sh.out) : sh.out[i] \in Tokens) /\ (\A i \in 1..n : sh.out[i] \in Tokens)
    BY <2>1, <2>2
  <2>4. QED
    BY <2>2, <2>3, SubSeqProperties
<1>4. c \in Seq(Seq(Tokens))
  BY <1>1, <1>3, AppendProperties
<1>5. world \notin Coalesced => c \o Ones(o) = sh.chan \o Ones(sh.out)
  <2> SUFFICES ASSUME world \notin Coalesced PROVE c \o Ones(o) = sh.chan \o Ones(sh.out)
    OBVIOUS
  <2>1. n = 1
    BY <1>2
  <2>2. o = SubSeq(sh.out, 2, Len(sh.out)) /\ c = Append(sh.chan, SubSeq(sh.out, 1, 1))
    BY <2>1
  <2> HIDE DEF o, c
  <2>3. QED
    BY <1>1, <2>2, Pushes
<1>6. PICK h \in BOOLEAN : Shell([sh EXCEPT !.out = o, !.chan = c, !.held = h])
  BY <1>2
<1> HIDE DEF o, c, e
<1>7. sh' = [sh EXCEPT !.out = o, !.chan = c, !.held = h] /\ Shell(sh')
  BY <1>6 DEF Shell
<1>8. Same(sh', sh) /\ sh'.hop = sh.hop /\ sh'.acc = sh.acc /\ sh'.chan = c /\ sh'.out = o
  BY <1>1, <1>3, <1>4, <1>7 DEF ShellType, Same
<1>9. QED
  BY <1>5, <1>7, <1>8 DEF Reads

LEMMA SendsDoes ==
  ASSUME TypeOK, Sends
  PROVE  /\ call.pc = "shell" /\ Quiet /\ Shell(sh') /\ Same(sh', sh) /\ sh'.hop = sh.hop /\ sh'.acc = sh.acc
         /\ sh'.chan = sh.chan /\ sh'.out = sh.out
<1>1. sh' = [sh EXCEPT !.held = FALSE] /\ Shell(sh') /\ call.pc = "shell" /\ Quiet
  BY DEF Sends, Shell
<1>2. QED
  BY <1>1 DEF TypeOK, ShellType, Same

\* The conductor takes a chunk, and types a line or none.
Taken(hop, typed) ==
  /\ Shell(sh') /\ Quiet /\ sh' \in ShellType /\ sh'.hop = hop /\ sh'.typed = typed
  /\ sh'.chan = Tail(sh.chan) /\ sh'.out = sh.out /\ sh'.depth = sh.depth /\ sh'.asks = sh.asks

LEMMA ConductsDoes ==
  ASSUME TypeOK, Conducts, ~Fail
  PROVE  /\ call.pc = "shell" /\ sh.hop <= Len(call.hops) /\ sh.chan # <<>>
         /\ LET acc == sh.acc \o Head(sh.chan)  hit == Hit(acc) IN
            /\ sh'.acc = IF hit = "none" THEN acc ELSE <<>>
            /\ \/ hit = "none" /\ Taken(sh.hop, sh.typed)
               \/ hit = "prompt" /\ sh.hop = Len(call.hops) /\ Taken(sh.hop + 1, sh.typed \o <<"export", "command">>)
               \/ hit = "prompt" /\ sh.hop < Len(call.hops) /\ Taken(sh.hop + 1, Append(sh.typed, "ssh"))
               \/ hit = "password" /\ Taken(sh.hop, Append(sh.typed, "password"))
               \/ hit = "hostkey" /\ Taken(sh.hop, Append(sh.typed, "yes"))
<1> DEFINE acc == sh.acc \o Head(sh.chan)
           hit == Hit(acc)
           new == IF hit = "none" THEN acc ELSE <<>>
           rest == Tail(sh.chan)
           taken == [sh EXCEPT !.chan = rest, !.acc = new]
           typedIt(line) == [taken EXCEPT !.typed = Append(@, line)]
<1>1. call.pc = "shell" /\ sh.hop <= Len(call.hops) /\ sh.chan # <<>>
  BY DEF Conducts
<1>2. /\ sh \in ShellType /\ sh.hop \in Nat /\ sh.typed \in Seq(Lines) /\ sh.chan \in Seq(Seq(Tokens)) /\ sh.acc \in Seq(Tokens)
  BY DEF TypeOK, ShellType
<1>3. rest \in Seq(Seq(Tokens)) /\ Head(sh.chan) \in Seq(Tokens)
  BY <1>1, <1>2, HeadTailProperties
<1>4. acc \in Seq(Tokens) /\ new \in Seq(Tokens)
  BY <1>2, <1>3, ConcatProperties, EmptySeq
<1>5. \A line \in Lines : Append(sh.typed, line) \in Seq(Lines)
  BY <1>2, AppendProperties
<1>6. sh.typed \o <<"export", "command">> \in Seq(Lines)
  <2>1. <<"export", "command">> \in Seq(Lines)
    BY DEF Lines
  <2>2. QED
    BY <1>2, <2>1, ConcatProperties
<1>7. /\ Quiet
      /\ \/ hit = "none" /\ Shell(taken)
         \/ hit = "prompt" /\ sh.hop = Len(call.hops) /\ Shell(Handed(taken))
         \/ hit = "prompt" /\ sh.hop < Len(call.hops) /\ Shell([typedIt("ssh") EXCEPT !.hop = @ + 1])
         \/ hit = "password" /\ Shell(typedIt("password"))
         \/ hit = "hostkey" /\ Shell(typedIt("yes"))
  BY DEF Conducts
<1> DEFINE Out(x, hop, typed) == /\ x \in ShellType /\ x.hop = hop /\ x.typed = typed /\ x.acc = new
                                 /\ x.chan = rest /\ x.out = sh.out /\ x.depth = sh.depth /\ x.asks = sh.asks
<1> HIDE DEF acc, hit, new, rest
<1>8. Out(taken, sh.hop, sh.typed)
  BY <1>2, <1>3, <1>4 DEF ShellType
<1>9. \A v \in Nat, w \in Seq(Lines) :
        /\ Out([taken EXCEPT !.typed = w], sh.hop, w) /\ Out([taken EXCEPT !.hop = v, !.typed = w], v, w)
        /\ Out([[taken EXCEPT !.typed = w] EXCEPT !.hop = v], v, w)
  BY <1>2, <1>3, <1>4 DEF ShellType
<1>10. taken.hop = sh.hop /\ taken.typed = sh.typed /\ sh.hop + 1 \in Nat
  BY <1>2 DEF ShellType
<1>11. Out(Handed(taken), sh.hop + 1, sh.typed \o <<"export", "command">>)
  <2> DEFINE w == sh.typed \o <<"export", "command">>  v == sh.hop + 1
  <2> HIDE DEF taken
  <2>1. Handed(taken) = [taken EXCEPT !.hop = v, !.typed = w]
    BY <1>10 DEF Handed
  <2> HIDE DEF w, v, Out
  <2>2. w \in Seq(Lines) /\ v \in Nat
    BY <1>6, <1>10 DEF w, v
  <2>3. Out([taken EXCEPT !.hop = v, !.typed = w], v, w)
    BY <1>9, <2>2
  <2>4. QED
    BY <2>1, <2>3 DEF w, v
<1>12. Out([typedIt("ssh") EXCEPT !.hop = @ + 1], sh.hop + 1, Append(sh.typed, "ssh"))
  <2> DEFINE w == Append(sh.typed, "ssh")  v == sh.hop + 1
  <2> HIDE DEF taken
  <2>0. "ssh" \in Lines
    BY DEF Lines
  <2>1. w \in Seq(Lines) /\ typedIt("ssh") = [taken EXCEPT !.typed = w] /\ v \in Nat
    BY <1>5, <1>10, <2>0
  <2>2. [taken EXCEPT !.typed = w].hop = sh.hop
    BY <1>9, <2>1
  <2> HIDE DEF w, Out, typedIt
  <2>3. [typedIt("ssh") EXCEPT !.hop = @ + 1] = [[taken EXCEPT !.typed = w] EXCEPT !.hop = v]
    BY <2>1, <2>2
  <2> HIDE DEF v
  <2>4. Out([[taken EXCEPT !.typed = w] EXCEPT !.hop = v], v, w)
    BY <1>9, <2>1
  <2>5. QED
    BY <2>3, <2>4 DEF w, v
<1>13. \A line \in Lines : Out(typedIt(line), sh.hop, Append(sh.typed, line))
  BY <1>5, <1>9, <1>10
<1>14. "password" \in Lines /\ "yes" \in Lines
  BY DEF Lines
<1>15. \A s, hop, typed : Shell(s) /\ Out(s, hop, typed) => sh'.acc = new /\ Taken(hop, typed)
  <2> SUFFICES ASSUME NEW s, NEW hop, NEW typed, Shell(s), Out(s, hop, typed) PROVE sh'.acc = new /\ Taken(hop, typed)
    OBVIOUS
  <2>1. sh' = s /\ Shell(sh')
    BY DEF Shell
  <2>2. QED
    BY <1>7, <2>1 DEF Taken, rest
<1> HIDE DEF typedIt, taken, Out
<1>16. /\ sh'.acc = new
       /\ \/ hit = "none" /\ Taken(sh.hop, sh.typed)
          \/ hit = "prompt" /\ sh.hop = Len(call.hops) /\ Taken(sh.hop + 1, sh.typed \o <<"export", "command">>)
          \/ hit = "prompt" /\ sh.hop < Len(call.hops) /\ Taken(sh.hop + 1, Append(sh.typed, "ssh"))
          \/ hit = "password" /\ Taken(sh.hop, Append(sh.typed, "password"))
          \/ hit = "hostkey" /\ Taken(sh.hop, Append(sh.typed, "yes"))
  BY <1>7, <1>8, <1>11, <1>12, <1>13, <1>14, <1>15
<1>17. QED
  BY <1>1, <1>16 DEF acc, hit, new

LEMMA LocalType ==
  ASSUME TypeOK, Reads \/ Sends \/ (Conducts /\ ~Fail)
  PROVE  TypeOK' /\ Shell(sh')
<1>1. Shell(sh') /\ sh' \in ShellType /\ Quiet
  BY ReadsDoes, SendsDoes, ConductsDoes DEF Same, Taken
<1>2. QED
  BY <1>1 DEF Shell, TypeOK, CallOK, files, Quiet, history

-----------------------------------------------------------------------------
\* A step of the call that leaves its route alone.
Moves(pc, half, after) ==
  /\ CallOK(call') /\ call'.pc = pc /\ call'.half = half /\ call'.after = after
  /\ call'.kind = call.kind /\ call'.dest = call.dest /\ call'.override = call.override /\ call'.own = call.own
  /\ call'.via = call.via /\ call'.row = call.row /\ call'.part = call.part /\ call'.todo = call.todo /\ call'.hops = call.hops

LEMMA MovesIs ==
  ASSUME TypeOK, call.pc # "idle", NEW pc \in Pcs, pc # "hops", NEW half \in BOOLEAN, NEW after \in {"idle", "redial"},
         call' = [call EXCEPT !.pc = pc, !.half = half, !.after = after]
  PROVE  Moves(pc, half, after)
BY DEF TypeOK, CallOK, CallType, Moves

LEMMA CallFields ==
  ASSUME TypeOK
  PROVE  /\ call.half \in BOOLEAN /\ call.after \in {"idle", "redial"} /\ call.hops \in Seq(Servers) /\ call.pc \in Pcs
         /\ \A pc, half, after :
              /\ [call EXCEPT !.pc = pc] = [call EXCEPT !.pc = pc, !.half = call.half, !.after = call.after]
              /\ [call EXCEPT !.half = half] = [call EXCEPT !.pc = call.pc, !.half = half, !.after = call.after]
              /\ [call EXCEPT !.half = half, !.pc = pc] = [call EXCEPT !.pc = pc, !.half = half, !.after = call.after]
              /\ [call EXCEPT !.pc = pc, !.after = after] = [call EXCEPT !.pc = pc, !.half = call.half, !.after = after]
BY DEF TypeOK, CallOK, CallType

LEMMA FailDoes ==
  ASSUME TypeOK, Fail, call.pc # "idle"
  PROVE  Moves("close", FALSE, call.after) /\ sh' = NoShell /\ UNCHANGED <<world, d, seen, key, known, accepted, open, ran, leaked, astray>>
<1>1. call' = [call EXCEPT !.pc = "close", !.half = FALSE, !.after = call.after]
  BY FailRest, CallFields
<1>2. QED
  BY <1>1, FailRest, CallFields, MovesIs DEF Pcs

\* The steps that do no more than move the call.
Quits == Return \/ WebReturns \/ ConductTimesOut \/ ShellOver \/ (Conducts /\ Fail)
LEMMA QuitsDo ==
  ASSUME TypeOK, Quits
  PROVE  call.pc \in {"use", "web", "shell"} /\ call.pc # "idle" /\ Fail
BY DEF Quits, Return, WebReturns, ConductTimesOut, ShellOver, Conducts

LEMMA DialViaDoes ==
  ASSUME TypeOK, DialVia PROVE call.pc = "dial" /\ open # {} /\ Moves("dial", TRUE, call.after) /\ Rest /\ UNCHANGED <<d, seen>>
<1>1. call' = [call EXCEPT !.pc = "dial", !.half = TRUE, !.after = call.after]
  BY StepRest, CallFields DEF DialVia
<1>2. QED
  BY <1>1, CallFields, MovesIs, StepRest DEF DialVia, Pcs

LEMMA HandshakeDoes ==
  ASSUME TypeOK, Handshake
  PROVE  /\ call.pc = "dial" /\ Moves("dial", FALSE, call.after) /\ open' = open \cup {Cardinality(open) + 1}
         /\ UNCHANGED <<world, d, seen, key, known, sh, web, ran, leaked, astray>>
         /\ \E s : Accepts(s, "inner")
<1>1. call' = [call EXCEPT !.pc = "dial", !.half = FALSE, !.after = call.after]
  BY CallFields DEF Handshake
<1>2. QED
  BY <1>1, CallFields, MovesIs DEF Handshake, Pcs, files, terminals, Accepts, history

LEMMA DialFailsDoes ==
  ASSUME TypeOK, NEW eof \in BOOLEAN, DialFails(eof)
  PROVE  /\ call.pc = "dial" /\ Rest /\ UNCHANGED <<d, seen>>
         /\ \E after \in {"idle", "redial"} : Moves("close", FALSE, after)
<1>1. PICK after \in {"idle", "redial"} : call' = Go([call EXCEPT !.half = FALSE, !.after = after], "close")
  BY StepRest DEF DialFails
<1>2. call' = [call EXCEPT !.pc = "close", !.half = FALSE, !.after = after]
  BY <1>1 DEF Go, TypeOK, CallOK, CallType
<1>3. QED
  BY <1>2, MovesIs, StepRest DEF DialFails, Pcs

LEMMA CloseAllDoes ==
  ASSUME TypeOK, CloseAll
  PROVE  /\ call.pc = "close" /\ UNCHANGED <<world, d, seen, key, known, accepted, sh, web, ran, leaked, astray>>
         /\ \/ open # {} /\ open' = open \ {Max(open)} /\ UNCHANGED call
            \/ open = {} /\ UNCHANGED open /\ call' = Idle
            \/ open = {} /\ UNCHANGED open /\ call.after = "redial" /\ Moves("redial", call.half, call.after)
<1>1. call.pc = "close" /\ UNCHANGED <<world, d, seen, key, known, accepted, sh, web, ran, leaked, astray>>
  BY DEF CloseAll, files, terminals, history
<1>2. CASE call' = Go(call, "redial") /\ call.pc = "close"
  <2>1. call' = [call EXCEPT !.pc = "redial", !.half = call.half, !.after = call.after]
    BY <1>2, CallFields DEF Go
  <2>2. Moves("redial", call.half, call.after)
    BY <1>2, <2>1, CallFields, MovesIs DEF Pcs
  <2>3. QED
    BY <1>1, <2>2, CallFields DEF CloseAll, Idle, Go
<1>3. QED
  BY <1>1, <1>2, CallFields DEF CloseAll

LEMMA UseDoes ==
  ASSUME TypeOK, Use
  PROVE  /\ call.pc = "dial" /\ UNCHANGED <<world, d, seen, key, known, accepted, open, sh, leaked, astray>>
         /\ ran' = ran \/ ran' = {Len(call.hops)}
         /\ \E pc \in {"web", "use"} : Moves(pc, call.half, call.after)
<1>1. PICK pc \in {"web", "use"} : call' = [call EXCEPT !.pc = pc, !.half = call.half, !.after = call.after]
  BY CallFields DEF Use, Go
<1>0. call.pc = "dial"
  BY DEF Use
<1>2. Moves(pc, call.half, call.after)
  BY <1>0, <1>1, CallFields, MovesIs DEF Pcs
<1>3. QED
  BY <1>2 DEF Use, files

Entry == [key : Servers \X KeyTypes \X Nat, how : Ways]
LEMMA AcceptsType ==
  ASSUME TypeOK, NEW s, NEW way \in Ways, Accepts(s, way)
  PROVE  accepted' \in [Servers -> Seq(Entry)] /\ UNCHANGED key
<1> DEFINE e == [key |-> Shown(s), how |-> way]
<1>1. s \in Servers => e \in Entry
  BY DEF TypeOK, Shown, KeyTypes, Entry
<1>2. accepted \in [Servers -> Seq(Entry)]
  BY DEF TypeOK, Entry
<1>3. accepted' = [accepted EXCEPT ![s] = Append(accepted[s], e)]
  BY DEF Accepts
<1> HIDE DEF e
<1>4. s \in Servers => Append(accepted[s], e) \in Seq(Entry)
  BY <1>1, <1>2, AppendProperties
<1>5. accepted' \in [Servers -> Seq(Entry)]
  BY <1>2, <1>3, <1>4
<1>6. QED
  BY <1>5 DEF Accepts

LEMMA MetType ==
  ASSUME TypeOK, NEW s, Met(s)
  PROVE  accepted' \in [Servers -> Seq(Entry)] /\ UNCHANGED key
<1>1. PICK way \in Ways : Accepts(s, way)
  BY DEF Met, Ways
<1>2. QED
  BY <1>1, AcceptsType

LEMMA DialFirstDoes ==
  ASSUME TypeOK, DialFirst
  PROVE  /\ call.pc = "dial" /\ open' = {1} /\ UNCHANGED <<world, d, seen, call, sh, web, ran, leaked, astray>>
         /\ \E s : Met(s)
BY DEF DialFirst, terminals, history

LEMMA RedialDoes ==
  ASSUME TypeOK, Redial
  PROVE  /\ call.pc = "redial" /\ open' = {1} /\ UNCHANGED <<world, d, seen, web, ran, leaked, astray>>
         /\ \E s : Met(s)
         /\ Moves("shell", call.half, "idle")
         /\ sh' \in ShellType /\ sh'.hop = 1 /\ sh'.depth = 1 /\ sh'.out = <<"text", "prompt">> /\ sh'.chan = <<>>
         /\ sh'.acc = <<>> /\ sh'.typed = <<>> /\ sh'.asks = "shell"
<1>1. call.pc = "redial" /\ open' = {1} /\ UNCHANGED <<world, d, seen, web, ran, leaked, astray>>
  BY DEF Redial, history
<1>2. \E s : Met(s)
  BY DEF Redial
<1>3. call' = [call EXCEPT !.pc = "shell", !.half = call.half, !.after = "idle"]
  BY CallFields DEF Redial
<1>4. Moves("shell", call.half, "idle")
  BY <1>1, <1>3, CallFields, MovesIs DEF Pcs
<1> DEFINE o == <<"text", "prompt">>
<1>5. o \in Seq(Tokens)
  BY DEF Tokens
<1>6. sh' = [NoShell EXCEPT !.hop = 1, !.depth = 1, !.out = o]
  BY DEF Redial
<1> HIDE DEF o
<1>7. /\ sh' \in ShellType /\ sh'.hop = 1 /\ sh'.depth = 1 /\ sh'.out = o /\ sh'.chan = <<>>
      /\ sh'.acc = <<>> /\ sh'.typed = <<>> /\ sh'.asks = "shell"
  <2>1. NoShell \in ShellType /\ NoShell.chan = <<>> /\ NoShell.acc = <<>> /\ NoShell.typed = <<>> /\ NoShell.asks = "shell"
    BY Empties DEF NoShell
  <2>2. ASSUME NEW n \in ShellType, NEW x, x = [n EXCEPT !.hop = 1, !.depth = 1, !.out = o]
        PROVE  /\ x \in ShellType /\ x.hop = 1 /\ x.depth = 1 /\ x.out = o
               /\ x.chan = n.chan /\ x.acc = n.acc /\ x.typed = n.typed /\ x.asks = n.asks
    <3> DEFINE i == 1
    <3>1. i \in Nat /\ i \in Int /\ x = [n EXCEPT !.hop = i, !.depth = i, !.out = o]
      BY <2>2
    <3> HIDE DEF i
    <3>2. /\ x \in ShellType /\ x.hop = i /\ x.depth = i /\ x.out = o
          /\ x.chan = n.chan /\ x.acc = n.acc /\ x.typed = n.typed /\ x.asks = n.asks
      BY <1>5, <2>2, <3>1 DEF ShellType
    <3>3. QED
      BY <3>2 DEF i
  <2>3. QED
    BY <1>6, <2>1, <2>2
<1>8. QED
  BY <1>1, <1>2, <1>4, <1>7 DEF o

LEMMA RedialFailsDoes ==
  ASSUME TypeOK, RedialFails
  PROVE  call.pc = "redial" /\ Moves("close", call.half, "idle") /\ Rest /\ UNCHANGED <<d, seen>>
<1>1. call' = [call EXCEPT !.pc = "close", !.half = call.half, !.after = "idle"]
  BY StepRest, CallFields DEF RedialFails
<1>2. QED
  BY <1>1, CallFields, MovesIs, StepRest DEF RedialFails, Pcs

-----------------------------------------------------------------------------
\* The invariants, one after the other.

\* Types.
LEMMA Begins1 ==
  ASSUME TypeOK, NEW c, Begins(c)
  PROVE  /\ call' = c /\ seen' = {d} /\ ran' = {} /\ leaked' = FALSE /\ astray' = "no"
         /\ UNCHANGED <<world, d, key, known, accepted, open, sh, web>>
BY DEF Begins, files

LEMMA OneIs == ASSUME NEW S, NEW s \in S PROVE <<s>> \in Seq(S)
OBVIOUS

LEMMA BeginDoes ==
  ASSUME TypeOK, NEW kind \in Kinds[world], NEW s \in Servers, NEW o \in {"", "none"} \cup Profiles, Begin(kind, s, o)
  PROVE  /\ call.pc = "idle" /\ CallOK(call') /\ call'.dest = s /\ call'.half = FALSE /\ call'.after = "idle" /\ call'.via = 0
         /\ call'.part = "none" /\ Begins(call')
         /\ \/ call'.pc = "profile" /\ call'.own = d.own[s] /\ call'.hops = <<>>
            \/ call'.pc = "dial" /\ call'.hops = <<s>> /\ s \notin d.servers
<1> DEFINE c == [Idle EXCEPT !.kind = kind, !.dest = s, !.override = o]
<1>1. kind \in CallKinds /\ d \in Databases
  BY ConnectAssumption DEF TypeOK
<1>2. d.own[s] \in Routes \cup {0} /\ <<s>> \in Seq(Servers)
  <2>1. d.own \in [Servers -> Routes \cup {0}]
    BY <1>1 DEF Databases
  <2>2. <<s>> \in Seq(Servers)
    BY OneIs
  <2>3. QED
    BY <2>1, <2>2
<1>3. /\ c \in CallType /\ c.dest = s /\ c.half = FALSE /\ c.after = "idle" /\ c.via = 0 /\ c.part = "none" /\ c.hops = <<>>
  BY <1>1, Empties DEF Idle, CallType
<1> HIDE DEF c
<1>4. CASE Begins([c EXCEPT !.pc = "profile", !.own = d.own[s]])
  <2> DEFINE v == d.own[s]
  <2>1. call' = [c EXCEPT !.pc = "profile", !.own = v] /\ Begins(call')
    BY <1>4, Begins1
  <2> HIDE DEF v
  <2>2. /\ CallOK(call') /\ call'.dest = s /\ call'.half = FALSE /\ call'.after = "idle" /\ call'.via = 0 /\ call'.part = "none"
        /\ call'.pc = "profile" /\ call'.own = v /\ call'.hops = <<>>
    BY <1>2, <1>3, <2>1 DEF CallOK, CallType, Pcs, Reading, v
  <2>3. QED
    BY <2>1, <2>2 DEF Begin, v
<1>5. CASE s \notin d.servers /\ Begins([c EXCEPT !.pc = "dial", !.hops = <<s>>])
  <2> DEFINE v == <<s>>
  <2>1. call' = [c EXCEPT !.pc = "dial", !.hops = v] /\ Begins(call')
    BY <1>5, Begins1
  <2> HIDE DEF v
  <2>2. /\ CallOK(call') /\ call'.dest = s /\ call'.half = FALSE /\ call'.after = "idle" /\ call'.via = 0 /\ call'.part = "none"
        /\ call'.pc = "dial" /\ call'.hops = v
    BY <1>2, <1>3, <2>1 DEF CallOK, CallType, Pcs, v
  <2>3. QED
    BY <1>5, <2>1, <2>2 DEF Begin, v
<1>6. QED
  BY <1>4, <1>5 DEF Begin, c

LEMMA BeginArgsDoes ==
  ASSUME TypeOK, NEW args \in Args[world], BeginArgs(args)
  PROVE  /\ call.pc = "idle" /\ CallOK(call') /\ call'.kind = "args" /\ call'.pc = "args" /\ call'.half = FALSE
         /\ call'.after = "idle" /\ Begins(call')
<1>1. args \in Seq(Servers) /\ args # <<>>
  BY ConnectAssumption DEF TypeOK
<1> DEFINE l == Last(args)
<1>2. l \in Servers
  BY <1>1, LenProperties, EmptySeq, ElementOfSeq DEF Last
<1>3. call' = [Idle EXCEPT !.kind = "args", !.dest = l, !.args = args, !.todo = args, !.pc = "args"] /\ Begins(call')
  BY Begins1 DEF BeginArgs
<1> HIDE DEF l
<1>4. /\ CallOK(call') /\ call'.kind = "args" /\ call'.pc = "args" /\ call'.half = FALSE /\ call'.after = "idle"
  BY <1>1, <1>2, <1>3, Empties DEF Idle, CallOK, CallType, Pcs, Reading, CallKinds
<1>5. QED
  BY <1>3, <1>4 DEF BeginArgs

LEMMA TypeStep == ASSUME TypeOK, Next PROVE TypeOK'
<1> DEFINE Kept1 == UNCHANGED <<world, d, key, accepted, sh>> /\ CallOK(call') /\ (astray' = astray \/ astray' = "no")
<1>a. Kept1 => TypeOK'
  BY DEF TypeOK
<1>1. CASE Edit
  <2>1. d' \in Databases /\ call.pc # "idle" /\ UNCHANGED <<world, files, call, sh, astray>>
    BY <1>1, EditType DEF Edit, TypeOK, terminals, history
  <2>2. QED
    BY <2>1 DEF TypeOK, files, CallOK
<1>2. ASSUME NEW s \in Servers, Rekey(s) PROVE TypeOK'
  <2>1. key' = [key EXCEPT ![s] = @ + 1] /\ UNCHANGED <<world, d, accepted, call, sh, astray>>
    BY <1>2 DEF Rekey, terminals, history
  <2>2. key' \in [Servers -> Nat]
    BY <2>1 DEF TypeOK
  <2>3. QED
    BY <2>1, <2>2 DEF TypeOK, CallOK
<1>3. ASSUME NEW kind \in Kinds[world], NEW s \in Servers, NEW o \in {"", "none"} \cup Profiles, Begin(kind, s, o) PROVE TypeOK'
  BY <1>3, <1>a, BeginDoes, Begins1
<1>4. ASSUME NEW args \in Args[world], BeginArgs(args) PROVE TypeOK'
  BY <1>4, <1>a, BeginArgsDoes, Begins1
<1>5. CASE LookUpArg \/ ReadProfile \/ ReadOwn \/ ReadRow \/ ReadHops \/ ReadHop \/ ReadDest
  BY <1>5, ReadType
<1>6. CASE DialFirst
  <2>1. UNCHANGED <<world, d, sh, call, astray>> /\ \E s : Met(s)
    BY <1>6, DialFirstDoes
  <2>2. QED
    BY <2>1, MetType DEF TypeOK, CallOK, Entry
<1>7. CASE DialVia
  BY <1>7, <1>a, DialViaDoes DEF Moves, Rest
<1>8. CASE Handshake
  <2>1. UNCHANGED <<world, d, sh, astray>> /\ CallOK(call') /\ "inner" \in Ways /\ \E s : Accepts(s, "inner")
    BY <1>8, HandshakeDoes DEF Moves, Ways
  <2>2. QED
    BY <2>1, AcceptsType DEF TypeOK, Entry
<1>9. ASSUME NEW eof \in BOOLEAN, DialFails(eof) PROVE TypeOK'
  BY <1>9, <1>a, DialFailsDoes DEF Moves, Rest
<1>10. CASE Use
  BY <1>10, <1>a, UseDoes DEF Moves
<1>11. CASE Quits
  <2>1. Fail /\ call.pc # "idle"
    BY <1>11, QuitsDo
  <2>2. QED
    BY <2>1, FailType
<1>12. CASE BrowserLeaves \/ WebShellEnds
  BY <1>12 DEF BrowserLeaves, WebShellEnds, TypeOK, CallOK, files, history
<1>13. CASE Redial
  <2>1. /\ UNCHANGED <<world, d, astray>> /\ sh' \in ShellType /\ CallOK(call') /\ \E s : Met(s)
    BY <1>13, RedialDoes DEF Moves
  <2>2. QED
    BY <2>1, MetType DEF TypeOK, Entry
<1>14. CASE RedialFails
  BY <1>14, <1>a, RedialFailsDoes DEF Moves, Rest
<1>15. CASE Reads \/ Sends \/ (Conducts /\ ~Fail)
  BY <1>15, LocalType
<1>16. CASE CloseAll
  <2>1. CallOK(Idle)
    BY Empties DEF CallOK, Idle
  <2>2. CallOK(call') /\ UNCHANGED <<world, d, key, accepted, sh, astray>>
    BY <1>16, <2>1, CloseAllDoes DEF Moves, TypeOK, CallOK
  <2>3. QED
    BY <1>a, <2>2
<1>17. CASE Remote \/ SshEnds \/ UserExits
  BY <1>17, RemoteType
<1>18. QED
  BY <1>1, <1>2, <1>3, <1>4, <1>5, <1>6, <1>7, <1>8, <1>9, <1>10, <1>11, <1>12, <1>13, <1>14, <1>15, <1>16, <1>17 DEF Next, Local, Quits

-----------------------------------------------------------------------------
\* The reads of the route, field by field.
Steers(pc, part, via, row, todo, hops) ==
  /\ call'.pc = pc /\ call'.part = part /\ call'.via = via /\ call'.row = row /\ call'.todo = todo /\ call'.hops = hops
  /\ call'.kind = call.kind /\ call'.dest = call.dest /\ call'.override = call.override /\ call'.own = call.own
  /\ call'.half = call.half /\ call'.after = call.after

LEMMA SteersIs ==
  ASSUME TypeOK
  PROVE  \A pc, v, q, h :
         /\ call' = [call EXCEPT !.pc = pc] => Steers(pc, call.part, call.via, call.row, call.todo, call.hops)
         /\ call' = [call EXCEPT !.pc = "own", !.part = "server"] => Steers("own", "server", call.via, call.row, call.todo, call.hops)
         /\ call' = [call EXCEPT !.pc = "row", !.row = v] => Steers("row", call.part, call.via, v, call.todo, call.hops)
         /\ call' = [call EXCEPT !.pc = "row", !.part = "profile", !.via = v, !.row = v]
              => Steers("row", "profile", v, v, call.todo, call.hops)
         /\ call' = [call EXCEPT !.pc = "hop", !.todo = q] => Steers("hop", call.part, call.via, call.row, q, call.hops)
         /\ call' = [call EXCEPT !.hops = h, !.todo = q] => Steers(call.pc, call.part, call.via, call.row, q, h)
         /\ call' = [call EXCEPT !.pc = "dial", !.hops = h] => Steers("dial", call.part, call.via, call.row, call.todo, h)
<1>0. call \in CallType
  BY DEF TypeOK, CallOK
<1>1. ASSUME NEW pc, NEW v, NEW q, NEW h, call' = [call EXCEPT !.pc = pc]
      PROVE  Steers(pc, call.part, call.via, call.row, call.todo, call.hops)
  BY <1>0, <1>1 DEF CallType, Steers
<1>2. ASSUME NEW pc, NEW v, NEW q, NEW h, call' = [call EXCEPT !.pc = "own", !.part = "server"]
      PROVE  Steers("own", "server", call.via, call.row, call.todo, call.hops)
  BY <1>0, <1>2 DEF CallType, Steers
<1>3. ASSUME NEW pc, NEW v, NEW q, NEW h, call' = [call EXCEPT !.pc = "row", !.row = v]
      PROVE  Steers("row", call.part, call.via, v, call.todo, call.hops)
  BY <1>0, <1>3 DEF CallType, Steers
<1>4. ASSUME NEW pc, NEW v, NEW q, NEW h, call' = [call EXCEPT !.pc = "row", !.part = "profile", !.via = v, !.row = v]
      PROVE  Steers("row", "profile", v, v, call.todo, call.hops)
  BY <1>0, <1>4 DEF CallType, Steers
<1>5. ASSUME NEW pc, NEW v, NEW q, NEW h, call' = [call EXCEPT !.pc = "hop", !.todo = q]
      PROVE  Steers("hop", call.part, call.via, call.row, q, call.hops)
  BY <1>0, <1>5 DEF CallType, Steers
<1>6. ASSUME NEW pc, NEW v, NEW q, NEW h, call' = [call EXCEPT !.hops = h, !.todo = q]
      PROVE  Steers(call.pc, call.part, call.via, call.row, q, h)
  BY <1>0, <1>6 DEF CallType, Steers
<1>7. ASSUME NEW pc, NEW v, NEW q, NEW h, call' = [call EXCEPT !.pc = "dial", !.hops = h]
      PROVE  Steers("dial", call.part, call.via, call.row, call.todo, h)
  BY <1>0, <1>7 DEF CallType, Steers
<1>9. QED
  BY <1>1, <1>2, <1>3, <1>4, <1>5, <1>6, <1>7

Read == LookUpArg \/ ReadProfile \/ ReadOwn \/ ReadRow \/ ReadHops \/ ReadHop \/ ReadDest
LEMMA ReadDoes ==
  ASSUME TypeOK, Read
  PROVE  /\ call.pc \in Reading /\ call.pc # "idle" /\ CallOK(call') /\ UNCHANGED <<world, d, seen, key, known, accepted, open, ran, leaked, astray>>
         /\ Rest \/ sh' = NoShell
         /\ \/ Moves("close", FALSE, call.after)
            \/ /\ Rest
               /\ \/ call.pc = "args" /\ \E q, h : \/ Steers("dial", call.part, call.via, call.row, q, h)
                                                 \/ Steers("args", call.part, call.via, call.row, q, h)
                  \/ /\ call.pc = "profile"
                     /\ \/ ViaIn(call, d) = 0 /\ Steers("own", "server", call.via, call.row, call.todo, call.hops)
                        \/ ViaIn(call, d) # 0 /\ Steers("row", "profile", ViaIn(call, d), ViaIn(call, d), call.todo, call.hops)
                  \/ /\ call.pc = "own"
                     /\ \/ call.own \in {0, call.via} /\ Steers("dest", call.part, call.via, call.row, call.todo, call.hops)
                        \/ call.own \notin {0, call.via} /\ Steers("row", call.part, call.via, call.own, call.todo, call.hops)
                  \/ call.pc = "row" /\ Steers("hops", call.part, call.via, call.row, call.todo, call.hops)
                  \/ /\ call.pc = "hops"
                     /\ Steers("hop", call.part, call.via, call.row, Kept(d.hops[call.row], call.part, call.dest), call.hops)
                  \/ /\ call.pc = "hop"
                     /\ \/ /\ call.todo = <<>>
                           /\ \/ call.part = "profile" /\ Steers("own", "server", call.via, call.row, call.todo, call.hops)
                              \/ call.part # "profile" /\ Steers("dest", call.part, call.via, call.row, call.todo, call.hops)
                        \/ /\ call.todo # <<>>
                           /\ Steers("hop", call.part, call.via, call.row, Tail(call.todo), Append(call.hops, Head(call.todo)))
                  \/ /\ call.pc = "dest"
                     /\ Steers("dial", call.part, call.via, call.row, call.todo, Append(call.hops, call.dest))
<1>0. call.pc \in Reading /\ call.pc # "idle"
  BY DEF Read, LookUpArg, ReadProfile, ReadOwn, ReadRow, ReadHops, ReadHop, ReadDest, Reading
<1>1. CallOK(call')
  <2>1. TypeOK'
    BY ReadType DEF Read
  <2>2. QED
    BY <2>1 DEF TypeOK
<1>2. CASE Fail
  BY <1>0, <1>1, <1>2, FailDoes
<1> DEFINE Stepped == Rest /\ UNCHANGED <<d, seen>>
<1>s. \A c : Step(c) => call' = c /\ Stepped
  BY StepRest
<1>r. Stepped => UNCHANGED <<world, d, seen, key, known, accepted, open, ran, leaked, astray>> /\ Rest
  BY DEF Rest
<1> HIDE DEF Stepped
<1>3. CASE LookUpArg
  <2>1. /\ call.pc = "args" /\ Stepped
        /\ \/ call' = [call EXCEPT !.pc = "dial"]
           \/ call' = [call EXCEPT !.hops = Append(call.hops, Head(call.todo)), !.todo = Tail(call.todo)]
    BY <1>3, <1>s DEF LookUpArg, Go
  <2>2. \E q, h : Steers("dial", call.part, call.via, call.row, q, h) \/ Steers("args", call.part, call.via, call.row, q, h)
    <3>1. CASE call' = [call EXCEPT !.pc = "dial"]
      <4>1. Steers("dial", call.part, call.via, call.row, call.todo, call.hops)
        BY <3>1, SteersIs
      <4>2. QED
        BY <4>1
    <3>2. CASE call' = [call EXCEPT !.hops = Append(call.hops, Head(call.todo)), !.todo = Tail(call.todo)]
      <4>1. Steers(call.pc, call.part, call.via, call.row, Tail(call.todo), Append(call.hops, Head(call.todo)))
        BY <3>2, SteersIs
      <4>2. QED
        BY <2>1, <4>1
    <3>3. QED
      BY <2>1, <3>1, <3>2
  <2>3. QED
    BY <1>0, <1>1, <1>r, <2>1, <2>2
<1>4. CASE ReadProfile /\ ~Fail
  <2>0. call.override \in {"", "none"} \cup Profiles /\ 0 \notin Profiles /\ "none" # ""
    BY ConnectAssumption DEF TypeOK, CallOK, CallType
  <2> DEFINE p == ProfileOf(d)
             ToOwn == Step([call EXCEPT !.pc = "own", !.part = "server"])
             ToRow(v) == Step([call EXCEPT !.pc = "row", !.part = "profile", !.via = v, !.row = v])
  <2>1. call.pc = "profile"
    BY <1>4 DEF ReadProfile
  <2>2. CASE call.override = "none"
    <3>1. ViaIn(call, d) = 0
      BY <2>2 DEF ViaIn
    <3>2. ToOwn
      BY <1>4, <2>2 DEF ReadProfile
    <3>3. QED
      BY <1>0, <1>1, <1>r, <1>s, <2>1, <3>1, <3>2, SteersIs
  <2>3. CASE call.override # "none"
    <3>1. ViaIn(call, d) = IF p = 0 THEN 0 ELSE d.via[p]
      BY <2>0, <2>3 DEF ViaIn, ProfileOf
    <3>2. IF p = 0 \/ d.via[p] = 0 THEN ToOwn ELSE ToRow(d.via[p])
      BY <1>4, <2>0, <2>3 DEF ReadProfile
    <3> HIDE DEF p
    <3>3. CASE ViaIn(call, d) = 0 /\ ToOwn
      BY <1>0, <1>1, <1>r, <1>s, <2>1, <3>3, SteersIs
    <3>4. CASE ViaIn(call, d) # 0 /\ ToRow(ViaIn(call, d))
      <4> DEFINE v == ViaIn(call, d)
      <4>1. Stepped /\ call' = [call EXCEPT !.pc = "row", !.part = "profile", !.via = v, !.row = v]
        BY <1>s, <3>4
      <4> HIDE DEF v
      <4>2. Steers("row", "profile", v, v, call.todo, call.hops)
        BY <4>1, SteersIs
      <4>3. QED
        BY <1>0, <1>1, <1>r, <2>1, <3>4, <4>1, <4>2 DEF v
    <3>5. QED
      <4> HIDE DEF ToOwn, ToRow
      <4> QED
        BY <3>1, <3>2, <3>3, <3>4
  <2>4. QED
    BY <2>2, <2>3
<1>5. CASE ReadOwn
  <2>1. /\ call.pc = "own" /\ Stepped
        /\ \/ call.own \in {0, call.via} /\ call' = [call EXCEPT !.pc = "dest"]
           \/ call.own \notin {0, call.via} /\ call' = [call EXCEPT !.pc = "row", !.row = call.own]
    BY <1>5, <1>s DEF ReadOwn, Go
  <2>2. QED
    BY <1>0, <1>1, <1>r, <2>1, SteersIs
<1>6. CASE ReadRow /\ ~Fail
  <2>1. call.pc = "row" /\ Stepped /\ call' = [call EXCEPT !.pc = "hops"]
    BY <1>6, <1>s DEF ReadRow, Go
  <2>2. QED
    BY <1>0, <1>1, <1>r, <2>1, SteersIs
<1>7. CASE ReadHops
  <2>1. call.pc = "hops" /\ Stepped /\ call' = [call EXCEPT !.pc = "hop", !.todo = Kept(d.hops[call.row], call.part, call.dest)]
    BY <1>7, <1>s DEF ReadHops
  <2>2. QED
    BY <1>0, <1>1, <1>r, <2>1, SteersIs
<1>8. CASE ReadHop /\ ~Fail
  <2>1. /\ call.pc = "hop" /\ Stepped
        /\ \/ /\ call.todo = <<>>
              /\ \/ call.part = "profile" /\ call' = [call EXCEPT !.pc = "own", !.part = "server"]
                 \/ call.part # "profile" /\ call' = [call EXCEPT !.pc = "dest"]
           \/ /\ call.todo # <<>>
              /\ call' = [call EXCEPT !.hops = Append(call.hops, Head(call.todo)), !.todo = Tail(call.todo)]
    BY <1>8, <1>s DEF ReadHop, After, Go
  <2>2. CASE call.todo = <<>>
    BY <1>0, <1>1, <1>r, <2>1, <2>2, SteersIs
  <2>3. CASE call.todo # <<>>
    <3>1. Steers("hop", call.part, call.via, call.row, Tail(call.todo), Append(call.hops, Head(call.todo)))
      BY <2>1, <2>3, SteersIs
    <3>2. QED
      BY <1>0, <1>1, <1>r, <2>1, <2>3, <3>1
  <2>4. QED
    BY <2>2, <2>3
<1>9. CASE ReadDest
  <2>1. call.pc = "dest" /\ Stepped /\ call' = [call EXCEPT !.pc = "dial", !.hops = Append(call.hops, call.dest)]
    BY <1>9, <1>s DEF ReadDest
  <2>2. Steers("dial", call.part, call.via, call.row, call.todo, Append(call.hops, call.dest))
    BY <2>1, SteersIs
  <2>3. QED
    BY <1>0, <1>1, <1>r, <2>1, <2>2
<1>10. QED
  BY <1>2, <1>3, <1>4, <1>5, <1>6, <1>7, <1>8, <1>9 DEF Read

-----------------------------------------------------------------------------
\* The connections are those of the first hops.
LEMMA Interval == ASSUME NEW n \in Nat PROVE IsFiniteSet(1..n) /\ Cardinality(1..n) = n
BY FS_Interval

LEMMA Last1 ==
  ASSUME NEW n \in Nat, n # 0
  PROVE  (1..n) \ {Max(1..n)} = 1..(n - 1) /\ n - 1 \in Nat
<1>1. n \in 1..n /\ \A i \in 1..n : n >= i
  OBVIOUS
<1>2. \A x \in 1..n : (\A i \in 1..n : x >= i) => x = n
  OBVIOUS
<1>3. Max(1..n) = n
  BY <1>1, <1>2 DEF Max
<1>4. QED
  BY <1>3

LEMMA OpenKept ==
  ASSUME OpenInv, UNCHANGED open, call'.pc \in Reading \cup {"idle", "redial"} => open = {}, 
         call'.half => call'.pc = "dial" /\ Cardinality(open) \in 1..Len(call'.hops) - 1
  PROVE  OpenInv'
BY DEF OpenInv

LEMMA OpenStep == ASSUME TypeOK, OpenInv, Next PROVE OpenInv'
<1>0. /\ open = 1..Cardinality(open) /\ IsFiniteSet(open) /\ Cardinality(open) \in Nat
      /\ (call.pc \in Reading \cup {"idle", "redial"} => open = {}) /\ (call.half => call.pc = "dial")
  BY FS_CardinalityType DEF OpenInv
<1> DEFINE n == Cardinality(open)
<1>p. \A pc \in {"dial", "use", "web", "close", "shell"} : pc \notin Reading \cup {"idle", "redial"} /\ {"idle", "redial"} \cap Reading = {}
  BY DEF Reading
<1>i. ASSUME call.half PROVE Cardinality(open) \in 1..Len(call.hops) - 1
  <2> DEFINE m == Cardinality(open)  l == Len(call.hops) - 1
  <2>1. call.half => call.pc = "dial" /\ m \in 1..l
    BY DEF OpenInv
  <2> HIDE DEF m, l
  <2>2. QED
    BY <1>i, <2>1 DEF m, l
<1>k. UNCHANGED <<call, open>> => OpenInv'
  BY DEF OpenInv
<1>b. \A m, l \in Nat : m \in 1..l - 1 <=> m # 0 /\ m < l
  OBVIOUS
<1>m. ASSUME NEW pc \in {"use", "web", "close", "shell"}, NEW half, NEW after, Moves(pc, half, after), half = FALSE, UNCHANGED open
      PROVE  OpenInv'
  BY <1>p, <1>m, OpenKept DEF Moves
<1>h. call.pc # "dial" => call.half = FALSE
  BY <1>0, CallFields
<1>1. CASE Edit
  BY <1>1, <1>k DEF Edit
<1>2. ASSUME NEW s \in Servers, Rekey(s) PROVE OpenInv'
  BY <1>2, <1>k DEF Rekey
<1>3. ASSUME NEW kind \in Kinds[world], NEW s \in Servers, NEW o \in {"", "none"} \cup Profiles, Begin(kind, s, o) PROVE OpenInv'
  BY <1>0, <1>3, BeginDoes, Begins1, OpenKept
<1>4. ASSUME NEW args \in Args[world], BeginArgs(args) PROVE OpenInv'
  BY <1>0, <1>4, BeginArgsDoes, Begins1, OpenKept
<1>5. CASE Read
  <2>1. call.pc \in Reading /\ UNCHANGED open /\ open = {}
    BY <1>0, <1>5, ReadDoes
  <2>2. call'.half = FALSE
    BY <1>5, <1>h, <1>p, <2>1, ReadDoes DEF Moves, Steers
  <2>3. QED
    BY <1>0, <2>1, <2>2, OpenKept
<1>6. CASE DialFirst
  <2>0. open = {}
    BY <1>6 DEF DialFirst
  <2>1. open' = 1..1 /\ UNCHANGED call /\ call.pc = "dial" /\ call.half = FALSE
    <3>1. Cardinality(open) = 0
      BY <2>0, FS_EmptySet
    <3>2. call.half = FALSE
      <4>1. ASSUME call.half PROVE FALSE
        <5>1. Cardinality(open) \in 1..Len(call.hops) - 1
          BY <1>i, <4>1
        <5>2. Len(call.hops) \in Nat
          BY CallFields, LenProperties
        <5>3. QED
          BY <1>b, <3>1, <5>1, <5>2
      <4>2. QED
        BY <4>1, CallFields
    <3>3. QED
      BY <1>6, <3>2, DialFirstDoes
  <2>2. 1 \in Nat
    OBVIOUS
  <2>3. IsFiniteSet(open') /\ open' = 1..Cardinality(open')
    BY <2>1, <2>2, Interval
  <2>4. QED
    BY <1>p, <2>1, <2>3 DEF OpenInv
<1>7. CASE DialVia
  <2>1. Cardinality(open) < Len(call.hops) /\ open # {}
    BY <1>7 DEF DialVia
  <2>2. Cardinality(open) # 0
    BY <1>0, <2>1
  <2>3. Cardinality(open) \in 1..Len(call.hops) - 1
    BY <1>0, <1>b, <2>1, <2>2, CallFields, LenProperties
  <2>4. QED
    BY <1>7, <1>p, <2>3, DialViaDoes, OpenKept DEF Moves, Rest
<1>8. CASE Handshake
  <2>1. open' = open \cup {n + 1} /\ call.pc = "dial" /\ call'.pc = "dial" /\ call'.half = FALSE
    BY <1>8, HandshakeDoes DEF Moves
  <2>2. open' = 1..(n + 1) /\ n + 1 \in Nat
    <3>1. \A m \in Nat : (1..m) \cup {m + 1} = 1..(m + 1)
      OBVIOUS
    <3> HIDE DEF n
    <3>2. open = 1..n /\ n \in Nat
      BY <1>0 DEF n
    <3>3. QED
      BY <2>1, <3>1, <3>2
  <2> HIDE DEF n
  <2>3. IsFiniteSet(open') /\ open' = 1..Cardinality(open')
    BY <2>2, Interval
  <2>4. QED
    BY <1>p, <2>1, <2>3 DEF OpenInv
<1>9. ASSUME NEW eof \in BOOLEAN, DialFails(eof) PROVE OpenInv'
  BY <1>9, <1>m, DialFailsDoes DEF Rest
<1>10. CASE Use
  <2>1. call.pc = "dial" /\ UNCHANGED open /\ \E pc \in {"web", "use"} : call' = Go(call, pc)
    BY <1>10 DEF Use
  <2>2. OpenInv'
    <3>1. call.half = FALSE
      <4>1. open = 1..Len(call.hops) /\ Len(call.hops) \in Nat
        BY <1>10, CallFields, LenProperties DEF Use
      <4>2. Cardinality(open) = Len(call.hops)
        BY <4>1, Interval
      <4>3. ASSUME call.half PROVE FALSE
        <5>1. Cardinality(open) \in 1..Len(call.hops) - 1
          BY <1>i, <4>3
        <5>2. QED
          BY <1>b, <4>1, <4>2, <5>1
      <4>4. QED
        BY <4>3, CallFields
    <3>2. QED
      BY <1>10, <1>m, <3>1, UseDoes
  <2>3. QED
    BY <2>2
<1>11. CASE Quits
  BY <1>11, <1>m, QuitsDo, FailDoes
<1>12. CASE BrowserLeaves \/ WebShellEnds
  BY <1>12, <1>k DEF BrowserLeaves, WebShellEnds
<1>13. CASE Redial
  <2>1. open' = 1..1 /\ call'.pc = "shell" /\ call'.half = FALSE
    BY <1>13, <1>h, RedialDoes DEF Moves
  <2>2. 1 \in Nat
    OBVIOUS
  <2>3. IsFiniteSet(open') /\ open' = 1..Cardinality(open')
    BY <2>1, <2>2, Interval
  <2>4. QED
    BY <1>p, <2>1, <2>3 DEF OpenInv
<1>14. CASE RedialFails
  BY <1>14, <1>m, <1>h, RedialFailsDoes DEF Rest
<1>15. CASE Reads \/ Sends \/ (Conducts /\ ~Fail)
  <2>1. Shell(sh')
    BY <1>15, LocalType
  <2>2. QED
    BY <1>k, <2>1 DEF Shell
<1>16. CASE CloseAll
  <2>1. CASE open # {} /\ open' = open \ {Max(open)} /\ UNCHANGED call
    <3>1. n # 0
      BY <1>0, <2>1
    <3>2. open' = 1..(n - 1) /\ n - 1 \in Nat
      BY <1>0, <2>1, <3>1, Last1
    <3> HIDE DEF n
    <3>3. IsFiniteSet(open') /\ open' = 1..Cardinality(open')
      BY <3>2, Interval
    <3>4. call'.pc = "close"
      BY <1>16, <2>1, CloseAllDoes
    <3>5. QED
      BY <1>0, <1>p, <2>1, <3>3, <3>4 DEF OpenInv
  <2>2. CASE open = {} /\ UNCHANGED open /\ call'.half = FALSE
    BY <2>2, OpenKept
  <2>3. call.pc = "close" /\ call.half = FALSE
    BY <1>16, <1>h, CloseAllDoes
  <2>4. Idle.half = FALSE
    BY DEF Idle
  <2>5. QED
    BY <1>16, <2>1, <2>2, <2>3, <2>4, CloseAllDoes DEF Moves
<1>17. CASE Remote \/ SshEnds \/ UserExits
  <2>1. Shell(sh')
    BY <1>17, RemoteType
  <2>2. QED
    BY <1>k, <2>1 DEF Shell
<1>18. QED
  BY <1>1, <1>2, <1>3, <1>4, <1>5, <1>6, <1>7, <1>8, <1>9, <1>10, <1>11, <1>12, <1>13, <1>14, <1>15, <1>16, <1>17
  DEF Next, Local, Quits, Read

-----------------------------------------------------------------------------
\* What is trusted.
\* What an entry of the history says of known_hosts, and what the entries before it do.
Sound(known1, s, q, i) ==
  LET k == q[i].key IN
  /\ k[1] = s /\ k[2] = "ecdsa" /\ (q[i].how \in OnRecord => k \in known1)
  /\ q[i].how = "unsaved" => \A j \in 1..i - 1 : q[j].how \notin OnRecord
LEMMA TrustIs ==
  TrustInv <=> /\ \A k, l \in known : k[1] = l[1] /\ k[2] = l[2] => k = l
               /\ \A s \in Servers : \A i \in DOMAIN accepted[s] : Sound(known, s, accepted[s], i)
BY DEF TrustInv, Sound

\* A key is recorded, or goes unrecorded by a host that has no record.
LEMMA AcceptsTrusts ==
  ASSUME TypeOK, TrustInv, NEW s, NEW way \in Ways, Accepts(s, way),
         known' = known \/ (known' = known \cup {Shown(s)} /\ \A l \in known : l[1] # s),
         way \in OnRecord => Shown(s) \in known',
         way = "unsaved" => \A l \in known : l[1] # s
  PROVE  TrustInv'
<1> DEFINE k == Shown(s)  e == [key |-> k, how |-> way]
<1>1. k[1] = s /\ k[2] = "ecdsa"
  BY DEF Shown
<1>2. /\ accepted \in [Servers -> Seq(Entry)]
      /\ accepted' = [accepted EXCEPT ![s] = Append(accepted[s], e)]
      /\ e.key = k /\ e.how = way
  BY DEF TypeOK, Accepts, Entry
<1> HIDE DEF k, e
<1>3. \A l, m \in known' : l[1] = m[1] /\ l[2] = m[2] => l = m
  BY <1>1 DEF TrustInv, k
<1>4. known \subseteq known'
  OBVIOUS
<1>5. ASSUME NEW t \in Servers, NEW i \in DOMAIN accepted'[t]
      PROVE  Sound(known', t, accepted'[t], i)
  <2>1. \A j \in DOMAIN accepted[t] : Sound(known, t, accepted[t], j)
    BY TrustIs
  <2>2. CASE t # s
    <3>1. accepted'[t] = accepted[t]
      BY <1>2, <2>2
    <3>2. QED
      BY <1>4, <1>5, <2>1, <3>1 DEF Sound
  <2>3. CASE t = s
    <3> DEFINE q == accepted[t]  r == accepted'[t]
    <3>1. r = Append(q, e) /\ q \in Seq(Entry)
      BY <1>2, <2>3
    <3>2. \A j \in DOMAIN q : Sound(known, s, q, j)
      BY <2>1, <2>3
    <3>3. i \in DOMAIN r
      BY <1>5
    <3> HIDE DEF q, r
    <3>4. /\ i \in 1..Len(q)+1 /\ DOMAIN q = 1..Len(q) /\ Len(q) \in Nat
          /\ r[Len(q) + 1] = e /\ \A j \in 1..Len(q) : r[j] = q[j]
      BY <3>1, <3>3
    <3>5. CASE i = Len(q) + 1
      <4>1. r[i].key = k /\ r[i].how = way
        BY <1>2, <3>4, <3>5
      <4>2. ASSUME way = "unsaved", NEW j \in 1..i - 1 PROVE r[j].how \notin OnRecord
        <5>1. j \in DOMAIN q /\ r[j] = q[j]
          BY <3>4, <3>5
        <5>2. q[j].how \in OnRecord => q[j].key \in known /\ q[j].key[1] = s
          BY <3>2, <5>1 DEF Sound
        <5>3. QED
          BY <4>2, <5>1, <5>2
      <4>3. QED
        BY <1>1, <2>3, <4>1, <4>2 DEF Sound, r, k
    <3>6. CASE i # Len(q) + 1
      <4>1. i \in DOMAIN q /\ r[i] = q[i] /\ \A j \in 1..i - 1 : r[j] = q[j]
        BY <3>4, <3>6
      <4>2. Sound(known, s, q, i)
        BY <3>2, <4>1
      <4>3. QED
        BY <1>4, <2>3, <4>1, <4>2 DEF Sound, r
    <3>7. QED
      BY <3>5, <3>6
  <2>4. QED
    BY <2>2, <2>3
<1>6. QED
  BY <1>3, <1>5 DEF TrustInv, Sound

LEMMA MetTrusts == ASSUME TypeOK, TrustInv, NEW s, Met(s) PROVE TrustInv'
<1>1. CASE Shown(s) \in known /\ Accepts(s, "known") /\ UNCHANGED known
  BY <1>1, AcceptsTrusts DEF Ways, OnRecord
<1>2. ASSUME Trusts(s, Shown(s)), Shown(s) \notin known PROVE \A l \in known : l[1] # s
  BY <1>2 DEF Trusts, OnFile
<1>3. CASE Trusts(s, Shown(s)) /\ Shown(s) \notin known /\ Accepts(s, "added") /\ known' = known \cup {Shown(s)}
  BY <1>2, <1>3, AcceptsTrusts DEF Ways
<1>4. CASE Trusts(s, Shown(s)) /\ Shown(s) \notin known /\ Accepts(s, "unsaved") /\ UNCHANGED known
  BY <1>2, <1>4, AcceptsTrusts DEF Ways, OnRecord
<1>5. CASE Accepts(s, "unread") /\ UNCHANGED known
  BY <1>5, AcceptsTrusts DEF Ways, OnRecord
<1>6. QED
  BY <1>1, <1>3, <1>4, <1>5 DEF Met

LEMMA TrustStep == ASSUME TypeOK, TrustInv, Next PROVE TrustInv'
<1>0. UNCHANGED <<known, accepted>> => TrustInv'
  BY DEF TrustInv
<1>1. CASE DialFirst \/ Redial
  BY <1>1, DialFirstDoes, RedialDoes, MetTrusts
<1>2. CASE Edit \/ (\E s \in Servers : Rekey(s))
  BY <1>0, <1>2 DEF Edit, Rekey, files
<1>3. CASE \E kind \in Kinds[world], s \in Servers, o \in {"", "none"} \cup Profiles : Begin(kind, s, o)
  BY <1>0, <1>3, BeginDoes, Begins1
<1>4. CASE \E args \in Args[world] : BeginArgs(args)
  BY <1>0, <1>4, BeginArgsDoes, Begins1
<1>5. CASE Read
  BY <1>0, <1>5, ReadDoes
<1>6. CASE DialVia \/ RedialFails \/ \E eof \in BOOLEAN : DialFails(eof)
  BY <1>0, <1>6, DialViaDoes, RedialFailsDoes, DialFailsDoes DEF Rest
<1>7. CASE Use \/ CloseAll
  BY <1>0, <1>7, UseDoes, CloseAllDoes
<1>h. CASE Handshake
  <2>1. UNCHANGED known /\ \E s : Accepts(s, "inner")
    BY <1>h, HandshakeDoes
  <2>2. QED
    BY <2>1, AcceptsTrusts DEF Ways, OnRecord
<1>8. CASE Quits
  BY <1>0, <1>8, QuitsDo, FailDoes
<1>9. CASE BrowserLeaves \/ WebShellEnds
  BY <1>0, <1>9 DEF BrowserLeaves, WebShellEnds, files
<1>10. CASE Reads \/ Sends \/ (Conducts /\ ~Fail) \/ Remote \/ SshEnds \/ UserExits
  BY <1>0, <1>10, LocalType, RemoteType DEF Shell, files
<1>11. QED
  BY <1>1, <1>2, <1>3, <1>4, <1>5, <1>6, <1>7, <1>h, <1>8, <1>9, <1>10 DEF Next, Local, Quits, Read

-----------------------------------------------------------------------------
\* The route.
LEMMA Hands ==
  ASSUME NEW S, NEW h \in Seq(S), NEW q \in Seq(S), q # <<>>
  PROVE  Append(h, Head(q)) \o Tail(q) = h \o q
<1> DEFINE x == Head(q)  t == Tail(q)
<1>1. x \in S /\ t \in Seq(S) /\ <<x>> \in Seq(S) /\ q = <<x>> \o t
  <2>1. x \in S /\ t \in Seq(S) /\ <<x>> \in Seq(S)
    BY HeadTailProperties, OneIs
  <2>2. Len(q) \in Nat /\ Len(q) # 0 /\ Len(t) = Len(q) - 1 /\ q[1] = x /\ \A i \in 1..Len(t) : t[i] = q[i + 1]
    BY HeadTailProperties, LenProperties, EmptySeq
  <2> DEFINE u == <<x>> \o t  o == <<x>>
  <2>3. Len(o) = 1 /\ o[1] = x
    OBVIOUS
  <2>4. u \in Seq(S) /\ Len(u) = Len(o) + Len(t) /\ \A i \in 1..Len(u) : u[i] = IF i <= Len(o) THEN o[i] ELSE t[i - Len(o)]
    BY <2>1, ConcatIs
  <2> HIDE DEF u, o, x, t
  <2>5. Len(u) = Len(q)
    BY <2>2, <2>3, <2>4
  <2>6. ASSUME NEW i \in 1..Len(u) PROVE u[i] = q[i]
    <3>1. CASE i = 1
      BY <2>2, <2>3, <2>4, <3>1
    <3>2. CASE i # 1
      <4>1. i - 1 \in 1..Len(t) /\ ~(i <= 1) /\ (i - 1) + 1 = i
        BY <2>2, <2>5, <3>2
      <4>2. u[i] = t[i - 1]
        BY <2>3, <2>4, <4>1
      <4>3. t[i - 1] = q[(i - 1) + 1]
        BY <2>2, <4>1
      <4>4. QED
        BY <4>1, <4>2, <4>3
    <3>3. QED
      BY <3>1, <3>2
  <2>7. u = q
    BY <2>4, <2>5, <2>6, SeqEqual
  <2>8. QED
    BY <2>1, <2>7 DEF u, x, t
<1>2. Append(h, x) = h \o <<x>>
  BY <1>1, AppendIsConcat
<1> HIDE DEF x, t
<1>3. (h \o <<x>>) \o t = h \o (<<x>> \o t)
  BY <1>1, ConcatAssociative
<1>4. QED
  BY <1>1, <1>2, <1>3 DEF x, t

\* What was met stays met.
LEMMA RouteGrows ==
  ASSUME NEW c, NEW S, NEW T, S \subseteq T, RouteOK(c, S)
  PROVE  RouteOK(c, T)
<1>1. /\ ViaKnown(c, S) => ViaKnown(c, T)
      /\ OwnKnown(c, S) => OwnKnown(c, T)
      /\ \A h : Half1(c, S, h) => Half1(c, T, h)
      /\ \A h : Both(c, S, h) => Both(c, T, h)
  BY DEF ViaKnown, OwnKnown, Half1, Both
<1>2. Routed(c, S) => Routed(c, T)
  BY <1>1 DEF Routed
<1>3. QED
  BY <1>1, <1>2 DEF RouteOK

\* What is known of the route is known after a step that does not touch it.
LEMMA SameRoute ==
  ASSUME NEW c, NEW e, NEW S,
         e.dest = c.dest, e.override = c.override, e.own = c.own
  PROVE  /\ \A x : ViaIn(e, x) = ViaIn(c, x)
         /\ OwnKnown(c, S) => OwnKnown(e, S)
         /\ e.via = c.via =>
              /\ ViaKnown(c, S) => ViaKnown(e, S)
              /\ \A x : FirstIn(e, x) = FirstIn(c, x) /\ SecondIn(e, x) = SecondIn(c, x)
              /\ \A h : Half1(c, S, h) => Half1(e, S, h)
              /\ \A h : Both(c, S, h) => Both(e, S, h)
              /\ e.hops = c.hops /\ Routed(c, S) => Routed(e, S)
<1>1. /\ \A x : ViaIn(e, x) = ViaIn(c, x)
      /\ OwnKnown(c, S) => OwnKnown(e, S)
  BY DEF ViaIn, OwnKnown
<1>2. ASSUME e.via = c.via
      PROVE  /\ ViaKnown(c, S) => ViaKnown(e, S)
             /\ \A x : FirstIn(e, x) = FirstIn(c, x) /\ SecondIn(e, x) = SecondIn(c, x)
             /\ \A h : Half1(c, S, h) => Half1(e, S, h)
             /\ \A h : Both(c, S, h) => Both(e, S, h)
  <2>1. ViaKnown(c, S) => ViaKnown(e, S)
    BY <1>1, <1>2 DEF ViaKnown
  <2>2. \A x : FirstIn(e, x) = FirstIn(c, x) /\ SecondIn(e, x) = SecondIn(c, x)
    BY <1>2 DEF FirstIn, SecondIn
  <2>3. QED
    BY <2>1, <2>2 DEF Half1, Both
<1>3. ASSUME e.via = c.via, e.hops = c.hops, Routed(c, S) PROVE Routed(e, S)
  BY <1>1, <1>2, <1>3 DEF Routed
<1>4. QED
  BY <1>1, <1>2, <1>3

LEMMA MovesRoute ==
  ASSUME RouteInv, UNCHANGED <<d, seen>>, call.pc # "idle",
         NEW pc \in Walks \cup {"close"}, NEW half, NEW after, Moves(pc, half, after),
         call.pc \in Walks \/ call.after = "redial" \/ (pc = "close" /\ after # "redial")
  PROVE  RouteInv'
<1>1. d' \in seen'
  BY DEF RouteInv
<1>2. RouteOK(call', seen)
  <2>1. /\ call'.pc = pc /\ call'.after = after /\ call'.kind = call.kind /\ call'.dest = call.dest
        /\ call'.override = call.override /\ call'.own = call.own /\ call'.via = call.via /\ call'.hops = call.hops
    BY DEF Moves
  <2> DEFINE e == call'
  <2>2. Routed(call, seen) => Routed(e, seen)
    BY <2>1, SameRoute
  <2> HIDE DEF e
  <2>3. pc \notin Reading /\ pc \notin {"args", "profile", "row", "hops", "hop", "own", "dest"} /\ (pc = "close" => pc \notin Walks)
    BY DEF Reading, Walks
  <2>4. call.kind \in {"cli", "mcp", "web"} /\ (call.pc \in Walks \/ call.after = "redial") => Routed(call, seen)
    BY DEF RouteInv, RouteOK
  <2>5. QED
    BY <2>1, <2>2, <2>3, <2>4 DEF RouteOK, e
<1>3. QED
  BY <1>1, <1>2 DEF RouteInv

\* What there is to know of a call, by where it is.
LEMMA RouteBy ==
  ASSUME NEW e, NEW S, e.after = "idle", OwnKnown(e, S)
  PROVE  /\ e.pc = "profile" /\ e.hops = <<>> /\ e.via = 0 => RouteOK(e, S)
         /\ ViaKnown(e, S) =>
              /\ e.pc = "own" /\ e.part = "server" /\ Half1(e, S, e.hops) => RouteOK(e, S)
              /\ e.pc \in {"row", "hops"} /\ e.part = "profile" /\ e.hops = <<>> /\ e.row = e.via /\ e.via # 0 => RouteOK(e, S)
              /\ /\ e.pc \in {"row", "hops"} /\ e.part = "server" /\ Half1(e, S, e.hops) /\ e.row = e.own /\ e.own \notin {0, e.via}
                 => RouteOK(e, S)
              /\ e.pc = "hop" /\ e.part = "profile" /\ Half1(e, S, e.hops \o e.todo) => RouteOK(e, S)
              /\ e.pc = "hop" /\ e.part = "server" /\ Both(e, S, e.hops \o e.todo) => RouteOK(e, S)
              /\ e.pc = "dest" /\ Both(e, S, e.hops) => RouteOK(e, S)
              /\ e.pc = "dial" /\ Routed(e, S) => RouteOK(e, S)
<1>1. e.pc = "profile" /\ e.hops = <<>> /\ e.via = 0 => RouteOK(e, S)
  BY DEF RouteOK, Reading, Walks
<1>2. ViaKnown(e, S) /\ e.pc = "own" /\ e.part = "server" /\ Half1(e, S, e.hops) => RouteOK(e, S)
  BY DEF RouteOK, Reading, Walks
<1>3. /\ ViaKnown(e, S) /\ e.pc \in {"row", "hops"} /\ e.part = "profile" /\ e.hops = <<>> /\ e.row = e.via /\ e.via # 0
      => RouteOK(e, S)
  BY DEF RouteOK, Reading, Walks
<1>4. /\ ViaKnown(e, S) /\ e.pc \in {"row", "hops"} /\ e.part = "server" /\ Half1(e, S, e.hops) /\ e.row = e.own
      /\ e.own \notin {0, e.via}
      => RouteOK(e, S)
  BY DEF RouteOK, Reading, Walks
<1>5. ViaKnown(e, S) /\ e.pc = "hop" /\ e.part = "profile" /\ Half1(e, S, e.hops \o e.todo) => RouteOK(e, S)
  BY DEF RouteOK, Reading, Walks
<1>6. ViaKnown(e, S) /\ e.pc = "hop" /\ e.part = "server" /\ Both(e, S, e.hops \o e.todo) => RouteOK(e, S)
  BY DEF RouteOK, Reading, Walks
<1>7. ViaKnown(e, S) /\ e.pc = "dest" /\ Both(e, S, e.hops) => RouteOK(e, S)
  BY DEF RouteOK, Reading, Walks
<1>8. ViaKnown(e, S) /\ e.pc = "dial" /\ Routed(e, S) => RouteOK(e, S)
  BY DEF RouteOK, Reading, Walks
<1>9. QED
  BY <1>1, <1>2, <1>3, <1>4, <1>5, <1>6, <1>7, <1>8

LEMMA ReadRoute == ASSUME TypeOK, RouteInv, Read PROVE RouteInv'
<1> DEFINE S == seen  c == call
<1>0. call.pc \in Reading /\ UNCHANGED <<d, seen>> /\ call.pc # "idle" /\ d \in S
  BY ReadDoes DEF RouteInv
<1>1. CASE Moves("close", FALSE, call.after)
  <2>1. call.pc \in Walks \/ call.after = "redial" \/ ("close" = "close" /\ call.after # "redial")
    OBVIOUS
  <2>2. QED
    BY <1>0, <1>1, <2>1, MovesRoute
<1>2. CASE call.kind \notin {"cli", "mcp", "web"} /\ call'.kind = call.kind
  BY <1>0, <1>2 DEF RouteInv, RouteOK
<1>3. CASE call.kind \in {"cli", "mcp", "web"} /\ ~Moves("close", FALSE, call.after)
  <2> DEFINE h == call.hops  q == call.todo
  <2>1. /\ call.pc # "args" /\ call.after = "idle" /\ OwnKnown(c, S)
        /\ call.pc # "profile" => ViaKnown(c, S)
    BY <1>0, <1>3 DEF RouteInv, RouteOK
  <2>2. call \in CallType /\ h \in Seq(Servers) /\ q \in Seq(Servers) /\ call.dest \in Servers
    BY <1>0 DEF TypeOK, CallOK, CallType
  <2>3. RouteOK(c, S)
    BY DEF RouteInv
  <2> SUFFICES ASSUME NEW e, e = call' PROVE RouteOK(e, S)
    BY <1>0 DEF RouteInv
  <2> DEFINE Turns(pc, part, via, row, todo, hops) ==
               /\ e.pc = pc /\ e.part = part /\ e.via = via /\ e.row = row /\ e.todo = todo /\ e.hops = hops
               /\ e.after = "idle" /\ e.dest = c.dest /\ e.override = c.override /\ e.own = c.own
  <2>4. \A pc, part, via, row, todo, hops : Steers(pc, part, via, row, todo, hops) => Turns(pc, part, via, row, todo, hops)
    BY <2>1 DEF Steers
  <2>5. ASSUME e.dest = c.dest, e.override = c.override, e.own = c.own
        PROVE  /\ \A x : ViaIn(e, x) = ViaIn(c, x)
               /\ OwnKnown(e, S)
               /\ e.via = c.via =>
                    /\ ViaKnown(c, S) => ViaKnown(e, S)
                    /\ \A x : FirstIn(e, x) = FirstIn(c, x) /\ SecondIn(e, x) = SecondIn(c, x)
                    /\ \A g : Half1(c, S, g) => Half1(e, S, g)
                    /\ \A g : Both(c, S, g) => Both(e, S, g)
    BY <2>1, <2>5, SameRoute
  <2>6. CASE call.pc = "profile"
    <3>1. c.hops = <<>> /\ c.via = 0
      BY <1>3, <2>3, <2>6 DEF RouteOK
    <3>2. CASE ViaIn(c, d) = 0 /\ Turns("own", "server", c.via, c.row, q, h)
      <4>1. ViaKnown(e, S)
        BY <1>0, <2>5, <3>1, <3>2 DEF ViaKnown
      <4>2. FirstIn(e, d) = <<>>
        BY <3>1, <3>2 DEF FirstIn
      <4>3. Half1(e, S, e.hops)
        BY <1>0, <3>1, <3>2, <4>2 DEF Half1
      <4>4. QED
        BY <2>5, <3>2, <4>1, <4>3, RouteBy
    <3>3. CASE ViaIn(c, d) # 0 /\ Turns("row", "profile", ViaIn(c, d), ViaIn(c, d), q, h)
      <4>1. ViaKnown(e, S)
        BY <1>0, <2>5, <3>3 DEF ViaKnown
      <4>2. QED
        BY <2>5, <3>1, <3>3, <4>1, RouteBy
    <3>4. \/ ViaIn(c, d) = 0 /\ Steers("own", "server", c.via, c.row, q, h)
          \/ ViaIn(c, d) # 0 /\ Steers("row", "profile", ViaIn(c, d), ViaIn(c, d), q, h)
      BY <1>3, <2>6, ReadDoes
    <3> HIDE DEF Turns
    <3>5. QED
      BY <2>4, <3>2, <3>3, <3>4
  <2>7. CASE call.pc = "own"
    <3>1. c.part = "server" /\ Half1(c, S, h) /\ ViaKnown(c, S)
      BY <1>3, <2>1, <2>3, <2>7 DEF RouteOK
    <3>2. CASE call.own \in {0, call.via} /\ Turns("dest", c.part, c.via, c.row, q, h)
      <4>1. PICK x \in S : h = FirstIn(c, x)
        BY <3>1 DEF Half1
      <4>2. SecondIn(c, x) = <<>>
        BY <3>2 DEF SecondIn
      <4>3. h \o <<>> = h
        BY <2>2, ConcatEmptySeq
      <4>4. Both(c, S, h)
        BY <4>1, <4>2, <4>3 DEF Both
      <4>5. QED
        BY <2>5, <3>1, <3>2, <4>4, RouteBy
    <3>3. CASE call.own \notin {0, call.via} /\ Turns("row", c.part, c.via, c.own, q, h)
      BY <2>5, <3>1, <3>3, RouteBy
    <3>4. \/ call.own \in {0, call.via} /\ Steers("dest", c.part, c.via, c.row, q, h)
          \/ call.own \notin {0, call.via} /\ Steers("row", c.part, c.via, c.own, q, h)
      BY <1>3, <2>7, ReadDoes
    <3> HIDE DEF Turns
    <3>5. QED
      BY <2>4, <3>2, <3>3, <3>4
  <2>8. CASE call.pc = "row"
    <3>1. ViaKnown(c, S) /\ c.part \in {"profile", "server"}
      BY <1>3, <2>1, <2>3, <2>8 DEF RouteOK
    <3>2. Turns("hops", c.part, c.via, c.row, q, h)
      BY <1>3, <2>4, <2>8, ReadDoes
    <3>3. CASE c.part = "profile"
      <4>1. h = <<>> /\ c.row = c.via /\ c.via # 0
        BY <1>3, <2>3, <2>8, <3>3 DEF RouteOK
      <4>2. QED
        BY <2>5, <3>1, <3>2, <3>3, <4>1, RouteBy
    <3>4. CASE c.part = "server"
      <4>1. Half1(c, S, h) /\ c.row = c.own /\ c.own \notin {0, c.via}
        BY <1>3, <2>3, <2>8, <3>4 DEF RouteOK
      <4>2. QED
        BY <2>5, <3>1, <3>2, <3>4, <4>1, RouteBy
    <3>5. QED
      BY <3>1, <3>3, <3>4
  <2>9. CASE call.pc = "hops"
    <3> DEFINE t == Kept(d.hops[c.row], c.part, c.dest)
    <3>1. ViaKnown(c, S) /\ c.part \in {"profile", "server"}
      BY <1>3, <2>1, <2>3, <2>9 DEF RouteOK
    <3>2. Turns("hop", c.part, c.via, c.row, t, h)
      BY <1>3, <2>4, <2>9, ReadDoes
    <3>3. CASE c.part = "profile"
      <4>1. h = <<>> /\ c.row = c.via /\ c.via # 0
        BY <1>3, <2>3, <2>9, <3>3 DEF RouteOK
      <4>2. t = FirstIn(c, d)
        BY <3>3, <4>1 DEF Kept, FirstIn
      <4>3. <<>> \o t = t
        <5>1. t \in Seq(Servers)
          <6>1. call'.todo = t /\ CallOK(call')
            BY <3>2, ReadDoes
          <6>2. QED
            BY <6>1 DEF CallOK, CallType
        <5>2. QED
          BY <5>1, ConcatEmptySeq
      <4> HIDE DEF t
      <4>4. Half1(c, S, e.hops \o e.todo)
        BY <1>0, <3>2, <4>1, <4>2, <4>3 DEF Half1
      <4>5. QED
        BY <2>5, <3>1, <3>2, <3>3, <4>4, RouteBy
    <3>4. CASE c.part = "server"
      <4>1. Half1(c, S, h) /\ c.row = c.own /\ c.own \notin {0, c.via}
        BY <1>3, <2>3, <2>9, <3>4 DEF RouteOK
      <4>2. t = SecondIn(c, d)
        BY <3>4, <4>1 DEF Kept, SecondIn
      <4> HIDE DEF t
      <4>3. Both(c, S, e.hops \o e.todo)
        BY <1>0, <3>2, <4>1, <4>2 DEF Half1, Both
      <4>4. QED
        BY <2>5, <3>1, <3>2, <3>4, <4>3, RouteBy
    <3>5. QED
      BY <3>1, <3>3, <3>4
  <2>10. CASE call.pc = "hop"
    <3>1. ViaKnown(c, S) /\ c.part \in {"profile", "server"}
      BY <1>3, <2>1, <2>3, <2>10 DEF RouteOK
    <3>2. /\ c.part = "profile" => Half1(c, S, h \o q)
          /\ c.part = "server" => Both(c, S, h \o q)
      BY <1>3, <2>3, <2>10 DEF RouteOK
    <3>3. q = <<>> => h \o q = h
      BY <2>2, ConcatEmptySeq
    <3>4. CASE q = <<>> /\ c.part = "profile" /\ Turns("own", "server", c.via, c.row, q, h)
      BY <2>5, <3>1, <3>2, <3>3, <3>4, RouteBy
    <3>5. CASE q = <<>> /\ c.part # "profile" /\ Turns("dest", c.part, c.via, c.row, q, h)
      BY <2>5, <3>1, <3>2, <3>3, <3>5, RouteBy
    <3>6. CASE q # <<>> /\ Turns("hop", c.part, c.via, c.row, Tail(q), Append(h, Head(q)))
      <4>1. e.hops \o e.todo = h \o q
        BY <2>2, <3>6, Hands
      <4>2. QED
        BY <2>5, <3>1, <3>2, <3>6, <4>1, RouteBy
    <3>7. \/ q = <<>> /\ c.part = "profile" /\ Steers("own", "server", c.via, c.row, q, h)
          \/ q = <<>> /\ c.part # "profile" /\ Steers("dest", c.part, c.via, c.row, q, h)
          \/ q # <<>> /\ Steers("hop", c.part, c.via, c.row, Tail(q), Append(h, Head(q)))
      BY <1>3, <2>10, ReadDoes
    <3> HIDE DEF Turns
    <3>8. QED
      BY <2>4, <3>4, <3>5, <3>6, <3>7
  <2>11. CASE call.pc = "dest"
    <3>1. ViaKnown(c, S) /\ Both(c, S, h)
      BY <1>3, <2>1, <2>3, <2>11 DEF RouteOK
    <3>2. Turns("dial", c.part, c.via, c.row, q, Append(h, c.dest))
      BY <1>3, <2>4, <2>11, ReadDoes
    <3>3. e.hops = h \o <<e.dest>>
      BY <2>2, <3>2, AppendIsConcat
    <3>4. Routed(e, S)
      <4>1. ViaKnown(e, S) /\ OwnKnown(e, S) /\ Both(e, S, h)
        BY <2>5, <3>1, <3>2
      <4>2. PICK x, y \in S : h = FirstIn(e, x) \o SecondIn(e, y)
        BY <4>1 DEF Both
      <4>3. QED
        BY <3>3, <4>1, <4>2 DEF Routed
    <3>5. QED
      BY <2>5, <3>1, <3>2, <3>4, RouteBy
  <2>12. QED
    BY <1>0, <2>1, <2>6, <2>7, <2>8, <2>9, <2>10, <2>11 DEF Reading
<1>4. call'.kind = call.kind
  BY ReadDoes DEF Moves, Steers
<1>5. QED
  BY <1>1, <1>2, <1>3, <1>4

LEMMA RouteStep == ASSUME TypeOK, RouteInv, Next PROVE RouteInv'
<1>k. UNCHANGED <<d, seen, call>> => RouteInv'
  BY DEF RouteInv
<1>w. \A pc \in {"dial", "use", "web", "redial", "shell"} : pc \in Walks /\ pc # "idle"
  BY DEF Walks
<1>c. "close" \in Walks \cup {"close"} /\ Walks \subseteq Walks \cup {"close"}
  OBVIOUS
<1>m. ASSUME NEW pc \in {"dial", "use", "web", "shell", "close"}, NEW half, NEW after, Moves(pc, half, after), UNCHANGED <<d, seen>>,
             call.pc \in {"dial", "use", "web", "redial", "shell"}
      PROVE  RouteInv'
  BY <1>w, <1>c, <1>m, MovesRoute
<1>1. CASE Edit
  <2>1. d' \in seen' /\ UNCHANGED call /\ seen \subseteq seen'
    BY <1>1 DEF Edit
  <2>2. RouteOK(call, seen')
    BY <2>1, RouteGrows DEF RouteInv
  <2>3. QED
    BY <2>1, <2>2 DEF RouteInv
<1>2. CASE \E s \in Servers : Rekey(s)
  BY <1>2, <1>k DEF Rekey
<1>3. ASSUME NEW kind \in Kinds[world], NEW s \in Servers, NEW o \in {"", "none"} \cup Profiles, Begin(kind, s, o) PROVE RouteInv'
  <2> SUFFICES ASSUME NEW e, e = call' PROVE d' \in seen' /\ RouteOK(e, seen')
    BY DEF RouteInv
  <2>1. d' \in seen' /\ seen' = {d}
    BY <1>3, BeginDoes, Begins1
  <2>2. /\ e.dest = s /\ e.after = "idle" /\ e.via = 0
        /\ \/ e.pc = "profile" /\ e.own = d.own[s] /\ e.hops = <<>>
           \/ e.pc = "dial" /\ e.hops = <<s>> /\ s \notin d.servers
    BY <1>3, BeginDoes
  <2>3. CASE e.pc = "profile"
    <3>1. OwnKnown(e, {d})
      BY <2>2, <2>3 DEF OwnKnown
    <3>2. QED
      BY <2>1, <2>2, <2>3, <3>1, RouteBy
  <2>4. CASE e.pc = "dial"
    <3>1. Routed(e, {d})
      BY <2>2, <2>4 DEF Routed
    <3>2. QED
      BY <2>1, <2>2, <2>4, <3>1 DEF RouteOK, Reading
  <2>5. QED
    BY <2>2, <2>3, <2>4
<1>4. CASE \E args \in Args[world] : BeginArgs(args)
  <2>1. d' \in seen' /\ call'.kind = "args"
    BY <1>4, BeginArgsDoes, Begins1
  <2>2. QED
    BY <2>1 DEF RouteInv, RouteOK
<1>5. CASE Read
  BY <1>5, ReadRoute
<1>6. CASE DialFirst
  BY <1>6, <1>k, DialFirstDoes
<1>7. CASE DialVia
  BY <1>7, <1>m, DialViaDoes
<1>8. CASE Handshake
  BY <1>8, <1>m, HandshakeDoes
<1>9. CASE \E eof \in BOOLEAN : DialFails(eof)
  BY <1>9, <1>m, DialFailsDoes
<1>10. CASE Use
  BY <1>10, <1>m, UseDoes
<1>11. CASE Quits
  BY <1>11, <1>m, QuitsDo, FailDoes
<1>12. CASE BrowserLeaves \/ WebShellEnds
  BY <1>12, <1>k DEF BrowserLeaves, WebShellEnds
<1>13. CASE Redial
  BY <1>13, <1>m, RedialDoes
<1>14. CASE RedialFails
  BY <1>14, <1>m, RedialFailsDoes
<1>15. CASE Reads \/ Sends \/ (Conducts /\ ~Fail) \/ Remote \/ SshEnds \/ UserExits
  BY <1>15, <1>k, LocalType, RemoteType DEF Shell
<1>16. CASE CloseAll
  <2>1. CASE call' = Idle
    <3>1. Idle.pc = "idle" /\ Idle.kind = "none"
      BY DEF Idle
    <3>2. RouteOK(Idle, seen')
      BY <3>1 DEF RouteOK
    <3>3. QED
      BY <2>1, <3>1, <3>2 DEF RouteInv
  <2>2. CASE call.after = "redial" /\ Moves("redial", call.half, call.after)
    <3>1. call.pc # "idle" /\ UNCHANGED <<d, seen>>
      BY <1>16, CloseAllDoes
    <3>2. QED
      BY <1>w, <1>c, <2>2, <3>1, MovesRoute
  <2>3. QED
    BY <1>16, <1>k, <2>1, <2>2, CloseAllDoes
<1>17. QED
  BY <1>1, <1>2, <1>3, <1>4, <1>5, <1>6, <1>7, <1>8, <1>9, <1>10, <1>11, <1>12, <1>13, <1>14, <1>15, <1>16
  DEF Next, Local, Quits, Read

-----------------------------------------------------------------------------
\* The shells.
Heeded == IF sh.hop = 1 THEN {"prompt"} ELSE {"prompt", "password", "hostkey", "denied", "refused", "noroute", "closed"}

\* The pattern that hits is one that matches.
LEMMA HitIs ==
  ASSUME NEW acc
  PROVE  \/ Hit(acc) = "none" /\ \A p \in Heeded : ~Matches(p, acc)
         \/ Hit(acc) \in Heeded /\ Matches(Hit(acc), acc)
<1> DEFINE ps == IF sh.hop = 1 THEN <<"prompt">> ELSE Patterns
           js == {j \in DOMAIN ps : Matches(ps[j], acc)}
<1>1. Hit(acc) = IF js = {} THEN "none" ELSE ps[Min(js)]
  BY DEF Hit
<1>2. DOMAIN ps \subseteq Nat
  BY DEF Patterns
<1>3. js \subseteq DOMAIN ps /\ \A j \in js : Matches(ps[j], acc)
  OBVIOUS
<1>4. {ps[j] : j \in DOMAIN ps} = Heeded
  <2>1. CASE sh.hop = 1
    BY <2>1 DEF Heeded
  <2>2. CASE sh.hop # 1
    BY <2>2 DEF Heeded, Patterns
  <2>3. QED
    BY <2>1, <2>2
<1>5. js = {} => \A j \in DOMAIN ps : ~Matches(ps[j], acc)
  OBVIOUS
<1> HIDE DEF ps, js
<1>6. ASSUME js # {} PROVE Min(js) \in js
  <2>1. js \in SUBSET Nat
    BY <1>2, <1>3
  <2>2. \E m \in js : \A n \in js : m <= n
    BY <1>6, <2>1, Least
  <2>3. QED
    BY <2>2 DEF Min
<1>7. CASE js = {}
  BY <1>1, <1>4, <1>5, <1>7
<1>8. CASE js # {}
  BY <1>1, <1>3, <1>4, <1>6, <1>8
<1>9. QED
  BY <1>7, <1>8

\* What the conductor makes of what the remote side prints.
LEMMA Hits ==
  /\ Hit(<<"text">>) = "none"
  /\ Hit(<<"text", "prompt">>) = "prompt"
  /\ sh.hop # 1 => \A t \in Tokens \ {"text"} : Hit(<<t>>) = t
<1>1. \A t, p : Matches(p, <<t>>) => p = t
  <2> SUFFICES ASSUME NEW t, NEW p, Matches(p, <<t>>) PROVE p = t
    OBVIOUS
  <2>1. Last(<<t>>) = t /\ ToSet(<<t>>) = {t}
    BY DEF Last, ToSet
  <2>2. QED
    BY <2>1 DEF Matches
<1>2. \A t : Matches(t, <<t>>)
  <2> SUFFICES ASSUME NEW t PROVE Matches(t, <<t>>)
    OBVIOUS
  <2>1. Last(<<t>>) = t /\ t \in ToSet(<<t>>)
    BY DEF Last, ToSet
  <2>2. QED
    BY <2>1 DEF Matches
<1>3. Matches("prompt", <<"text", "prompt">>) /\ \A p \in Heeded : Matches(p, <<"text", "prompt">>) => p = "prompt"
  <2>1. Last(<<"text", "prompt">>) = "prompt" /\ ToSet(<<"text", "prompt">>) = {"text", "prompt"}
    BY DEF Last, ToSet
  <2>2. QED
    BY <2>1 DEF Matches, Heeded
<1>4. "text" \notin Heeded /\ "prompt" \in Heeded
  BY DEF Heeded
<1>5. Hit(<<"text">>) = "none"
  BY <1>1, <1>4, HitIs
<1>6. Hit(<<"text", "prompt">>) = "prompt"
  BY <1>3, <1>4, HitIs
<1>7. ASSUME sh.hop # 1, NEW t \in Tokens \ {"text"} PROVE Hit(<<t>>) = t
  <2>1. t \in Heeded
    BY <1>7 DEF Heeded, Tokens
  <2>2. QED
    BY <1>1, <1>2, <2>1, HitIs
<1>8. QED
  BY <1>5, <1>6, <1>7

LEMMA TalkSame ==
  ASSUME NEW s, NEW e, NEW n, NEW straight, Talk(s, straight, n),
         e.typed = s.typed, e.asks = s.asks, e.hop = s.hop, e.depth = s.depth, e.acc = s.acc,
         e.chan \o Ones(e.out) = s.chan \o Ones(s.out)
  PROVE  Talk(e, straight, n)
<1>1. \A acc, tokens : Hears(s, acc, tokens) => Hears(e, acc, tokens)
  BY DEF Hears
<1>2. /\ Greeted(s) => Greeted(e)
      /\ Refused(s) => Refused(e)
      /\ Asked(s) => Asked(e)
      /\ Spoken(s) => Spoken(e)
      /\ Handover(s, straight, n) => Handover(e, straight, n)
      /\ \A m : Placed(s, straight, m) => Placed(e, straight, m)
  BY <1>1 DEF Greeted, Refused, Asked, Spoken, Handover, Placed
<1>3. QED
  BY <1>2 DEF Talk, Converses

\* Nothing is on its way when the remote side has a line to answer.
LEMMA SpokenIs ==
  ASSUME sh \in ShellType, Spoken(sh)
  PROVE  /\ sh.acc = <<>> /\ sh.chan = <<>> /\ sh.out = <<>> /\ sh.typed # <<>> /\ Tail(sh.typed) = <<>>
         /\ <<Head(sh.typed), sh.asks>> \in Answers
<1>1. sh.chan \in Seq(Seq(Tokens)) /\ sh.out \in Seq(Tokens)
  BY DEF ShellType
<1>2. sh.acc = <<>> /\ sh.chan \o Ones(sh.out) = Ones(<<>>)
  BY DEF Spoken, Hears
<1>3. sh.chan = <<>> /\ sh.out = <<>>
  BY <1>1, <1>2, Silent
<1>4. PICK a \in Answers : sh.typed = <<a[1]>> /\ sh.asks = a[2]
  BY DEF Spoken
<1>5. Head(<<a[1]>>) = a[1] /\ Tail(<<a[1]>>) = <<>> /\ <<a[1]>> # <<>>
  OBVIOUS
<1>6. <<a[1], a[2]>> = a
  BY DEF Answers
<1>7. QED
  BY <1>2, <1>3, <1>4, <1>5, <1>6

LEMMA Pair == ASSUME NEW S, NEW a \in S, NEW b \in S PROVE <<a>> \o <<b>> = <<a, b>>
<1> DEFINE s == <<a>>  t == <<b>>  u == <<a, b>>  v == s \o t
<1>1. s \in Seq(S) /\ Len(s) = 1 /\ s[1] = a /\ t \in Seq(S) /\ Len(t) = 1 /\ t[1] = b
  OBVIOUS
<1>2. u \in Seq(S) /\ Len(u) = 2 /\ u[1] = a /\ u[2] = b
  OBVIOUS
<1>3. v \in Seq(S) /\ Len(v) = Len(s) + Len(t) /\ \A i \in 1..Len(v) : v[i] = IF i <= Len(s) THEN s[i] ELSE t[i - Len(s)]
  BY <1>1, ConcatIs
<1> HIDE DEF s, t, u, v
<1>4. Len(v) = 2 /\ v[1] = a /\ v[2] = b
  BY <1>1, <1>3
<1>5. \A i \in 1..Len(v) : v[i] = u[i]
  BY <1>2, <1>4
<1>6. v = u
  BY <1>2, <1>3, <1>4, <1>5, SeqEqual
<1>7. QED
  BY <1>6 DEF s, t, u, v

LEMMA ConductsTalk ==
  ASSUME TypeOK, Conducts, ~Fail, NEW straight, Talk(sh, straight, Len(call.hops))
  PROVE  Talk(sh', straight, Len(call.hops)) /\ Quiet /\ Shell(sh')
<1> DEFINE n == Len(call.hops)  c == sh.chan  q == sh.out  acc == sh.acc \o Head(c)  hit == Hit(acc)
<1>1. sh \in ShellType /\ c \in Seq(Seq(Tokens)) /\ q \in Seq(Tokens) /\ sh.hop \in Nat /\ n \in Nat /\ sh.depth \in Int
  BY CallFields, LenProperties DEF TypeOK, ShellType
<1>2. sh.hop <= n /\ c # <<>> /\ Converses(sh, straight)
  BY ConductsDoes DEF Talk
<1>3. /\ sh'.acc = IF hit = "none" THEN acc ELSE <<>>
      /\ \/ hit = "none" /\ Taken(sh.hop, sh.typed)
         \/ hit = "prompt" /\ sh.hop = n /\ Taken(sh.hop + 1, sh.typed \o <<"export", "command">>)
         \/ hit = "prompt" /\ sh.hop < n /\ Taken(sh.hop + 1, Append(sh.typed, "ssh"))
         \/ hit = "password" /\ Taken(sh.hop, Append(sh.typed, "password"))
         \/ hit = "hostkey" /\ Taken(sh.hop, Append(sh.typed, "yes"))
  BY ConductsDoes
<1>4. Quiet /\ Shell(sh') /\ sh'.chan = Tail(c) /\ sh'.out = q /\ sh'.depth = sh.depth /\ sh'.asks = sh.asks
  BY <1>3 DEF Taken
<1>5. Tokens \subseteq Tokens /\ {"text", "prompt", "password", "hostkey", "denied", "refused", "noroute", "closed"} = Tokens
  BY DEF Tokens
<1>6. \A a, b \in Tokens :
        /\ c \o Ones(q) = Ones(<<a>>) => Head(c) = <<a>> /\ Tail(c) \o Ones(q) = Ones(<<>>)
        /\ c \o Ones(q) = Ones(<<a, b>>) => Head(c) = <<a>> /\ Tail(c) \o Ones(q) = Ones(<<b>>)
  BY <1>1, <1>2, Pulls
<1>7. \A a : <<>> \o <<a>> = <<a>>
  OBVIOUS
<1>8. <<"text">> \o <<"prompt">> = <<"text", "prompt">>
  <2>1. "text" \in Tokens /\ "prompt" \in Tokens
    BY DEF Tokens
  <2>2. QED
    BY <2>1, Pair
<1>9. <<>> \o <<"export", "command">> = <<"export", "command">> /\ \A l : Append(<<>>, l) = <<l>>
  OBVIOUS
<1>10. Hit(<<"text">>) = "none" /\ Hit(<<"text", "prompt">>) = "prompt" /\ (sh.hop > 1 => \A t \in Tokens \ {"text"} : Hit(<<t>>) = t)
  <2>1. sh.hop > 1 => sh.hop # 1
    BY <1>1
  <2>2. QED
    BY <2>1, Hits
<1>s. SUFFICES ASSUME NEW e, e = sh' PROVE Talk(e, straight, n)
  BY <1>4
<1>11. CASE Greeted(sh) /\ Placed(sh, straight, sh.hop) /\ Hears(sh, <<>>, <<"text", "prompt">>)
  <2>1. Head(c) = <<"text">> /\ Tail(c) \o Ones(q) = Ones(<<"prompt">>) /\ sh.acc = <<>>
    BY <1>5, <1>6, <1>11 DEF Hears
  <2>2. acc = <<"text">> /\ hit = "none"
    BY <1>7, <1>10, <2>1
  <2>3. e.hop = sh.hop /\ e.typed = sh.typed /\ e.acc = <<"text">>
    BY <1>3, <1>s, <2>2 DEF Taken
  <2>4. Greeted(e) /\ Placed(e, straight, e.hop)
    BY <1>4, <1>11, <1>s, <2>1, <2>3 DEF Greeted, Hears, Placed
  <2>5. QED
    BY <1>2, <2>3, <2>4 DEF Talk, Converses
<1>12. CASE Greeted(sh) /\ Placed(sh, straight, sh.hop) /\ Hears(sh, <<"text">>, <<"prompt">>)
  <2>1. Head(c) = <<"prompt">> /\ Tail(c) \o Ones(q) = Ones(<<>>) /\ sh.acc = <<"text">>
    BY <1>5, <1>6, <1>12 DEF Hears
  <2>2. acc = <<"text", "prompt">> /\ hit = "prompt"
    BY <1>8, <1>10, <2>1
  <2>3. sh.typed = <<>> /\ sh.asks = "shell" /\ sh.hop >= 1 /\ Placed(sh, straight, sh.hop)
    BY <1>12 DEF Greeted
  <2>4. CASE sh.hop = n /\ Taken(sh.hop + 1, sh.typed \o <<"export", "command">>)
    <3>1. e.hop = n + 1 /\ e.typed = <<"export", "command">> /\ e.asks = "shell" /\ Placed(e, straight, n)
      BY <1>4, <1>9, <1>s, <2>3, <2>4 DEF Taken, Placed
    <3>2. ~(e.hop <= n)
      BY <1>1, <3>1
    <3>3. QED
      BY <3>1, <3>2 DEF Talk, Handover
  <2>5. CASE sh.hop < n /\ Taken(sh.hop + 1, Append(sh.typed, "ssh"))
    <3>1. e.hop = sh.hop + 1 /\ e.typed = <<"ssh">> /\ e.asks = "shell" /\ Placed(e, straight, sh.hop)
      BY <1>4, <1>9, <1>s, <2>3, <2>5 DEF Taken, Placed
    <3>2. e.hop <= n /\ e.hop > 1 /\ e.hop - 1 = sh.hop
      BY <1>1, <2>3, <2>5, <3>1
    <3>3. e.acc = <<>>
      BY <1>3, <1>s, <2>2
    <3>4. Hears(e, <<>>, <<>>)
      BY <1>4, <1>s, <2>1, <3>3 DEF Hears
    <3>5. Spoken(e)
      BY <3>1, <3>4 DEF Spoken, Answers
    <3>6. QED
      BY <3>1, <3>2, <3>5 DEF Talk, Converses
  <2>6. QED
    BY <1>3, <2>2, <2>4, <2>5
<1>13. CASE sh.hop > 1 /\ Placed(sh, straight, sh.hop - 1) /\ Refused(sh)
  <2>1. PICK why \in Failures \ {"text"} : Hears(sh, <<>>, <<why, "prompt">>)
    BY <1>13 DEF Refused
  <2>2. why \in Tokens \ {"text"} /\ "prompt" \in Tokens /\ why \in Failures \ {"text"}
    BY DEF Tokens, Failures
  <2>3. acc = <<why>>
    BY <1>6, <1>7, <2>1, <2>2 DEF Hears
  <2>4. hit = why
    <3>1. Hit(<<why>>) = why
      BY <1>10, <1>13, <2>2
    <3>2. QED
      BY <2>3, <3>1
  <2>5. QED
    BY <1>3, <2>2, <2>4 DEF Failures
<1>14. CASE sh.hop > 1 /\ Placed(sh, straight, sh.hop - 1) /\ Asked(sh)
  <2>1. sh.typed = <<>>
    BY <1>14 DEF Asked
  <2>2. CASE Hears(sh, <<>>, <<"denied", "password">>)
    <3>1. acc = <<"denied">>
      BY <1>5, <1>6, <1>7, <2>2 DEF Hears
    <3>2. hit = "denied"
      <4>1. "denied" \in Tokens \ {"text"}
        BY DEF Tokens
      <4>2. Hit(<<"denied">>) = "denied"
        BY <1>10, <1>14, <4>1
      <4>3. QED
        BY <3>1, <4>2
    <3>3. QED
      BY <1>3, <3>2
  <2>3. ASSUME NEW t \in {"password", "hostkey"}, NEW line, sh.asks = t, <<line, t>> \in Answers, Hears(sh, <<>>, <<t>>)
        PROVE  Talk(e, straight, n)
    <3>1. t \in Tokens \ {"text"}
      BY DEF Tokens
    <3>2. acc = <<t>> /\ Tail(c) \o Ones(q) = Ones(<<>>)
      BY <1>6, <1>7, <2>3, <3>1 DEF Hears
    <3>3. hit = t
      <4>1. Hit(<<t>>) = t
        BY <1>10, <1>14, <3>1
      <4>2. QED
        BY <3>2, <4>1
    <3>4. line = IF t = "password" THEN "password" ELSE "yes"
      BY <2>3 DEF Answers
    <3>5. Taken(sh.hop, Append(sh.typed, line)) /\ e.acc = <<>>
      BY <1>3, <1>s, <3>3, <3>4
    <3>6. e.hop = sh.hop /\ e.typed = <<line>> /\ e.depth = sh.depth /\ e.asks = t
      BY <1>4, <1>9, <1>s, <2>1, <2>3, <3>5 DEF Taken
    <3>7. Hears(e, <<>>, <<>>)
      BY <1>4, <1>s, <3>2, <3>5 DEF Hears
    <3>8. Spoken(e)
      <4>1. LET a == <<line, t>> IN a \in Answers /\ e.typed = <<a[1]>> /\ e.asks = a[2]
        BY <2>3, <3>6
      <4>2. QED
        BY <3>7, <4>1 DEF Spoken
    <3>9. QED
      BY <1>2, <1>14, <3>6, <3>8 DEF Talk, Converses, Placed
  <2>4. <<"password", "password">> \in Answers /\ <<"yes", "hostkey">> \in Answers
    BY DEF Answers
  <2>5. QED
    BY <1>14, <2>2, <2>3, <2>4 DEF Asked
<1>15. CASE Spoken(sh)
  BY <1>1, <1>2, <1>15, SpokenIs
<1>16. QED
  BY <1>2, <1>11, <1>12, <1>13, <1>14, <1>15 DEF Converses, Greeted

\* Things have gone straight, and what was typed has reached whom it was meant for.
Straight == astray = "no"
ReachedBy(hops, leak, way, n) == ~leak /\ hops \subseteq 1..n /\ (way = "no" => hops \subseteq {n})

LEMMA RemoteTalk ==
  ASSUME TypeOK, Remote \/ UserExits, Talk(sh, Straight, Len(call.hops)), ReachedBy(ran, leaked, astray, Len(call.hops)), astray # "gone"
  PROVE  Talk(sh', Straight', Len(call.hops)) /\ Shell(sh') /\ ReachedBy(ran', leaked', astray', Len(call.hops)) /\ astray' # "gone"
<1> DEFINE n == Len(call.hops)
<1>1. sh \in ShellType /\ sh.hop \in Nat /\ n \in Nat /\ sh.depth \in Int
  BY CallFields, LenProperties DEF TypeOK, ShellType
<1>2. Shell(sh')
  BY RemoteType
<1>a. /\ \A m : ReachedBy(ran', leaked', astray', m) <=> ~leaked' /\ ran' \subseteq 1..m /\ (astray' = "no" => ran' \subseteq {m})
      /\ Straight' = (astray' = "no") /\ Straight' \in BOOLEAN
  BY DEF ReachedBy, Straight
<1>s. SUFFICES ASSUME NEW e, e = sh', NEW straight \in BOOLEAN, straight = Straight'
              PROVE  /\ Talk(e, straight, n) /\ ~leaked' /\ ran' \subseteq 1..n
                     /\ (straight => ran' \subseteq {n}) /\ astray' # "gone"
  BY <1>2, <1>a
<1>c. straight = (astray' = "no")
  BY <1>a, <1>s
<1>b. ~leaked /\ ran \subseteq 1..n /\ (Straight => ran \subseteq {n})
  BY DEF ReachedBy, Straight
<1>3. CASE sh.hop <= n
  <2>1. sh.typed # <<>> /\ Remote
    BY <1>1, <1>3, RemoteDoes DEF Remote, Heard
  <2>2. Spoken(sh) /\ sh.hop > 1 /\ Placed(sh, Straight, sh.hop - 1)
    BY <1>3, <2>1 DEF Talk, Converses, Greeted, Refused, Asked
  <2>3. /\ sh.acc = <<>> /\ sh.chan = <<>> /\ sh.out = <<>> /\ Tail(sh.typed) = <<>> /\ <<Head(sh.typed), sh.asks>> \in Answers
    BY <1>1, <2>2, SpokenIs
  <2>4. ASSUME NEW next, NEW t \in Seq(Tokens), NEW depth, Answered(next, sh.out \o t, depth)
        PROVE  e.typed = <<>> /\ e.asks = next /\ e.depth = depth /\ e.hop = sh.hop /\ Hears(e, <<>>, t)
    <3>1. <<>> \o t = t /\ <<>> \o Ones(t) = Ones(t)
      BY OnesIs, ConcatEmptySeq
    <3>2. e.typed = <<>> /\ e.asks = next /\ e.depth = depth /\ e.hop = sh.hop /\ e.acc = <<>> /\ e.chan = <<>> /\ e.out = t
      BY <1>c, <1>s, <2>3, <2>4, <3>1 DEF Answered, ShellIs
    <3>3. QED
      BY <3>1, <3>2 DEF Hears
  <2>5. ASSUME Answered("shell", sh.out \o <<"text", "prompt">>, sh.depth + 1), UNCHANGED astray PROVE Talk(e, straight, n)
    <3>1. <<"text", "prompt">> \in Seq(Tokens)
      BY DEF Tokens
    <3>2. e.typed = <<>> /\ e.asks = "shell" /\ e.depth = sh.depth + 1 /\ e.hop = sh.hop /\ Hears(e, <<>>, <<"text", "prompt">>)
      BY <2>4, <2>5, <3>1
    <3>3. Placed(e, straight, e.hop) /\ e.hop >= 1 /\ e.hop <= n
      <4>1. straight = Straight
        BY <1>c, <1>s, <2>5 DEF Straight
      <4>2. QED
        BY <1>1, <1>3, <2>2, <3>2, <4>1 DEF Placed
    <3>4. QED
      BY <3>2, <3>3 DEF Talk, Converses, Greeted
  <2>u. ASSUME Answered("shell", sh.out \o <<"text", "prompt">>, sh.depth), ~straight PROVE Talk(e, straight, n)
    <3>1. <<"text", "prompt">> \in Seq(Tokens)
      BY DEF Tokens
    <3>2. e.typed = <<>> /\ e.asks = "shell" /\ e.depth = sh.depth /\ e.hop = sh.hop /\ Hears(e, <<>>, <<"text", "prompt">>)
      BY <2>4, <2>u, <3>1
    <3>3. Placed(e, straight, e.hop) /\ e.hop >= 1 /\ e.hop <= n
      BY <1>1, <1>3, <2>2, <2>u, <3>2 DEF Placed
    <3>4. QED
      BY <3>2, <3>3 DEF Talk, Converses, Greeted
  <2>6. ASSUME NEW t \in Seq(Tokens), NEW next, Answered(next, sh.out \o t, sh.depth), UNCHANGED astray,
               \/ next = "shell" /\ \E why \in Reasons : t = <<why, "prompt">>
               \/ next = "password" /\ t \in {<<"password">>, <<"denied", "password">>}
               \/ next = "hostkey" /\ t = <<"hostkey">>
        PROVE  Talk(e, straight, n)
    <3>1. e.typed = <<>> /\ e.asks = next /\ e.depth = sh.depth /\ e.hop = sh.hop /\ Hears(e, <<>>, t)
      BY <2>4, <2>6
    <3>2. Refused(e) \/ Asked(e)
      BY <2>6, <3>1 DEF Refused, Asked, Reasons, Failures
    <3>3. straight = Straight
      BY <1>c, <1>s, <2>6 DEF Straight
    <3>4. Placed(e, straight, e.hop - 1)
      BY <2>2, <3>1, <3>3 DEF Placed
    <3>5. QED
      BY <1>3, <2>2, <3>1, <3>2, <3>4 DEF Talk, Converses
  <2>7. /\ \A why \in Reasons : <<why, "prompt">> \in Seq(Tokens)
        /\ \A what \in {"password", "hostkey"} : <<what>> \in Seq(Tokens)
        /\ <<"denied", "password">> \in Seq(Tokens)
    BY DEF Tokens, Reasons
  <2>8. ASSUME Failed PROVE Talk(e, straight, n) /\ astray' # "gone" /\ (straight => Straight)
    <3>1. PICK why \in Failures :
            /\ Answered("shell", sh.out \o <<why, "prompt">>, sh.depth)
            /\ astray' = IF why = "text" /\ astray = "no" THEN "words" ELSE astray
      BY <2>8 DEF Failed
    <3>2. astray' # "gone" /\ (straight => Straight)
      BY <1>c, <1>s, <3>1 DEF Straight
    <3>3. CASE why = "text"
      <4>1. ~straight
        BY <1>c, <1>s, <3>1, <3>3
      <4>2. Talk(e, straight, n)
        BY <2>u, <3>1, <3>3, <4>1
      <4>3. QED
        BY <3>2, <4>2
    <3>4. CASE why # "text"
      <4>1. why \in Reasons /\ UNCHANGED astray
        BY <3>1, <3>4 DEF Failures, Reasons
      <4>2. Talk(e, straight, n)
        BY <2>6, <2>7, <3>1, <4>1
      <4>3. QED
        BY <3>2, <4>2
    <3>5. QED
      BY <3>3, <3>4
  <2>9. \A what \in {"password", "hostkey"} :
          Answered(what, sh.out \o <<what>>, sh.depth) /\ UNCHANGED astray => Talk(e, straight, n)
    BY <2>6, <2>7
  <2>10. Answered("password", sh.out \o <<"denied", "password">>, sh.depth) /\ UNCHANGED astray => Talk(e, straight, n)
    BY <2>6, <2>7
  <2>k. UNCHANGED astray => astray' # "gone" /\ (straight => Straight)
    BY <1>c DEF Straight
  <2>11. CASE SshRuns \/ HostKeyAnswered
    <3>1. Talk(e, straight, n) /\ astray' # "gone" /\ (straight => Straight)
      BY <2>5, <2>8, <2>9, <2>11, <2>k, RemoteDoes
    <3>2. UNCHANGED <<ran, leaked>>
      BY <2>11, RemoteDoes
    <3>3. QED
      BY <1>b, <3>1, <3>2
  <2>12. CASE PasswordTyped
    <3>1. Heard(Head(sh.typed), "password") /\ UNCHANGED leaked /\ ran' = IF Head(sh.typed) = "command" THEN ran \cup {0} ELSE ran
      BY <2>12, RemoteDoes
    <3>2. Head(sh.typed) # "command"
      BY <2>3 DEF Answers
    <3>3. Talk(e, straight, n) /\ astray' # "gone" /\ (straight => Straight)
      BY <2>5, <2>8, <2>10, <2>12, <2>k, RemoteDoes
    <3>4. QED
      BY <1>b, <3>1, <3>2, <3>3
  <2>13. ASSUME OtherLine \/ CommandRuns PROVE FALSE
    <3>1. sh.asks = "shell" /\ Head(sh.typed) \in {"export", "yes", "password", "command"}
      BY <2>13, RemoteDoes DEF Heard
    <3>2. QED
      BY <2>3, <3>1 DEF Answers
  <2>14. QED
    BY <2>1, <2>11, <2>12, <2>13 DEF Remote
<1>4. CASE ~(sh.hop <= n)
  <2>1. sh.asks = "shell" /\ sh.typed \in {<<"export", "command">>, <<"command">>, <<>>} /\ (sh.typed # <<>> => Placed(sh, Straight, n))
    BY <1>4 DEF Talk, Handover
  <2>2. /\ Head(<<"export", "command">>) = "export" /\ Tail(<<"export", "command">>) = <<"command">>
        /\ Head(<<"command">>) = "command" /\ Tail(<<"command">>) = <<>>
    OBVIOUS
  <2>3. sh.typed # <<>> =>
          \/ sh.typed = <<"export", "command">> /\ Head(sh.typed) = "export" /\ Tail(sh.typed) = <<"command">>
          \/ sh.typed = <<"command">> /\ Head(sh.typed) = "command" /\ Tail(sh.typed) = <<>>
    BY <2>1, <2>2
  <2>4. CASE OtherLine
    <3>1. PICK line \in {"export", "yes", "password"} :
            /\ Heard(line, "shell") /\ leaked' = (leaked \/ line = "password") /\ UNCHANGED <<ran, astray>>
            /\ Answered("shell", sh.out \o <<"prompt">>, sh.depth)
      BY <2>4, RemoteDoes
    <3>2. line = "export" /\ Tail(sh.typed) = <<"command">> /\ Placed(sh, Straight, n)
      BY <2>1, <2>3, <3>1 DEF Heard
    <3>3. e.hop = sh.hop /\ e.asks = "shell" /\ e.typed = <<"command">> /\ e.depth = sh.depth
      BY <1>c, <1>s, <3>1, <3>2 DEF Answered, ShellIs
    <3>4. Placed(e, straight, n)
      BY <1>c, <1>s, <3>1, <3>2, <3>3 DEF Placed, Straight
    <3>5. QED
      BY <1>4, <1>b, <1>c, <1>s, <3>1, <3>2, <3>3, <3>4 DEF Talk, Handover, Straight
  <2>5. CASE CommandRuns
    <3>1. Heard("command", "shell") /\ ran' = ran \cup {sh.depth} /\ UNCHANGED <<leaked, astray>>
      BY <2>5, RemoteDoes
    <3>2. PICK out : Answered("shell", out, sh.depth - 1)
      BY <2>5, RemoteDoes
    <3>3. Tail(sh.typed) = <<>> /\ Placed(sh, Straight, n)
      BY <2>1, <2>3, <3>1 DEF Heard
    <3>4. e.hop = sh.hop /\ e.asks = "shell" /\ e.typed = <<>>
      BY <1>c, <1>s, <3>2, <3>3 DEF Answered, ShellIs
    <3>5. Talk(e, straight, n)
      BY <1>4, <3>4 DEF Talk, Handover
    <3>6. ran' \subseteq 1..n /\ (straight => ran' \subseteq {n})
      BY <1>b, <1>c, <1>s, <3>1, <3>3 DEF Placed, Straight
    <3>7. QED
      BY <1>b, <3>1, <3>5, <3>6
  <2>6. CASE UserExits
    <3>1. Quiet /\ \E out : ShellIs(sh', sh, <<>>, out, sh.depth - 1, "shell")
      BY <2>6, RemoteDoes
    <3>2. e.hop = sh.hop /\ e.asks = "shell" /\ e.typed = <<>>
      BY <1>c, <1>s, <3>1 DEF ShellIs
    <3>3. QED
      BY <1>4, <1>b, <1>c, <1>s, <3>1, <3>2 DEF Talk, Handover, Quiet, history, Straight
  <2>7. ASSUME SshRuns \/ HostKeyAnswered \/ PasswordTyped PROVE FALSE
    <3>1. /\ sh.typed # <<>>
          /\ Head(sh.typed) = "ssh" \/ sh.asks # "shell"
      BY <2>7, RemoteDoes DEF Heard
    <3>2. QED
      BY <2>1, <2>3, <3>1
  <2>8. QED
    BY <2>4, <2>5, <2>6, <2>7 DEF Remote
<1>5. QED
  BY <1>3, <1>4

LEMMA ShellStep == ASSUME TypeOK, ShellInv, InputReachesItsReader, Next PROVE ShellInv' /\ InputReachesItsReader'
<1> DEFINE n == Len(call.hops)
<1>0. /\ call.pc # "shell" => sh = NoShell
      /\ call.pc \in Reading => ran = {}
      /\ world \notin Coalesced /\ call.pc = "shell" /\ astray # "gone" => Talk(sh, Straight, n)
      /\ world \notin Coalesced /\ call.pc # "idle" /\ astray # "gone" => ReachedBy(ran, leaked, astray, n)
  BY DEF ShellInv, InputReachesItsReader, ReachedBy, Straight
<1>p. \A pc \in {"idle", "dial", "use", "web", "close", "redial", "shell"} : pc \notin Reading
  BY DEF Reading
<1>k. UNCHANGED <<world, call, sh, ran, leaked, astray>> => ShellInv' /\ InputReachesItsReader'
  BY DEF ShellInv, InputReachesItsReader
<1>m. ASSUME NEW pc \in {"dial", "use", "web", "close", "redial"}, NEW half, NEW after, Moves(pc, half, after),
             call.pc # "idle", UNCHANGED <<world, leaked, astray>>, sh' = NoShell, ran' = ran \/ (ran' = {n} /\ n \in 1..n)
      PROVE  ShellInv' /\ InputReachesItsReader'
  <2>1. call'.pc = pc /\ call'.hops = call.hops
    BY <1>m DEF Moves
  <2>2. ShellInv'
    BY <1>m, <1>p, <2>1 DEF ShellInv
  <2>3. InputReachesItsReader'
    BY <1>0, <1>m, <2>1 DEF InputReachesItsReader, ReachedBy
  <2>4. QED
    BY <2>2, <2>3
<1>t. ASSUME Shell(sh'), call.pc = "shell",
             world \notin Coalesced /\ astray' # "gone" => Talk(sh', Straight', n) /\ ReachedBy(ran', leaked', astray', n)
      PROVE  ShellInv' /\ InputReachesItsReader'
  <2>1. UNCHANGED <<world, call>>
    BY <1>t DEF Shell
  <2>2. ShellInv'
    BY <1>p, <1>t, <2>1 DEF ShellInv, Straight
  <2>3. InputReachesItsReader'
    BY <1>t, <2>1 DEF InputReachesItsReader, ReachedBy
  <2>4. QED
    BY <2>2, <2>3
<1>1. CASE Edit \/ \E s \in Servers : Rekey(s)
  BY <1>1, <1>k DEF Edit, Rekey, terminals, history
<1>2. ASSUME call.pc = "idle", Begins(call'), call'.pc # "shell" PROVE ShellInv' /\ InputReachesItsReader'
  <2>1. ran' = {} /\ leaked' = FALSE /\ sh' = NoShell
    BY <1>0, <1>2, Begins1
  <2>2. QED
    BY <1>2, <2>1 DEF ShellInv, InputReachesItsReader
<1>3. CASE \E kind \in Kinds[world], s \in Servers, o \in {"", "none"} \cup Profiles : Begin(kind, s, o)
  BY <1>2, <1>3, BeginDoes
<1>4. CASE \E args \in Args[world] : BeginArgs(args)
  BY <1>2, <1>4, BeginArgsDoes
<1>5. CASE Read
  <2>1. call.pc \in Reading /\ call.pc # "idle" /\ UNCHANGED <<world, ran, leaked, astray>> /\ ran = {} /\ sh = NoShell /\ call.pc # "shell"
    BY <1>0, <1>5, <1>p, ReadDoes
  <2>2. sh' = NoShell
    BY <1>5, <2>1, ReadDoes DEF Rest
  <2>3. call'.pc # "shell"
    BY <1>5, ReadDoes DEF Moves, Steers
  <2>4. ShellInv' /\ InputReachesItsReader'
    BY <1>0, <2>1, <2>2, <2>3 DEF ShellInv, InputReachesItsReader
  <2>5. QED
    BY <2>4
<1>6. CASE DialFirst
  BY <1>6, <1>k, DialFirstDoes
<1>7. CASE DialVia
  BY <1>0, <1>7, <1>m, DialViaDoes DEF Rest
<1>8. CASE Handshake
  BY <1>0, <1>8, <1>m, HandshakeDoes
<1>9. CASE \E eof \in BOOLEAN : DialFails(eof)
  BY <1>0, <1>9, <1>m, DialFailsDoes DEF Rest
<1>10. CASE Use
  <2>1. PICK pc \in {"web", "use"} : Moves(pc, call.half, call.after)
    BY <1>10, UseDoes
  <2>2. /\ call.pc = "dial" /\ UNCHANGED <<world, leaked, astray>> /\ sh' = NoShell
        /\ ran' = ran \/ ran' = {n}
    BY <1>0, <1>10, UseDoes
  <2>3. n \in Nat /\ n >= 1
    <3>1. call.hops \in Seq(Servers)
      BY DEF TypeOK, CallOK, CallType
    <3>2. n \in Nat
      BY <3>1, LenProperties
    <3>3. open = 1..n
      BY <1>10, <3>1 DEF Use
    <3>4. open # {}
      BY <1>10 DEF Use
    <3>5. QED
      BY <3>2, <3>3, <3>4
  <2>4. QED
    BY <1>m, <2>1, <2>2, <2>3
<1>11. CASE Quits
  BY <1>11, <1>m, QuitsDo, FailDoes
<1>12. CASE BrowserLeaves \/ WebShellEnds
  BY <1>12, <1>k DEF BrowserLeaves, WebShellEnds, history
<1>13. CASE Redial
  <2>1. /\ call.pc = "redial" /\ UNCHANGED <<world, ran, leaked, astray>> /\ call'.pc = "shell" /\ call'.hops = call.hops
        /\ sh'.hop = 1 /\ sh'.depth = 1 /\ sh'.out = <<"text", "prompt">> /\ sh'.chan = <<>>
        /\ sh'.acc = <<>> /\ sh'.typed = <<>> /\ sh'.asks = "shell"
    BY <1>13, RedialDoes DEF Moves
  <2> DEFINE t == <<"text", "prompt">>
  <2>2. <<>> \o Ones(t) = Ones(t)
    <3>1. t \in Seq(Tokens)
      BY DEF Tokens
    <3>2. QED
      BY <3>1, OnesIs, ConcatEmptySeq
  <2>3. \A straight : Talk(sh', straight, n)
    BY <2>1, <2>2 DEF Talk, Converses, Greeted, Hears, Handover, Placed
  <2>4. QED
    BY <1>0, <1>p, <2>1, <2>3 DEF ShellInv, InputReachesItsReader, ReachedBy
<1>14. CASE RedialFails
  BY <1>0, <1>14, <1>m, RedialFailsDoes DEF Rest
<1>15. CASE Reads \/ Sends
  <2>1. call.pc = "shell" /\ Quiet /\ Shell(sh') /\ Same(sh', sh) /\ sh'.hop = sh.hop /\ sh'.acc = sh.acc
    BY <1>15, ReadsDoes, SendsDoes
  <2>2. world \notin Coalesced => sh'.chan \o Ones(sh'.out) = sh.chan \o Ones(sh.out)
    BY <1>15, ReadsDoes, SendsDoes
  <2>3. ASSUME world \notin Coalesced, astray # "gone" PROVE Talk(sh', Straight, n)
    BY <1>0, <2>1, <2>2, <2>3, TalkSame DEF Same
  <2>4. UNCHANGED <<ran, leaked, astray>> /\ Straight' = Straight
    BY <2>1 DEF Quiet, history, Straight
  <2>5. QED
    BY <1>0, <1>t, <2>1, <2>3, <2>4
<1>16. CASE Conducts /\ ~Fail
  <2>1. call.pc = "shell" /\ Quiet /\ Shell(sh')
    BY <1>16, ConductsDoes, LocalType DEF Taken
  <2>2. ASSUME world \notin Coalesced, astray # "gone" PROVE Talk(sh', Straight, n)
    BY <1>0, <1>16, <2>1, <2>2, ConductsTalk
  <2>3. UNCHANGED <<ran, leaked, astray>> /\ Straight' = Straight
    BY <2>1 DEF Quiet, history, Straight
  <2>4. QED
    BY <1>0, <1>t, <2>1, <2>2, <2>3
<1>17. CASE CloseAll
  <2>0. Idle.pc = "idle"
    BY DEF Idle
  <2>1. call.pc = "close" /\ UNCHANGED <<world, sh, ran, leaked, astray>> /\ sh = NoShell
    BY <1>0, <1>17, CloseAllDoes
  <2>2. CASE call' = Idle
    BY <1>p, <2>0, <2>1, <2>2 DEF ShellInv, InputReachesItsReader
  <2>3. QED
    BY <1>17, <1>k, <1>m, <2>1, <2>2, CloseAllDoes
<1>18. CASE Remote \/ UserExits
  <2>1. call.pc = "shell" /\ Shell(sh')
    BY <1>18, RemoteType, RemoteDoes DEF Remote, Heard
  <2>a. astray = "gone" => astray' = "gone"
    BY <1>18, RemoteDoes DEF Remote, Failed, Quiet, history
  <2>2. ASSUME world \notin Coalesced, astray' # "gone" PROVE Talk(sh', Straight', n) /\ ReachedBy(ran', leaked', astray', n)
    <3>1. astray # "gone"
      BY <2>2, <2>a
    <3>2. Talk(sh, Straight, n) /\ ReachedBy(ran, leaked, astray, n)
      BY <1>0, <2>1, <2>2, <3>1
    <3>3. QED
      BY <1>18, <3>1, <3>2, RemoteTalk
  <2>3. QED
    BY <1>t, <2>1, <2>2
<1>e. CASE SshEnds
  BY <1>e, <1>t, SshEndsDoes
<1>19. QED
  BY <1>1, <1>3, <1>4, <1>5, <1>6, <1>7, <1>8, <1>9, <1>10, <1>11, <1>12, <1>13, <1>14, <1>15, <1>16, <1>17, <1>18, <1>e
  DEF Next, Local, Quits, Read

-----------------------------------------------------------------------------
\* The inductive invariant.
LEMMA InitInv == ASSUME Init PROVE IInv
<1>0. /\ call = Idle /\ open = {} /\ sh = NoShell /\ ran = {} /\ leaked = FALSE /\ astray = "no" /\ accepted = [s \in Servers |-> <<>>]
      /\ world \in Worlds /\ d = Start[world] /\ key = [s \in Servers |-> 1]
      /\ known \in SUBSET {<<s, t, 1>> : s \in Servers \cap {1}, t \in KeyTypes}
  BY DEF Init
<1>1. TypeOK
  <2>1. CallOK(call) /\ sh \in ShellType
    BY <1>0, Empties DEF CallOK, Idle
  <2>2. accepted \in [Servers -> Seq([key : Servers \X KeyTypes \X Nat, how : Ways])]
    BY <1>0, EmptySeq
  <2>3. d \in Databases
    BY <1>0, ConnectAssumption
  <2>4. key \in [Servers -> Nat]
    BY <1>0
  <2>5. QED
    BY <1>0, <2>1, <2>2, <2>3, <2>4 DEF TypeOK
<1>2. OpenInv
  <2>1. open = 1..0 /\ 0 \in Nat
    BY <1>0
  <2>2. IsFiniteSet(open) /\ open = 1..Cardinality(open)
    BY <2>1, Interval
  <2>3. QED
    BY <1>0, <2>2 DEF OpenInv, Idle
<1>3. TrustInv
  <2>1. \A k \in known : \E s, t : k = <<s, t, 1>>
    BY <1>0
  <2>2. \A s \in Servers : DOMAIN accepted[s] = {}
    BY <1>0
  <2>3. QED
    BY <2>1, <2>2 DEF TrustInv
<1>4. RouteInv
  BY <1>0 DEF RouteInv, RouteOK, Idle
<1>5. ShellInv /\ InputReachesItsReader
  BY <1>0 DEF ShellInv, InputReachesItsReader, Idle
<1>6. QED
  BY <1>1, <1>2, <1>3, <1>4, <1>5 DEF IInv

LEMMA NextInv == ASSUME IInv, [Next]_vars PROVE IInv'
<1>1. CASE Next
  BY <1>1, TypeStep, OpenStep, TrustStep, RouteStep, ShellStep DEF IInv
<1>2. CASE UNCHANGED vars
  <2>1. UNCHANGED <<world, d, seen, key, known, accepted, call, open, sh, ran, leaked, astray>>
    BY <1>2 DEF vars
  <2>2. TypeOK' /\ OpenInv' /\ TrustInv'
    BY <2>1 DEF IInv, TypeOK, CallOK, OpenInv, TrustInv
  <2>3. RouteInv' /\ ShellInv' /\ InputReachesItsReader'
    BY <2>1 DEF IInv, RouteInv, ShellInv, InputReachesItsReader
  <2>4. QED
    BY <2>2, <2>3 DEF IInv
<1>3. QED
  BY <1>1, <1>2

LEMMA InvRoute == ASSUME IInv PROVE RouteWasConfigured
<1> SUFFICES ASSUME call.kind \in {"cli", "mcp", "web"}, call.pc \in Walks
             PROVE  RouteWasConfigured
  BY DEF RouteWasConfigured, Walks
<1>1. Routed(call, seen)
  BY DEF IInv, RouteInv, RouteOK
<1>2. CASE call.hops = <<call.dest>> /\ \E x \in seen : call.dest \notin x.servers
  BY <1>2 DEF RouteWasConfigured
<1>3. CASE ViaKnown(call, seen) /\ OwnKnown(call, seen)
           /\ \E x, y \in seen : call.hops = FirstIn(call, x) \o SecondIn(call, y) \o <<call.dest>>
  <2>1. PICK x \in seen : call.via = ViaIn(call, x)
    BY <1>3 DEF ViaKnown
  <2>2. PICK y \in seen : call.own = y.own[call.dest]
    BY <1>3 DEF OwnKnown
  <2>3. PICK z, w \in seen : call.hops = FirstIn(call, z) \o SecondIn(call, w) \o <<call.dest>>
    BY <1>3
  <2> DEFINE p == IF call.override = "none" THEN 0 ELSE ProfileOf(x)
             via == IF p = 0 THEN 0 ELSE x.via[p]
             own == y.own[call.dest]
             first == IF via = 0 \/ call.dest \in ToSet(z.hops[via]) THEN <<>> ELSE z.hops[via]
             second == IF own \in {0, via} THEN <<>> ELSE Without(w.hops[own], call.dest)
  <2>4. via = call.via
    BY <2>1 DEF ViaIn, ProfileOf
  <2>5. first = FirstIn(call, z)
    <3> HIDE DEF via
    <3> QED
      BY <2>4 DEF FirstIn
  <2>6. second = SecondIn(call, w)
    <3> HIDE DEF via
    <3> QED
      BY <2>2, <2>4 DEF SecondIn
  <2>7. call.hops = first \o second \o <<call.dest>>
    <3> HIDE DEF first, second
    <3> QED
      BY <2>3, <2>5, <2>6
  <2>8. QED
    BY <2>7 DEF RouteWasConfigured
<1>4. QED
  BY <1>1, <1>2, <1>3 DEF Routed

LEMMA InvOpen == ASSUME IInv PROVE NothingLeftOpen
<1>1. /\ open = 1..Cardinality(open) /\ Cardinality(open) \in Nat
      /\ call.pc \in Reading \cup {"idle", "redial"} => open = {}
      /\ call.half => call.pc = "dial"
  BY FS_CardinalityType DEF IInv, OpenInv
<1>2. \A i \in open : i = 1 \/ i - 1 \in open
  BY <1>1
<1>3. QED
  BY <1>1, <1>2 DEF NothingLeftOpen

LEMMA InvTrust == ASSUME IInv PROVE TrustIsKept
<1> SUFFICES ASSUME NEW s \in Servers, NEW j \in DOMAIN accepted[s], NEW i \in 1..j - 1,
                    accepted[s][i].how \in OnRecord, accepted[s][j].how \in OnRecord \cup {"unsaved"}
             PROVE  accepted[s][i].key = accepted[s][j].key
  BY DEF TrustIsKept
<1>1. accepted[s] \in Seq(Entry)
  BY DEF IInv, TypeOK, Entry
<1>2. i \in DOMAIN accepted[s]
  BY <1>1, LenProperties
<1>3. Sound(known, s, accepted[s], i) /\ Sound(known, s, accepted[s], j)
  BY <1>2, TrustIs DEF IInv
<1>4. accepted[s][j].how \in OnRecord
  BY <1>3 DEF Sound
<1>5. QED
  BY <1>3, <1>4 DEF Sound, IInv, TrustInv

-----------------------------------------------------------------------------
\* The invariant holds for every number of servers, routes, profiles, worlds, calls and edits.
THEOREM Inductive == Spec => []IInv
<1>1. Init => IInv
  BY InitInv
<1>2. IInv /\ [Next]_vars => IInv'
  BY NextInv
<1>3. QED
  BY <1>1, <1>2, PTL DEF Spec

\* Every part of the database, of a call and of a terminal has its type, whatever the
\* routes and the arguments are: what is left of a route without a server is a route
\* however long it was (connect.go:196-315).
THEOREM TypesHold == Spec => []TypeOK
<1>1. IInv => TypeOK
  BY DEF IInv
<1>2. QED
  BY <1>1, Inductive, PTL

\* However edits fall between the statements that read a route, and however long routes
\* are, what is dialled is the route of the profile, the server's own and the server, each
\* as it was configured during the call (connect.go:196-315, mcp/exec.go, ws_pty.go).
THEOREM RouteConfigured == Spec => []RouteWasConfigured
<1>1. IInv => RouteWasConfigured
  BY InvRoute
<1>2. QED
  BY <1>1, Inductive, PTL

\* A chain of any length is closed from its last connection to its first: nothing is open
\* once the call is over or turns to the shells, and none is closed under one it carries
\* (proxy.go:24-56, client.go:103-129).
THEOREM NothingOpen == Spec => []NothingLeftOpen
<1>1. IInv => NothingLeftOpen
  BY InvOpen
<1>2. QED
  BY <1>1, Inductive, PTL

\* With a chunk for each token, the command is run by the shell of the last hop of a chain
\* of any length and no password is typed into a shell (shell_chain.go:130-159, 191-231).
THEOREM InputReaches == Spec => []InputReachesItsReader
<1>1. IInv => InputReachesItsReader
  BY DEF IInv
<1>2. QED
  BY <1>1, Inductive, PTL

\* The keys that are accepted from a host over any number of calls and reinstallations are
\* one key (client.go:256-284).
THEOREM TrustKept == Spec => []TrustIsKept
<1>1. IInv => TrustIsKept
  BY InvTrust
<1>2. QED
  BY <1>1, Inductive, PTL
=============================================================================
