----------------------------- MODULE Hitl_proofs -----------------------------
(***************************************************************************)
(* Proofs about Hitl, for any requests and processes, any scopes, any      *)
(* timeout and length of windows, with or without crashes.                 *)
(*                                                                         *)
(* A step moves one request (its record, files, markers and answers), or   *)
(* the window of one scope, or, for Crash and Tick, all of them alike.     *)
(* RequestInv speaks of one request, so each action is proved for the      *)
(* request it moves and Frame takes care of the others.                    *)
(***************************************************************************)
EXTENDS Hitl, TLAPS

Same(i) ==
  /\ req'[i] = req[i] /\ pending'[i] = pending[i] /\ told'[i] = told[i]
  /\ i \in approved' <=> i \in approved
  /\ i \in denied' <=> i \in denied

Only(r) == \A i \in Requests \ {r} : Same(i)

(* TypeOK without the history variable standing, which every step sets. *)
Typed == /\ req \in [Requests -> Request]
         /\ pending \in [Requests -> {Absent} \cup 0..Timeout]
         /\ approved \subseteq Requests
         /\ denied \subseteq Requests
         /\ trust \in [Scopes -> {Absent, Torn} \cup 0..MaxTrust]
         /\ granting \in [Scopes -> 0..MaxTrust]
         /\ lister \subseteq Scopes
         /\ told \in [Requests -> SUBSET {"approve", "deny"}]
         /\ revoked \subseteq Scopes

LEMMA WitnessedType == Witnessed => standing' \in [Requests -> SUBSET Scopes]
BY DEF Witnessed

LEMMA TypedGivesType == Typed' /\ Witnessed => TypeOK'
BY WitnessedType DEF Typed, TypeOK

(* What is witnessed during a scan was witnessed before and is in force. *)
LEMMA StandingShrinks ==
  ASSUME Witnessed, NEW r \in Requests, NEW s \in standing'[r]
  PROVE  /\ trust'[s] > 0
         /\ Scanning(r) => s \in standing[r]
BY DEF Witnessed, InForce

LEMMA Frame ==
  ASSUME NEW i \in Requests, RequestInv(i), Witnessed, Same(i)
  PROVE  RequestInv(i)'
<1>1. Scanning(i)' <=> Scanning(i)
  BY DEF Same, Scanning
<1>2. Waiting(i)' <=> Waiting(i)
  BY DEF Same, Waiting
<1>3. ASSUME Scanning(i), NEW k \in 1..(req[i].at - 1)
      PROVE  ScopesOf[i][k] \notin standing'[i]
  BY <1>3, StandingShrinks DEF RequestInv
<1>4. QED
  BY <1>1, <1>2, <1>3 DEF RequestInv, Same

(* A step that leaves every request alone. *)
LEMMA NoRequestMoves ==
  ASSUME IInv, Witnessed, Typed', NoWindowOutlivesRevoke',
         \A i \in Requests : Same(i)
  PROVE  IInv'
BY Frame, TypedGivesType DEF IInv

(* A step that moves the request r. *)
LEMMA OneRequestMoves ==
  ASSUME IInv, Witnessed, NEW r \in Requests, Only(r), Typed', RequestInv(r)',
         NoWindowOutlivesRevoke'
  PROVE  IInv'
BY Frame, TypedGivesType DEF IInv, Only

(* The updates of a request's record keep its type. *)
LEMMA RecordUpdates ==
  ASSUME NEW q \in Request
  PROVE  /\ [q EXCEPT !.pc = "end", !.outcome = "trusted"] \in Request
         /\ [q EXCEPT !.pc = "end", !.outcome = "error"] \in Request
         /\ [q EXCEPT !.pc = "drop"] \in Request
         /\ [q EXCEPT !.at = @ + 1] \in Request
         /\ [q EXCEPT !.pc = "wait", !.left = Timeout] \in Request
         /\ [q EXCEPT !.at = @ + 1, !.pc = IF q.at = 3 THEN "end" ELSE "clean"] \in Request
         /\ [q EXCEPT !.pc = "dead"] \in Request
<1>1. [q EXCEPT !.pc = "end", !.outcome = "trusted"] \in Request
  BY DEF Request
<1>2. [q EXCEPT !.pc = "end", !.outcome = "error"] \in Request
  BY DEF Request
<1>3. [q EXCEPT !.pc = "drop"] \in Request
  BY DEF Request
<1>4. [q EXCEPT !.at = @ + 1] \in Request
  BY DEF Request
<1>5. [q EXCEPT !.pc = "wait", !.left = Timeout] \in Request
  <2>1. Timeout \in 0..Timeout
    BY TimeAssumption
  <2>2. QED
    BY <2>1 DEF Request
<1>6. [q EXCEPT !.at = @ + 1, !.pc = IF q.at = 3 THEN "end" ELSE "clean"] \in Request
  <2>1. q.at + 1 \in Nat
    BY DEF Request
  <2>2. ASSUME NEW n \in Nat, NEW p \in {"end", "clean"}
        PROVE  [q EXCEPT !.at = n, !.pc = p] \in Request
    BY DEF Request
  <2>3. QED
    BY <2>1, <2>2
<1>7. [q EXCEPT !.pc = "dead"] \in Request
  BY DEF Request
<1>8. QED
  BY <1>1, <1>2, <1>3, <1>4, <1>5, <1>6, <1>7

LEMMA OneRecord ==
  ASSUME NEW f \in [Requests -> Request], NEW r \in Requests, NEW q \in Request
  PROVE  [f EXCEPT ![r] = q] \in [Requests -> Request]
OBVIOUS

LEMMA InitInv == Init => IInv
<1> SUFFICES ASSUME Init PROVE IInv
  OBVIOUS
<1>1. TypeOK
  BY TimeAssumption DEF Init, TypeOK, NewRequest, Request
<1>2. ASSUME NEW r \in Requests PROVE RequestInv(r)
  BY <1>2 DEF Init, RequestInv, NewRequest, Scanning, Waiting
<1>3. NoWindowOutlivesRevoke
  BY DEF Init, NoWindowOutlivesRevoke
<1>4. QED
  BY <1>1, <1>2, <1>3 DEF IInv

-----------------------------------------------------------------------------
(* The actions of a request.                                               *)

LEMMA BeginInv == ASSUME IInv, Witnessed, NEW r \in Requests, Begin(r) PROVE IInv'
<1>1. Typed'
  BY DEF IInv, TypeOK, Typed, Begin, files, Request
<1>2. Only(r)
  BY DEF IInv, TypeOK, Begin, files, Only, Same
<1>3. RequestInv(r)'
  <2>1. req'[r].pc = "scan" /\ req'[r].at = 1 /\ req'[r].outcome = req[r].outcome
    BY DEF IInv, TypeOK, Begin, RequestInv, Request
  <2>2. Len(ScopesOf[r]) \in Nat
    BY ScopesAssumption
  <2>3. QED
    BY <2>1, <2>2 DEF IInv, TypeOK, Begin, files, RequestInv, Scanning, Waiting
<1>4. NoWindowOutlivesRevoke'
  BY DEF IInv, Begin, files, NoWindowOutlivesRevoke
<1>5. QED
  BY <1>1, <1>2, <1>3, <1>4, OneRequestMoves

LEMMA ScanInv == ASSUME IInv, Witnessed, NEW r \in Requests, Scan(r) PROVE IInv'
<1> DEFINE s == ScopesOf[r][req[r].at]
<1>0. req[r].at \in Nat /\ Len(ScopesOf[r]) \in Nat
  BY ScopesAssumption DEF IInv, TypeOK, Request
<1>1. Typed'
  <2>1. req' \in [Requests -> Request]
    <3>1. req \in [Requests -> Request] /\ req[r] \in Request
      BY DEF IInv, TypeOK
    <3>2. CASE req' = [req EXCEPT ![r].pc = "end", ![r].outcome = "trusted"]
      <4>1. req' = [req EXCEPT ![r] = [req[r] EXCEPT !.pc = "end", !.outcome = "trusted"]]
        BY <3>2
      <4>2. QED
        BY <3>1, <4>1, RecordUpdates, OneRecord
    <3>3. CASE req' = [req EXCEPT ![r].pc = "drop"]
      BY <3>1, <3>3, RecordUpdates, OneRecord
    <3>4. CASE req' = [req EXCEPT ![r].at = @ + 1]
      BY <3>1, <3>4, RecordUpdates, OneRecord
    <3>5. QED
      BY <3>2, <3>3, <3>4 DEF Scan
  <2>2. QED
    BY <2>1 DEF IInv, TypeOK, Typed, Scan, files
<1>2. Only(r)
  BY DEF IInv, TypeOK, Scan, files, Only, Same
<1>3. RequestInv(r)'
  <2>1. CASE InForce(s) /\ req' = [req EXCEPT ![r].pc = "end", ![r].outcome = "trusted"]
    BY <2>1 DEF IInv, TypeOK, Scan, files, RequestInv, Scanning, Waiting, Request
  <2>2. CASE Expired(s) /\ req' = [req EXCEPT ![r].pc = "drop"]
    <3>1. ASSUME NEW k \in 1..(req[r].at - 1) PROVE ScopesOf[r][k] \notin standing'[r]
      BY StandingShrinks DEF IInv, RequestInv, Scan, Scanning
    <3>2. req'[r] = [req[r] EXCEPT !.pc = "drop"]
      BY <2>2 DEF IInv, TypeOK
    <3>3. QED
      BY <1>0, <3>1, <3>2 DEF IInv, TypeOK, Scan, files, RequestInv, Scanning, Waiting, Request
  <2>3. CASE trust[s] \in {Absent, Torn} /\ req' = [req EXCEPT ![r].at = @ + 1]
    <3>1. ASSUME NEW k \in 1..req[r].at PROVE ScopesOf[r][k] \notin standing'[r]
      <4>1. CASE k = req[r].at
        BY <2>3, <4>1, StandingShrinks DEF Scan, files, Absent, Torn
      <4>2. CASE k # req[r].at
        BY <1>0, <4>2, StandingShrinks DEF IInv, RequestInv, Scan, Scanning
      <4>3. QED
        BY <4>1, <4>2
    <3>2. req'[r] = [req[r] EXCEPT !.at = @ + 1]
      BY <2>3 DEF IInv, TypeOK
    <3>3. req'[r].at - 1 = req[r].at
      BY <1>0, <3>2 DEF IInv, TypeOK, Request
    <3>4. QED
      BY <1>0, <3>1, <3>2, <3>3 DEF IInv, TypeOK, Scan, files, RequestInv, Scanning, Waiting, Request
  <2>4. QED
    BY <2>1, <2>2, <2>3 DEF Scan
<1>4. NoWindowOutlivesRevoke'
  BY DEF IInv, Scan, files, NoWindowOutlivesRevoke
<1>5. QED
  BY <1>1, <1>2, <1>3, <1>4, OneRequestMoves

LEMMA DropInv == ASSUME IInv, Witnessed, NEW r \in Requests, Drop(r) PROVE IInv'
<1> DEFINE s == ScopesOf[r][req[r].at]
<1>0. req[r].at \in Nat /\ Len(ScopesOf[r]) \in Nat
  BY ScopesAssumption DEF IInv, TypeOK, Request
<1>1. s \in Scopes
  BY <1>0, ScopesAssumption DEF IInv, RequestInv, Drop, Scanning
<1>2. Typed'
  <2>1. req' \in [Requests -> Request]
    BY <1>0 DEF IInv, TypeOK, Drop, Request
  <2>2. trust' \in [Scopes -> {Absent, Torn} \cup 0..MaxTrust]
    BY DEF IInv, TypeOK, Drop
  <2>3. QED
    BY <2>1, <2>2 DEF IInv, TypeOK, Typed, Drop
<1>3. Only(r)
  BY DEF IInv, TypeOK, Drop, Only, Same
<1>4. RequestInv(r)'
  <2>1. ASSUME NEW k \in 1..req[r].at PROVE ScopesOf[r][k] \notin standing'[r]
    <3>1. CASE k = req[r].at
      <4>1. trust'[s] = Absent
        BY <1>1 DEF IInv, TypeOK, Drop
      <4>2. QED
        BY <3>1, <4>1, StandingShrinks DEF Absent
    <3>2. CASE k # req[r].at
      BY <1>0, <3>2, StandingShrinks DEF IInv, RequestInv, Drop, Scanning
    <3>3. QED
      BY <3>1, <3>2
  <2>2. req'[r] = [req[r] EXCEPT !.pc = "scan", !.at = @ + 1]
    BY DEF IInv, TypeOK, Drop
  <2>3. req'[r].at - 1 = req[r].at
    BY <1>0, <2>2 DEF IInv, TypeOK, Request
  <2>4. QED
    BY <1>0, <2>1, <2>2, <2>3 DEF IInv, TypeOK, Drop, RequestInv, Scanning, Waiting, Request
<1>5. NoWindowOutlivesRevoke'
  BY DEF IInv, TypeOK, Drop, NoWindowOutlivesRevoke
<1>6. QED
  BY <1>2, <1>3, <1>4, <1>5, OneRequestMoves

LEMMA FileInv == ASSUME IInv, Witnessed, NEW r \in Requests, File(r) PROVE IInv'
<1>1. Typed'
  <2>1. req' \in [Requests -> Request]
    <3>1. \/ req' = [req EXCEPT ![r] = [req[r] EXCEPT !.pc = "wait", !.left = Timeout]]
          \/ req' = [req EXCEPT ![r] = [req[r] EXCEPT !.pc = "end", !.outcome = "error"]]
      BY DEF File
    <3>2. req \in [Requests -> Request] /\ req[r] \in Request
      BY DEF IInv, TypeOK
    <3>3. QED
      BY <3>1, <3>2, RecordUpdates, OneRecord
  <2>2. pending' \in [Requests -> {Absent} \cup 0..Timeout]
    <3>1. pending' = [pending EXCEPT ![r] = Timeout] \/ pending' = pending
      BY DEF File
    <3>2. Timeout \in 0..Timeout
      BY TimeAssumption
    <3>3. QED
      BY <3>1, <3>2 DEF IInv, TypeOK
  <2>3. QED
    BY <2>1, <2>2 DEF IInv, TypeOK, Typed, File
<1>2. Only(r)
  BY DEF IInv, TypeOK, File, Only, Same
<1>3. RequestInv(r)'
  <2>1. CASE /\ pending' = [pending EXCEPT ![r] = Timeout]
             /\ req' = [req EXCEPT ![r].pc = "wait", ![r].left = Timeout]
    BY <2>1 DEF IInv, TypeOK, File, RequestInv, Scanning, Waiting, Request
  <2>2. CASE /\ req' = [req EXCEPT ![r].pc = "end", ![r].outcome = "error"]
             /\ UNCHANGED pending
    BY <2>2 DEF IInv, TypeOK, File, RequestInv, Scanning, Waiting, Request
  <2>3. QED
    BY <2>1, <2>2 DEF File
<1>4. NoWindowOutlivesRevoke'
  BY DEF IInv, File, NoWindowOutlivesRevoke
<1>5. QED
  BY <1>1, <1>2, <1>3, <1>4, OneRequestMoves

(* The steps that only move the record of a waiting request. *)
LEMMA DecideInv ==
  ASSUME IInv, Witnessed, NEW r \in Requests, Waiting(r),
         UNCHANGED <<files, granting, lister, told, revoked>>,
         NEW outcome \in {"approved", "denied", "timeout"}, Decide(r, outcome),
         outcome = "approved" => r \in approved,
         outcome = "denied" => r \in denied
  PROVE  IInv'
<1>1. Typed'
  <2>1. req' \in [Requests -> Request]
    <3>1. req \in [Requests -> Request]
      BY DEF IInv, TypeOK
    <3>2. QED
      BY <3>1 DEF Decide, Request
  <2>2. QED
    BY <2>1 DEF IInv, TypeOK, Typed, files
<1>2. Only(r)
  BY DEF IInv, TypeOK, Decide, files, Only, Same
<1>3. RequestInv(r)'
  BY DEF IInv, TypeOK, Decide, files, RequestInv, Scanning, Waiting, Request
<1>4. NoWindowOutlivesRevoke'
  BY DEF IInv, files, NoWindowOutlivesRevoke
<1>5. QED
  BY <1>1, <1>2, <1>3, <1>4, OneRequestMoves

LEMMA TurnInv ==
  ASSUME IInv, Witnessed, NEW r \in Requests, Waiting(r),
         UNCHANGED <<files, granting, lister, told, revoked>>,
         NEW next \in {"wait", "look"}, req' = [req EXCEPT ![r].pc = next]
  PROVE  IInv'
<1>1. Typed'
  BY DEF IInv, TypeOK, Typed, files, Request
<1>2. Only(r)
  BY DEF IInv, TypeOK, files, Only, Same
<1>3. RequestInv(r)'
  BY DEF IInv, TypeOK, files, RequestInv, Scanning, Waiting, Request
<1>4. NoWindowOutlivesRevoke'
  BY DEF IInv, files, NoWindowOutlivesRevoke
<1>5. QED
  BY <1>1, <1>2, <1>3, <1>4, OneRequestMoves

LEMMA PollInv == ASSUME IInv, Witnessed, NEW r \in Requests, Poll(r) PROVE IInv'
<1>1. Waiting(r)
  BY DEF Poll, Waiting
<1>2. CASE r \in approved
  BY <1>1, <1>2, DecideInv DEF Poll
<1>3. CASE r \notin approved
  BY <1>1, <1>3, TurnInv DEF Poll
<1>4. QED
  BY <1>2, <1>3

LEMMA PollDeniedInv ==
  ASSUME IInv, Witnessed, NEW r \in Requests, PollDenied(r) PROVE IInv'
<1>1. Waiting(r)
  BY DEF PollDenied, Waiting
<1>2. CASE r \in denied
  BY <1>1, <1>2, DecideInv DEF PollDenied
<1>3. CASE r \notin denied
  BY <1>1, <1>3, TurnInv DEF PollDenied
<1>4. QED
  BY <1>2, <1>3

LEMMA GiveUpInv == ASSUME IInv, Witnessed, NEW r \in Requests, GiveUp(r) PROVE IInv'
BY DecideInv DEF GiveUp, Waiting

LEMMA CleanInv == ASSUME IInv, Witnessed, NEW r \in Requests, Clean(r) PROVE IInv'
<1>0. req[r].at \in 1..3
  BY DEF IInv, RequestInv, Clean
<1>1. req'[r] = [req[r] EXCEPT !.at = @ + 1, !.pc = IF req[r].at = 3 THEN "end" ELSE "clean"]
  BY DEF IInv, TypeOK, Clean
<1>2. Typed'
  <2>1. req' \in [Requests -> Request]
    <3>1. req' = [req EXCEPT ![r] = req'[r]]
      BY DEF IInv, TypeOK, Clean
    <3>2. req \in [Requests -> Request] /\ req[r] \in Request
      BY DEF IInv, TypeOK
    <3>3. req'[r] \in Request
      BY <1>1, <3>2, RecordUpdates
    <3>4. QED
      BY <3>1, <3>2, <3>3, OneRecord
  <2>2. pending' \in [Requests -> {Absent} \cup 0..Timeout]
    BY DEF IInv, TypeOK, Clean
  <2>3. QED
    BY <2>1, <2>2 DEF IInv, TypeOK, Typed, Clean
<1>3. Only(r)
  BY DEF IInv, TypeOK, Clean, Only, Same
<1>4. RequestInv(r)'
  <2>1. /\ req[r].at = 1 => pending'[r] = Absent
        /\ req[r].at # 1 => pending'[r] = pending[r]
    BY DEF IInv, TypeOK, Clean
  <2>2. (r \in approved' => r \in approved) /\ (r \in denied' => r \in denied)
    BY DEF Clean
  <2>3. told' = told
    BY DEF Clean
  <2>4. /\ req'[r].at = req[r].at + 1
        /\ req'[r].pc = IF req[r].at = 3 THEN "end" ELSE "clean"
        /\ req'[r].outcome = req[r].outcome
    BY <1>1 DEF IInv, TypeOK, Request
  <2>5. QED
    BY <1>0, <2>1, <2>2, <2>3, <2>4 DEF IInv, Clean, RequestInv, Scanning, Waiting
<1>5. NoWindowOutlivesRevoke'
  BY DEF IInv, Clean, NoWindowOutlivesRevoke
<1>6. QED
  BY <1>2, <1>3, <1>4, <1>5, OneRequestMoves

-----------------------------------------------------------------------------
(* The actions of people.                                                  *)

LEMMA ApproveInv == ASSUME IInv, Witnessed, NEW r \in Requests, Approve(r) PROVE IInv'
<1>1. Typed'
  BY DEF IInv, TypeOK, Typed, Approve
<1>2. Only(r)
  BY DEF IInv, TypeOK, Approve, Only, Same
<1>3. RequestInv(r)'
  <2>1. told'[r] = told[r] \cup {"approve"}
    BY DEF IInv, TypeOK, Approve
  <2>2. (Scanning(r)' <=> Scanning(r)) /\ (Waiting(r)' <=> Waiting(r))
    BY DEF Approve, Scanning, Waiting
  <2>3. ASSUME Scanning(r), NEW k \in 1..(req[r].at - 1)
        PROVE  ScopesOf[r][k] \notin standing'[r]
    BY <2>3, StandingShrinks DEF IInv, RequestInv
  <2>4. QED
    BY <2>1, <2>2, <2>3 DEF IInv, Approve, RequestInv
<1>4. NoWindowOutlivesRevoke'
  BY DEF IInv, Approve, NoWindowOutlivesRevoke
<1>5. QED
  BY <1>1, <1>2, <1>3, <1>4, OneRequestMoves

LEMMA DenyInv == ASSUME IInv, Witnessed, NEW r \in Requests, Deny(r) PROVE IInv'
<1>1. Typed'
  BY DEF IInv, TypeOK, Typed, Deny
<1>2. Only(r)
  BY DEF IInv, TypeOK, Deny, Only, Same
<1>3. RequestInv(r)'
  <2>1. told'[r] = told[r] \cup {"deny"}
    BY DEF IInv, TypeOK, Deny
  <2>2. (Scanning(r)' <=> Scanning(r)) /\ (Waiting(r)' <=> Waiting(r))
    BY DEF Deny, Scanning, Waiting
  <2>3. ASSUME Scanning(r), NEW k \in 1..(req[r].at - 1)
        PROVE  ScopesOf[r][k] \notin standing'[r]
    BY <2>3, StandingShrinks DEF IInv, RequestInv
  <2>4. QED
    BY <2>1, <2>2, <2>3 DEF IInv, Deny, RequestInv
<1>4. NoWindowOutlivesRevoke'
  BY DEF IInv, Deny, NoWindowOutlivesRevoke
<1>5. QED
  BY <1>1, <1>2, <1>3, <1>4, OneRequestMoves

LEMMA WindowInv ==
  ASSUME IInv, Witnessed, NEW s \in Scopes,
         \/ GrantTrust(s) \/ GrantWrites(s) \/ RevokeTrust(s)
         \/ ListTrustReads(s) \/ ListTrustRemoves(s)
  PROVE  IInv'
<1>1. \A i \in Requests : Same(i)
  BY DEF GrantTrust, GrantWrites, RevokeTrust, ListTrustReads, ListTrustRemoves, files, Same
<1>2. CASE GrantTrust(s)
  <2>1. Typed'
    BY <1>2, TimeAssumption DEF IInv, TypeOK, Typed, GrantTrust
  <2>2. NoWindowOutlivesRevoke'
    BY <1>2 DEF IInv, TypeOK, GrantTrust, NoWindowOutlivesRevoke
  <2>3. QED
    BY <1>1, <2>1, <2>2, NoRequestMoves
<1>3. CASE GrantWrites(s)
  <2>1. Typed'
    BY <1>3, TimeAssumption DEF IInv, TypeOK, Typed, GrantWrites
  <2>2. NoWindowOutlivesRevoke'
    BY <1>3 DEF IInv, TypeOK, GrantWrites, NoWindowOutlivesRevoke, Absent, Torn
  <2>3. QED
    BY <1>1, <2>1, <2>2, NoRequestMoves
<1>4. CASE RevokeTrust(s)
  <2>1. Typed'
    BY <1>4 DEF IInv, TypeOK, Typed, RevokeTrust
  <2>2. NoWindowOutlivesRevoke'
    BY <1>4 DEF IInv, TypeOK, RevokeTrust, NoWindowOutlivesRevoke
  <2>3. QED
    BY <1>1, <2>1, <2>2, NoRequestMoves
<1>5. CASE ListTrustReads(s)
  <2>1. Typed'
    BY <1>5 DEF IInv, TypeOK, Typed, ListTrustReads, files
  <2>2. NoWindowOutlivesRevoke'
    BY <1>5 DEF IInv, ListTrustReads, files, NoWindowOutlivesRevoke
  <2>3. QED
    BY <1>1, <2>1, <2>2, NoRequestMoves
<1>6. CASE ListTrustRemoves(s)
  <2>1. Typed'
    BY <1>6 DEF IInv, TypeOK, Typed, ListTrustRemoves
  <2>2. NoWindowOutlivesRevoke'
    BY <1>6 DEF IInv, TypeOK, ListTrustRemoves, NoWindowOutlivesRevoke
  <2>3. QED
    BY <1>1, <2>1, <2>2, NoRequestMoves
<1>7. QED
  BY <1>2, <1>3, <1>4, <1>5, <1>6

-----------------------------------------------------------------------------
(* Crashes and time.                                                       *)

LEMMA CrashInv == ASSUME IInv, Witnessed, NEW P \in Processes, Crash(P) PROVE IInv'
<1>1. ASSUME NEW i \in Requests
      PROVE  \/ req'[i] = req[i]
             \/ req'[i] = [req[i] EXCEPT !.pc = "dead"]
  BY DEF Crash
<1>2. Typed'
  <2>1. ASSUME NEW i \in Requests PROVE req'[i] \in Request
    <3>1. req[i] \in Request
      BY DEF IInv, TypeOK
    <3>2. QED
      BY <1>1, <3>1, RecordUpdates
  <2>2. req' = [i \in Requests |-> req'[i]]
    BY DEF Crash
  <2>3. QED
    BY <2>1, <2>2 DEF IInv, TypeOK, Typed, Crash, files
<1>3. ASSUME NEW i \in Requests PROVE RequestInv(i)'
  <2>1. RequestInv(i) /\ req[i] \in Request
    BY DEF IInv, TypeOK
  <2>2. CASE req'[i] = req[i]
    BY <2>1, <2>2, Frame DEF Crash, files, Same
  <2>3. CASE req'[i] = [req[i] EXCEPT !.pc = "dead"]
    BY <2>1, <2>3 DEF Crash, files, RequestInv, Scanning, Waiting, Request
  <2>4. QED
    BY <1>1, <2>2, <2>3
<1>4. NoWindowOutlivesRevoke'
  BY DEF IInv, Crash, files, NoWindowOutlivesRevoke
<1>5. QED
  BY <1>2, <1>3, <1>4, TypedGivesType DEF IInv

LEMMA OlderType ==
  ASSUME NEW b \in Nat, NEW n \in {Absent, Torn} \cup 0..b
  PROVE  /\ n \in 0..b => Older(n) \in 0..b
         /\ n \notin 0..b => Older(n) = n
BY DEF Older, Absent, Torn

LEMMA TickInv == ASSUME IInv, Witnessed, Tick PROVE IInv'
<1>0. Timeout \in Nat /\ MaxTrust \in Nat
  BY TimeAssumption
<1>1. ASSUME NEW i \in Requests
      PROVE  /\ req[i] \in Request
             /\ req'[i] = [req[i] EXCEPT !.left = Older(@)]
             /\ pending'[i] = Older(pending[i])
  BY DEF IInv, TypeOK, Tick
<1>2. Typed'
  <2>1. ASSUME NEW i \in Requests PROVE req'[i] \in Request
    <3>1. Older(req[i].left) \in 0..Timeout
      BY <1>0, <1>1, OlderType DEF Request
    <3>2. QED
      BY <1>1, <3>1 DEF Request
  <2>2. ASSUME NEW i \in Requests PROVE pending'[i] \in {Absent} \cup 0..Timeout
    BY <1>0, <1>1, OlderType DEF IInv, TypeOK, Absent
  <2>3. ASSUME NEW s \in Scopes PROVE Older(trust[s]) \in {Absent, Torn} \cup 0..MaxTrust
    BY <1>0, OlderType DEF IInv, TypeOK
  <2>4. QED
    BY <2>1, <2>2, <2>3 DEF IInv, TypeOK, Typed, Tick
<1>3. ASSUME NEW i \in Requests PROVE RequestInv(i)'
  <2>1. RequestInv(i) /\ ~Scanning(i)
    BY DEF IInv, Tick
  <2>2. Older(Absent) = Absent
    BY DEF Older, Absent
  <2>3. /\ req'[i].pc = req[i].pc /\ req'[i].at = req[i].at
        /\ req'[i].left = Older(req[i].left) /\ req'[i].outcome = req[i].outcome
    BY <1>1 DEF Request
  <2>4. QED
    BY <1>1, <2>1, <2>2, <2>3 DEF Tick, RequestInv, Scanning, Waiting
<1>4. NoWindowOutlivesRevoke'
  BY DEF IInv, TypeOK, Tick, NoWindowOutlivesRevoke, Older, Absent
<1>5. QED
  BY <1>2, <1>3, <1>4, TypedGivesType DEF IInv

-----------------------------------------------------------------------------
(* The theorems.                                                           *)

LEMMA StepInv == IInv /\ [Next]_vars => IInv'
<1> SUFFICES ASSUME IInv, [Next]_vars PROVE IInv'
  OBVIOUS
<1>1. CASE Step /\ Witnessed
  <2>1. CASE \E r \in Requests : \/ Begin(r) \/ Scan(r) \/ Drop(r) \/ File(r)
                                 \/ Poll(r) \/ PollDenied(r) \/ GiveUp(r) \/ Clean(r)
                                 \/ Approve(r) \/ Deny(r)
    BY <1>1, <2>1, BeginInv, ScanInv, DropInv, FileInv, PollInv, PollDeniedInv, GiveUpInv,
       CleanInv, ApproveInv, DenyInv
  <2>2. CASE \E s \in Scopes : \/ GrantTrust(s) \/ GrantWrites(s) \/ RevokeTrust(s)
                               \/ ListTrustReads(s) \/ ListTrustRemoves(s)
    BY <1>1, <2>2, WindowInv
  <2>3. CASE \E P \in Processes : Crash(P)
    BY <1>1, <2>3, CrashInv
  <2>4. CASE Tick
    BY <1>1, <2>4, TickInv
  <2>5. QED
    BY <1>1, <2>1, <2>2, <2>3, <2>4 DEF Step
<1>2. CASE UNCHANGED vars
  BY <1>2 DEF vars, files, history, IInv, TypeOK, RequestInv, Scanning, Waiting,
              NoWindowOutlivesRevoke
<1>3. QED
  BY <1>1, <1>2 DEF Next

(* Type correctness, and the invariant that the others rest on. *)
THEOREM Inductive == Spec => []IInv
<1>1. QED
  BY InitInv, StepInv, PTL DEF Spec

THEOREM TypeCorrect == Spec => []TypeOK
<1>1. IInv => TypeOK
  BY DEF IInv
<1>2. QED
  BY <1>1, Inductive, PTL

(* What people are shown as pending is what waits (RequestApproval, ListPending). *)
THEOREM PendingListIsTrue == Spec => []PendingIsTrue
<1>1. IInv => PendingIsTrue
  <2> SUFFICES ASSUME IInv, NEW r \in Requests
               PROVE  /\ Waiting(r) /\ req[r].left > 0 => Listed(r)
                      /\ pending[r] # Absent => Waiting(r) \/ req[r].pc \in {"clean", "dead"}
    BY DEF PendingIsTrue
  <2>1. RequestInv(r) /\ req[r] \in Request
    BY DEF IInv, TypeOK
  <2>2. QED
    BY <2>1 DEF RequestInv, Request, Listed, Waiting, Scanning
<1>2. QED
  BY <1>1, Inductive, PTL

(* Nothing is approved that nobody approved, nor denied that nobody denied. *)
THEOREM OutcomesAreAnswers == Spec => []OutcomeIsAnAnswer
<1>1. IInv => OutcomeIsAnAnswer
  BY DEF IInv, RequestInv, OutcomeIsAnAnswer
<1>2. QED
  BY <1>1, Inductive, PTL

(* A window that was revoked stays away until it is granted again. *)
THEOREM RevokedStaysRevoked == Spec => []NoWindowOutlivesRevoke
<1>1. IInv => NoWindowOutlivesRevoke
  BY DEF IInv
<1>2. QED
  BY <1>1, Inductive, PTL

(* The step from the scan to the question is File, with the whole scan done. *)
LEMMA AskingIsFiling ==
  ASSUME IInv, [Next]_vars, NEW r \in Requests, req[r].pc = "scan", Waiting(r)'
  PROVE  req[r].at > Len(ScopesOf[r])
<1>1. req[r] \in Request /\ req[r].pc \notin {"wait", "look", "clean", "new"}
  BY DEF IInv, TypeOK
<1>2. req'[r].pc # "scan" /\ req'[r].pc \in {"wait", "look"}
  BY DEF Waiting
<1>3. Step
  BY <1>2 DEF Next, vars
<1>4. ASSUME NEW q \in Requests,
             \/ Begin(q) \/ Scan(q) \/ Drop(q) \/ Poll(q) \/ PollDenied(q)
             \/ GiveUp(q) \/ Clean(q) \/ Approve(q) \/ Deny(q)
      PROVE  FALSE
  <2>1. req \in [Requests -> Request]
    BY DEF IInv, TypeOK
  <2>2. CASE q # r
    <3>1. req'[r] = req[r]
      BY <1>4, <2>1, <2>2 DEF Begin, Scan, Drop, Poll, PollDenied, GiveUp, Clean, Approve,
                              Deny, Decide
    <3>2. QED
      BY <1>2, <3>1
  <2>3. CASE q = r
    <3>1. Scan(r) \/ Drop(r) \/ Approve(r) \/ Deny(r)
      BY <1>4, <2>3 DEF Begin, Poll, PollDenied, GiveUp, Clean
    <3>2. CASE Scan(r)
      <4>1. req'[r].pc \in {"scan", "drop", "end"}
        BY <2>1, <3>2 DEF Scan, Request
      <4>2. QED
        BY <1>2, <4>1
    <3>3. CASE Drop(r) \/ Approve(r) \/ Deny(r)
      BY <1>2, <2>1, <3>3 DEF Drop, Approve, Deny
    <3>4. QED
      BY <3>1, <3>2, <3>3
  <2>4. QED
    BY <2>2, <2>3
<1>5. ~ \E s \in Scopes : \/ GrantTrust(s) \/ GrantWrites(s) \/ RevokeTrust(s)
                          \/ ListTrustReads(s) \/ ListTrustRemoves(s)
  BY <1>2 DEF GrantTrust, GrantWrites, RevokeTrust, ListTrustReads, ListTrustRemoves
<1>6. ASSUME NEW P \in Processes, Crash(P) PROVE FALSE
  <2>1. req'[r] = req[r] \/ req'[r] = [req[r] EXCEPT !.pc = "dead"]
    BY <1>6 DEF Crash
  <2>2. QED
    BY <1>1, <1>2, <2>1 DEF Request
<1>7. ~ Tick
  BY <1>1, <1>2 DEF Tick, Request
<1>8. \E q \in Requests : File(q)
  BY <1>3, <1>4, <1>5, <1>6, <1>7 DEF Step
<1>9. QED
  BY <1>2, <1>8 DEF IInv, TypeOK, File

(* Whoever is covered by a window all the while is not made to wait (CheckTrusted). *)
THEOREM WindowsSpare == Spec => StandingWindowSpares
<1>1. IInv /\ [Next]_vars =>
        [\A r \in Requests : Waiting(r)' /\ ~Waiting(r) /\ req[r].pc = "scan"
           => \A i \in DOMAIN ScopesOf[r] : ScopesOf[r][i] \notin standing[r]]_vars
  <2> SUFFICES ASSUME IInv, [Next]_vars, NEW r \in Requests, req[r].pc = "scan", Waiting(r)',
                      NEW i \in DOMAIN ScopesOf[r]
               PROVE  ScopesOf[r][i] \notin standing[r]
    OBVIOUS
  <2>1. req[r].at > Len(ScopesOf[r])
    BY AskingIsFiling
  <2>2. req[r].at \in Nat /\ Len(ScopesOf[r]) \in Nat /\ i \in 1..Len(ScopesOf[r])
    BY ScopesAssumption DEF IInv, TypeOK, Request
  <2>3. i \in 1..(req[r].at - 1)
    BY <2>1, <2>2
  <2>4. QED
    BY <2>3 DEF IInv, RequestInv, Scanning
<1>2. QED
  BY <1>1, Inductive, PTL DEF Spec, StandingWindowSpares
=============================================================================
