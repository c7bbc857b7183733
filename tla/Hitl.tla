-------------------------------- MODULE Hitl --------------------------------
(***************************************************************************)
(* Human approval of commands (internal/policy/hitl.go and its callers):   *)
(* requests, the people who answer them and the trust windows that spare   *)
(* the question.  Processes share nothing but files:                       *)
(*                                                                         *)
(*   pending/<token>.json   written by a request, read by ListPending      *)
(*   approved/<token>, denied/<token>   written by Approve and Deny        *)
(*   trust/trust_<scope>.json   written by GrantTrust, removed by          *)
(*       RevokeTrust and by whoever reads it after it has expired          *)
(*                                                                         *)
(* A request is one command that the policy submits to approval.  Those of *)
(* the MCP server (mcp/tools.go) look for trust windows first and share    *)
(* its process; those of "ssh connect --cmd" (cli/connect.go) look for     *)
(* none, and each has a process of its own.  Time passes in ticks; a file  *)
(* holds the ticks it is still valid for.  Tokens are unique: a request    *)
(* and its token are one thing.                                            *)
(***************************************************************************)
EXTENDS Integers, Sequences, FiniteSets

CONSTANTS
  Requests,  \* commands that need approval
  Processes, \* the sets of requests that die together
  Scopes,    \* scopes of trust windows: an agent, a server, a cluster, "global"
  ScopesOf,  \* ScopesOf[r]: the scopes r looks at, in their order; none for the CLI's
  Timeout,   \* hitl_timeout_sec, in ticks
  MaxTrust,  \* bound: the longest trust window, in ticks
  Crashes    \* whether a process may die

ASSUME ProcessesAssumption == Processes \subseteq SUBSET Requests
ASSUME ScopesAssumption == ScopesOf \in [Requests -> Seq(Scopes)]
ASSUME TimeAssumption == Timeout \in Nat \ {0} /\ MaxTrust \in Nat \ {0}
ASSUME CrashAssumption == Crashes \in BOOLEAN

VARIABLES
  req,      \* req[r]: the goroutine or process that handles request r
  pending,  \* pending[r]: the pending file
  approved, \* the requests that have an approval marker
  denied,   \* the requests that have a denial marker
  trust,    \* trust[s]: the file of the trust window for s
  granting, \* granting[s]: the window that GrantTrust is about to write, or 0
  lister,   \* the scopes ListTrust has read as expired and not yet removed
  told,     \* told[r]: the answers people have given to r
  revoked,  \* the scopes revoked and not granted since
  standing  \* standing[r]: scopes of r in force ever since r began to look

files == <<pending, approved, denied, trust>>
history == <<told, revoked, standing>>
vars == <<files, req, granting, lister, history>>

Absent == -2 \* there is no file
Torn == -1   \* os.WriteFile has truncated the file and not yet written it

InForce(s) == trust[s] > 0

Expired(s) == trust[s] = 0

NewRequest == [pc |-> "new", at |-> 1, left |-> 0, outcome |-> "none"]

Request == [pc : {"new", "scan", "drop", "wait", "look", "clean", "end", "dead"},
            at : Nat, left : 0..Timeout,
            outcome : {"none", "trusted", "approved", "denied", "timeout", "error"}]

TypeOK == /\ req \in [Requests -> Request]
          /\ pending \in [Requests -> {Absent} \cup 0..Timeout]
          /\ approved \subseteq Requests
          /\ denied \subseteq Requests
          /\ trust \in [Scopes -> {Absent, Torn} \cup 0..MaxTrust]
          /\ granting \in [Scopes -> 0..MaxTrust]
          /\ lister \subseteq Scopes
          /\ told \in [Requests -> SUBSET {"approve", "deny"}]
          /\ revoked \subseteq Scopes
          /\ standing \in [Requests -> SUBSET Scopes]

Init == /\ req = [r \in Requests |-> NewRequest]
        /\ pending = [r \in Requests |-> Absent]
        /\ approved = {}
        /\ denied = {}
        /\ trust = [s \in Scopes |-> Absent]
        /\ granting = [s \in Scopes |-> 0]
        /\ lister = {}
        /\ told = [r \in Requests |-> {}]
        /\ revoked = {}
        /\ standing = [r \in Requests |-> {}]

-----------------------------------------------------------------------------
(* applyPolicyResult and CheckTrusted                                      *)

Scanning(r) == req[r].pc \in {"scan", "drop"}

Begin(r) == /\ req[r].pc = "new"
            /\ req' = [req EXCEPT ![r].pc = "scan"]
            /\ UNCHANGED <<files, granting, lister, told, revoked>>

\* Slip: CheckTrusted gives up at the first window that has expired.
ScanStops(r) ==
  /\ req[r].pc = "scan"
  /\ req[r].at <= Len(ScopesOf[r])
  /\ LET s == ScopesOf[r][req[r].at] IN
       \/ InForce(s) /\ req' = [req EXCEPT ![r].pc = "end", ![r].outcome = "trusted"]
       \/ Expired(s) /\ req' = [req EXCEPT ![r].at = Len(ScopesOf[r]) + 1]
       \/ trust[s] \in {Absent, Torn} /\ req' = [req EXCEPT ![r].at = @ + 1]
  /\ UNCHANGED <<files, granting, lister, told, revoked>>

\* One scope: its file is read.  A file that cannot be read or parsed is passed over.
Scan(r) ==
  /\ req[r].pc = "scan"
  /\ req[r].at <= Len(ScopesOf[r])
  /\ LET s == ScopesOf[r][req[r].at] IN
       \/ InForce(s) /\ req' = [req EXCEPT ![r].pc = "end", ![r].outcome = "trusted"]
       \/ Expired(s) /\ req' = [req EXCEPT ![r].pc = "drop"]
       \/ trust[s] \in {Absent, Torn} /\ req' = [req EXCEPT ![r].at = @ + 1]
  /\ UNCHANGED <<files, granting, lister, told, revoked>>

\* The expired file is removed, whatever it holds by now.
Drop(r) == /\ req[r].pc = "drop"
           /\ trust' = [trust EXCEPT ![ScopesOf[r][req[r].at]] = Absent]
           /\ req' = [req EXCEPT ![r].pc = "scan", ![r].at = @ + 1]
           /\ UNCHANGED <<pending, approved, denied, granting, lister, told, revoked>>

-----------------------------------------------------------------------------
(* RequestApproval                                                         *)

\* The pending file is written and the deadline timer started; either may fail.
File(r) == /\ req[r].pc = "scan"
           /\ req[r].at > Len(ScopesOf[r])
           /\ \/ /\ pending' = [pending EXCEPT ![r] = Timeout]
                 /\ req' = [req EXCEPT ![r].pc = "wait", ![r].left = Timeout]
              \/ /\ req' = [req EXCEPT ![r].pc = "end", ![r].outcome = "error"]
                 /\ UNCHANGED pending
           /\ UNCHANGED <<approved, denied, trust, granting, lister, told, revoked>>

Decide(r, outcome) ==
  req' = [req EXCEPT ![r].pc = "clean", ![r].at = 1, ![r].outcome = outcome]

\* Slip: the timer is created anew in every round of the loop.
PollRearms(r) == /\ req[r].pc = "wait"
                 /\ IF r \in approved THEN Decide(r, "approved")
                                      ELSE req' = [req EXCEPT ![r].pc = "look", ![r].left = Timeout]
                 /\ UNCHANGED <<files, granting, lister, told, revoked>>

\* Every two seconds: the approval marker first, then the denial marker.
Poll(r) == /\ req[r].pc = "wait"
           /\ IF r \in approved THEN Decide(r, "approved")
                                ELSE req' = [req EXCEPT ![r].pc = "look"]
           /\ UNCHANGED <<files, granting, lister, told, revoked>>

\* Slip: the two outcomes are swapped.
PollDeniedSwapped(r) ==
  /\ req[r].pc = "look"
  /\ IF r \in denied THEN Decide(r, "approved")
                     ELSE req' = [req EXCEPT ![r].pc = "wait"]
  /\ UNCHANGED <<files, granting, lister, told, revoked>>

PollDenied(r) == /\ req[r].pc = "look"
                 /\ IF r \in denied THEN Decide(r, "denied")
                                    ELSE req' = [req EXCEPT ![r].pc = "wait"]
                 /\ UNCHANGED <<files, granting, lister, told, revoked>>

\* Slip: the three files are not removed.
GiveUpAtOnce(r) == /\ req[r].pc = "wait"
                   /\ req' = [req EXCEPT ![r].pc = "end", ![r].outcome = "timeout"]
                   /\ UNCHANGED <<files, granting, lister, told, revoked>>

\* The deadline, or the end of the context at any time.  A marker that has just been
\* written is not looked at.
GiveUp(r) == /\ req[r].pc = "wait"
             /\ Decide(r, "timeout")
             /\ UNCHANGED <<files, granting, lister, told, revoked>>

TimeOut(r) == req[r].left = 0 /\ GiveUp(r)

\* cleanup removes the three files in this order and then RequestApproval returns.
Clean(r) ==
  /\ req[r].pc = "clean"
  /\ \/ /\ req[r].at = 1
        /\ pending' = [pending EXCEPT ![r] = Absent]
        /\ UNCHANGED <<approved, denied>>
     \/ /\ req[r].at = 2
        /\ approved' = approved \ {r}
        /\ UNCHANGED <<pending, denied>>
     \/ /\ req[r].at = 3
        /\ denied' = denied \ {r}
        /\ UNCHANGED <<pending, approved>>
  /\ req' = [req EXCEPT ![r].at = @ + 1, ![r].pc = IF req[r].at = 3 THEN "end" ELSE "clean"]
  /\ UNCHANGED <<trust, granting, lister, told, revoked>>

-----------------------------------------------------------------------------
(* People: "agent approve", "deny", "trust", "untrust", "trust-list" and   *)
(* the handlers of the same names in the Web UI.                           *)

\* The token is known once the pending file has been written, and for ever.
Known(r) == pending[r] # Absent \/ req[r].outcome \in {"approved", "denied", "timeout"}

Approve(r) == /\ Known(r)
              /\ approved' = approved \cup {r}
              /\ told' = [told EXCEPT ![r] = @ \cup {"approve"}]
              /\ UNCHANGED <<req, pending, denied, trust, granting, lister, revoked>>

Deny(r) == /\ Known(r)
           /\ denied' = denied \cup {r}
           /\ told' = [told EXCEPT ![r] = @ \cup {"deny"}]
           /\ UNCHANGED <<req, pending, approved, trust, granting, lister, revoked>>

\* os.WriteFile: the file is created or truncated, then written.
GrantTrust(s) == /\ granting[s] = 0
                 /\ \E d \in 1..MaxTrust : granting' = [granting EXCEPT ![s] = d]
                 /\ trust' = [trust EXCEPT ![s] = Torn]
                 /\ revoked' = revoked \ {s}
                 /\ UNCHANGED <<req, pending, approved, denied, lister, told>>

\* Slip: the window is put in place by a rename, which brings a removed file back.
GrantRenames(s) ==
  /\ granting[s] > 0
  /\ trust' = [trust EXCEPT ![s] = granting[s]]
  /\ granting' = [granting EXCEPT ![s] = 0]
  /\ UNCHANGED <<req, pending, approved, denied, lister, told, revoked>>

\* What is written to a file that has been removed in the meantime is lost.
GrantWrites(s) ==
  /\ granting[s] > 0
  /\ \/ trust' = [trust EXCEPT ![s] = IF @ = Torn THEN granting[s] ELSE @]
     \/ Crashes /\ UNCHANGED trust
  /\ granting' = [granting EXCEPT ![s] = 0]
  /\ UNCHANGED <<req, pending, approved, denied, lister, told, revoked>>

RevokeTrust(s) == /\ trust' = [trust EXCEPT ![s] = Absent]
                  /\ revoked' = revoked \cup {s}
                  /\ UNCHANGED <<req, pending, approved, denied, granting, lister, told>>

ListTrustReads(s) == /\ Expired(s)
                     /\ lister' = lister \cup {s}
                     /\ UNCHANGED <<files, req, granting, told, revoked>>

ListTrustRemoves(s) == /\ s \in lister
                       /\ lister' = lister \ {s}
                       /\ trust' = [trust EXCEPT ![s] = Absent]
                       /\ UNCHANGED <<req, pending, approved, denied, granting, told, revoked>>

-----------------------------------------------------------------------------
(* Processes that die, and time.                                           *)

Over(r) == req[r].pc \in {"end", "dead"}

Crash(P) == /\ Crashes
            /\ req' = [r \in Requests |-> IF r \in P /\ ~Over(r) /\ req[r].pc # "new"
                                           THEN [req[r] EXCEPT !.pc = "dead"] ELSE req[r]]
            /\ UNCHANGED <<files, granting, lister, told, revoked>>

Older(n) == IF n > 0 THEN n - 1 ELSE n

\* CheckTrusted compares with the time at which it began: no tick within it.
Tick == /\ \A r \in Requests : ~Scanning(r)
        /\ req' = [r \in Requests |-> [req[r] EXCEPT !.left = Older(@)]]
        /\ pending' = [r \in Requests |-> Older(pending[r])]
        /\ trust' = [s \in Scopes |-> Older(trust[s])]
        /\ UNCHANGED <<approved, denied, granting, lister, told, revoked>>

Step == \/ \E r \in Requests : \/ Begin(r) \/ Scan(r) \/ Drop(r) \/ File(r)
                               \/ Poll(r) \/ PollDenied(r) \/ GiveUp(r) \/ Clean(r)
                               \/ Approve(r) \/ Deny(r)
        \/ \E s \in Scopes : \/ GrantTrust(s) \/ GrantWrites(s) \/ RevokeTrust(s)
                             \/ ListTrustReads(s) \/ ListTrustRemoves(s)
        \/ \E P \in Processes : Crash(P)
        \/ Tick

\* History: a window counts for a request while it looks, if it is there all along.
Witnessed == standing' = [r \in Requests |->
               IF ~Scanning(r)' THEN {}
                 ELSE {s \in Scopes : InForce(s)' /\ (s \in standing[r] \/ ~Scanning(r))}]

Next == Step /\ Witnessed

Spec == Init /\ [][Next]_vars

\* Goroutines run and time passes.  A select whose cases are ready again and again takes
\* each of them in the end: the strong fairness of TimeOut.
Fairness == /\ WF_vars(Tick /\ Witnessed)
            /\ \A r \in Requests : /\ WF_vars((Scan(r) \/ Drop(r) \/ File(r)) /\ Witnessed)
                                   /\ WF_vars((Poll(r) \/ PollDenied(r)) /\ Witnessed)
                                   /\ WF_vars(Clean(r) /\ Witnessed)
                                   /\ SF_vars(TimeOut(r) /\ Witnessed)

FairSpec == Spec /\ Fairness

-----------------------------------------------------------------------------
(* What approval promises.                                                 *)

Waiting(r) == req[r].pc \in {"wait", "look"}

\* ListPending: what people are shown.
Listed(r) == pending[r] > 0

\* A request that waits is listed until its deadline, whatever the other processes do,
\* and a pending file belongs to a request that waits, or is about to return, or whose
\* process has died (RequestApproval, lines 59 to 66 and 82 to 94; ListPending).
PendingIsTrue == \A r \in Requests :
  /\ Waiting(r) /\ req[r].left > 0 => Listed(r)
  /\ pending[r] # Absent => Waiting(r) \/ req[r].pc \in {"clean", "dead"}

\* A command that ends as approved was approved by someone, and one that ends as denied
\* was denied, whatever other requests were told and whoever died (lines 79 to 98).
OutcomeIsAnAnswer == \A r \in Requests :
  /\ req[r].outcome = "approved" => "approve" \in told[r]
  /\ req[r].outcome = "denied" => "deny" \in told[r]

\* After "untrust" a window is gone until somebody grants another one: neither a grant
\* that was half done nor a reader brings it back (GrantTrust, RevokeTrust).
NoWindowOutlivesRevoke == \A s \in revoked : trust[s] = Absent

\* A person is asked only when no window of the request was in force all the while it
\* looked, whatever else it found there (CheckTrusted, lines 201 to 219).
StandingWindowSpares ==
  [][\A r \in Requests : Waiting(r)' /\ ~Waiting(r) /\ req[r].pc = "scan"
       => \A i \in DOMAIN ScopesOf[r] : ScopesOf[r][i] \notin standing[r]]_vars

\* Every request that waits returns or dies with its process (lines 74 to 98).
RequestsEnd == \A r \in Requests : Waiting(r) ~> Over(r)

\* Nothing stays listed for ever, even when its process died before it could remove the
\* file (ListPending, line 144).
ListedGoesAway == \A r \in Requests : Listed(r) ~> ~Listed(r)

-----------------------------------------------------------------------------
(* Why they hold, request by request.                                      *)

\* What each stage of a request implies of its files, its scan and its answers.
RequestInv(r) ==
  /\ req[r].pc = "new" => req[r].at = 1
  /\ Scanning(r) => /\ req[r].at \in 1..(Len(ScopesOf[r]) + 1)
                    /\ req[r].pc = "drop" => req[r].at <= Len(ScopesOf[r])
                    /\ \A i \in 1..(req[r].at - 1) : ScopesOf[r][i] \notin standing[r]
  /\ req[r].pc = "new" \/ Scanning(r) => pending[r] = Absent
  /\ Waiting(r) => pending[r] = req[r].left
  /\ req[r].pc = "clean" => /\ req[r].at \in 1..3
                            /\ req[r].at > 1 => pending[r] = Absent
  /\ req[r].pc = "end" => pending[r] = Absent
  /\ r \in approved \/ req[r].outcome = "approved" => "approve" \in told[r]
  /\ r \in denied \/ req[r].outcome = "denied" => "deny" \in told[r]

\* The inductive invariant.
IInv == /\ TypeOK
        /\ \A r \in Requests : RequestInv(r)
        /\ NoWindowOutlivesRevoke

-----------------------------------------------------------------------------
(* What the help text says and the code does not do.                       *)

\* cli/agent_hitl.go, lines 141 and 142: requests "are automatically approved for the
\* specified duration": a window that is in force is removed by untrust only.
GrantLasts == [][\A s \in Scopes : InForce(s) /\ trust'[s] = Absent => s \in revoked']_vars

=============================================================================
