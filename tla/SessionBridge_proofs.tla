------------------------- MODULE SessionBridge_proofs -------------------------
(***************************************************************************)
(* Proofs about SessionBridge, for any ids and any number of processes     *)
(* and faults, with ids that are generated and ids that users choose.      *)
(***************************************************************************)
EXTENDS SessionBridge, SequenceTheorems, FiniteSetTheorems, TLAPS

LEMMA NoBridgeType == NoBridge \in Bridge
BY EmptySeq DEF NoBridge, Bridge

(* The updates of a process keep its type. *)
Gots == {"nothing", "eof", "reset", "left", "zero", "nonzero", "interrupted", "failed"}

LEMMA ProcessIs ==
  ASSUME NEW cs \in Processes, NEW c \in Calls
  PROVE  cs[c] \in Process /\ (cs[c].kind # "none" => cs[c].id \in Ids)
BY DEF Processes

LEMMA ProcessIn ==
  ASSUME NEW cs \in Processes, NEW c \in Calls, NEW p \in Process, p.kind # "none" => p.id \in Ids
  PROVE  [cs EXCEPT ![c] = p] \in Processes
BY DEF Processes

LEMMA ProcessEnds ==
  ASSUME NEW cs \in Processes, NEW c \in Calls, NEW how \in Ends
  PROVE  Ended(cs, c, how) \in Processes
<1>1. [cs[c] EXCEPT !.pc = "done", !.end = how] \in Process
  BY ProcessIs DEF Process, Ends, Pcs
<1>2. [cs[c] EXCEPT !.pc = "done", !.end = how].kind = cs[c].kind /\ [cs[c] EXCEPT !.pc = "done", !.end = how].id = cs[c].id
  BY ProcessIs DEF Process
<1>3. QED
  BY <1>1, <1>2, ProcessIs, ProcessIn DEF Ended

LEMMA ProcessGoes ==
  ASSUME NEW cs \in Processes, NEW c \in Calls, NEW pc \in Pcs
  PROVE  [cs EXCEPT ![c].pc = pc] \in Processes
<1>1. [cs[c] EXCEPT !.pc = pc] \in Process
  BY ProcessIs DEF Process, Pcs
<1>2. [cs[c] EXCEPT !.pc = pc].kind = cs[c].kind /\ [cs[c] EXCEPT !.pc = pc].id = cs[c].id
  BY ProcessIs DEF Process
<1>3. QED
  BY <1>1, <1>2, ProcessIs, ProcessIn

LEMMA ProcessGets ==
  ASSUME NEW cs \in Processes, NEW c \in Calls, NEW g \in Gots
  PROVE  [cs EXCEPT ![c].got = g] \in Processes
<1>1. [cs[c] EXCEPT !.got = g] \in Process
  BY ProcessIs DEF Process, Gots
<1>2. [cs[c] EXCEPT !.got = g].kind = cs[c].kind /\ [cs[c] EXCEPT !.got = g].id = cs[c].id
  BY ProcessIs DEF Process
<1>3. QED
  BY <1>1, <1>2, ProcessIs, ProcessIn

LEMMA ProcessTold ==
  ASSUME NEW cs \in Processes, NEW c \in Calls, NEW g \in Gots
  PROVE  /\ Tell(cs, c, g) \in Processes
         /\ \A d \in Calls \ {c} : Tell(cs, c, g)[d] = cs[d]
         /\ Tell(cs, c, g)[c].got = IF cs[c].got = "nothing" THEN g ELSE cs[c].got
         /\ Tell(cs, c, g)[c].kind = cs[c].kind /\ Tell(cs, c, g)[c].id = cs[c].id
         /\ Tell(cs, c, g)[c].pc = cs[c].pc /\ Tell(cs, c, g)[c].end = cs[c].end
         /\ Tell(cs, c, g)[c].after = cs[c].after
<1>1. PICK h \in Gots : h = IF cs[c].got = "nothing" THEN g ELSE cs[c].got
  BY ProcessIs DEF Process, Gots
<1>2. Tell(cs, c, g) = [cs EXCEPT ![c].got = h]
  BY <1>1 DEF Tell
<1>3. [cs EXCEPT ![c].got = h] \in Processes
  BY ProcessGets
<1>4. cs \in [Calls -> Process]
  BY DEF Processes
<1>5. QED
  BY <1>1, <1>2, <1>3, <1>4 DEF Process

LEMMA ProcessAfter ==
  ASSUME NEW cs \in Processes, NEW c \in Calls, NEW late \in BOOLEAN
  PROVE  /\ [cs EXCEPT ![c].after = late] \in Processes
         /\ \A d \in Calls \ {c} : [cs EXCEPT ![c].after = late][d] = cs[d]
         /\ [cs EXCEPT ![c].after = late][c] = [cs[c] EXCEPT !.after = late]
<1>1. [cs[c] EXCEPT !.after = late] \in Process /\ cs \in [Calls -> Process]
  BY ProcessIs DEF Process, Processes
<1>2. [cs[c] EXCEPT !.after = late].kind = cs[c].kind /\ [cs[c] EXCEPT !.after = late].id = cs[c].id
  BY ProcessIs DEF Process
<1>3. QED
  BY <1>1, <1>2, ProcessIs, ProcessIn

(* A process begins: a start or a stop, or an exec. *)
LEMMA ProcessBegins ==
  ASSUME NEW cs \in Processes, NEW c \in Calls, NEW i \in Ids, NEW kind \in {"start", "exec", "stop"},
         NEW pc \in Pcs, NEW end \in Ends
  PROVE  [cs EXCEPT ![c].kind = kind, ![c].id = i, ![c].pc = pc, ![c].end = end] \in Processes
<1> DEFINE p == [cs[c] EXCEPT !.kind = kind, !.id = i, !.pc = pc, !.end = end]
<1>1. p \in Process /\ p.id = i
  <2>1. cs[c] \in Process
    BY ProcessIs
  <2>2. QED
    BY <2>1 DEF Process
<1>2. [cs EXCEPT ![c] = p] \in Processes
  BY <1>1, ProcessIn
<1>3. QED
  BY <1>2

(* Connections that end change nothing of a process but what it got. *)
LEMMA HungKeeps ==
  ASSUME NEW cs \in Processes, NEW lost, NEW what \in {"eof", "reset"}
  PROVE  /\ Hung(cs, lost, what) \in Processes
         /\ \A c \in Calls :
              /\ Hung(cs, lost, what)[c] \in {cs[c], [cs[c] EXCEPT !.got = what]}
              /\ Hung(cs, lost, what)[c] # cs[c] => c \in lost /\ cs[c].got = "nothing"
<1>1. ASSUME NEW p \in Process PROVE [p EXCEPT !.got = what] \in Process
  BY DEF Process
<1>2. \A c \in Calls : cs[c] \in Process
  BY DEF Processes
<1>3. /\ Hung(cs, lost, what) \in [Calls -> Process]
      /\ \A c \in Calls :
              /\ Hung(cs, lost, what)[c] \in {cs[c], [cs[c] EXCEPT !.got = what]}
              /\ Hung(cs, lost, what)[c] # cs[c] => c \in lost /\ cs[c].got = "nothing"
  BY <1>1, <1>2 DEF Hung
<1>4. ASSUME NEW c \in Calls PROVE Hung(cs, lost, what)[c].kind = cs[c].kind /\ Hung(cs, lost, what)[c].id = cs[c].id
  BY <1>2, <1>3 DEF Process
<1>5. QED
  BY <1>3, <1>4 DEF Processes

(* So of all that a bridge leaves behind. *)
LEMMA KilledKeeps ==
  ASSUME NEW cs \in Processes, NEW i
  PROVE  /\ Killed(cs, i) \in Processes /\ Killed(cs, i) \in [Calls -> Process]
         /\ \A c \in Calls :
              /\ Killed(cs, i)[c] \in {cs[c], [cs[c] EXCEPT !.got = "eof"], [cs[c] EXCEPT !.got = "reset"]}
              /\ Killed(cs, i)[c] # cs[c] => c \in Waiting(i) \cup bridge[i].serves
<1> DEFINE hs == Hung(cs, Waiting(i), "reset")
<1>1. /\ hs \in Processes
      /\ \A c \in Calls : /\ hs[c] \in {cs[c], [cs[c] EXCEPT !.got = "reset"]}
                          /\ hs[c] # cs[c] => c \in Waiting(i) /\ cs[c].got = "nothing"
  BY HungKeeps
<1> HIDE DEF hs
<1>2. /\ Hung(hs, bridge[i].serves, "eof") \in Processes
      /\ \A c \in Calls : /\ Hung(hs, bridge[i].serves, "eof")[c] \in {hs[c], [hs[c] EXCEPT !.got = "eof"]}
                          /\ Hung(hs, bridge[i].serves, "eof")[c] # hs[c] => c \in bridge[i].serves /\ hs[c].got = "nothing"
  BY <1>1, HungKeeps
<1>3. ASSUME NEW c \in Calls
      PROVE  /\ Hung(hs, bridge[i].serves, "eof")[c] \in {cs[c], [cs[c] EXCEPT !.got = "eof"], [cs[c] EXCEPT !.got = "reset"]}
             /\ Hung(hs, bridge[i].serves, "eof")[c] # cs[c] => c \in Waiting(i) \cup bridge[i].serves
  <2>1. cs[c] \in Process
    BY DEF Processes
  <2>2. CASE hs[c] = cs[c]
    BY <1>2, <2>2
  <2>3. CASE hs[c] # cs[c]
    <3>1. hs[c] = [cs[c] EXCEPT !.got = "reset"] /\ c \in Waiting(i)
      BY <1>1, <2>3
    <3>2. hs[c].got # "nothing"
      BY <2>1, <3>1 DEF Process
    <3>3. QED
      BY <1>2, <3>1, <3>2
  <2>4. QED
    BY <2>2, <2>3
<1>4. QED
  BY <1>2, <1>3 DEF Killed, Processes, hs

(* The updates of a bridge keep its type. *)
LEMMA QueueTypes ==
  ASSUME NEW S, NEW q \in Seq(S)
  PROVE  /\ \A x \in S : Append(q, x) \in Seq(S)
         /\ q # <<>> => Head(q) \in S /\ Tail(q) \in Seq(S)
BY HeadTailProperties, AppendProperties

LEMMA BridgeIn ==
  ASSUME TypeOK, NEW i \in Ids, NEW b \in Bridge
  PROVE  [bridge EXCEPT ![i] = b] \in [Ids -> Bridge]
BY DEF TypeOK

LEMMA BridgeGoes ==
  ASSUME TypeOK, NEW i \in Ids
  PROVE  [bridge EXCEPT ![i] = NoBridge] \in [Ids -> Bridge]
BY NoBridgeType, BridgeIn

LEMMA BridgeQueues ==
  ASSUME TypeOK, NEW i \in Ids, NEW x \in Calls \cup {0}
  PROVE  [bridge EXCEPT ![i].queue = Append(@, x)] \in [Ids -> Bridge]
<1>1. Append(bridge[i].queue, x) \in Seq(Calls \cup {0})
  BY QueueTypes DEF TypeOK, Bridge
<1>2. [bridge[i] EXCEPT !.queue = Append(bridge[i].queue, x)] \in Bridge
  BY <1>1 DEF TypeOK, Bridge
<1>3. QED
  BY <1>2, BridgeIn

LEMMA BridgeTurns ==
  ASSUME TypeOK, NEW i \in Ids, NEW pc \in {"listen", "accept", "busy"}
  PROVE  [bridge EXCEPT ![i].pc = pc] \in [Ids -> Bridge]
<1>1. [bridge[i] EXCEPT !.pc = pc] \in Bridge
  BY DEF TypeOK, Bridge
<1>2. QED
  BY <1>1, BridgeIn

LEMMA InitInv == Init => IInv
<1> SUFFICES ASSUME Init PROVE IInv
  OBVIOUS
<1>1. TypeOK
  <2>1. call \in Processes
    BY DEF Init, Processes, Process, NoCall, Pcs, Ends
  <2>2. QED
    BY <2>1, NoBridgeType DEF Init, TypeOK
<1>2. RequestsInOrder
  <2>1. ~(0 \in Calls) /\ bridge = [i \in Ids |-> NoBridge] /\ call = [c \in Calls |-> NoCall]
        /\ real = [c \in Calls |-> "none"] /\ runs = [c \in Calls |-> 0]
    BY SessionBridgeAssumption DEF Init
  <2>2. /\ NoBridge.queue = <<>> /\ NoBridge.typed = <<>> /\ NoBridge.out = <<>> /\ NoBridge.serves = {} /\ NoBridge.cmd = 0
        /\ NoCall.kind = "none" /\ NoCall.got = "nothing" /\ NoCall.end = "none" /\ NoCall.pc = "none"
    BY DEF NoBridge, NoCall
  <2>3. \A i \in Ids : ServesOne(i) /\ BashInv(i)
    BY <2>1, <2>2 DEF ServesOne, BashInv, ToSet
  <2>4. \A i \in Ids, c \in Calls : RequestInv(i, c)
    BY <2>1, <2>2 DEF RequestInv, Queued, Typed, Has, Once
  <2>5. \A c \in Calls : CallInv(c)
    BY <2>1, <2>2 DEF CallInv
  <2>6. QED
    BY <2>3, <2>4, <2>5 DEF RequestsInOrder
<1>3. SessionsInOrder
  BY DEF Init, SessionsInOrder, BridgeInv, StartInv, NoBridge, NoCall, Running
<1>4. QED
  BY <1>1, <1>2, <1>3 DEF IInv

-----------------------------------------------------------------------------
(* Types.                                                                  *)

LEMMA ClientTypes ==
  ASSUME TypeOK, NEW c \in Calls, Start(c) \/ Exec(c) \/ Stop(c) \/ ReadTimesOut(c) \/ ClientStep(c)
  PROVE  TypeOK'
<1> USE DEF files
<1>0. /\ call \in Processes /\ call[c] \in Process /\ (call[c].kind # "none" => call[c].id \in Ids)
      /\ call[c].end \in Ends /\ call[c].pc \in Pcs
  BY ProcessIs DEF TypeOK, Process, Pcs, Ends
<1>1. CASE Start(c)
  <2>1. PICK i \in Ids : call' = [call EXCEPT ![c].kind = "start", ![c].id = i,
                                   ![c].pc = IF Running(i) THEN "done" ELSE "prepare",
                                   ![c].end = IF Running(i) THEN "error" ELSE @]
    BY <1>1 DEF Start
  <2>2. PICK pc \in Pcs, end \in Ends : call' = [call EXCEPT ![c].kind = "start", ![c].id = i, ![c].pc = pc, ![c].end = end]
    BY <1>0, <2>1 DEF Pcs, Ends
  <2>4. call' \in Processes
    BY <1>0, <2>2, ProcessBegins
  <2>5. QED
    BY <1>1, <2>4 DEF TypeOK, Start
<1>2. CASE Exec(c)
  <2>1. PICK i \in Ids :
          call' = [call EXCEPT ![c].kind = "exec", ![c].id = i, ![c].pc = IF Running(i) THEN "dial" ELSE "done",
                  ![c].end = IF Running(i) THEN @ ELSE "error"]
    BY <1>2 DEF Exec
  <2>2. PICK pc \in Pcs, end \in Ends :
          call' = [call EXCEPT ![c].kind = "exec", ![c].id = i, ![c].pc = pc, ![c].end = end]
    BY <1>0, <2>1 DEF Pcs, Ends
  <2>3. call' \in Processes
    BY <1>0, <2>2, ProcessBegins
  <2>4. QED
    BY <1>2, <2>3 DEF TypeOK, Exec
<1>3. CASE Stop(c)
  <2>1. PICK i \in Ids, pc \in Pcs, end \in Ends :
           call' = [call EXCEPT ![c].kind = "stop", ![c].id = i, ![c].pc = pc, ![c].end = end]
    <3>1. PICK i \in Ids : \/ call' = [call EXCEPT ![c].kind = "stop", ![c].id = i, ![c].pc = "kill"]
                           \/ call' = [call EXCEPT ![c].kind = "stop", ![c].id = i, ![c].pc = "done", ![c].end = "error"]
      BY <1>3 DEF Stop
    <3>2. [call EXCEPT ![c].kind = "stop", ![c].id = i, ![c].pc = "kill"]
            = [call EXCEPT ![c].kind = "stop", ![c].id = i, ![c].pc = "kill", ![c].end = call[c].end]
      BY <1>0 DEF Process, Processes
    <3>3. QED
      BY <1>0, <3>1, <3>2 DEF Pcs, Ends
  <2>3. call' \in Processes
    BY <1>0, <2>1, ProcessBegins
  <2>4. dir' \subseteq Ids /\ sock' \in [Ids -> Nat]
    <3>1. UNCHANGED <<dir, sock>> \/ \E j \in Ids : RemoveAll(j)
      BY <1>3 DEF Stop
    <3>2. QED
      BY <3>1 DEF TypeOK, RemoveAll
  <2>5. QED
    BY <1>3, <2>3, <2>4 DEF TypeOK, Stop
<1>4. CASE Prepare(c)
  BY <1>0, <1>4, ProcessGoes DEF TypeOK, Prepare, Go, At, Id, Pcs
<1>5. CASE WriteMeta(c)
  BY <1>0, <1>5, ProcessGoes, ProcessEnds DEF TypeOK, WriteMeta, Go, End, Pcs, Ends
<1>6. CASE Spawn(c)
  <2>1. call' \in Processes
    BY <1>0, <1>6, ProcessGoes, ProcessEnds DEF Spawn, Go, End, Pcs, Ends
  <2>2. bridge' \in [Ids -> Bridge]
    <3>1. Id(c) \in Ids /\ made + 1 \in Nat
      BY <1>0, <1>6 DEF TypeOK, Spawn, Id, At
    <3>2. [NoBridge EXCEPT !.n = made + 1, !.pc = "dial"] \in Bridge
      BY <3>1, NoBridgeType DEF Bridge
    <3>3. QED
      BY <1>6, <3>1, <3>2, BridgeIn DEF TypeOK, Spawn
  <2>3. QED
    BY <1>0, <1>6, <2>1, <2>2 DEF TypeOK, Spawn, RemoveAll, Id, At
<1>7. CASE StartTimesOut(c)
  <2>1. Killed(call, Id(c)) \in Processes
    BY <1>0, KilledKeeps
  <2>2. call' \in Processes
    BY <1>7, <2>1, ProcessEnds DEF StartTimesOut, Ends
  <2>3. QED
    BY <1>0, <1>7, <2>2, BridgeGoes DEF TypeOK, StartTimesOut, Kill, RemoveAll, Id, At
<1>8. CASE BridgeIsGone(c)
  BY <1>0, <1>8, ProcessEnds DEF TypeOK, BridgeIsGone, RemoveAll, Id, At, End, Ends
<1>9. CASE Probe(c)
  BY <1>0, <1>9, ProcessEnds, BridgeQueues DEF TypeOK, Probe, Id, At, End, Ends
<1>10. CASE Dial(c)
  <2>1. call' \in Processes
    BY <1>0, <1>10, ProcessGoes, ProcessEnds DEF Dial, Go, End, Pcs, Ends
  <2>2. bridge' \in [Ids -> Bridge]
    <3>1. Id(c) \in Ids
      BY <1>0, <1>10 DEF Dial, Id, At
    <3>2. bridge' = bridge \/ bridge' = [bridge EXCEPT ![Id(c)].queue = Append(@, c)]
      BY <1>10 DEF Dial
    <3>3. QED
      BY <3>1, <3>2, BridgeQueues DEF TypeOK
  <2>3. QED
    BY <1>10, <2>1, <2>2 DEF TypeOK, Dial
<1>11. CASE Read(c)
  <2>1. PICK how \in Ends : call' = Ended(call, c, how)
    BY <1>11 DEF Read, End, Exit, Ends
  <2>2. QED
    BY <1>0, <1>11, <2>1, ProcessEnds DEF TypeOK, Read
<1>12. CASE ReadTimesOut(c)
  <2>1. Ended(call, c, "error") \in Processes
    BY <1>0, ProcessEnds DEF Ends
  <2>2. call' \in Processes
    BY <1>12, <2>1, ProcessGets DEF ReadTimesOut, Gots
  <2>3. QED
    BY <1>12, <2>2 DEF TypeOK, ReadTimesOut
<1>13. CASE StopKills(c)
  <2>1. Killed(call, Id(c)) \in Processes
    BY <1>0, KilledKeeps
  <2>2. call' \in Processes
    BY <1>0, <1>13, <2>1, ProcessEnds, ProcessGoes DEF StopKills, End, Ends, Pcs
  <2>3. QED
    BY <1>0, <1>13, <2>2, BridgeGoes DEF TypeOK, StopKills, Kill, Id, At
<1>14. CASE StopRemoves(c)
  BY <1>0, <1>14, ProcessEnds DEF TypeOK, StopRemoves, RemoveAll, Id, At, End, Ends
<1>15. QED
  BY <1>1, <1>2, <1>3, <1>4, <1>5, <1>6, <1>7, <1>8, <1>9, <1>10, <1>11, <1>12, <1>13, <1>14 DEF ClientStep

LEMMA BridgeTypes ==
  ASSUME TypeOK, NEW i \in Ids, BridgeStep(i) \/ BashStep(i) \/ Sigterm(i) \/ Lose(i)
  PROVE  TypeOK'
<1> USE DEF files
<1>0. /\ call \in Processes /\ Killed(call, i) \in Processes /\ bridge[i] \in Bridge /\ bridge \in [Ids -> Bridge]
      /\ bridge[i].queue \in Seq(Calls \cup {0}) /\ bridge[i].typed \in Seq(Calls \cup {0})
      /\ bridge[i].out \in Seq({"zero", "nonzero"}) /\ bridge[i].serves \in SUBSET Calls
      /\ bridge[i].cmd \in Calls \cup {0} /\ bridge[i].late \in BOOLEAN
  BY KilledKeeps DEF TypeOK, Bridge
<1>1. CASE Connect(i)
  <2>1. bridge' \in [Ids -> Bridge]
    BY <1>1, BridgeTurns, BridgeGoes DEF Connect
  <2>2. QED
    BY <1>1, <2>1 DEF TypeOK, Connect
<1>2. CASE Listen(i)
  <2>1. bridge[i].n \in Nat
    BY <1>0 DEF Bridge
  <2>2. CASE i \in dir
    BY <1>2, <2>1, <2>2, BridgeTurns DEF TypeOK, Listen
  <2>3. CASE i \notin dir
    <3>1. /\ bridge' = [bridge EXCEPT ![i] = NoBridge] /\ call' = Killed(call, i)
          /\ sock' = [sock EXCEPT ![i] = 0] /\ tmux' = tmux \ {i} /\ UNCHANGED <<world, dir, made, real, runs, faults>>
      BY <1>2, <2>3 DEF Listen, Exits
    <3>2. bridge' \in [Ids -> Bridge] /\ call' \in Processes
      BY <1>0, <3>1, BridgeGoes
    <3>3. sock' \in [Ids -> Nat] /\ tmux' \subseteq Ids
      BY <3>1 DEF TypeOK
    <3>4. QED
      BY <3>1, <3>2, <3>3 DEF TypeOK
  <2>4. QED
    BY <2>2, <2>3
<1>3. CASE Accept(i)
  <2> DEFINE c == Head(bridge[i].queue)
             rest == Tail(bridge[i].queue)
  <2>0. c \in Calls \cup {0} /\ rest \in Seq(Calls \cup {0}) /\ Taken(i) /\ UNCHANGED <<world, files, real, runs, faults>>
    BY <1>0, <1>3, QueueTypes DEF Accept
  <2>1. CASE bridge' = [bridge EXCEPT ![i].queue = rest] /\ (call' = call \/ (c # 0 /\ call' = Tell(call, c, "failed")))
    <3>1. [bridge[i] EXCEPT !.queue = rest] \in Bridge
      BY <1>0, <2>0 DEF Bridge
    <3>2. call' \in Processes
      BY <1>0, <2>0, <2>1, ProcessTold DEF Gots
    <3>3. QED
      BY <1>0, <2>0, <2>1, <3>1, <3>2, BridgeIn DEF TypeOK
  <2>2. CASE c # 0 /\ \E w \in {"arrives", "lost"} :
                /\ call' = [call EXCEPT ![c].after = bridge[i].late]
                /\ bridge' = [bridge EXCEPT ![i].queue = rest, ![i].serves = @ \cup {c}, ![i].pc = "busy",
                       ![i].typed = IF w = "arrives" THEN Append(@, c) ELSE @]
    <3>0. c \in Calls
      BY <2>0, <2>2
    <3>1. PICK t \in Seq(Calls \cup {0}) :
            bridge' = [bridge EXCEPT ![i] = [bridge[i] EXCEPT !.queue = rest, !.serves = @ \cup {c}, !.pc = "busy", !.typed = t]]
      <4>1. PICK w \in {"arrives", "lost"} :
                bridge' = [bridge EXCEPT ![i].queue = rest, ![i].serves = @ \cup {c}, ![i].pc = "busy",
                       ![i].typed = IF w = "arrives" THEN Append(@, c) ELSE @]
        BY <2>2
      <4>2. (IF w = "arrives" THEN Append(bridge[i].typed, c) ELSE bridge[i].typed) \in Seq(Calls \cup {0})
        BY <1>0, <3>0, QueueTypes
      <4>3. QED
        BY <4>1, <4>2
    <3>2. [bridge[i] EXCEPT !.queue = rest, !.serves = @ \cup {c}, !.pc = "busy", !.typed = t] \in Bridge
      BY <1>0, <2>0, <2>2 DEF Bridge
    <3>3. call' \in Processes
      <4>1. call' = [call EXCEPT ![c].after = bridge[i].late]
        BY <2>2
      <4> HIDE DEF c
      <4>2. QED
        BY <1>0, <3>0, <4>1, ProcessAfter
    <3>4. QED
      BY <1>0, <2>0, <3>1, <3>2, <3>3, BridgeIn DEF TypeOK
  <2>3. QED
    BY <2>0, <2>1, <2>2 DEF Taken, Writes
<1>4. CASE Sentinel(i)
  <2>1. PICK c \in bridge[i].serves :
          /\ bridge[i].out # <<>>
          /\ bridge' = [bridge EXCEPT ![i].serves = @ \ {c}, ![i].pc = "accept", ![i].out = Tail(@)]
          /\ call' = Tell(call, c, Head(bridge[i].out))
          /\ UNCHANGED <<world, files, real, runs, faults>>
    BY <1>4 DEF Sentinel
  <2>2. c \in Calls /\ Head(bridge[i].out) \in Gots /\ Tail(bridge[i].out) \in Seq({"zero", "nonzero"})
    BY <1>0, <2>1, QueueTypes DEF Gots
  <2>3. [bridge[i] EXCEPT !.serves = @ \ {c}, !.pc = "accept", !.out = Tail(bridge[i].out)] \in Bridge
    BY <1>0, <2>2 DEF Bridge
  <2>4. bridge' \in [Ids -> Bridge] /\ call' \in Processes
    BY <1>0, <2>1, <2>2, <2>3, BridgeIn, ProcessTold
  <2>5. QED
    BY <2>1, <2>4 DEF TypeOK
<1>5. CASE Timer(i)
  <2>1. PICK c \in bridge[i].serves : GivesUp(i, c)
    BY <1>5 DEF Timer
  <2>2. c \in Calls /\ Append(bridge[i].typed, 0) \in Seq(Calls \cup {0}) /\ <<>> \in Seq({"zero", "nonzero"})
    BY <1>0, QueueTypes
  <2>3. PICK t \in Seq(Calls \cup {0}) :
          bridge' = [bridge EXCEPT ![i] = [bridge[i] EXCEPT !.serves = @ \ {c}, !.pc = "accept", !.out = <<>>, !.late = TRUE, !.typed = t]]
    BY <1>0, <2>1, <2>2 DEF GivesUp
  <2>4. [bridge[i] EXCEPT !.serves = @ \ {c}, !.pc = "accept", !.out = <<>>, !.late = TRUE, !.typed = t] \in Bridge
    BY <1>0, <2>2 DEF Bridge
  <2>5. bridge' \in [Ids -> Bridge] /\ call' \in Processes
    <3>1. call' = Tell(call, c, "interrupted")
      BY <2>1 DEF GivesUp
    <3>2. QED
      BY <1>0, <2>2, <2>3, <2>4, <3>1, BridgeIn, ProcessTold DEF Gots
  <2>6. QED
    BY <2>1, <2>5 DEF TypeOK, GivesUp
<1>6. CASE Leave(i)
  BY <1>0, <1>6, BridgeGoes DEF TypeOK, Leave, Exits
<1>7. CASE Sigterm(i)
  <2>1. call' \in Processes
    BY <1>0, <1>7, HungKeeps DEF Sigterm
  <2>2. [bridge[i] EXCEPT !.ctx = FALSE, !.queue = <<>>] \in Bridge
    BY <1>0, EmptySeq DEF Bridge
  <2>3. bridge' \in [Ids -> Bridge]
    BY <1>7, <2>2, BridgeIn DEF TypeOK, Sigterm
  <2>4. sock' \in [Ids -> Nat] /\ faults' \in Nat
    BY <1>7 DEF TypeOK, Sigterm
  <2>5. QED
    BY <1>7, <2>1, <2>3, <2>4 DEF TypeOK, Sigterm
<1>8. CASE Lose(i)
  <2>1. [bridge[i] EXCEPT !.ssh = "lost"] \in Bridge
    BY <1>0 DEF Bridge
  <2>2. bridge' \in [Ids -> Bridge]
    BY <1>8, <2>1, BridgeIn DEF TypeOK, Lose
  <2>3. QED
    BY <1>8, <2>2 DEF TypeOK, Lose
<1>9. CASE BashReads(i)
  <2> DEFINE c == Head(bridge[i].typed)
             rest == Tail(bridge[i].typed)
  <2>0. c \in Calls \cup {0} /\ rest \in Seq(Calls \cup {0}) /\ UNCHANGED <<world, files, call, faults>>
    BY <1>0, <1>9, QueueTypes DEF BashReads
  <2>1. CASE c = 0
    <3>1. [bridge[i] EXCEPT !.typed = <<>>, !.bash = "ended"] \in Bridge
      BY <1>0, EmptySeq DEF Bridge
    <3>2. QED
      BY <1>9, <2>0, <2>1, <3>1, BridgeIn DEF BashReads, TypeOK
  <2>2. CASE c # 0
    <3>1. [bridge[i] EXCEPT !.typed = rest, !.cmd = c] \in Bridge
      BY <1>0, <2>0 DEF Bridge
    <3>2. /\ bridge' = [bridge EXCEPT ![i] = [bridge[i] EXCEPT !.typed = rest, !.cmd = c]]
          /\ real' = [real EXCEPT ![c] = "running"] /\ runs' = [runs EXCEPT ![c] = @ + 1]
      BY <1>9, <2>2 DEF BashReads
    <3>3. real' \in [Calls -> {"none", "running"} \cup Outcomes] /\ runs' \in [Calls -> Nat]
      BY <2>0, <2>2, <3>2 DEF TypeOK
    <3>4. QED
      BY <2>0, <3>1, <3>2, <3>3, BridgeIn DEF TypeOK
  <2>3. QED
    BY <2>1, <2>2
<1>10. CASE CommandEnds(i)
  <2>1. PICK what \in {"zero", "nonzero", "exited"} :
       /\ real' = [real EXCEPT ![bridge[i].cmd] = what]
       /\ bridge' = [bridge EXCEPT ![i].cmd = 0,
            ![i].bash = IF what = "exited" THEN "ended" ELSE @,
            ![i].out = IF what = "exited" \/ bridge[i].ssh = "lost" THEN @ ELSE Append(@, what)]
       /\ UNCHANGED <<world, files, call, runs, faults>>
    BY <1>10 DEF CommandEnds
  <2>2. what # "exited" => Append(bridge[i].out, what) \in Seq({"zero", "nonzero"})
    BY <1>0, <2>1, QueueTypes
  <2>3. PICK bash \in {"up", "ended"}, o \in Seq({"zero", "nonzero"}) :
          bridge' = [bridge EXCEPT ![i] = [bridge[i] EXCEPT !.cmd = 0, !.bash = bash, !.out = o]]
    <3>1. bridge[i].bash \in {"up", "ended"}
      BY <1>0 DEF Bridge
    <3>2. QED
      BY <1>0, <2>1, <2>2, <3>1
  <2>4. [bridge[i] EXCEPT !.cmd = 0, !.bash = bash, !.out = o] \in Bridge
    BY <1>0 DEF Bridge
  <2>5. real' \in [Calls -> {"none", "running"} \cup Outcomes]
    BY <1>10, <2>1 DEF TypeOK, Outcomes
  <2>6. bridge' \in [Ids -> Bridge]
    BY <2>3, <2>4, BridgeIn
  <2>7. QED
    BY <2>1, <2>5, <2>6 DEF TypeOK
<1>11. CASE CommandReads(i)
  <2>1. Tail(bridge[i].typed) \in Seq(Calls \cup {0})
    BY <1>0, <1>11, QueueTypes DEF CommandReads
  <2>2. [bridge[i] EXCEPT !.typed = Tail(bridge[i].typed)] \in Bridge
    BY <1>0, <2>1 DEF Bridge
  <2>3. QED
    BY <1>11, <2>2, BridgeIn DEF CommandReads, TypeOK
<1>12. QED
  BY <1>1, <1>2, <1>3, <1>4, <1>5, <1>6, <1>7, <1>8, <1>9, <1>10, <1>11 DEF BridgeStep, BashStep

-----------------------------------------------------------------------------
(* Requests.  What a step that hands on no request and no line does to one *)
(* bridge and to one process.                                              *)

CalmBridge(i) ==
  \/ /\ bridge'[i].serves = bridge[i].serves /\ (bridge'[i].pc = bridge[i].pc \/ bridge[i].pc # "busy")
     /\ bridge'[i].queue \in {bridge[i].queue, <<>>}
     /\ bridge'[i].typed = bridge[i].typed /\ bridge'[i].cmd = bridge[i].cmd
     /\ bridge'[i].out = bridge[i].out /\ bridge'[i].late = bridge[i].late
  \/ /\ bridge'[i].serves = {} /\ bridge'[i].queue = <<>> /\ bridge'[i].typed = <<>>
     /\ bridge'[i].cmd = 0 /\ bridge'[i].out = <<>>

CalmProcess(c) ==
  /\ call[c].kind # "none" => call'[c].kind = call[c].kind /\ call'[c].id = call[c].id
  /\ call'[c].kind = "none" => call[c].kind = "none" /\ call'[c].end = call[c].end
  /\ call'[c].pc = "dial" => call[c].pc = "dial" \/ call[c].kind = "none"
  /\ call'[c].got # call[c].got => call'[c].got \in {"eof", "reset", "left"} /\ call[c].kind # "none" /\ call[c].pc # "dial"
  /\ call'[c].after = call[c].after

LEMMA SameIsCalm ==
  ASSUME NEW c \in Calls, call'[c] = call[c]
  PROVE  CalmProcess(c)
BY DEF CalmProcess

LEMMA CalmStep ==
  ASSUME RequestsInOrder, TypeOK, UNCHANGED <<real, runs>>,
         \A i \in Ids : CalmBridge(i), \A c \in Calls : CalmProcess(c)
  PROVE  RequestsInOrder'
<1>1. ASSUME NEW i \in Ids PROVE ServesOne(i)'
  BY DEF RequestsInOrder, ServesOne, CalmBridge
<1>2. ASSUME NEW i \in Ids PROVE BashInv(i)'
  BY DEF RequestsInOrder, BashInv, CalmBridge, ToSet
<1>3. ASSUME NEW i \in Ids, NEW c \in Calls PROVE RequestInv(i, c)'
  <2>1. CalmBridge(i) /\ CalmProcess(c) /\ RequestInv(i, c) /\ CallInv(c) /\ c # 0
    BY SessionBridgeAssumption DEF RequestsInOrder
  <2>2. CASE bridge'[i].serves = {} /\ bridge'[i].queue = <<>> /\ bridge'[i].typed = <<>> /\ bridge'[i].cmd = 0
    BY <2>1, <2>2 DEF RequestInv, Queued, Typed, Has, Once
  <2>3. CASE /\ bridge'[i].serves = bridge[i].serves /\ bridge'[i].queue \in {bridge[i].queue, <<>>}
             /\ bridge'[i].typed = bridge[i].typed /\ bridge'[i].cmd = bridge[i].cmd /\ bridge'[i].late = bridge[i].late
    <3>1. (Queued(i, c)' => Queued(i, c)) /\ (Typed(i, c)' <=> Typed(i, c)) /\ Once(bridge'[i].queue, c) /\ Once(bridge'[i].typed, c)
      BY <2>1, <2>3 DEF RequestInv, Queued, Typed, Has, Once
    <3>2. QED
      BY <2>1, <2>3, <3>1 DEF CalmProcess, RequestInv, Id
  <2>4. QED
    BY <2>1, <2>2, <2>3 DEF CalmBridge
<1>4. ASSUME NEW c \in Calls PROVE CallInv(c)'
  BY DEF RequestsInOrder, CalmProcess, CallInv
<1>5. QED
  BY <1>1, <1>2, <1>3, <1>4 DEF RequestsInOrder

LEMMA QuietBridges == ASSUME UNCHANGED bridge PROVE \A i \in Ids : CalmBridge(i)
BY DEF CalmBridge

LEMMA BridgeGone ==
  ASSUME TypeOK, NEW i \in Ids, bridge' = [bridge EXCEPT ![i] = NoBridge]
  PROVE  \A j \in Ids : CalmBridge(j)
BY DEF TypeOK, CalmBridge, NoBridge

(* The step of one process, and those of all whose connection ends. *)
LEMMA OnlyProcess ==
  ASSUME RequestsInOrder, TypeOK, NEW c \in Calls, CalmProcess(c),
         \A d \in Calls \ {c} : call'[d] = call[d]
  PROVE  \A d \in Calls : CalmProcess(d)
BY SameIsCalm

LEMMA LostAreCalm ==
  ASSUME RequestsInOrder, TypeOK, NEW i \in Ids, NEW c \in Calls,
         call'[c] \in {call[c], [call[c] EXCEPT !.got = "eof"], [call[c] EXCEPT !.got = "reset"]},
         call'[c] # call[c] => c \in Waiting(i) \cup bridge[i].serves
  PROVE  CalmProcess(c)
<1>2. CASE call'[c] = call[c]
  BY <1>2, SameIsCalm
<1>3. CASE call'[c] # call[c]
  <2>1. Queued(i, c) \/ c \in bridge[i].serves
    BY <1>3 DEF Waiting, ToSet, Queued, Has
  <2>2. call[c].kind = "exec" /\ call[c].pc # "dial"
    BY <2>1 DEF RequestsInOrder, RequestInv
  <2>3. call[c] \in Process
    BY ProcessIs DEF TypeOK
  <2>4. /\ call'[c].kind = "exec" /\ call'[c].id = call[c].id /\ call'[c].pc = call[c].pc
        /\ call'[c].end = call[c].end /\ call'[c].got \in {"eof", "reset"} /\ call'[c].after = call[c].after
    BY <1>3, <2>2, <2>3 DEF Process
  <2>5. QED
    BY <2>2, <2>4 DEF CalmProcess
<1>4. QED
  BY <1>2, <1>3

LEMMA CalmClients ==
  ASSUME RequestsInOrder, TypeOK, NEW c \in Calls,
         Start(c) \/ Exec(c) \/ Stop(c) \/ ReadTimesOut(c) \/ (ClientStep(c) /\ ~Probe(c) /\ ~Dial(c))
  PROVE  RequestsInOrder'
<1> USE DEF files
<1>0. call \in Processes /\ call[c] \in Process /\ call \in [Calls -> Process] /\ CallInv(c)
  BY ProcessIs DEF TypeOK, Processes, RequestsInOrder
<1>1. CASE Start(c)
  <2>1. call[c].kind = "none" /\ call[c].end = "none"
    BY <1>0, <1>1 DEF Start, CallInv
  <2>2. /\ call'[c].kind = "start" /\ call'[c].got = call[c].got /\ call'[c].after = call[c].after /\ call'[c].end \in {"none", "error"}
        /\ \A d \in Calls \ {c} : call'[d] = call[d]
    <3>1. PICK i \in Ids :
            call' = [call EXCEPT ![c].kind = "start", ![c].id = i,
                                     ![c].pc = IF Running(i) THEN "done" ELSE "prepare",
                                     ![c].end = IF Running(i) THEN "error" ELSE @]
      BY <1>1 DEF Start
    <3>2. QED
      BY <1>0, <2>1, <3>1 DEF Process
  <2>3. CalmProcess(c)
    BY <2>1, <2>2 DEF CalmProcess
  <2>4. QED
    BY <1>1, <2>2, <2>3, OnlyProcess, QuietBridges, CalmStep DEF Start
<1>2. CASE Exec(c)
  <2>1. call[c].kind = "none" /\ call[c].end = "none"
    BY <1>0, <1>2 DEF Exec, CallInv
  <2>2. /\ call'[c].kind = "exec" /\ call'[c].got = call[c].got /\ call'[c].after = call[c].after /\ call'[c].end \in {"none", "error"}
        /\ \A d \in Calls \ {c} : call'[d] = call[d]
    <3>1. PICK i \in Ids :
            call' = [call EXCEPT ![c].kind = "exec", ![c].id = i, ![c].pc = IF Running(i) THEN "dial" ELSE "done",
                  ![c].end = IF Running(i) THEN @ ELSE "error"]
      BY <1>2 DEF Exec
    <3>2. QED
      BY <1>0, <2>1, <3>1 DEF Process
  <2>3. CalmProcess(c)
    BY <2>1, <2>2 DEF CalmProcess
  <2>4. QED
    BY <1>2, <2>2, <2>3, OnlyProcess, QuietBridges, CalmStep DEF Exec
<1>3. CASE Stop(c)
  <2>1. call[c].kind = "none" /\ call[c].end = "none"
    BY <1>0, <1>3 DEF Stop, CallInv
  <2>2. /\ call'[c].kind = "stop" /\ call'[c].got = call[c].got /\ call'[c].after = call[c].after /\ call'[c].end \in {"none", "error"}
        /\ \A d \in Calls \ {c} : call'[d] = call[d]
    <3>1. PICK i \in Ids :
            \/ call' = [call EXCEPT ![c].kind = "stop", ![c].id = i, ![c].pc = "kill"]
            \/ call' = [call EXCEPT ![c].kind = "stop", ![c].id = i, ![c].pc = "done", ![c].end = "error"]
      BY <1>3 DEF Stop
    <3>2. QED
      BY <1>0, <2>1, <3>1 DEF Process
  <2>3. CalmProcess(c)
    BY <2>1, <2>2 DEF CalmProcess
  <2>4. QED
    BY <1>3, <2>2, <2>3, OnlyProcess, QuietBridges, CalmStep DEF Stop
<1>4. CASE Prepare(c)
  <2>1. CalmProcess(c) /\ \A d \in Calls \ {c} : call'[d] = call[d]
    BY <1>0, <1>4 DEF Prepare, Go, At, CalmProcess, Process, CallInv
  <2>2. QED
    BY <1>4, <2>1, OnlyProcess, QuietBridges, CalmStep DEF Prepare
<1>5. CASE WriteMeta(c)
  <2>1. CalmProcess(c) /\ \A d \in Calls \ {c} : call'[d] = call[d]
    BY <1>0, <1>5 DEF WriteMeta, Go, At, End, Ended, CalmProcess, Process, CallInv
  <2>2. QED
    BY <1>5, <2>1, OnlyProcess, QuietBridges, CalmStep DEF WriteMeta
<1>6. CASE Spawn(c)
  <2>1. CalmProcess(c) /\ \A d \in Calls \ {c} : call'[d] = call[d]
    BY <1>0, <1>6 DEF Spawn, Go, At, End, Ended, CalmProcess, Process, CallInv
  <2>2. \A i \in Ids : CalmBridge(i)
    BY <1>6 DEF Spawn, TypeOK, CalmBridge, NoBridge
  <2>3. QED
    BY <1>6, <2>1, <2>2, OnlyProcess, CalmStep DEF Spawn
<1>7. CASE StartTimesOut(c)
  <2>1. Id(c) \in Ids
    BY <1>0, <1>7, ProcessIs DEF StartTimesOut, At, Id
  <2>2. /\ Killed(call, Id(c)) \in [Calls -> Process]
        /\ \A d \in Calls :
             /\ Killed(call, Id(c))[d] \in {call[d], [call[d] EXCEPT !.got = "eof"], [call[d] EXCEPT !.got = "reset"]}
             /\ Killed(call, Id(c))[d] # call[d] => d \in Waiting(Id(c)) \cup bridge[Id(c)].serves
    BY <1>0, KilledKeeps
  <2>3. c \notin Waiting(Id(c)) \cup bridge[Id(c)].serves
    BY <1>7, <2>1 DEF StartTimesOut, At, RequestsInOrder, RequestInv, Waiting, ToSet, Queued, Has
  <2>4. CalmProcess(c)
    BY <1>0, <1>7, <2>2, <2>3 DEF StartTimesOut, At, Ended, CalmProcess, Process, CallInv
  <2>5. ASSUME NEW d \in Calls \ {c} PROVE CalmProcess(d)
    BY <1>7, <2>1, <2>2, LostAreCalm DEF StartTimesOut, Ended
  <2>6. \A i \in Ids : CalmBridge(i)
    BY <1>7, <2>1, BridgeGone DEF StartTimesOut, Kill
  <2>7. QED
    BY <1>7, <2>4, <2>5, <2>6, CalmStep DEF StartTimesOut
<1>8. CASE BridgeIsGone(c)
  <2>1. CalmProcess(c) /\ \A d \in Calls \ {c} : call'[d] = call[d]
    BY <1>0, <1>8 DEF BridgeIsGone, At, End, Ended, CalmProcess, Process, CallInv
  <2>2. QED
    BY <1>8, <2>1, OnlyProcess, QuietBridges, CalmStep DEF BridgeIsGone
<1>9. CASE Read(c)
  <2>1. CalmProcess(c) /\ \A d \in Calls \ {c} : call'[d] = call[d]
    BY <1>0, <1>9 DEF Read, At, End, Ended, CalmProcess, Process, CallInv
  <2>2. QED
    BY <1>9, <2>1, OnlyProcess, QuietBridges, CalmStep DEF Read
<1>10. CASE ReadTimesOut(c)
  <2>1. CalmProcess(c) /\ \A d \in Calls \ {c} : call'[d] = call[d]
    BY <1>0, <1>10 DEF ReadTimesOut, At, Ended, CalmProcess, Process, CallInv
  <2>2. QED
    BY <1>10, <2>1, OnlyProcess, QuietBridges, CalmStep DEF ReadTimesOut
<1>11. CASE StopKills(c)
  <2>1. Id(c) \in Ids
    BY <1>0, <1>11, ProcessIs DEF StopKills, At, Id
  <2>2. CASE Running(Id(c))
    <3>1. /\ Killed(call, Id(c)) \in [Calls -> Process]
          /\ \A d \in Calls :
               /\ Killed(call, Id(c))[d] \in {call[d], [call[d] EXCEPT !.got = "eof"], [call[d] EXCEPT !.got = "reset"]}
               /\ Killed(call, Id(c))[d] # call[d] => d \in Waiting(Id(c)) \cup bridge[Id(c)].serves
      BY <1>0, KilledKeeps
    <3>2. c \notin Waiting(Id(c)) \cup bridge[Id(c)].serves
      BY <1>11, <2>1 DEF StopKills, At, RequestsInOrder, RequestInv, Waiting, ToSet, Queued, Has
    <3>3. CalmProcess(c)
      BY <1>0, <1>11, <2>2, <3>1, <3>2 DEF StopKills, At, CalmProcess, Process, CallInv
    <3>4. ASSUME NEW d \in Calls \ {c} PROVE CalmProcess(d)
      BY <1>11, <2>1, <2>2, <3>1, LostAreCalm DEF StopKills
    <3>5. \A i \in Ids : CalmBridge(i)
      BY <1>11, <2>1, <2>2, BridgeGone DEF StopKills, Kill
    <3>6. QED
      BY <1>11, <3>3, <3>4, <3>5, CalmStep DEF StopKills
  <2>3. CASE ~Running(Id(c))
    <3>1. CalmProcess(c) /\ \A d \in Calls \ {c} : call'[d] = call[d]
      BY <1>0, <1>11, <2>3 DEF StopKills, At, End, Ended, CalmProcess, Process, CallInv
    <3>2. QED
      BY <1>11, <2>3, <3>1, OnlyProcess, QuietBridges, CalmStep DEF StopKills
  <2>4. QED
    BY <2>2, <2>3
<1>12. CASE StopRemoves(c)
  <2>1. CalmProcess(c) /\ \A d \in Calls \ {c} : call'[d] = call[d]
    BY <1>0, <1>12 DEF StopRemoves, At, End, Ended, CalmProcess, Process, CallInv
  <2>2. QED
    BY <1>12, <2>1, OnlyProcess, QuietBridges, CalmStep DEF StopRemoves
<1>13. QED
  BY <1>1, <1>2, <1>3, <1>4, <1>5, <1>6, <1>7, <1>8, <1>9, <1>10, <1>11, <1>12 DEF ClientStep

LEMMA CalmBridges ==
  ASSUME RequestsInOrder, TypeOK, NEW i \in Ids,
         Connect(i) \/ Listen(i) \/ Leave(i) \/ Sigterm(i) \/ Lose(i)
  PROVE  RequestsInOrder'
<1> USE DEF files
<1>0. ServesOne(i) /\ bridge[i] \in Bridge
  BY DEF RequestsInOrder, TypeOK
<1>1. ASSUME UNCHANGED call PROVE \A c \in Calls : CalmProcess(c)
  BY <1>1, SameIsCalm
<1>2. ASSUME Exits(i) PROVE (\A c \in Calls : CalmProcess(c)) /\ (\A j \in Ids : CalmBridge(j))
  <2>1. call' = Killed(call, i) /\ call \in Processes
    BY <1>2 DEF Exits, TypeOK
  <2>2. \A c \in Calls : CalmProcess(c)
    BY <2>1, KilledKeeps, LostAreCalm
  <2>3. QED
    BY <1>2, <2>2, BridgeGone DEF Exits
<1>3. CASE Connect(i)
  <2>1. CASE bridge' = [bridge EXCEPT ![i].pc = "listen"]
    <3>1. \A j \in Ids : CalmBridge(j)
      BY <1>0, <1>3, <2>1 DEF Connect, TypeOK, Bridge, CalmBridge
    <3>2. QED
      BY <1>1, <1>3, <3>1, CalmStep DEF Connect
  <2>2. CASE bridge' = [bridge EXCEPT ![i] = NoBridge]
    BY <1>1, <1>3, <2>2, BridgeGone, CalmStep DEF Connect
  <2>3. QED
    BY <1>3, <2>1, <2>2 DEF Connect
<1>4. CASE Listen(i)
  <2>1. CASE i \in dir
    <3>1. \A j \in Ids : CalmBridge(j)
      <4>1. bridge \in [Ids -> Bridge] /\ bridge[i].pc = "listen" /\ bridge' = [bridge EXCEPT ![i].pc = "accept"]
        BY <1>4, <2>1 DEF Listen, TypeOK
      <4>2. QED
        BY <1>0, <4>1 DEF Bridge, CalmBridge
    <3>2. QED
      BY <1>1, <1>4, <2>1, <3>1, CalmStep DEF Listen
  <2>2. CASE i \notin dir
    BY <1>2, <1>4, <2>2, CalmStep DEF Listen
  <2>3. QED
    BY <2>1, <2>2
<1>5. CASE Leave(i)
  BY <1>2, <1>5, CalmStep DEF Leave
<1>6. CASE Sigterm(i)
  <2>1. \A j \in Ids : CalmBridge(j)
    BY <1>0, <1>6 DEF Sigterm, TypeOK, Bridge, CalmBridge
  <2>2. call' = Hung(call, Waiting(i), "reset") /\ call \in Processes
    BY <1>6 DEF Sigterm, TypeOK
  <2>3. \A c \in Calls : CalmProcess(c)
    BY <2>2, HungKeeps, LostAreCalm
  <2>4. QED
    BY <1>6, <2>1, <2>3, CalmStep DEF Sigterm
<1>7. CASE Lose(i)
  <2>1. \A j \in Ids : CalmBridge(j)
    BY <1>0, <1>7 DEF Lose, TypeOK, Bridge, CalmBridge
  <2>2. QED
    BY <1>1, <1>7, <2>1, CalmStep DEF Lose
<1>8. QED
  BY <1>3, <1>4, <1>5, <1>6, <1>7

(* Sequences that grow at the end and shrink at the head. *)
LEMMA HasAppend ==
  ASSUME NEW S, NEW q \in Seq(S), NEW x \in S, NEW y
  PROVE  /\ Has(Append(q, x), y) <=> Has(q, y) \/ x = y
         /\ Once(q, y) /\ (x = y => ~Has(q, y)) => Once(Append(q, x), y)
         /\ ToSet(Append(q, x)) = ToSet(q) \cup {x}
<1>1. /\ DOMAIN Append(q, x) = DOMAIN q \cup {Len(q) + 1} /\ Len(q) + 1 \notin DOMAIN q
      /\ \A k \in DOMAIN q : Append(q, x)[k] = q[k]
      /\ Append(q, x)[Len(q) + 1] = x
  BY AppendProperties, LenProperties
<1>2. QED
  BY <1>1 DEF Has, Once, ToSet

LEMMA HasTail ==
  ASSUME NEW S, NEW q \in Seq(S), q # <<>>, NEW y
  PROVE  /\ Has(q, Head(q)) /\ (Has(Tail(q), y) => Has(q, y))
         /\ Once(q, y) => Once(Tail(q), y) /\ (Has(Tail(q), y) => y # Head(q))
         /\ ToSet(Tail(q)) \subseteq ToSet(q) /\ Head(q) \in ToSet(q)
<1>1. /\ 1 \in DOMAIN q /\ Head(q) = q[1]
      /\ \A k \in DOMAIN Tail(q) : k + 1 \in DOMAIN q /\ k \in Nat /\ k # 0 /\ Tail(q)[k] = q[k + 1]
  BY HeadTailProperties, LenProperties
<1>2. \A k \in DOMAIN Tail(q) : k + 1 # 1
  BY <1>1
<1>3. Has(q, Head(q)) /\ (Has(Tail(q), y) => Has(q, y))
  BY <1>1 DEF Has
<1>4. ASSUME Once(q, y) PROVE Once(Tail(q), y) /\ (Has(Tail(q), y) => y # Head(q))
  <2>1. ASSUME NEW k \in DOMAIN Tail(q), NEW l \in DOMAIN Tail(q), Tail(q)[k] = y, Tail(q)[l] = y PROVE k = l
    <3>1. k + 1 = l + 1
      BY <1>1, <1>4, <2>1 DEF Once
    <3>2. QED
      BY <1>1, <3>1
  <2>2. ASSUME NEW k \in DOMAIN Tail(q), Tail(q)[k] = y PROVE y # Head(q)
    BY <1>1, <1>2, <1>4, <2>2 DEF Once
  <2>3. QED
    BY <2>1, <2>2 DEF Once, Has
<1>5. QED
  BY <1>1, <1>3, <1>4 DEF ToSet

LEMMA HasNothing == ASSUME NEW y PROVE ~Has(<<>>, y) /\ Once(<<>>, y) /\ ToSet(<<>>) = {}
BY DEF Has, Once, ToSet

(* A step at one bridge and a process of its: what there is to show. *)
LocalStep(i) ==
  /\ \A j \in Ids \ {i} : bridge'[j] = bridge[j]
  /\ \A d \in Calls : /\ call'[d].kind = call[d].kind /\ call'[d].id = call[d].id
                      /\ \/ call'[d] = call[d] /\ real'[d] = real[d] /\ runs'[d] = runs[d]
                         \/ Id(d) = i

LEMMA LocalInv ==
  ASSUME RequestsInOrder, TypeOK, NEW i \in Ids, LocalStep(i), ServesOne(i)', BashInv(i)',
         \A d \in Calls : RequestInv(i, d)',
         \A d \in Calls : Id(d) = i => CallInv(d)'
  PROVE  RequestsInOrder'
<1>1. ASSUME NEW j \in Ids \ {i} PROVE ServesOne(j)' /\ BashInv(j)' /\ \A d \in Calls : RequestInv(j, d)'
  <2>1. bridge'[j] = bridge[j] /\ ServesOne(j) /\ BashInv(j) /\ bridge[j].serves \subseteq Calls
    BY DEF RequestsInOrder, LocalStep, TypeOK, Bridge
  <2>2. ASSUME NEW d \in Calls PROVE RequestInv(j, d)'
    <3>1. RequestInv(j, d) /\ (Queued(j, d)' <=> Queued(j, d)) /\ (Typed(j, d)' <=> Typed(j, d))
      BY <2>1 DEF RequestsInOrder, Queued, Typed
    <3>2. CASE call'[d] = call[d] /\ real'[d] = real[d]
      BY <2>1, <3>1, <3>2 DEF RequestInv, Id
    <3>3. CASE Id(d) = i
      BY <2>1, <3>1, <3>3 DEF RequestInv
    <3>4. QED
      BY <3>2, <3>3 DEF LocalStep
  <2>3. \A d \in bridge[j].serves : real'[d] = real[d]
    BY <2>1 DEF RequestsInOrder, RequestInv, LocalStep
  <2>4. QED
    BY <2>1, <2>2, <2>3 DEF ServesOne, BashInv
<1>2. ASSUME NEW d \in Calls PROVE CallInv(d)'
  BY DEF RequestsInOrder, LocalStep, CallInv
<1>3. QED
  BY <1>1, <1>2 DEF RequestsInOrder

LEMMA ProbeInv == ASSUME RequestsInOrder, TypeOK, NEW c \in Calls, Probe(c) PROVE RequestsInOrder'
<1>i. PICK i \in Ids : i = Id(c)
  BY ProcessIs DEF TypeOK, Processes, Probe, At, Id
<1> DEFINE q == bridge[i].queue
<1>0. /\ call[c] \in Process /\ call \in [Calls -> Process] /\ q \in Seq(Calls \cup {0})
      /\ call[c].kind = "start" /\ bridge[i] \in Bridge /\ bridge \in [Ids -> Bridge]
  BY ProcessIs DEF TypeOK, Processes, Probe, At, Id, Bridge
<1>1. /\ bridge' = [bridge EXCEPT ![i] = [bridge[i] EXCEPT !.queue = Append(q, 0)]]
      /\ call' = [call EXCEPT ![c] = [call[c] EXCEPT !.pc = "done", !.end = "zero"]]
      /\ UNCHANGED <<real, runs>>
  BY <1>i DEF Probe, End, Ended
<1> HIDE DEF q
<1>2. /\ \A d \in Calls : /\ call'[d].kind = call[d].kind /\ call'[d].id = call[d].id /\ call'[d].got = call[d].got
                          /\ call'[d].after = call[d].after /\ (call'[d].pc = "dial" => call[d].pc = "dial")
                          /\ d # c => call'[d] = call[d]
      /\ Id(c) = i
  BY <1>i, <1>0, <1>1 DEF Process
<1>3. /\ bridge'[i].queue = Append(q, 0) /\ bridge'[i].serves = bridge[i].serves /\ bridge'[i].pc = bridge[i].pc
      /\ bridge'[i].typed = bridge[i].typed /\ bridge'[i].cmd = bridge[i].cmd /\ bridge'[i].out = bridge[i].out
      /\ bridge'[i].late = bridge[i].late /\ \A j \in Ids \ {i} : bridge'[j] = bridge[j]
  BY <1>0, <1>1 DEF Bridge
<1>4. LocalStep(i)
  BY <1>1, <1>2, <1>3 DEF LocalStep
<1>5. ServesOne(i)' /\ BashInv(i)'
  BY <1>0, <1>1, <1>3 DEF RequestsInOrder, ServesOne, BashInv
<1>6. ASSUME NEW d \in Calls PROVE RequestInv(i, d)'
  <2>1. RequestInv(i, d) /\ 0 # d /\ bridge[i].queue = q
    BY <1>0, SessionBridgeAssumption DEF RequestsInOrder, q
  <2>2. (Queued(i, d)' <=> Queued(i, d)) /\ Once(bridge'[i].queue, d) /\ (Typed(i, d)' <=> Typed(i, d))
    BY <1>0, <1>3, <2>1, HasAppend DEF RequestInv, Queued, Typed
  <2>3. c # d \/ call[d].kind # "exec"
    BY <1>0
  <2>4. QED
    BY <1>1, <1>2, <1>3, <2>1, <2>2, <2>3 DEF RequestInv, Id
<1>7. ASSUME NEW d \in Calls PROVE CallInv(d)'
  BY <1>0, <1>1, <1>2 DEF RequestsInOrder, CallInv
<1>8. QED
  BY <1>0, <1>4, <1>5, <1>6, <1>7, LocalInv

LEMMA DialInv == ASSUME RequestsInOrder, TypeOK, NEW c \in Calls, Dial(c) PROVE RequestsInOrder'
<1>i. PICK i \in Ids : i = Id(c)
  BY ProcessIs DEF TypeOK, Processes, Dial, At, Id
<1> DEFINE q == bridge[i].queue
<1>0. /\ call[c] \in Process /\ call \in [Calls -> Process] /\ q \in Seq(Calls \cup {0})
      /\ call[c].kind = "exec" /\ call[c].pc = "dial" /\ bridge[i] \in Bridge /\ bridge \in [Ids -> Bridge]
      /\ UNCHANGED <<real, runs>> /\ real[c] = "none" /\ call[c].got = "nothing" /\ CallInv(c)
  BY ProcessIs DEF TypeOK, Processes, Dial, At, Id, Bridge, RequestsInOrder, CallInv
<1>1. CASE ~Listens(i)
  <2>1. CalmProcess(c) /\ \A d \in Calls \ {c} : call'[d] = call[d]
    BY <1>i, <1>0, <1>1 DEF Dial, End, Ended, CalmProcess, Process, CallInv
  <2>2. QED
    BY <1>i, <1>0, <1>1, <2>1, OnlyProcess, QuietBridges, CalmStep DEF Dial
<1>2. CASE Listens(i)
  <2>1. /\ bridge' = [bridge EXCEPT ![i] = [bridge[i] EXCEPT !.queue = Append(q, c)]]
        /\ call' = [call EXCEPT ![c] = [call[c] EXCEPT !.pc = "read"]]
    BY <1>i, <1>2 DEF Dial, Go
  <2> HIDE DEF q
  <2>2. /\ \A d \in Calls : /\ call'[d].kind = call[d].kind /\ call'[d].id = call[d].id /\ call'[d].got = call[d].got
                            /\ call'[d].after = call[d].after /\ (call'[d].pc = "dial" => call[d].pc = "dial")
                            /\ d # c => call'[d] = call[d]
        /\ Id(c) = i /\ call'[c].pc = "read"
    BY <1>i, <1>0, <2>1 DEF Process
  <2>3. /\ bridge'[i].queue = Append(q, c) /\ bridge'[i].serves = bridge[i].serves /\ bridge'[i].pc = bridge[i].pc
        /\ bridge'[i].typed = bridge[i].typed /\ bridge'[i].cmd = bridge[i].cmd /\ bridge'[i].out = bridge[i].out
        /\ bridge'[i].late = bridge[i].late /\ \A j \in Ids \ {i} : bridge'[j] = bridge[j]
    BY <1>0, <2>1 DEF Bridge
  <2>4. LocalStep(i)
    BY <1>0, <2>2, <2>3 DEF LocalStep
  <2>5. ServesOne(i)' /\ BashInv(i)'
    BY <1>0, <2>3 DEF RequestsInOrder, ServesOne, BashInv
  <2>6. ASSUME NEW d \in Calls PROVE RequestInv(i, d)'
    <3>1. RequestInv(i, d) /\ bridge[i].queue = q
      BY <1>0 DEF RequestsInOrder, q
    <3>2. d = c => ~Queued(i, d) /\ ~Typed(i, d) /\ d \notin bridge[i].serves /\ bridge[i].cmd # d
      BY <1>0, <3>1 DEF RequestInv
    <3>3. (Queued(i, d)' <=> Queued(i, d) \/ d = c) /\ Once(bridge'[i].queue, d) /\ (Typed(i, d)' <=> Typed(i, d))
      BY <1>0, <2>3, <3>1, <3>2, HasAppend DEF RequestInv, Queued, Typed
    <3>4. QED
      BY <1>0, <2>2, <2>3, <3>1, <3>2, <3>3 DEF RequestInv, Id
  <2>7. ASSUME NEW d \in Calls PROVE CallInv(d)'
    BY <1>0, <2>2 DEF RequestsInOrder, CallInv
  <2>8. QED
    BY <1>0, <2>4, <2>5, <2>6, <2>7, LocalInv
<1>3. QED
  BY <1>1, <1>2

(* What the invariant says of one bridge, in one place. *)
LEMMA AtBridge ==
  ASSUME RequestsInOrder, TypeOK, NEW i \in Ids
  PROVE  /\ bridge[i] \in Bridge /\ bridge \in [Ids -> Bridge] /\ call \in Processes /\ call \in [Calls -> Process]
         /\ bridge[i].queue \in Seq(Calls \cup {0}) /\ bridge[i].typed \in Seq(Calls \cup {0})
         /\ bridge[i].out \in Seq({"zero", "nonzero"}) /\ bridge[i].serves \subseteq Calls
         /\ bridge[i].cmd \in Calls \cup {0} /\ bridge[i].late \in BOOLEAN /\ 0 \notin Calls
         /\ real \in [Calls -> {"none", "running"} \cup Outcomes] /\ runs \in [Calls -> Nat]
         /\ ServesOne(i) /\ BashInv(i)
         /\ \A d \in Calls : RequestInv(i, d) /\ CallInv(d)
BY SessionBridgeAssumption DEF TypeOK, Bridge, Processes, RequestsInOrder

(* A request is taken from the queue, and its line written or not. *)
LEMMA AcceptInv == ASSUME RequestsInOrder, TypeOK, NEW i \in Ids, Accept(i) PROVE RequestsInOrder'
<1> DEFINE q == bridge[i].queue
           c == Head(q)
           t == bridge[i].typed
<1>0. /\ bridge[i] \in Bridge /\ bridge \in [Ids -> Bridge] /\ call \in Processes /\ call \in [Calls -> Process]
      /\ q \in Seq(Calls \cup {0}) /\ t \in Seq(Calls \cup {0}) /\ bridge[i].serves \subseteq Calls /\ 0 \notin Calls
      /\ bridge[i].late \in BOOLEAN /\ ServesOne(i) /\ BashInv(i) /\ \A d \in Calls : RequestInv(i, d) /\ CallInv(d)
  BY AtBridge
<1>1. bridge[i].pc = "accept" /\ q # <<>> /\ Taken(i) /\ UNCHANGED <<real, runs>> /\ bridge[i].serves = {}
  BY <1>0 DEF Accept, ServesOne
<1>2. /\ c \in Calls \cup {0} /\ Tail(q) \in Seq(Calls \cup {0}) /\ Queued(i, c)
      /\ \A d \in Calls : (Has(Tail(q), d) => Queued(i, d) /\ d # c) /\ Once(Tail(q), d)
  BY <1>0, <1>1, QueueTypes, HasTail DEF Queued, RequestInv
<1>3. CASE /\ bridge' = [bridge EXCEPT ![i].queue = Tail(q)]
           /\ call' = call \/ (c # 0 /\ call' = Tell(call, c, "failed"))
  <2>1. /\ bridge'[i].queue = Tail(q) /\ bridge'[i].serves = bridge[i].serves /\ bridge'[i].pc = bridge[i].pc
        /\ bridge'[i].typed = bridge[i].typed /\ bridge'[i].cmd = bridge[i].cmd /\ bridge'[i].out = bridge[i].out
        /\ bridge'[i].late = bridge[i].late /\ \A j \in Ids \ {i} : bridge'[j] = bridge[j]
    BY <1>0, <1>3 DEF Bridge
  <2> HIDE DEF c, q, t
  <2>2. ASSUME NEW d \in Calls
        PROVE  /\ call'[d].kind = call[d].kind /\ call'[d].id = call[d].id /\ call'[d].pc = call[d].pc
               /\ call'[d].end = call[d].end /\ call'[d].after = call[d].after
               /\ call'[d] # call[d] => d = c /\ call[d].got = "nothing" /\ call'[d].got = "failed"
    <3>1. CASE call' = call
      BY <3>1
    <3>2. CASE c # 0 /\ call' = Tell(call, c, "failed")
      <4>1. c \in Calls /\ "failed" \in Gots
        BY <1>2, <3>2 DEF Gots
      <4>2. /\ \A x \in Calls \ {c} : call'[x] = call[x]
            /\ call'[c].got = IF call[c].got = "nothing" THEN "failed" ELSE call[c].got
            /\ call'[c].kind = call[c].kind /\ call'[c].id = call[c].id
            /\ call'[c].pc = call[c].pc /\ call'[c].end = call[c].end /\ call'[c].after = call[c].after
        BY <1>0, <3>2, <4>1, ProcessTold
      <4>3. call[c].got # "nothing" => call'[c] = call[c]
        BY <1>0, <3>2, <4>1 DEF Tell, Process
      <4>4. QED
        BY <4>2, <4>3
    <3>3. QED
      BY <1>3, <3>1, <3>2
  <2>3. c \in Calls => call[c].kind = "exec" /\ Id(c) = i /\ real[c] = "none" /\ ~Typed(i, c) /\ call[c].pc # "dial"
                       /\ c \notin bridge[i].serves
    BY <1>0, <1>2 DEF RequestInv
  <2>4. LocalStep(i)
    BY <1>1, <2>1, <2>2, <2>3 DEF LocalStep
  <2>5. ServesOne(i)' /\ BashInv(i)'
    BY <1>0, <1>1, <2>1 DEF ServesOne, BashInv
  <2>6. ASSUME NEW d \in Calls PROVE RequestInv(i, d)'
    <3>1. (Queued(i, d)' => Queued(i, d) /\ d # c) /\ Once(bridge'[i].queue, d) /\ (Typed(i, d)' <=> Typed(i, d))
      BY <1>2, <2>1 DEF Queued, Typed
    <3>2. RequestInv(i, d)
      BY <1>0
    <3>3. QED
      BY <1>1, <2>1, <2>2, <2>3, <3>1, <3>2 DEF RequestInv, Id
  <2>7. ASSUME NEW d \in Calls PROVE CallInv(d)'
    BY <1>0, <1>1, <2>2, <2>3 DEF CallInv
  <2>8. QED
    BY <2>4, <2>5, <2>6, <2>7, LocalInv
<1>4. CASE \E w \in {"arrives", "lost"} :
             /\ c # 0 /\ call' = [call EXCEPT ![c].after = bridge[i].late]
             /\ bridge' = [bridge EXCEPT ![i].queue = Tail(q), ![i].serves = @ \cup {c}, ![i].pc = "busy",
                             ![i].typed = IF w = "arrives" THEN Append(@, c) ELSE @]
  <2>1. PICK w \in {"arrives", "lost"} :
             /\ c # 0 /\ call' = [call EXCEPT ![c].after = bridge[i].late]
             /\ bridge' = [bridge EXCEPT ![i].queue = Tail(q), ![i].serves = @ \cup {c}, ![i].pc = "busy",
                             ![i].typed = IF w = "arrives" THEN Append(@, c) ELSE @]
    BY <1>4
  <2>2. /\ bridge'[i].queue = Tail(q) /\ bridge'[i].serves = {c} /\ bridge'[i].pc = "busy"
        /\ bridge'[i].typed \in {t, Append(t, c)} /\ bridge'[i].cmd = bridge[i].cmd /\ bridge'[i].out = bridge[i].out
        /\ bridge'[i].late = bridge[i].late /\ \A j \in Ids \ {i} : bridge'[j] = bridge[j]
    BY <1>0, <1>1, <2>1 DEF Bridge
  <2>3. c \in Calls
    BY <1>2, <2>1
  <2> HIDE DEF c, q
  <2>4. /\ \A d \in Calls : /\ call'[d].kind = call[d].kind /\ call'[d].id = call[d].id /\ call'[d].pc = call[d].pc
                            /\ call'[d].end = call[d].end /\ call'[d].got = call[d].got
                            /\ d # c => call'[d] = call[d]
        /\ call'[c].after = bridge[i].late
    BY <1>0, <2>1, <2>3, ProcessAfter DEF Process
  <2>5. call[c].kind = "exec" /\ Id(c) = i /\ real[c] = "none" /\ ~Has(t, c) /\ call[c].pc # "dial"
        /\ call[c].got \notin {"failed", "zero", "nonzero"} /\ bridge[i].cmd # c
    BY <1>0, <1>2, <2>3 DEF RequestInv, Typed
  <2> HIDE DEF t
  <2>6. LocalStep(i)
    BY <1>1, <2>2, <2>4, <2>5 DEF LocalStep
  <2>7. ServesOne(i)'
    BY <2>2 DEF ServesOne
  <2>8. BashInv(i)'
    <3>1. ASSUME ~bridge[i].late PROVE bridge[i].cmd = 0 /\ ToSet(t) = {} /\ bridge[i].out = <<>>
      BY <1>0, <1>1, <3>1 DEF BashInv, t
    <3>2. ToSet(Append(t, c)) = ToSet(t) \cup {c}
      BY <1>0, <2>3, HasAppend
    <3>3. QED
      BY <2>2, <3>1, <3>2 DEF BashInv
  <2>9. ASSUME NEW d \in Calls PROVE RequestInv(i, d)'
    <3>0. RequestInv(i, d)
      BY <1>0
    <3>1. (Queued(i, d)' => Queued(i, d) /\ d # c) /\ Once(bridge'[i].queue, d)
      BY <1>2, <2>2 DEF Queued
    <3>2. (Typed(i, d)' => Typed(i, d) \/ d = c) /\ Once(bridge'[i].typed, d)
      <4>1. Once(t, d) /\ (Typed(i, d) <=> Has(t, d))
        BY <3>0 DEF RequestInv, Typed, t
      <4>2. Has(Append(t, c), d) => Has(t, d) \/ c = d
        BY <1>0, <2>3, HasAppend
      <4>3. Once(Append(t, c), d)
        BY <1>0, <2>3, <2>5, <4>1, HasAppend
      <4>4. QED
        BY <2>2, <4>1, <4>2, <4>3 DEF Typed
    <3>3. QED
      BY <1>1, <2>2, <2>4, <2>5, <3>0, <3>1, <3>2 DEF RequestInv, Id
  <2>10. ASSUME NEW d \in Calls PROVE CallInv(d)'
    BY <1>0, <1>1, <2>4, <2>5 DEF CallInv
  <2>11. QED
    BY <2>6, <2>7, <2>8, <2>9, <2>10, LocalInv
<1>5. QED
  BY <1>1, <1>3, <1>4 DEF Taken, Writes

(* bash starts the next command. *)
LEMMA BashReadsInv == ASSUME RequestsInOrder, TypeOK, NEW i \in Ids, BashReads(i) PROVE RequestsInOrder'
<1> DEFINE t == bridge[i].typed
           c == Head(t)
<1>0. /\ bridge[i] \in Bridge /\ bridge \in [Ids -> Bridge] /\ real \in [Calls -> {"none", "running"} \cup Outcomes]
      /\ runs \in [Calls -> Nat] /\ t \in Seq(Calls \cup {0}) /\ bridge[i].serves \subseteq Calls /\ 0 \notin Calls
      /\ ServesOne(i) /\ BashInv(i) /\ \A d \in Calls : RequestInv(i, d) /\ CallInv(d)
  BY AtBridge
<1>1. t # <<>> /\ UNCHANGED call /\ bridge[i].cmd = 0
  BY DEF BashReads
<1>2. /\ c \in Calls \cup {0} /\ c \in ToSet(t) /\ Typed(i, c) /\ ToSet(Tail(t)) \subseteq ToSet(t)
      /\ \A d \in Calls : (Has(Tail(t), d) => Typed(i, d) /\ d # c) /\ Once(Tail(t), d)
  BY <1>0, <1>1, QueueTypes, HasTail DEF Typed, RequestInv
<1>3. CASE c = 0
  <2>1. /\ bridge'[i].queue = bridge[i].queue /\ bridge'[i].serves = bridge[i].serves /\ bridge'[i].pc = bridge[i].pc
        /\ bridge'[i].typed = <<>> /\ bridge'[i].cmd = bridge[i].cmd /\ bridge'[i].out = bridge[i].out
        /\ bridge'[i].late = bridge[i].late /\ (\A j \in Ids \ {i} : bridge'[j] = bridge[j]) /\ UNCHANGED <<real, runs>>
    BY <1>0, <1>3 DEF BashReads, Bridge
  <2>2. bridge[i].late
    BY <1>0, <1>2, <1>3 DEF BashInv
  <2>3. LocalStep(i)
    BY <1>1, <2>1 DEF LocalStep
  <2>4. ServesOne(i)' /\ BashInv(i)'
    BY <1>0, <2>1, <2>2 DEF ServesOne, BashInv
  <2>5. ASSUME NEW d \in Calls PROVE RequestInv(i, d)'
    <3>1. (Queued(i, d)' <=> Queued(i, d)) /\ Once(bridge'[i].queue, d) /\ ~Typed(i, d)' /\ Once(bridge'[i].typed, d)
      BY <1>0, <2>1, HasNothing DEF Queued, Typed, RequestInv
    <3>2. QED
      BY <1>0, <1>1, <2>1, <3>1 DEF RequestInv, Id
  <2>6. ASSUME NEW d \in Calls PROVE CallInv(d)'
    BY <1>0, <1>1, <2>1 DEF CallInv
  <2>7. QED
    BY <2>3, <2>4, <2>5, <2>6, LocalInv
<1>4. CASE c # 0
  <2>1. /\ bridge'[i].queue = bridge[i].queue /\ bridge'[i].serves = bridge[i].serves /\ bridge'[i].pc = bridge[i].pc
        /\ bridge'[i].typed = Tail(t) /\ bridge'[i].cmd = c /\ bridge'[i].out = bridge[i].out
        /\ bridge'[i].late = bridge[i].late /\ (\A j \in Ids \ {i} : bridge'[j] = bridge[j])
        /\ real' = [real EXCEPT ![c] = "running"] /\ runs' = [runs EXCEPT ![c] = @ + 1]
    BY <1>0, <1>4 DEF BashReads, Bridge
  <2>2. c \in Calls
    BY <1>2, <1>4
  <2>3. RequestInv(i, c) /\ CallInv(c)
    BY <1>0, <2>2
  <2>a. ~bridge[i].late => c \in bridge[i].serves /\ ToSet(t) \subseteq bridge[i].serves /\ bridge[i].out = <<>>
    BY <1>0, <1>1, <1>2 DEF BashInv
  <2> HIDE DEF c, t
  <2>4. /\ call[c].kind = "exec" /\ Id(c) = i /\ call[c].pc # "dial" /\ real[c] = "none" /\ call[c].got # "failed"
        /\ ~Queued(i, c) /\ runs[c] = 0
    BY <1>2, <2>3 DEF RequestInv, CallInv
  <2>5. /\ real'[c] = "running" /\ runs'[c] = 1 /\ \A d \in Calls \ {c} : real'[d] = real[d] /\ runs'[d] = runs[d]
    BY <1>0, <2>1, <2>2, <2>4
  <2>6. LocalStep(i)
    BY <1>1, <2>1, <2>4, <2>5 DEF LocalStep
  <2>7. ServesOne(i)'
    BY <1>0, <2>1 DEF ServesOne
  <2>8. BashInv(i)'
    BY <1>2, <2>1, <2>a DEF BashInv
  <2>9. ASSUME NEW d \in Calls PROVE RequestInv(i, d)'
    <3>1. (Queued(i, d)' <=> Queued(i, d)) /\ (Typed(i, d)' => Typed(i, d) /\ d # c) /\ Once(bridge'[i].typed, d)
      BY <1>2, <2>1 DEF Queued, Typed
    <3>2. RequestInv(i, d)
      BY <1>0
    <3>3. QED
      BY <1>1, <2>1, <2>4, <2>5, <3>1, <3>2 DEF RequestInv, Id
  <2>10. ASSUME NEW d \in Calls PROVE CallInv(d)'
    <3>1. CASE d = c
      BY <1>1, <2>3, <2>4, <2>5, <3>1 DEF CallInv
    <3>2. CASE d # c
      BY <1>0, <1>1, <2>5, <3>2 DEF CallInv
    <3>3. QED
      BY <3>1, <3>2
  <2>11. QED
    BY <2>6, <2>7, <2>8, <2>9, <2>10, LocalInv
<1>5. QED
  BY <1>3, <1>4

(* A command ends, and may say so. *)
LEMMA CommandEndsInv == ASSUME RequestsInOrder, TypeOK, NEW i \in Ids, CommandEnds(i) PROVE RequestsInOrder'
<1> DEFINE c == bridge[i].cmd
           o == bridge[i].out
           t == bridge[i].typed
<1>0. /\ bridge[i] \in Bridge /\ bridge \in [Ids -> Bridge] /\ real \in [Calls -> {"none", "running"} \cup Outcomes]
      /\ c \in Calls \cup {0} /\ bridge[i].serves \subseteq Calls /\ 0 \notin Calls /\ t \in Seq(Calls \cup {0})
      /\ ServesOne(i) /\ BashInv(i) /\ \A d \in Calls : RequestInv(i, d) /\ CallInv(d)
  BY AtBridge
<1>1. c \in Calls /\ UNCHANGED <<call, runs>>
  BY <1>0 DEF CommandEnds
<1>2. PICK what \in {"zero", "nonzero", "exited"} :
       /\ real' = [real EXCEPT ![c] = what]
       /\ bridge' = [bridge EXCEPT ![i].cmd = 0,
            ![i].bash = IF what = "exited" THEN "ended" ELSE @,
            ![i].out = IF what = "exited" \/ bridge[i].ssh = "lost" THEN @ ELSE Append(@, what)]
  BY DEF CommandEnds
<1>3. /\ bridge'[i].queue = bridge[i].queue /\ bridge'[i].serves = bridge[i].serves /\ bridge'[i].pc = bridge[i].pc
      /\ bridge'[i].typed = bridge[i].typed /\ bridge'[i].cmd = 0
      /\ bridge'[i].out = o \/ (what # "exited" /\ bridge'[i].out = Append(o, what))
      /\ bridge'[i].late = bridge[i].late /\ \A j \in Ids \ {i} : bridge'[j] = bridge[j]
  BY <1>0, <1>2 DEF Bridge
<1>4. RequestInv(i, c) /\ CallInv(c)
  BY <1>0, <1>1
<1> HIDE DEF c
<1>5. /\ real[c] = "running" /\ call[c].kind = "exec" /\ Id(c) = i /\ call[c].pc # "dial" /\ ~Queued(i, c) /\ ~Typed(i, c)
      /\ call[c].got # "failed" /\ (~call[c].after => call[c].got \notin {"zero", "nonzero"})
  BY <1>4 DEF RequestInv, CallInv, c
<1>6. real'[c] = what /\ \A d \in Calls \ {c} : real'[d] = real[d]
  BY <1>0, <1>1, <1>2
<1>7. LocalStep(i)
  BY <1>1, <1>3, <1>5, <1>6 DEF LocalStep
<1>8. ServesOne(i)'
  BY <1>0, <1>3 DEF ServesOne
<1>9. BashInv(i)'
  <2>1. ASSUME ~bridge[i].late PROVE c \in bridge[i].serves /\ o = <<>> /\ t = <<>>
    <3>1. c \in bridge[i].serves /\ o = <<>> /\ ToSet(t) \subseteq bridge[i].serves /\ bridge[i].serves = {c}
      BY <1>0, <1>1, <2>1 DEF BashInv, ServesOne, c
    <3>2. t # <<>> => Head(t) = c /\ Has(t, Head(t))
      BY <1>0, <3>1, HasTail
    <3>3. QED
      BY <1>5, <3>1, <3>2 DEF Typed
  <2>2. ASSUME what # "exited" PROVE Append(<<>>, what) = <<what>>
    OBVIOUS
  <2>3. QED
    BY <1>0, <1>3, <1>6, <2>1, <2>2, HasNothing DEF BashInv
<1>10. ASSUME NEW d \in Calls PROVE RequestInv(i, d)'
  <2>1. (Queued(i, d)' <=> Queued(i, d)) /\ (Typed(i, d)' <=> Typed(i, d)) /\ d # 0
    BY <1>0, <1>3 DEF Queued, Typed
  <2>2. RequestInv(i, d)
    BY <1>0
  <2>3. QED
    BY <1>1, <1>3, <1>5, <1>6, <2>1, <2>2 DEF RequestInv, Id
<1>11. ASSUME NEW d \in Calls PROVE CallInv(d)'
  <2>1. CASE d = c
    BY <1>1, <1>4, <1>5, <1>6, <2>1 DEF CallInv
  <2>2. CASE d # c
    BY <1>0, <1>1, <1>6, <2>2 DEF CallInv
  <2>3. QED
    BY <2>1, <2>2
<1>12. QED
  BY <1>7, <1>8, <1>9, <1>10, <1>11, LocalInv

(* A command eats a line. *)
LEMMA CommandReadsInv == ASSUME RequestsInOrder, TypeOK, NEW i \in Ids, CommandReads(i) PROVE RequestsInOrder'
<1> DEFINE t == bridge[i].typed
<1>0. /\ bridge[i] \in Bridge /\ bridge \in [Ids -> Bridge] /\ t \in Seq(Calls \cup {0})
      /\ ServesOne(i) /\ BashInv(i) /\ \A d \in Calls : RequestInv(i, d) /\ CallInv(d)
  BY AtBridge
<1>1. t # <<>> /\ UNCHANGED <<call, real, runs>>
  BY DEF CommandReads
<1>2. /\ bridge'[i].queue = bridge[i].queue /\ bridge'[i].serves = bridge[i].serves /\ bridge'[i].pc = bridge[i].pc
      /\ bridge'[i].typed = Tail(t) /\ bridge'[i].cmd = bridge[i].cmd /\ bridge'[i].out = bridge[i].out
      /\ bridge'[i].late = bridge[i].late /\ \A j \in Ids \ {i} : bridge'[j] = bridge[j]
  BY <1>0 DEF CommandReads, Bridge
<1>3. /\ ToSet(Tail(t)) \subseteq ToSet(t)
      /\ \A d \in Calls : (Has(Tail(t), d) => Typed(i, d)) /\ Once(Tail(t), d)
  BY <1>0, <1>1, HasTail DEF Typed, RequestInv
<1>4. LocalStep(i)
  BY <1>1, <1>2 DEF LocalStep
<1>5. ServesOne(i)'
  BY <1>0, <1>2 DEF ServesOne
<1>6. BashInv(i)'
  BY <1>0, <1>1, <1>2, <1>3 DEF BashInv
<1>7. ASSUME NEW d \in Calls PROVE RequestInv(i, d)'
  <2>1. (Queued(i, d)' <=> Queued(i, d)) /\ (Typed(i, d)' => Typed(i, d)) /\ Once(bridge'[i].typed, d)
    BY <1>2, <1>3 DEF Queued, Typed
  <2>2. RequestInv(i, d)
    BY <1>0
  <2>3. QED
    BY <1>1, <1>2, <2>1, <2>2 DEF RequestInv, Id
<1>8. ASSUME NEW d \in Calls PROVE CallInv(d)'
  BY <1>0, <1>1 DEF CallInv
<1>9. QED
  BY <1>4, <1>5, <1>6, <1>7, <1>8, LocalInv

(* Exec returns: at a sentinel, or without one. *)
LEMMA ToldInv ==
  ASSUME RequestsInOrder, TypeOK, NEW i \in Ids, NEW c \in bridge[i].serves, NEW g \in Gots \ {"failed"},
         call' = Tell(call, c, g), UNCHANGED <<real, runs>>,
         g \in {"zero", "nonzero"} => bridge[i].late \/ real[c] = g,
         bridge'[i].serves = {}, bridge'[i].queue = bridge[i].queue, bridge'[i].cmd = bridge[i].cmd,
         \A j \in Ids \ {i} : bridge'[j] = bridge[j], bridge'[i].typed \in {bridge[i].typed, Append(bridge[i].typed, 0)},
         BashInv(i)'
  PROVE  RequestsInOrder'
<1> DEFINE t == bridge[i].typed
<1>0. /\ call \in Processes /\ t \in Seq(Calls \cup {0}) /\ bridge[i].serves \subseteq Calls /\ 0 \notin Calls
      /\ \A d \in Calls : RequestInv(i, d) /\ CallInv(d)
  BY AtBridge
<1>1. c \in Calls /\ RequestInv(i, c) /\ CallInv(c)
  BY <1>0
<1>2. call[c].kind = "exec" /\ Id(c) = i /\ call[c].pc # "dial" /\ ~Queued(i, c) /\ (bridge[i].late => call[c].after)
  BY <1>1 DEF RequestInv
<1>3. ASSUME NEW d \in Calls
      PROVE  /\ call'[d].kind = call[d].kind /\ call'[d].id = call[d].id /\ call'[d].pc = call[d].pc
             /\ call'[d].end = call[d].end /\ call'[d].after = call[d].after
             /\ d # c => call'[d] = call[d]
             /\ call'[d].got = IF d = c /\ call[d].got = "nothing" THEN g ELSE call[d].got
  BY <1>0, <1>1, ProcessTold
<1>4. LocalStep(i)
  BY <1>2, <1>3 DEF LocalStep
<1>5. ServesOne(i)'
  BY DEF ServesOne
<1>6. ASSUME NEW d \in Calls PROVE RequestInv(i, d)'
  <2>0. RequestInv(i, d) /\ d # 0
    BY <1>0
  <2>1. (Queued(i, d)' <=> Queued(i, d))
    BY DEF Queued
  <2>2. (Typed(i, d)' <=> Typed(i, d)) /\ Once(bridge'[i].typed, d)
    <3>1. (Has(Append(t, 0), d) <=> Has(t, d)) /\ Once(Append(t, 0), d)
      BY <1>0, <2>0, HasAppend DEF RequestInv
    <3>2. QED
      BY <2>0, <3>1 DEF RequestInv, Typed
  <2>3. QED
    BY <1>2, <1>3, <2>0, <2>1, <2>2 DEF RequestInv, Id
<1>7. ASSUME NEW d \in Calls PROVE CallInv(d)'
  BY <1>0, <1>2, <1>3 DEF CallInv
<1>8. QED
  BY <1>4, <1>5, <1>6, <1>7, LocalInv

LEMMA SentinelInv == ASSUME RequestsInOrder, TypeOK, NEW i \in Ids, Sentinel(i) PROVE RequestsInOrder'
<1>0. /\ bridge[i] \in Bridge /\ bridge \in [Ids -> Bridge] /\ bridge[i].out \in Seq({"zero", "nonzero"})
      /\ ServesOne(i) /\ BashInv(i)
  BY AtBridge
<1>1. PICK c \in bridge[i].serves :
        /\ bridge[i].out # <<>>
        /\ bridge' = [bridge EXCEPT ![i].serves = @ \ {c}, ![i].pc = "accept", ![i].out = Tail(@)]
        /\ call' = Tell(call, c, Head(bridge[i].out)) /\ UNCHANGED <<real, runs>>
  BY DEF Sentinel
<1>2. bridge[i].serves = {c}
  BY <1>0 DEF ServesOne
<1>3. /\ bridge'[i].queue = bridge[i].queue /\ bridge'[i].serves = {} /\ bridge'[i].typed = bridge[i].typed
      /\ bridge'[i].cmd = bridge[i].cmd /\ bridge'[i].out = Tail(bridge[i].out)
      /\ bridge'[i].late = bridge[i].late /\ \A j \in Ids \ {i} : bridge'[j] = bridge[j]
  BY <1>0, <1>1, <1>2 DEF Bridge
<1>4. Head(bridge[i].out) \in {"zero", "nonzero"}
  BY <1>0, <1>1, QueueTypes
<1>5. ASSUME ~bridge[i].late
      PROVE  bridge[i].out = <<real[c]>> /\ bridge[i].cmd = 0 /\ bridge[i].typed = <<>>
  BY <1>0, <1>1, <1>2, <1>5 DEF BashInv
<1>6. ASSUME ~bridge[i].late PROVE Head(bridge[i].out) = real[c] /\ Tail(bridge[i].out) = <<>>
  <2>1. ASSUME NEW x PROVE Head(<<x>>) = x /\ Tail(<<x>>) = <<>>
    OBVIOUS
  <2>2. QED
    BY <1>5, <1>6, <2>1
<1>7. BashInv(i)'
  BY <1>3, <1>5, <1>6, HasNothing DEF BashInv
<1>8. QED
  BY <1>1, <1>3, <1>4, <1>6, <1>7, ToldInv DEF Gots

LEMMA TimerInv == ASSUME RequestsInOrder, TypeOK, NEW i \in Ids, Timer(i) PROVE RequestsInOrder'
<1>0. bridge[i] \in Bridge /\ bridge \in [Ids -> Bridge] /\ ServesOne(i)
  BY AtBridge
<1>1. PICK c \in bridge[i].serves : GivesUp(i, c)
  BY DEF Timer
<1>2. bridge[i].serves = {c}
  BY <1>0 DEF ServesOne
<1>3. /\ bridge'[i].queue = bridge[i].queue /\ bridge'[i].serves = {} /\ bridge'[i].cmd = bridge[i].cmd
      /\ bridge'[i].typed \in {bridge[i].typed, Append(bridge[i].typed, 0)}
      /\ bridge'[i].late = TRUE /\ \A j \in Ids \ {i} : bridge'[j] = bridge[j]
  BY <1>0, <1>1, <1>2 DEF GivesUp, Bridge
<1>4. call' = Tell(call, c, "interrupted") /\ UNCHANGED <<real, runs>>
  BY <1>1 DEF GivesUp
<1>5. BashInv(i)'
  BY <1>3 DEF BashInv
<1>6. QED
  BY <1>3, <1>4, <1>5, ToldInv DEF Gots

-----------------------------------------------------------------------------
(* What the requests have is what they promise.                            *)

LEMMA RequestsGiveOne == TypeOK /\ RequestsInOrder => OneCommandAtATime
<1> SUFFICES ASSUME TypeOK, RequestsInOrder PROVE OneCommandAtATime
  OBVIOUS
<1>1. ASSUME NEW i \in Ids
      PROVE  /\ Cardinality(bridge[i].serves) <= 1
             /\ bridge[i].cmd # 0 /\ ~bridge[i].late => bridge[i].cmd \in bridge[i].serves
  <2>1. Cardinality(bridge[i].serves) <= 1
    <3>1. CASE bridge[i].serves = {}
      BY <3>1, FS_EmptySet
    <3>2. CASE bridge[i].serves # {}
      <4>1. PICK c : bridge[i].serves = {c}
        BY <3>2 DEF RequestsInOrder, ServesOne
      <4>2. QED
        BY <4>1, FS_Singleton
    <3>3. QED
      BY <3>1, <3>2
  <2>2. QED
    BY <2>1 DEF RequestsInOrder, BashInv
<1>2. ASSUME NEW c \in Calls
      PROVE  /\ runs[c] <= 1 /\ (call[c].got = "failed" => runs[c] = 0)
             /\ ~call[c].after /\ call[c].got \in {"zero", "nonzero"} => real[c] = call[c].got
  BY DEF RequestsInOrder, CallInv
<1>3. QED
  BY <1>1, <1>2 DEF OneCommandAtATime

LEMMA NextRequests == TypeOK /\ RequestsInOrder /\ [Next]_vars => TypeOK' /\ RequestsInOrder'
<1> SUFFICES ASSUME TypeOK, RequestsInOrder, [Next]_vars PROVE TypeOK' /\ RequestsInOrder'
  OBVIOUS
<1>1. ASSUME NEW c \in Calls, Start(c) \/ Exec(c) \/ Stop(c) \/ ReadTimesOut(c) \/ ClientStep(c) PROVE TypeOK' /\ RequestsInOrder'
  BY <1>1, ClientTypes, ProbeInv, DialInv, CalmClients
<1>2. ASSUME NEW i \in Ids, BridgeStep(i) \/ BashStep(i) \/ Sigterm(i) \/ Lose(i) PROVE TypeOK' /\ RequestsInOrder'
  <2>1. TypeOK'
    BY <1>2, BridgeTypes
  <2>2. CASE Connect(i) \/ Listen(i) \/ Leave(i) \/ Sigterm(i) \/ Lose(i)
    BY <2>1, <2>2, CalmBridges
  <2>3. CASE Accept(i) \/ Sentinel(i) \/ Timer(i)
    BY <2>1, <2>3, AcceptInv, SentinelInv, TimerInv
  <2>4. CASE BashReads(i) \/ CommandEnds(i) \/ CommandReads(i)
    BY <2>1, <2>4, BashReadsInv, CommandEndsInv, CommandReadsInv
  <2>5. QED
    BY <1>2, <2>2, <2>3, <2>4 DEF BridgeStep, BashStep
<1>3. CASE UNCHANGED vars
  <2>1. TypeOK'
    BY <1>3 DEF vars, files, TypeOK
  <2>2. \A i \in Ids : CalmBridge(i)
    BY <1>3, QuietBridges DEF vars
  <2>3. \A c \in Calls : CalmProcess(c)
    BY <1>3, SameIsCalm DEF vars
  <2>4. QED
    BY <1>3, <2>1, <2>2, <2>3, CalmStep DEF vars
<1>4. QED
  BY <1>1, <1>2, <1>3 DEF Next

(* Types, of every behaviour. *)
THEOREM TypesHold == Spec => []TypeOK
<1>1. Init => TypeOK /\ RequestsInOrder
  BY InitInv DEF IInv
<1>2. QED
  BY <1>1, NextRequests, PTL DEF Spec

(* A bridge serves one request at a time, no command is started twice or after   *)
(* it was refused, and until an Exec of the bridge gives up each client is told   *)
(* the status of its own command (session.go:345-417, managed_session.go:137-226), *)
(* whatever the number of clients, the ids, and the signals and lost connections. *)
THEOREM OneAtATime == Spec => []OneCommandAtATime
<1>1. Init => TypeOK /\ RequestsInOrder
  BY InitInv DEF IInv
<1>2. QED
  BY <1>1, NextRequests, RequestsGiveOne, PTL DEF Spec

-----------------------------------------------------------------------------
(* Sessions.                                                               *)

(* What a step leaves of a process, but for what it got, and of a session. *)
SameCall(c) ==
  call'[c].kind = call[c].kind /\ call'[c].id = call[c].id /\ call'[c].pc = call[c].pc /\ call'[c].end = call[c].end
SameSession(i) ==
  /\ bridge'[i].n = bridge[i].n /\ bridge'[i].pc = bridge[i].pc /\ bridge'[i].ctx = bridge[i].ctx
  /\ (i \in tmux' <=> i \in tmux) /\ (i \in dir' <=> i \in dir) /\ sock'[i] = sock[i] /\ faults' >= faults

LEMMA HungSame ==
  ASSUME NEW cs \in Processes, NEW lost, NEW c \in Calls
  PROVE  /\ Hung(cs, lost, "reset")[c].kind = cs[c].kind /\ Hung(cs, lost, "reset")[c].id = cs[c].id
         /\ Hung(cs, lost, "reset")[c].pc = cs[c].pc /\ Hung(cs, lost, "reset")[c].end = cs[c].end
BY HungKeeps DEF Processes, Process

LEMMA KilledSame ==
  ASSUME TypeOK, NEW i, NEW c \in Calls
  PROVE  /\ Killed(call, i)[c].kind = call[c].kind /\ Killed(call, i)[c].id = call[c].id
         /\ Killed(call, i)[c].pc = call[c].pc /\ Killed(call, i)[c].end = call[c].end
         /\ Killed(call, i) \in [Calls -> Process]
<1>1. /\ Killed(call, i) \in [Calls -> Process] /\ call[c] \in Process
      /\ Killed(call, i)[c] \in {call[c], [call[c] EXCEPT !.got = "eof"], [call[c] EXCEPT !.got = "reset"]}
  BY KilledKeeps DEF TypeOK, Processes
<1>2. QED
  BY <1>1 DEF Process

(* A process moves no other. *)
LEMMA OthersStay ==
  ASSUME TypeOK, RequestsInOrder, NEW c \in Calls, Start(c) \/ Exec(c) \/ Stop(c) \/ ReadTimesOut(c) \/ ClientStep(c)
  PROVE  /\ \A d \in Calls \ {c} : SameCall(d)
         /\ call[c].kind # "none" => call'[c].kind = call[c].kind /\ call'[c].id = call[c].id
<1> USE DEF SameCall
<1>0. call \in [Calls -> Process] /\ call[c] \in Process
  BY DEF TypeOK, Processes
<1>1. CASE Start(c) \/ Exec(c) \/ Stop(c)
  <2>1. call[c].kind = "none" /\ \A d \in Calls \ {c} : call'[d] = call[d]
    BY <1>0, <1>1 DEF Start, Exec, Stop
  <2>2. QED
    BY <2>1
<1>2. CASE \/ \E pc \in Pcs : call' = [call EXCEPT ![c].pc = pc]
           \/ \E how \in Ends : call' = Ended(call, c, how)
  BY <1>0, <1>2 DEF Ended, Process
<1>3. CASE call' = Ended(Killed(call, Id(c)), c, "error") \/ call' = [Killed(call, Id(c)) EXCEPT ![c].pc = "remove"]
  <2>1. Killed(call, Id(c)) \in [Calls -> Process]
    BY KilledSame
  <2>2. ASSUME NEW d \in Calls \ {c} PROVE call'[d] = Killed(call, Id(c))[d]
    BY <1>3, <2>1 DEF Ended
  <2>3. call'[c].kind = Killed(call, Id(c))[c].kind /\ call'[c].id = Killed(call, Id(c))[c].id
    BY <1>3, <2>1 DEF Ended, Process
  <2>4. QED
    BY <2>2, <2>3, KilledSame
<1>4. CASE call' = [Ended(call, c, "error") EXCEPT ![c].got = "left"]
  BY <1>0, <1>4 DEF Ended, Process
<1>5. CASE ReadTimesOut(c) \/ ClientStep(c)
  <2>1. CASE Prepare(c) \/ WriteMeta(c) \/ Spawn(c) \/ Dial(c)
    BY <1>2, <2>1 DEF Prepare, WriteMeta, Spawn, Dial, Go, End, Pcs, Ends
  <2>2. CASE BridgeIsGone(c) \/ Probe(c) \/ Read(c) \/ StopRemoves(c)
    <3>1. \E how \in Ends : call' = Ended(call, c, how)
      BY <2>2 DEF BridgeIsGone, Probe, Read, Exit, StopRemoves, End, Ends
    <3>2. QED
      BY <1>2, <3>1
  <2>3. CASE StartTimesOut(c)
    BY <1>3, <2>3 DEF StartTimesOut
  <2>4. CASE StopKills(c)
    BY <1>2, <1>3, <2>4 DEF StopKills, End, Ends
  <2>5. CASE ReadTimesOut(c)
    BY <1>4, <2>5 DEF ReadTimesOut
  <2>6. QED
    BY <1>5, <2>1, <2>2, <2>3, <2>4, <2>5 DEF ClientStep
<1>6. QED
  BY <1>1, <1>5

LEMMA ProcessesStay ==
  ASSUME TypeOK, RequestsInOrder, NEW i \in Ids, BridgeStep(i) \/ BashStep(i) \/ Sigterm(i) \/ Lose(i)
  PROVE  \A c \in Calls : SameCall(c)
<1> USE DEF SameCall
<1>1. CASE UNCHANGED call
  BY <1>1
<1>2. CASE call' = Killed(call, i)
  BY <1>2, KilledSame
<1>3. CASE call' = Hung(call, Waiting(i), "reset")
  BY <1>3, HungSame DEF TypeOK
<1>4. ASSUME NEW c \in bridge[i].serves \cup {Head(bridge[i].queue)}, c \in Calls, NEW g \in Gots, call' = Tell(call, c, g)
      PROVE  \A d \in Calls : SameCall(d)
  BY <1>4, ProcessTold DEF TypeOK
<1>5. CASE Accept(i)
  <2> DEFINE c == Head(bridge[i].queue)
  <2>1. c \in Calls \cup {0}
    BY <1>5, QueueTypes DEF Accept, TypeOK, Bridge
  <2>2. \/ call' = call
        \/ c # 0 /\ call' = Tell(call, c, "failed")
        \/ c # 0 /\ call' = [call EXCEPT ![c].after = bridge[i].late]
    BY <1>5 DEF Accept, Taken
  <2>3. CASE c # 0 /\ call' = [call EXCEPT ![c].after = bridge[i].late]
    <3>1. c \in Calls /\ bridge[i].late \in BOOLEAN /\ call \in [Calls -> Process]
      BY <2>1, <2>3 DEF TypeOK, Bridge, Processes
    <3>2. PICK late : call' = [call EXCEPT ![c].after = late]
      BY <2>3
    <3> HIDE DEF c
    <3>3. QED
      BY <3>1, <3>2 DEF Process
  <2>4. QED
    BY <1>1, <1>4, <2>1, <2>2, <2>3 DEF Gots
<1>6. CASE Sentinel(i)
  <2>1. PICK c \in bridge[i].serves : call' = Tell(call, c, Head(bridge[i].out)) /\ bridge[i].out # <<>>
    BY <1>6 DEF Sentinel
  <2>2. c \in Calls /\ Head(bridge[i].out) \in Gots
    BY <2>1, QueueTypes DEF TypeOK, Bridge, Gots
  <2>3. QED
    BY <1>4, <2>1, <2>2
<1>7. CASE Timer(i)
  <2>1. PICK c \in bridge[i].serves : call' = Tell(call, c, "interrupted")
    BY <1>7 DEF Timer, GivesUp
  <2>2. c \in Calls /\ "interrupted" \in Gots
    BY DEF TypeOK, Bridge, Gots
  <2>3. QED
    BY <1>4, <2>1, <2>2
<1>8. QED
  BY <1>1, <1>2, <1>3, <1>5, <1>6, <1>7
     DEF BridgeStep, Connect, Listen, Leave, Sigterm, Lose, Exits, BashStep, BashReads, CommandEnds, CommandReads, files

(* A session that a step leaves alone, seen from its start. *)
LEMMA StartStays ==
  ASSUME NEW c \in Calls, StartInv(c), SameCall(c), SameSession(Id(c)), faults \in Nat, faults' \in Nat,
         Stopped(Id(c)) => Stopped(Id(c))'
  PROVE  StartInv(c)'
BY DEF StartInv, SameCall, SameSession, Reachable, Running, Id

LEMMA BridgeStays ==
  ASSUME NEW i \in Ids, BridgeInv(i), SameSession(i), faults \in Nat, faults' \in Nat
  PROVE  BridgeInv(i)'
BY DEF BridgeInv, SameSession, Running

LEMMA StoppedStays ==
  ASSUME NEW i \in Ids, \A d \in Calls : call[d].kind = "stop" => call'[d].kind = "stop" /\ call'[d].id = call[d].id
  PROVE  Stopped(i) => Stopped(i)'
BY DEF Stopped, Id

(* The step of a process: what there is to show of its own session. *)
LEMMA ClientStays ==
  ASSUME TypeOK, TypeOK', RequestsInOrder, SessionsInOrder, UNCHANGED world,
         NEW c \in Calls, Start(c) \/ Exec(c) \/ Stop(c) \/ ReadTimesOut(c) \/ ClientStep(c),
         NEW k \in Ids, call'[c].id = k, call'[c].kind # "none",
         \A i \in Ids \ {k} : SameSession(i),
         BridgeInv(k)',
         call'[c].end # "none" => call'[c].pc = "done",
         call'[c].kind = "exec" => SameSession(k),
         world \in Generated /\ call'[c].kind = "start" =>
           /\ StartInv(c)'
           /\ \A d \in Calls \ {c} : ~(call[d].kind = "start" /\ Id(d) = k)
  PROVE  SessionsInOrder'
<1>0. /\ \A d \in Calls \ {c} : SameCall(d)
      /\ call[c].kind # "none" => call'[c].kind = call[c].kind /\ call'[c].id = call[c].id
  BY OthersStay
<1>1. ASSUME NEW i \in Ids PROVE BridgeInv(i)'
  BY <1>1, BridgeStays DEF SessionsInOrder, TypeOK
<1>2. ASSUME NEW d \in Calls PROVE call'[d].end # "none" => call'[d].pc = "done"
  BY <1>0 DEF SameCall, SessionsInOrder
<1>3. ASSUME world \in Generated, NEW d \in Calls PROVE StartInv(d)'
  <2>1. CASE d = c
    BY <1>3, <2>1 DEF StartInv
  <2>2. CASE d # c /\ call[d].kind # "start"
    BY <1>0, <2>2 DEF StartInv, SameCall
  <2>3. CASE d # c /\ call[d].kind = "start"
    <3>0. Id(d) \in Ids /\ call'[d].id = Id(d) /\ StartInv(d) /\ SameCall(d)
      BY <1>0, <1>3, <2>3 DEF TypeOK, Processes, Id, SameCall, SessionsInOrder
    <3>1. Stopped(Id(d)) => Stopped(Id(d))'
      <4>1. \A e \in Calls : call[e].kind = "stop" => call'[e].kind = "stop" /\ call'[e].id = call[e].id
        BY <1>0 DEF SameCall
      <4>2. ASSUME NEW i \in Ids PROVE Stopped(i) => Stopped(i)'
        BY <4>1, StoppedStays
      <4>3. call'[d].id = call[d].id
        BY <3>0 DEF Id
      <4>4. QED
        BY <3>0, <4>2, <4>3 DEF Id
    <3>2. CASE Id(d) # k
      BY <3>0, <3>1, <3>2, StartStays DEF TypeOK
    <3>3. CASE Id(d) = k /\ call'[c].kind = "exec"
      BY <3>0, <3>1, <3>3, StartStays DEF TypeOK
    <3>4. CASE Id(d) = k /\ call'[c].kind = "stop"
      BY <3>0, <3>4 DEF StartInv, Stopped, Id
    <3>5. CASE Id(d) = k /\ call'[c].kind = "start"
      BY <1>3, <2>3, <3>5
    <3>6. call'[c].kind \in {"none", "start", "exec", "stop"}
      BY DEF TypeOK, Processes, Process
    <3>7. QED
      BY <3>2, <3>3, <3>4, <3>5, <3>6
  <2>4. QED
    BY <2>1, <2>2, <2>3
<1>4. ASSUME world \in Generated, NEW d \in Calls, NEW e \in Calls,
             call'[d].kind = "start", call'[e].kind = "start", call'[d].id = call'[e].id
      PROVE  d = e
  <2>1. CASE d = c \/ e = c
    BY <1>0, <1>4, <2>1 DEF SameCall, Id
  <2>2. CASE d # c /\ e # c
    BY <1>0, <1>4, <2>2 DEF SameCall, SessionsInOrder, Id
  <2>3. QED
    BY <2>1, <2>2
<1>5. QED
  BY <1>1, <1>2, <1>3, <1>4 DEF SessionsInOrder, Id

(* A step of a bridge or of the network: what there is to show of the id. *)
LEMMA BridgeStepStays ==
  ASSUME TypeOK, TypeOK', RequestsInOrder, SessionsInOrder, UNCHANGED world,
         NEW i \in Ids, BridgeStep(i) \/ BashStep(i) \/ Sigterm(i) \/ Lose(i),
         \A j \in Ids \ {i} : SameSession(j),
         BridgeInv(i)',
         \A c \in Calls : StartInv(c) /\ call[c].kind = "start" /\ Id(c) = i /\ SameCall(c) => StartInv(c)'
  PROVE  SessionsInOrder'
<1>0. \A c \in Calls : SameCall(c)
  BY ProcessesStay
<1>1. ASSUME NEW j \in Ids PROVE BridgeInv(j)'
  BY <1>1, BridgeStays DEF SessionsInOrder, TypeOK
<1>2. ASSUME NEW d \in Calls PROVE call'[d].end # "none" => call'[d].pc = "done"
  BY <1>0 DEF SameCall, SessionsInOrder
<1>3. ASSUME world \in Generated, NEW d \in Calls PROVE StartInv(d)'
  <2>1. StartInv(d) /\ SameCall(d)
    BY <1>0, <1>3 DEF SessionsInOrder
  <2>2. CASE call[d].kind # "start"
    BY <2>1, <2>2 DEF StartInv, SameCall
  <2>3. CASE call[d].kind = "start" /\ Id(d) = i
    BY <2>1, <2>3
  <2>4. CASE call[d].kind = "start" /\ Id(d) # i
    <3>1. Id(d) \in Ids
      BY <2>4 DEF TypeOK, Processes, Id
    <3>2. Stopped(Id(d)) => Stopped(Id(d))'
      <4>1. \A e \in Calls : call[e].kind = "stop" => call'[e].kind = "stop" /\ call'[e].id = call[e].id
        BY <1>0 DEF SameCall
      <4>2. ASSUME NEW k \in Ids PROVE Stopped(k) => Stopped(k)'
        BY <4>1, StoppedStays
      <4>3. QED
        BY <2>1, <3>1, <4>2 DEF Id, SameCall
    <3>3. QED
      BY <2>1, <2>4, <3>1, <3>2, StartStays DEF TypeOK
  <2>5. QED
    BY <2>2, <2>3, <2>4
<1>4. ASSUME world \in Generated, NEW d \in Calls, NEW e \in Calls,
             call'[d].kind = "start", call'[e].kind = "start", call'[d].id = call'[e].id
      PROVE  d = e
  BY <1>0, <1>4 DEF SameCall, SessionsInOrder, Id
<1>5. QED
  BY <1>1, <1>2, <1>3, <1>4 DEF SessionsInOrder, Id

(* The steps that begin a process. *)
LEMMA BeginsSessions ==
  ASSUME TypeOK, TypeOK', RequestsInOrder, SessionsInOrder, NEW c \in Calls, Start(c) \/ Exec(c) \/ Stop(c)
  PROVE  SessionsInOrder'
<1> USE DEF files
<1>0. /\ call \in [Calls -> Process] /\ call[c] \in Process /\ call[c].kind = "none" /\ call[c].end = "none"
      /\ UNCHANGED <<world, tmux, bridge, faults>> /\ faults \in Nat /\ \A i \in Ids : BridgeInv(i)
  BY DEF TypeOK, Processes, Start, Exec, Stop, RequestsInOrder, CallInv, SessionsInOrder
<1>1. CASE Start(c)
  <2>1. PICK k \in Ids :
          /\ world \in Generated => \A d \in Calls : ~(call[d].kind = "start" /\ Id(d) = k)
          /\ call' = [call EXCEPT ![c].kind = "start", ![c].id = k,
                                  ![c].pc = IF Running(k) THEN "done" ELSE "prepare",
                                  ![c].end = IF Running(k) THEN "error" ELSE @]
    BY <1>1 DEF Start
  <2>2. /\ call'[c].kind = "start" /\ call'[c].id = k
        /\ \/ call'[c].pc = "done" /\ call'[c].end = "error"
           \/ call'[c].pc = "prepare" /\ call'[c].end = "none" /\ ~Running(k)
    BY <1>0, <2>1 DEF Process
  <2>3. \A i \in Ids : SameSession(i) /\ BridgeInv(i)'
    <3>1. UNCHANGED <<dir, sock>>
      BY <1>1 DEF Start
    <3>2. QED
      BY <1>0, <3>1 DEF SameSession, BridgeInv, Running
  <2>4. StartInv(c)'
    BY <1>0, <2>2 DEF StartInv, Id, Running
  <2>5. QED
    BY <1>0, <1>1, <2>1, <2>2, <2>3, <2>4, ClientStays
<1>2. CASE Exec(c)
  <2>1. PICK k \in Ids :
          call' = [call EXCEPT ![c].kind = "exec", ![c].id = k, ![c].pc = IF Running(k) THEN "dial" ELSE "done",
                  ![c].end = IF Running(k) THEN @ ELSE "error"]
    BY <1>2 DEF Exec
  <2>2. /\ call'[c].kind = "exec" /\ call'[c].id = k
        /\ call'[c].end # "none" => call'[c].pc = "done"
    BY <1>0, <2>1 DEF Process
  <2>3. \A i \in Ids : SameSession(i) /\ BridgeInv(i)'
    <3>1. UNCHANGED <<dir, sock>>
      BY <1>2 DEF Exec
    <3>2. QED
      BY <1>0, <3>1 DEF SameSession, BridgeInv, Running
  <2>4. QED
    BY <1>0, <1>2, <2>2, <2>3, ClientStays
<1>3. CASE Stop(c)
  <2>1. PICK k \in Ids : \/ call' = [call EXCEPT ![c].kind = "stop", ![c].id = k, ![c].pc = "kill"] /\ UNCHANGED <<dir, sock>>
                         \/ /\ call' = [call EXCEPT ![c].kind = "stop", ![c].id = k, ![c].pc = "done", ![c].end = "error"]
                            /\ RemoveAll(k)
    BY <1>3 DEF Stop
  <2>2. /\ call'[c].kind = "stop" /\ call'[c].id = k
        /\ call'[c].end # "none" => call'[c].pc = "done"
    BY <1>0, <2>1 DEF Process
  <2>3. \A i \in Ids \ {k} : SameSession(i)
    BY <1>0, <2>1 DEF RemoveAll, SameSession, TypeOK
  <2>4. \A i \in Ids : BridgeInv(i)'
    BY <1>0 DEF BridgeInv, Running
  <2>5. QED
    BY <1>0, <1>3, <2>2, <2>3, <2>4, ClientStays
<1>4. QED
  BY <1>1, <1>2, <1>3

(* A process that goes on or ends, and kills no bridge. *)
LEMMA GoesOnSessions ==
  ASSUME TypeOK, TypeOK', RequestsInOrder, SessionsInOrder, NEW c \in Calls, ClientStep(c),
         call[c].kind # "none", UNCHANGED world, NEW k \in Ids, k = Id(c),
         \/ \E pc \in Pcs : call[c].pc # "done" /\ call' = [call EXCEPT ![c].pc = pc]
         \/ \E how \in Ends : call' = Ended(call, c, how),
         \A i \in Ids \ {k} : SameSession(i), BridgeInv(k)',
         call[c].kind = "exec" => SameSession(k),
         world \in Generated /\ call[c].kind = "start" => StartInv(c)'
  PROVE  SessionsInOrder'
<1>1. /\ call \in [Calls -> Process] /\ call[c] \in Process
      /\ call[c].end # "none" => call[c].pc = "done"
  BY DEF TypeOK, Processes, SessionsInOrder
<1>2. /\ call'[c].kind = call[c].kind /\ call'[c].id = k
      /\ call'[c].end # "none" => call'[c].pc = "done"
  BY <1>1 DEF Ended, Process, Id
<1>3. world \in Generated /\ call[c].kind = "start" => \A d \in Calls \ {c} : ~(call[d].kind = "start" /\ Id(d) = k)
  BY DEF SessionsInOrder
<1>4. QED
  BY <1>1, <1>2, <1>3, ClientStays

(* The steps of start, exec and stop. *)
LEMMA StartSessions ==
  ASSUME TypeOK, TypeOK', RequestsInOrder, SessionsInOrder, NEW c \in Calls,
         Prepare(c) \/ WriteMeta(c) \/ Spawn(c) \/ StartTimesOut(c) \/ BridgeIsGone(c) \/ Probe(c)
  PROVE  SessionsInOrder'
<1> USE DEF files
<1>1. PICK k \in Ids : k = Id(c)
  BY DEF TypeOK, Processes, Prepare, WriteMeta, Spawn, StartTimesOut, BridgeIsGone, Probe, At, Id
<1>0. /\ call \in [Calls -> Process] /\ call[c] \in Process /\ call[c].kind = "start" /\ call[c].end = "none"
      /\ call[c].pc \in {"prepare", "meta", "spawn", "poll"} /\ ClientStep(c)
      /\ UNCHANGED <<world, faults>> /\ faults \in Nat /\ \A i \in Ids : BridgeInv(i)
      /\ world \in Generated => StartInv(c)
      /\ bridge \in [Ids -> Bridge] /\ sock \in [Ids -> Nat] /\ bridge[k] \in Bridge /\ made \in Nat
      /\ tmux \subseteq Ids /\ dir \subseteq Ids
  BY DEF TypeOK, Processes, Prepare, WriteMeta, Spawn, StartTimesOut, BridgeIsGone, Probe, At, SessionsInOrder, ClientStep
<1>2. CASE Prepare(c)
  <2>1. /\ call' = [call EXCEPT ![c].pc = "meta"] /\ dir' = dir \cup {k} /\ sock' = [sock EXCEPT ![k] = 0]
        /\ UNCHANGED <<tmux, bridge>> /\ call[c].pc = "prepare"
    BY <1>1, <1>2 DEF Prepare, Go, At
  <2>2. (\A i \in Ids \ {k} : SameSession(i)) /\ BridgeInv(k)'
    BY <1>0, <2>1 DEF SameSession, BridgeInv, Running
  <2>3. call'[c].pc = "meta" /\ call'[c].end = "none" /\ call'[c].id = k /\ call'[c].kind = "start"
    BY <1>0, <1>1, <2>1 DEF Process, Id
  <2>4. Stopped(k) => Stopped(k)'
    BY <1>0, <2>1 DEF Stopped, Id, Process
  <2>5. world \in Generated => StartInv(c)'
    BY <1>0, <1>1, <2>1, <2>3, <2>4 DEF StartInv, Id, Running
  <2>6. QED
    BY <1>0, <1>1, <2>1, <2>2, <2>5, GoesOnSessions DEF Pcs
<1>3. CASE WriteMeta(c)
  <2>1. /\ UNCHANGED <<tmux, dir, sock, bridge>> /\ call[c].pc = "meta"
        /\ \/ call' = [call EXCEPT ![c].pc = "spawn"] /\ k \in dir
           \/ call' = Ended(call, c, "error")
    BY <1>1, <1>3 DEF WriteMeta, Go, At, End
  <2>2. (\A i \in Ids \ {k} : SameSession(i)) /\ BridgeInv(k)'
    BY <1>0, <2>1 DEF SameSession, BridgeInv, Running
  <2>3. /\ call'[c].id = k /\ call'[c].kind = "start"
        /\ \/ call'[c].pc = "spawn" /\ call'[c].end = "none" /\ k \in dir
           \/ call'[c].pc = "done" /\ call'[c].end = "error"
    BY <1>0, <1>1, <2>1 DEF Process, Id, Ended
  <2>4. Stopped(k) => Stopped(k)'
    BY <1>0, <2>1 DEF Stopped, Id, Process, Ended
  <2>5. world \in Generated => StartInv(c)'
    BY <1>0, <1>1, <2>1, <2>3, <2>4 DEF StartInv, Id, Running
  <2>6. QED
    BY <1>0, <1>1, <2>1, <2>2, <2>5, GoesOnSessions DEF Pcs, Ends
<1>4. CASE Spawn(c)
  <2>1. CASE Running(k)
    <3>1. /\ call' = Ended(call, c, "error") /\ RemoveAll(k) /\ UNCHANGED <<tmux, bridge>>
      BY <1>1, <1>4, <2>1 DEF Spawn, End
    <3>2. (\A i \in Ids \ {k} : SameSession(i)) /\ BridgeInv(k)'
      BY <1>0, <3>1 DEF SameSession, BridgeInv, Running, RemoveAll
    <3>3. call'[c].pc = "done" /\ call'[c].end = "error" /\ call'[c].id = k /\ call'[c].kind = "start"
      BY <1>0, <1>1, <3>1 DEF Process, Id, Ended
    <3>4. StartInv(c)'
      BY <3>3 DEF StartInv, Id
    <3>5. QED
      BY <1>0, <1>1, <3>1, <3>2, <3>4, GoesOnSessions DEF Ends
  <2>2. CASE ~Running(k)
    <3>1. /\ call' = [call EXCEPT ![c].pc = "poll"] /\ tmux' = tmux \cup {k} /\ UNCHANGED <<dir, sock>>
          /\ bridge' = [bridge EXCEPT ![k] = [NoBridge EXCEPT !.n = made + 1, !.pc = "dial"]]
          /\ call[c].pc = "spawn"
      BY <1>1, <1>4, <2>2 DEF Spawn, Go, At
    <3>2. bridge'[k].n = made + 1 /\ bridge'[k].pc = "dial" /\ bridge'[k].ctx /\ \A i \in Ids \ {k} : bridge'[i] = bridge[i]
      BY <1>0, <3>1 DEF NoBridge
    <3>3. (\A i \in Ids \ {k} : SameSession(i)) /\ BridgeInv(k)'
      BY <1>0, <3>1, <3>2 DEF SameSession, BridgeInv, Running
    <3>4. call'[c].pc = "poll" /\ call'[c].end = "none" /\ call'[c].id = k /\ call'[c].kind = "start"
      BY <1>0, <1>1, <3>1 DEF Process, Id
    <3>5. Stopped(k) => Stopped(k)'
      BY <1>0, <3>1 DEF Stopped, Id, Process
    <3>6. world \in Generated => StartInv(c)'
      BY <1>0, <1>1, <3>1, <3>2, <3>4, <3>5 DEF StartInv, Id, Running, Reachable
    <3>7. QED
      BY <1>0, <1>1, <3>1, <3>3, <3>6, GoesOnSessions DEF Pcs
  <2>3. QED
    BY <2>1, <2>2
<1>5. CASE StartTimesOut(c)
  <2>1. /\ call' = Ended(Killed(call, k), c, "error") /\ RemoveAll(k) /\ Kill(k)
    BY <1>1, <1>5 DEF StartTimesOut
  <2>2. (\A i \in Ids \ {k} : SameSession(i)) /\ BridgeInv(k)'
    BY <1>0, <2>1 DEF SameSession, BridgeInv, Running, RemoveAll, Kill, NoBridge
  <2>3. call'[c].pc = "done" /\ call'[c].end = "error" /\ call'[c].id = k /\ call'[c].kind = "start"
    <3>1. Killed(call, k)[c].id = k /\ Killed(call, k)[c].kind = "start" /\ Killed(call, k) \in [Calls -> Process]
      BY <1>0, <1>1, KilledSame DEF Id
    <3>2. QED
      BY <2>1, <3>1 DEF Ended, Process
  <2>4. StartInv(c)'
    BY <2>3 DEF StartInv, Id
  <2>5. \A d \in Calls \ {c} : ~(world \in Generated /\ call[d].kind = "start" /\ Id(d) = k)
    BY <1>0, <1>1 DEF SessionsInOrder
  <2>6. QED
    BY <1>0, <2>2, <2>3, <2>4, <2>5, ClientStays
<1>6. CASE BridgeIsGone(c)
  <2>1. /\ call' = Ended(call, c, "error") /\ RemoveAll(k) /\ UNCHANGED <<tmux, bridge>>
    BY <1>1, <1>6 DEF BridgeIsGone, End
  <2>2. (\A i \in Ids \ {k} : SameSession(i)) /\ BridgeInv(k)'
    BY <1>0, <2>1 DEF SameSession, BridgeInv, Running, RemoveAll
  <2>3. call'[c].pc = "done" /\ call'[c].end = "error" /\ call'[c].id = k /\ call'[c].kind = "start"
    BY <1>0, <1>1, <2>1 DEF Process, Id, Ended
  <2>4. StartInv(c)'
    BY <2>3 DEF StartInv, Id
  <2>5. QED
    BY <1>0, <1>1, <2>1, <2>2, <2>4, GoesOnSessions DEF Ends
<1>7. CASE Probe(c)
  <2>1. /\ call' = Ended(call, c, "zero") /\ UNCHANGED <<tmux, dir, sock>> /\ Listens(k) /\ Running(k)
        /\ bridge' = [bridge EXCEPT ![k].queue = Append(@, 0)] /\ call[c].pc = "poll"
    BY <1>1, <1>7 DEF Probe, End, At
  <2>2. \A i \in Ids : bridge'[i].n = bridge[i].n /\ bridge'[i].pc = bridge[i].pc /\ bridge'[i].ctx = bridge[i].ctx
    BY <1>0, <2>1 DEF Bridge
  <2>3. (\A i \in Ids \ {k} : SameSession(i)) /\ BridgeInv(k)'
    BY <1>0, <2>1, <2>2 DEF SameSession, BridgeInv, Running
  <2>4. call'[c].pc = "done" /\ call'[c].end = "zero" /\ call'[c].id = k /\ call'[c].kind = "start"
    BY <1>0, <1>1, <2>1 DEF Process, Id, Ended
  <2>5. Stopped(k) => Stopped(k)'
    BY <1>0, <2>1 DEF Stopped, Id, Process, Ended
  <2>6. world \in Generated => StartInv(c)'
    BY <1>0, <1>1, <2>1, <2>2, <2>4, <2>5 DEF StartInv, Id, Running, Reachable, Listens
  <2>7. QED
    BY <1>0, <1>1, <2>1, <2>3, <2>6, GoesOnSessions DEF Ends
<1>8. QED
  BY <1>2, <1>3, <1>4, <1>5, <1>6, <1>7

LEMMA ExecSessions ==
  ASSUME TypeOK, TypeOK', RequestsInOrder, SessionsInOrder, NEW c \in Calls,
         Dial(c) \/ Read(c) \/ ReadTimesOut(c)
  PROVE  SessionsInOrder'
<1> USE DEF files
<1>1. PICK k \in Ids : k = Id(c)
  BY DEF TypeOK, Processes, Dial, Read, ReadTimesOut, At, Id
<1>0. /\ call \in [Calls -> Process] /\ call[c] \in Process /\ call[c].kind = "exec" /\ call[c].id = k
      /\ ReadTimesOut(c) \/ ClientStep(c)
      /\ UNCHANGED <<world, faults, tmux, dir, sock>> /\ faults \in Nat
      /\ bridge \in [Ids -> Bridge] /\ (call[c].end # "none" => call[c].pc = "done") /\ \A i \in Ids : BridgeInv(i)
  BY <1>1 DEF TypeOK, Processes, Dial, Read, ReadTimesOut, At, Id, SessionsInOrder, ClientStep
<1>2. UNCHANGED bridge \/ bridge' = [bridge EXCEPT ![k].queue = Append(@, c)]
  BY <1>1 DEF Dial, Read, ReadTimesOut
<1>3. \A i \in Ids : bridge'[i].n = bridge[i].n /\ bridge'[i].pc = bridge[i].pc /\ bridge'[i].ctx = bridge[i].ctx
  <2>1. PICK q : UNCHANGED bridge \/ bridge' = [bridge EXCEPT ![k] = [bridge[k] EXCEPT !.queue = q]]
    BY <1>2
  <2>2. ASSUME NEW b \in Bridge
        PROVE  /\ [b EXCEPT !.queue = q].n = b.n /\ [b EXCEPT !.queue = q].pc = b.pc
               /\ [b EXCEPT !.queue = q].ctx = b.ctx
    BY DEF Bridge
  <2>3. CASE bridge' = [bridge EXCEPT ![k] = [bridge[k] EXCEPT !.queue = q]]
    <3>1. /\ bridge'[k] = [bridge[k] EXCEPT !.queue = q] /\ bridge[k] \in Bridge
          /\ \A i \in Ids \ {k} : bridge'[i] = bridge[i]
      BY <1>0, <2>3
    <3>2. QED
      BY <2>2, <3>1
  <2>4. QED
    BY <2>1, <2>3
<1>4. \A i \in Ids : SameSession(i)
  BY <1>0, <1>3 DEF SameSession
<1>5. BridgeInv(k)'
  BY <1>0, <1>4, BridgeStays
<1>6. call'[c].kind = "exec" /\ call'[c].id = k /\ (call'[c].end # "none" => call'[c].pc = "done")
  <2>1. CASE Dial(c)
    BY <1>0, <2>1 DEF Dial, At, Go, End, Ended, Process
  <2>2. CASE Read(c)
    BY <1>0, <2>2 DEF Read, End, Ended, Process
  <2>3. CASE ReadTimesOut(c)
    BY <1>0, <2>3 DEF ReadTimesOut, Ended, Process
  <2>4. QED
    BY <2>1, <2>2, <2>3
<1>7. QED
  BY <1>0, <1>4, <1>5, <1>6, ClientStays

LEMMA StopSessions ==
  ASSUME TypeOK, TypeOK', RequestsInOrder, SessionsInOrder, NEW c \in Calls, StopKills(c) \/ StopRemoves(c)
  PROVE  SessionsInOrder'
<1> USE DEF files
<1>1. PICK k \in Ids : k = Id(c)
  BY DEF TypeOK, Processes, StopKills, StopRemoves, At, Id
<1>0. /\ call \in [Calls -> Process] /\ call[c] \in Process /\ call[c].kind = "stop" /\ call[c].id = k /\ call[c].end = "none"
      /\ ClientStep(c) /\ UNCHANGED <<world, faults>> /\ faults \in Nat
      /\ bridge \in [Ids -> Bridge] /\ sock \in [Ids -> Nat] /\ \A i \in Ids : BridgeInv(i)
  BY <1>1 DEF TypeOK, Processes, StopKills, StopRemoves, At, Id, SessionsInOrder, ClientStep
<1>2. CASE StopKills(c) /\ Running(k)
  <2>1. Kill(k) /\ call' = [Killed(call, k) EXCEPT ![c].pc = "remove"] /\ UNCHANGED <<dir, sock>>
    BY <1>1, <1>2 DEF StopKills
  <2>2. (\A i \in Ids \ {k} : SameSession(i)) /\ BridgeInv(k)'
    BY <1>0, <2>1 DEF SameSession, BridgeInv, Running, Kill, NoBridge
  <2>3. Killed(call, k)[c].id = k /\ Killed(call, k)[c].kind = "stop" /\ Killed(call, k)[c].end = "none" /\ Killed(call, k) \in [Calls -> Process]
    BY <1>0, KilledSame
  <2>4. call'[c].kind = "stop" /\ call'[c].id = k /\ call'[c].end = "none"
    BY <2>1, <2>3 DEF Process
  <2>5. QED
    BY <1>0, <2>2, <2>4, ClientStays
<1>3. CASE StopKills(c) /\ ~Running(k)
  <2>1. /\ call' = Ended(call, c, "error") /\ UNCHANGED <<tmux, bridge, dir, sock>>
    BY <1>1, <1>3 DEF StopKills, End
  <2>2. (\A i \in Ids \ {k} : SameSession(i)) /\ BridgeInv(k)'
    BY <1>0, <2>1 DEF SameSession, BridgeInv, Running
  <2>3. call'[c].kind = "stop" /\ call'[c].id = k /\ call'[c].pc = "done"
    BY <1>0, <2>1 DEF Process, Ended
  <2>4. QED
    BY <1>0, <2>2, <2>3, ClientStays
<1>4. CASE StopRemoves(c)
  <2>1. /\ call' = Ended(call, c, "zero") /\ RemoveAll(k) /\ UNCHANGED <<tmux, bridge>>
    BY <1>1, <1>4 DEF StopRemoves, End
  <2>2. (\A i \in Ids \ {k} : SameSession(i)) /\ BridgeInv(k)'
    BY <1>0, <2>1 DEF SameSession, BridgeInv, Running, RemoveAll
  <2>3. call'[c].kind = "stop" /\ call'[c].id = k /\ call'[c].pc = "done"
    BY <1>0, <2>1 DEF Process, Ended
  <2>4. QED
    BY <1>0, <2>2, <2>3, ClientStays
<1>5. QED
  BY <1>2, <1>3, <1>4

LEMMA BridgeSessions ==
  ASSUME TypeOK, TypeOK', RequestsInOrder, SessionsInOrder, NEW i \in Ids,
         BridgeStep(i) \/ BashStep(i) \/ Sigterm(i) \/ Lose(i)
  PROVE  SessionsInOrder'
<1> USE DEF files
<1>0. /\ bridge \in [Ids -> Bridge] /\ bridge[i] \in Bridge /\ sock \in [Ids -> Nat] /\ faults \in Nat /\ faults' \in Nat
      /\ BridgeInv(i) /\ UNCHANGED <<world, dir>> /\ ServesOne(i) /\ tmux \subseteq Ids
  BY DEF TypeOK, SessionsInOrder, RequestsInOrder, BridgeStep, Connect, Listen, Accept, Sentinel, Timer, GivesUp, Leave, Sigterm, Lose,
         BashStep, BashReads, CommandEnds, CommandReads
<1> DEFINE Seen(c) == StartInv(c) /\ call[c].kind = "start" /\ Id(c) = i /\ SameCall(c)
<1>a. ASSUME NEW c \in Calls, Seen(c)
      PROVE  call'[c].id = i /\ call[c].id = i /\ (Stopped(i) => Stopped(i)')
  <2>1. call'[c].id = i /\ call[c].id = i
    BY <1>a DEF SameCall, Id
  <2>2. \A d \in Calls : SameCall(d)
    BY ProcessesStay
  <2>3. QED
    BY <2>1, <2>2, StoppedStays DEF SameCall
<1>1. CASE /\ bridge'[i].pc = "gone" /\ bridge'[i].ctx /\ tmux' = tmux \ {i} /\ (\A j \in Ids \ {i} : bridge'[j] = bridge[j] /\ sock'[j] = sock[j])
           /\ UNCHANGED faults /\ bridge[i].pc # "gone"
           /\ bridge[i].pc \in {"accept", "busy"} => ~bridge[i].ctx
  <2>1. (\A j \in Ids \ {i} : SameSession(j)) /\ BridgeInv(i)'
    BY <1>0, <1>1 DEF SameSession, BridgeInv, Running
  <2>2. ASSUME NEW c \in Calls, Seen(c) PROVE StartInv(c)'
    <3>1. call'[c].id = i /\ call[c].id = i /\ (Stopped(i) => Stopped(i)')
      BY <1>a, <2>2
    <3>2. QED
      BY <1>0, <1>1, <2>2, <3>1 DEF StartInv, SameCall, Id, Running, Reachable, BridgeInv
  <2>3. QED
    BY <1>0, <2>1, <2>2, BridgeStepStays
<1>2. CASE /\ bridge'[i].n = bridge[i].n /\ bridge'[i].ctx = bridge[i].ctx /\ bridge[i].pc # "gone"
           /\ \/ bridge[i].pc = "dial" /\ bridge'[i].pc = "listen" /\ UNCHANGED sock
              \/ bridge[i].pc = "listen" /\ bridge'[i].pc = "accept" /\ sock' = [sock EXCEPT ![i] = bridge[i].n]
              \/ bridge[i].pc \in {"accept", "busy"} /\ bridge'[i].pc \in {"accept", "busy"} /\ UNCHANGED sock
              \/ bridge'[i].pc = bridge[i].pc /\ UNCHANGED sock
           /\ (\A j \in Ids \ {i} : bridge'[j] = bridge[j]) /\ UNCHANGED tmux /\ faults' >= faults
  <2>1. (\A j \in Ids \ {i} : SameSession(j)) /\ BridgeInv(i)'
    BY <1>0, <1>2 DEF SameSession, BridgeInv, Running
  <2>2. ASSUME NEW c \in Calls, Seen(c) PROVE StartInv(c)'
    <3>1. call'[c].id = i /\ call[c].id = i /\ (Stopped(i) => Stopped(i)')
      BY <1>a, <2>2
    <3>2. QED
      BY <1>0, <1>2, <2>2, <3>1 DEF StartInv, SameCall, Id, Running, Reachable, BridgeInv
  <2>3. QED
    BY <1>0, <2>1, <2>2, BridgeStepStays
<1>3. CASE Connect(i)
  <2>1. CASE bridge' = [bridge EXCEPT ![i].pc = "listen"] /\ UNCHANGED <<sock, tmux, call>>
    <3>1. /\ bridge'[i].n = bridge[i].n /\ bridge'[i].ctx = bridge[i].ctx /\ bridge'[i].pc = "listen"
          /\ \A j \in Ids \ {i} : bridge'[j] = bridge[j]
      BY <1>0, <2>1 DEF Bridge
    <3>2. bridge[i].pc = "dial" /\ faults' = faults
      BY <1>3 DEF Connect
    <3>3. QED
      BY <1>0, <1>2, <2>1, <3>1, <3>2
  <2>2. CASE bridge' = [bridge EXCEPT ![i] = NoBridge]
    BY <1>0, <1>1, <1>3, <2>2 DEF Connect, NoBridge
  <2>3. QED
    BY <1>3, <2>1, <2>2 DEF Connect
<1>4. CASE Listen(i)
  <2>1. CASE i \in dir
    BY <1>0, <1>2, <1>4, <2>1 DEF Listen, Bridge
  <2>2. CASE i \notin dir
    BY <1>0, <1>1, <1>4, <2>2 DEF Listen, Exits, NoBridge
  <2>3. QED
    BY <2>1, <2>2
<1>5. CASE Accept(i)
  <2>0. bridge[i].pc = "accept" /\ Taken(i) /\ UNCHANGED <<sock, tmux, faults>>
    BY <1>5 DEF Accept
  <2>1. bridge'[i].n = bridge[i].n /\ bridge'[i].ctx = bridge[i].ctx /\ bridge'[i].pc \in {"accept", "busy"}
        /\ \A j \in Ids \ {i} : bridge'[j] = bridge[j]
    <3> DEFINE d == Head(bridge[i].queue)
    <3>1. \/ bridge' = [bridge EXCEPT ![i].queue = Tail(bridge[i].queue)]
          \/ \E w \in {"arrives", "lost"} :
               bridge' = [bridge EXCEPT ![i].queue = Tail(bridge[i].queue), ![i].serves = @ \cup {d}, ![i].pc = "busy",
                            ![i].typed = IF w = "arrives" THEN Append(@, d) ELSE @]
      BY <2>0 DEF Taken, Writes
    <3>2. QED
      BY <1>0, <2>0, <3>1 DEF Bridge
  <2>2. QED
    BY <1>0, <1>2, <2>0, <2>1
<1>6. CASE Sentinel(i) \/ Timer(i)
  <2>1. PICK c \in bridge[i].serves :
          /\ \/ bridge' = [bridge EXCEPT ![i].serves = @ \ {c}, ![i].pc = "accept", ![i].out = Tail(@)]
             \/ bridge' = [bridge EXCEPT ![i].serves = @ \ {c}, ![i].pc = "accept", ![i].out = <<>>,
                             ![i].late = TRUE, ![i].typed = IF "arrives" \in Writes(i) THEN Append(@, 0) ELSE @]
          /\ UNCHANGED <<sock, tmux, faults>>
    BY <1>6 DEF Sentinel, Timer, GivesUp
  <2>2. bridge[i].pc = "busy"
    BY <1>0 DEF ServesOne
  <2>4. bridge'[i].n = bridge[i].n /\ bridge'[i].ctx = bridge[i].ctx /\ bridge'[i].pc = "accept"
        /\ \A j \in Ids \ {i} : bridge'[j] = bridge[j]
    BY <1>0, <2>1 DEF Bridge
  <2>5. QED
    BY <1>0, <1>2, <2>1, <2>2, <2>4
<1>a1. CASE BashStep(i)
  <2>1. UNCHANGED <<sock, tmux, faults>>
    BY <1>a1 DEF BashStep, BashReads, CommandEnds, CommandReads
  <2>2. /\ bridge'[i].n = bridge[i].n /\ bridge'[i].ctx = bridge[i].ctx /\ bridge'[i].pc = bridge[i].pc
        /\ \A j \in Ids \ {i} : bridge'[j] = bridge[j]
    <3>1. CASE BashReads(i)
      BY <1>0, <3>1 DEF BashReads, Bridge
    <3>2. CASE CommandEnds(i)
      BY <1>0, <3>2 DEF CommandEnds, Bridge
    <3>3. CASE CommandReads(i)
      BY <1>0, <3>3 DEF CommandReads, Bridge
    <3>4. QED
      BY <1>a1, <3>1, <3>2, <3>3 DEF BashStep
  <2>3. /\ \A j \in Ids \ {i} : SameSession(j)
        /\ BridgeInv(i)'
    BY <1>0, <2>1, <2>2 DEF SameSession, BridgeInv, Running
  <2>4. ASSUME NEW c \in Calls, Seen(c) PROVE StartInv(c)'
    <3>1. call'[c].id = i /\ call[c].id = i /\ (Stopped(i) => Stopped(i)')
      BY <1>a, <2>4
    <3>2. QED
      BY <1>0, <2>1, <2>2, <2>4, <3>1 DEF StartInv, SameCall, Id, Running, Reachable, BridgeInv
  <2>5. QED
    BY <1>0, <2>3, <2>4, BridgeStepStays
<1>7. CASE Leave(i)
  BY <1>0, <1>1, <1>7 DEF Leave, Exits, NoBridge
<1>8. CASE Sigterm(i)
  <2>1. /\ bridge'[i].pc = bridge[i].pc /\ bridge'[i].n = bridge[i].n /\ ~bridge'[i].ctx
        /\ (\A j \in Ids \ {i} : bridge'[j] = bridge[j] /\ sock'[j] = sock[j])
        /\ UNCHANGED tmux /\ faults' = faults + 1 /\ bridge[i].pc # "gone"
    BY <1>0, <1>8 DEF Sigterm, Bridge
  <2>2. (\A j \in Ids \ {i} : SameSession(j)) /\ BridgeInv(i)'
    BY <1>0, <2>1 DEF SameSession, BridgeInv, Running
  <2>3. ASSUME NEW c \in Calls, Seen(c) PROVE StartInv(c)'
    <3>1. call'[c].id = i /\ call[c].id = i /\ (Stopped(i) => Stopped(i)')
      BY <1>a, <2>3
    <3>2. QED
      BY <1>0, <2>1, <2>3, <3>1 DEF StartInv, SameCall, Id, Running, Reachable, BridgeInv
  <2>4. QED
    BY <1>0, <2>2, <2>3, BridgeStepStays
<1>9. CASE Lose(i)
  <2>1. /\ bridge'[i].pc = bridge[i].pc /\ bridge'[i].n = bridge[i].n /\ bridge'[i].ctx = bridge[i].ctx
        /\ (\A j \in Ids \ {i} : bridge'[j] = bridge[j]) /\ UNCHANGED <<tmux, sock>> /\ faults' = faults + 1 /\ bridge[i].pc # "gone"
    BY <1>0, <1>9 DEF Lose, Bridge
  <2>2. QED
    BY <1>0, <1>2, <2>1
<1>10. QED
  BY <1>3, <1>4, <1>5, <1>6, <1>7, <1>8, <1>9, <1>a1 DEF BridgeStep

LEMMA NextInv == IInv /\ [Next]_vars => IInv'
<1> SUFFICES ASSUME IInv, [Next]_vars PROVE IInv'
  OBVIOUS
<1>0. TypeOK /\ RequestsInOrder /\ SessionsInOrder /\ TypeOK' /\ RequestsInOrder'
  BY NextRequests DEF IInv
<1>1. ASSUME NEW c \in Calls, Start(c) \/ Exec(c) \/ Stop(c) \/ ReadTimesOut(c) \/ ClientStep(c) PROVE SessionsInOrder'
  BY <1>0, <1>1, BeginsSessions, StartSessions, ExecSessions, StopSessions DEF ClientStep
<1>2. ASSUME NEW i \in Ids, BridgeStep(i) \/ BashStep(i) \/ Sigterm(i) \/ Lose(i) PROVE SessionsInOrder'
  BY <1>0, <1>2, BridgeSessions
<1>3. CASE UNCHANGED vars
  <2>0. call' = call /\ bridge' = bridge /\ tmux' = tmux /\ dir' = dir /\ sock' = sock /\ faults' = faults /\ world' = world
    BY <1>3 DEF vars, files
  <2>1. \A i \in Ids : BridgeInv(i)'
    BY <1>0, <2>0 DEF SessionsInOrder, BridgeInv, Running
  <2>2. \A i : Stopped(i)' <=> Stopped(i)
    BY <2>0 DEF Stopped, Id
  <2>3. ASSUME NEW c \in Calls, StartInv(c) PROVE StartInv(c)'
    BY <2>0, <2>2, <2>3 DEF StartInv, Reachable, Running, Id
  <2>4. \A c \in Calls : call'[c].end # "none" => call'[c].pc = "done"
    BY <1>0, <2>0 DEF SessionsInOrder
  <2>5. ASSUME world' \in Generated
        PROVE  /\ \A c, d \in Calls : call'[c].kind = "start" /\ call'[d].kind = "start" /\ Id(c)' = Id(d)' => c = d
               /\ \A c \in Calls : StartInv(c)'
    <3>1. world \in Generated
      BY <2>0, <2>5
    <3>2. QED
      BY <1>0, <2>0, <2>3, <3>1 DEF SessionsInOrder, Id
  <2>6. QED
    <3>1. SessionsInOrder'
      BY <2>1, <2>4, <2>5 DEF SessionsInOrder
    <3>2. QED
      BY <1>0, <3>1 DEF IInv
<1>4. QED
  BY <1>0, <1>1, <1>2, <1>3 DEF Next, IInv

LEMMA SessionsServe == IInv => ServesUntilStopped
<1> SUFFICES ASSUME IInv, world \in Generated, NEW c \in Calls, call[c].kind = "start", call[c].end = "zero", ~Stopped(Id(c))
             PROVE  LET i == Id(c) IN
                      \/ bridge[i].ctx = FALSE
                      \/ bridge[i].pc = "gone" /\ faults > 0
                      \/ Running(i) /\ i \in dir /\ Listens(i)
  BY DEF ServesUntilStopped, Stopped
<1>1. Id(c) \in Ids /\ bridge[Id(c)] \in Bridge /\ BridgeInv(Id(c)) /\ StartInv(c)
  BY DEF IInv, TypeOK, Processes, Id, SessionsInOrder
<1>2. QED
  BY <1>1 DEF StartInv, Reachable, Listens, BridgeInv, Running, Bridge

(* The inductive invariant: requests in order, and sessions in order. *)
THEOREM Inductive == Spec => []IInv
BY InitInv, NextInv, PTL DEF Spec

(* A session that start has told of, with an id of its own, can be reached until *)
(* it is stopped or its bridge is told to end (session.go:100-144, 240-252,      *)
(* 324-348): whatever else runs, and however the steps of others fall between.   *)
THEOREM ServesUntil == Spec => []ServesUntilStopped
BY Inductive, SessionsServe, PTL
=============================================================================
