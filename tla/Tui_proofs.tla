------------------------------ MODULE Tui_proofs ------------------------------
(***************************************************************************)
(* Proofs about Tui, for any tables, any items of a form and any number of *)
(* commands, of rows that others delete and of lists that cannot be read.  *)
(*                                                                         *)
(* A key of any screen does one of a few things to what TuiInv speaks of:  *)
(* it moves to a Model whose indices are in range, with or without a       *)
(* command (Moved, Asked), deletes the row under a cursor that steps back  *)
(* (Deleted), moves a cursor down, or ends the program. KeyKeyed shows     *)
(* this handler by handler, KeyedInv that each of them keeps TuiInv. What  *)
(* a command does when it changes its table, lists it and answers is       *)
(* RunsInv, ReadsBackInv and UpdateInv. Dirty forms, deaths of servers and *)
(* the focus are looked at once more at the end, each by what a key may do *)
(* to it (FormKey, Harmless, Sees).                                        *)
(***************************************************************************)
EXTENDS Tui, TLAPS, FiniteSetTheorems, SequenceTheorems

-----------------------------------------------------------------------------
(* Lists and forms.                                                        *)

LEMMA ListedLen ==
  ASSUME NEW S, IsFiniteSet(S)
  PROVE  Sequence(Listed(S)) /\ Len(Listed(S)) = Cardinality(S)
<1>1. Cardinality(S) \in Nat
  BY FS_CardinalityType
<1> DEFINE n == Cardinality(S)
           e(i) == CHOOSE r \in S : Cardinality({x \in S : x < r}) = i - 1
<1>2. Listed(S) = [i \in 1..n |-> e(i)]
  BY DEF Listed
<1> HIDE DEF n, e
<1>3. n \in Nat
  BY <1>1 DEF n
<1>4. DOMAIN [i \in 1..n |-> e(i)] = 1..n /\ Len([i \in 1..n |-> e(i)]) = n
  BY <1>3
<1> QED
  BY <1>2, <1>3, <1>4 DEF Sequence, n

LEMMA IdsFinite == ASSUME NEW S \in SUBSET Ids PROVE IsFiniteSet(S) /\ Cardinality(S) \in Nat
<1>1. IsFiniteSet(1..MaxId)
  BY FS_Interval, TuiAssumption
<1>2. IsFiniteSet(S)
  BY <1>1, FS_Subset DEF Ids
<1> QED
  BY <1>2, FS_CardinalityType

LEMMA TableCount ==
  ASSUME table \in [Tables -> Rows], NEW t \in Tables
  PROVE  IsFiniteSet(table[t]) /\ Cardinality(table[t]) \in Nat
BY IdsFinite DEF Rows

LEMMA Added == ASSUME NEW S, IsFiniteSet(S), NEW r PROVE Cardinality(S \cup {r}) >= Cardinality(S)
<1>1. Cardinality(S) \in Nat
  BY FS_CardinalityType
<1>2. Cardinality(S \cup {r}) = IF r \in S THEN Cardinality(S) ELSE Cardinality(S) + 1
  BY FS_AddElement
<1> QED
  BY <1>1, <1>2

LEMMA EmptyLen == Sequence(<<>>) /\ Len(<<>>) = 0
BY DEF Sequence

LEMMA FormFields ==
  DOMAIN NoForm = {"mode", "changed", "focus", "overlay", "over", "items", "items0", "item", "pick", "pick0",
                   "srv", "srv0", "key", "key0", "search", "dialogue"}
BY DEF NoForm

LEMMA NoFormHolds == ASSUME NEW x, NEW servers PROVE FormHolds([NoForm EXCEPT !.srv = x], servers)
BY EmptyLen DEF FormHolds, NoForm

LEMMA TidyHolds ==
  ASSUME NEW n, ModelHolds(n), n.screen.kind = "form" => FormHolds(n.form, n.rows["server"])
  PROVE  /\ Holds(Tidy(n))
         /\ Tidy(n).rows = n.rows /\ Tidy(n).cursor = n.cursor /\ Tidy(n).filtered = n.filtered
         /\ Tidy(n).startAt = n.startAt /\ Tidy(n).end = n.end /\ Tidy(n).screen = n.screen
<1>1. CASE n.screen.kind = "form"
  BY <1>1 DEF Tidy, Holds
<1>2. CASE n.screen.kind # "form"
  <2> DEFINE f == [NoForm EXCEPT !.srv = n.form.srv]
  <2>1. FormHolds(f, n.rows["server"])
    BY NoFormHolds
  <2> HIDE DEF f
  <2>2. Tidy(n) = [n EXCEPT !.form = f]
    BY <1>2 DEF Tidy, f
  <2> QED
    BY <2>1, <2>2 DEF Holds, ModelHolds
<1> QED
  BY <1>1, <1>2

(* Keys reach the tunnels and the bindings only from their own screens. *)
Near(t) == t \in Dependent => m.screen.of = t

(* What a key does to the Model when it neither moves a cursor down nor deletes. *)
KeyStep(n) ==
  /\ Near(n.screen.of)
  /\ Holds(n) /\ n.rows = m.rows /\ n.startAt = m.startAt /\ n.end = "no"
  /\ \A l \in Lists \ {"server"} : n.cursor[l] <= m.cursor[l]

LEMMA LandedHolds ==
  ASSUME NEW n, Holds(n)
  PROVE  /\ Holds(Landed(n))
         /\ Landed(n).rows = n.rows /\ Landed(n).cursor = n.cursor
         /\ Landed(n).startAt = n.startAt /\ Landed(n).end = n.end
         /\ Landed(n).screen \in {n.screen, List("server")}
<1> DEFINE n2 == [n EXCEPT !.screen = List("server")]
<1>1. Holds(n2) /\ n2.rows = n.rows /\ n2.cursor = n.cursor /\ n2.startAt = n.startAt /\ n2.end = n.end
      /\ n2.screen = List("server")
  BY DEF Holds, ModelHolds, List, At, Kinds, Tables
<1>2. Landed(n) = Tidy(n) \/ Landed(n) = Tidy(n2)
  BY DEF Landed
<1> HIDE DEF n2
<1> QED
  BY <1>1, <1>2, TidyHolds DEF Holds

LEMMA ServerNear == List("server").of \notin Dependent /\ \A t : Near(List(t).of) <=> Near(t)
BY DEF List, At, Dependent, Near

LEMMA LandedNear == ASSUME NEW n, Holds(n), Near(n.screen.of) PROVE Near(Landed(n).screen.of)
BY LandedHolds, ServerNear DEF Near

LEMMA LandedStep == ASSUME NEW n, KeyStep(n) PROVE KeyStep(Landed(n)) /\ Landed(n).cursor = n.cursor
BY LandedHolds, LandedNear DEF KeyStep

-----------------------------------------------------------------------------
(* What the steps of the program do to the invariant.                      *)

Plain(c) ==
  /\ CommandHolds(c) /\ c.stage # "answer"
  /\ c.op = "delete" => c.table \notin Stepping

(* A list that a server's deletion may have shortened stays out of sight. *)
LEMMA ShrinksOn ==
  ASSUME m'.startAt = m.startAt, confirmed \subseteq confirmed', NEW t
  PROVE  /\ Shrinks(t) => Shrinks(t)'
         /\ Near(m'.screen.of) /\ Hidden(t) => Hidden(t)'
         /\ Near(m'.screen.of) /\ m.screen.of \notin Dependent => m'.screen.of \notin Dependent
BY DEF Shrinks, Hidden, Cascades, Near

(* A step that leaves the commands alone. *)
LEMMA QuietInv ==
  ASSUME TuiInv, m.end = "no", KeyStep(m'), UNCHANGED <<cmds, table, elsewhere, hasty>>, confirmed \subseteq confirmed'
  PROVE  TuiInv'
<1>1. ClampedListsHold'
  BY DEF ClampedListsHold, KeyStep
<1>2. Holds(m)'
  BY DEF KeyStep
<1>3. ASSUME Calm' PROVE ListsHold' /\ CursorsHold'
  <2>1. ListsHold /\ CursorsHold /\ Calm
    BY <1>3 DEF TuiInv, Calm
  <2>2. ListsHold'
    <3>1. \A t \in Tables : True(t, m.rows[t])' \/ Renewed(t)' \/ Hidden(t)'
      BY <2>1, ShrinksOn DEF ListsHold, True, Renewed, KeyStep
    <3>2. \A c \in cmds' : c.op = "delete" /\ c.table = "server" => confirmed' # {} /\ m'.screen.of \notin Dependent
      BY <2>1, ShrinksOn DEF ListsHold, KeyStep
    <3> QED
      BY <2>1, <3>1, <3>2 DEF ListsHold, True
  <2>3. ASSUME NEW l \in Stepping \cup {"picker"}
        PROVE  m'.cursor[l] \in Nat /\ m.cursor[l] \in Nat /\ m'.cursor[l] <= m.cursor[l] /\ Len(m.rows[l]) \in Nat
    BY DEF Stepping, Lists, Tables, KeyStep, Holds, ModelHolds, TuiInv, Sequence
  <2>4. ASSUME NEW t \in Stepping PROVE Cardinality(table[t]) - (IF Deleting(t) THEN 1 ELSE 0) \in Int
    BY TableCount DEF TuiInv, Stepping, Tables
  <2>5. \A t \in Stepping : Deleting(t)' <=> Deleting(t)
    BY DEF Deleting
  <2>6. CursorsHold'
    <3>1. ASSUME NEW l \in Stepping \cup {"picker"}
          PROVE  m'.rows[l] = <<>> \/ m'.cursor[l] = 0 \/ m'.cursor[l] < Len(m'.rows[l]) \/ Shrinks(l)'
      BY <2>1, <2>3, ShrinksOn DEF CursorsHold, KeyStep
    <3>2. ASSUME NEW t \in Stepping
          PROVE  \/ m'.cursor[t] = 0
                 \/ m'.cursor[t] < Cardinality(table'[t]) - (IF Deleting(t)' THEN 1 ELSE 0)
                 \/ Shrinks(t)'
      BY <2>1, <2>3, <2>4, <2>5, ShrinksOn DEF CursorsHold, KeyStep
    <3>3. (\E c \in cmds' : c.op = "plugins") => m'.cursor["picker"] = 0
      BY <2>1, <2>3 DEF CursorsHold
    <3> QED
      BY <3>1, <3>2, <3>3 DEF CursorsHold
  <2> QED
    BY <2>2, <2>6
<1> QED
  BY <1>1, <1>2, <1>3 DEF TuiInv

LEMMA IssueInv ==
  ASSUME TuiInv, m.end = "no", KeyStep(m'), NEW c, Plain(c), Issue(c), UNCHANGED <<table, elsewhere>>,
         confirmed \subseteq confirmed', c.op = "plugins" => m'.cursor["picker"] = 0,
         c.op = "delete" /\ c.table = "server" => confirmed' # {} /\ m.screen.of \notin Dependent
  PROVE  TuiInv'
<1>1. ClampedListsHold'
  BY DEF ClampedListsHold, KeyStep
<1>2. Holds(m)'
  BY DEF KeyStep
<1>3. \A d \in cmds' : CommandHolds(d)
  BY DEF TuiInv, Issue, Plain
<1>4. ASSUME Calm' PROVE ListsHold' /\ CursorsHold'
  <2>1. ListsHold /\ CursorsHold /\ Calm /\ cmds = {} /\ cmds' = {c}
    BY <1>4 DEF TuiInv, Calm, Issue
  <2>2. ListsHold'
    <3>1. \A t \in Tables : True(t, m.rows[t]) \/ Hidden(t)
      BY <2>1 DEF ListsHold, Renewed
    <3>2. \A t \in Tables : True(t, m.rows[t])' \/ Hidden(t)'
      BY <3>1, ShrinksOn DEF True, KeyStep
    <3>3. c.op = "delete" /\ c.table = "server" => confirmed' # {} /\ m'.screen.of \notin Dependent
      BY ShrinksOn DEF KeyStep
    <3> QED
      BY <2>1, <3>2, <3>3 DEF ListsHold, Plain
  <2>3. ASSUME NEW l \in Stepping \cup {"picker"}
        PROVE  m'.cursor[l] \in Nat /\ m.cursor[l] \in Nat /\ m'.cursor[l] <= m.cursor[l] /\ Len(m.rows[l]) \in Nat
    BY DEF Stepping, Lists, Tables, KeyStep, Holds, ModelHolds, TuiInv, Sequence
  <2>4. ASSUME NEW t \in Stepping PROVE Cardinality(table[t]) \in Nat
    BY TableCount DEF TuiInv, Stepping, Tables
  <2>5. \A t \in Stepping : ~Deleting(t)' /\ ~Deleting(t)
    BY <2>1 DEF Deleting, Plain
  <2>6. CursorsHold'
    <3>1. ASSUME NEW l \in Stepping \cup {"picker"}
          PROVE  m'.rows[l] = <<>> \/ m'.cursor[l] = 0 \/ m'.cursor[l] < Len(m'.rows[l]) \/ Shrinks(l)'
      BY <2>1, <2>3, ShrinksOn DEF CursorsHold, KeyStep
    <3>2. ASSUME NEW t \in Stepping
          PROVE  \/ m'.cursor[t] = 0
                 \/ m'.cursor[t] < Cardinality(table'[t]) - (IF Deleting(t)' THEN 1 ELSE 0)
                 \/ Shrinks(t)'
      BY <2>1, <2>3, <2>4, <2>5, ShrinksOn DEF CursorsHold, KeyStep
    <3> QED
      BY <2>1, <3>1, <3>2 DEF CursorsHold
  <2> QED
    BY <2>2, <2>6
<1> QED
  BY <1>1, <1>2, <1>3, <1>4 DEF TuiInv

LEMMA BecomesInv ==
  ASSUME TuiInv, m.end = "no", NEW n, KeyStep(n), Becomes(n), UNCHANGED <<table, elsewhere>>, confirmed \subseteq confirmed'
  PROVE  TuiInv'
BY LandedStep, QuietInv DEF Becomes

LEMMA BecomesAndInv ==
  ASSUME TuiInv, m.end = "no", NEW n, KeyStep(n), NEW c, Plain(c), c.op = "plugins" => n.cursor["picker"] = 0,
         BecomesAnd(n, c), UNCHANGED <<table, elsewhere>>, confirmed \subseteq confirmed',
         c.op = "delete" /\ c.table = "server" => confirmed' # {} /\ m.screen.of \notin Dependent
  PROVE  TuiInv'
BY LandedStep, IssueInv DEF BecomesAnd

LEMMA DownInv ==
  ASSUME TuiInv, m.end = "no", NEW l \in Lists, Down(l), UNCHANGED <<table, elsewhere>>, confirmed \subseteq confirmed'
  PROVE  TuiInv'
<1> DEFINE n == [m EXCEPT !.cursor[l] = @ + 1]
<1>1. /\ n.cursor = [m.cursor EXCEPT ![l] = @ + 1] /\ n.rows = m.rows
      /\ n.startAt = m.startAt /\ n.end = "no" /\ Holds(n) /\ n.screen = m.screen
  <2>1. m.cursor[l] \in Nat /\ Len(m.filtered) \in Nat /\ (l = "server" => m.cursor[l] + 1 < Len(m.filtered))
    BY DEF TuiInv, Holds, ModelHolds, Down, Shown, Sequence
  <2> QED
    BY <2>1 DEF TuiInv, Holds, ModelHolds, Lists, Tables
<1>2. m' = Landed(n) /\ cmds' = cmds /\ hasty' = (hasty \/ cmds # {})
  BY DEF Down
<1> HIDE DEF n
<1>3. /\ Holds(m') /\ m'.rows = m.rows /\ m'.cursor = [m.cursor EXCEPT ![l] = @ + 1] /\ m'.end = "no"
      /\ m'.startAt = m.startAt /\ Near(m'.screen.of)
  BY <1>1, <1>2, LandedHolds, LandedNear DEF Near
<1>4. ASSUME Calm' PROVE ListsHold' /\ CursorsHold'
  <2>1. ListsHold /\ CursorsHold /\ cmds = {} /\ cmds' = {}
    BY <1>2, <1>4 DEF TuiInv, Calm
  <2>2. \A t \in Tables : True(t, m.rows[t]) \/ Hidden(t)
    BY <2>1 DEF ListsHold, Renewed
  <2>s. \A k : Shrinks(k) => Shrinks(k)'
    BY <1>3, ShrinksOn
  <2>3. ListsHold'
    <3>1. \A t \in Tables : True(t, m.rows[t])' \/ Hidden(t)'
      BY <1>3, <2>2, ShrinksOn DEF True
    <3> QED
      BY <2>1, <3>1 DEF ListsHold
  <2>4. ASSUME NEW k \in Stepping \cup {"picker"}
        PROVE  m'.rows[k] = <<>> \/ m'.cursor[k] = 0 \/ m'.cursor[k] < Len(m'.rows[k]) \/ Shrinks(k)'
    <3>1. k \in Lists /\ k # "server" /\ m.cursor[k] \in Nat /\ Len(m.rows[k]) \in Nat
      BY DEF Stepping, Lists, Tables, Holds, ModelHolds, TuiInv, Sequence
    <3>2. CASE k = l
      <4>1. m.cursor[k] + 1 < Len(m.rows[k])
        BY <3>1, <3>2 DEF Down, Shown
      <4>2. m'.cursor[k] = m.cursor[k] + 1 /\ m'.rows = m.rows
        BY <1>3, <3>1, <3>2 DEF Holds, ModelHolds, TuiInv
      <4> QED
        BY <4>1, <4>2
    <3>3. CASE k # l
      BY <1>3, <2>1, <2>s, <3>1, <3>3 DEF Holds, ModelHolds, TuiInv, CursorsHold
    <3> QED
      BY <3>2, <3>3
  <2>5. ASSUME NEW t \in Stepping
        PROVE  \/ m'.cursor[t] = 0
               \/ m'.cursor[t] < Cardinality(table'[t]) - (IF Deleting(t)' THEN 1 ELSE 0)
               \/ Shrinks(t)'
    <3>1. /\ t \in Tables /\ t \in Lists /\ t # "server" /\ m.cursor[t] \in Nat /\ Len(m.rows[t]) \in Nat
          /\ Cardinality(table[t]) \in Nat /\ ~Deleting(t) /\ ~Deleting(t)'
      BY <2>1, TableCount DEF Stepping, Lists, Tables, Holds, ModelHolds, TuiInv, Sequence, Deleting
    <3>2. CASE t = l
      <4>1. m.cursor[t] + 1 < Len(m.rows[t])
        BY <3>1, <3>2 DEF Down, Shown
      <4>2. m.rows[t] = <<>> \/ m.rows[t] = Listed(table[t]) \/ Shrinks(t)'
        BY <2>2, <2>s, <3>1 DEF True, TableOf, Tables, Hidden
      <4>3. m.rows[t] = <<>> \/ Len(m.rows[t]) = Cardinality(table[t]) \/ Shrinks(t)'
        BY <3>1, <4>2, ListedLen, TableCount DEF TuiInv
      <4> QED
        BY <1>3, <3>1, <3>2, <4>1, <4>3, EmptyLen DEF Holds, ModelHolds, TuiInv
    <3>3. CASE t # l
      BY <1>3, <2>1, <2>s, <3>1, <3>3 DEF Holds, ModelHolds, TuiInv, CursorsHold
    <3> QED
      BY <3>2, <3>3
  <2>6. CursorsHold'
    BY <2>1, <2>4, <2>5 DEF CursorsHold
  <2> QED
    BY <2>3, <2>6
<1>5. ClampedListsHold'
  BY <1>3 DEF ClampedListsHold
<1> QED
  BY <1>2, <1>3, <1>4, <1>5 DEF TuiInv

LEMMA DeletesInv ==
  ASSUME TuiInv, m.end = "no", NEW t \in Stepping, NEW row, m.rows[t] # <<>>, m.cursor[t] < Len(m.rows[t]),
         NEW k, k = (IF m.cursor[t] >= Len(m.rows[t]) - 1 /\ m.cursor[t] > 0 THEN m.cursor[t] - 1 ELSE m.cursor[t]),
         BecomesAnd([m EXCEPT !.cursor[t] = k], Command("delete", t, row)), UNCHANGED <<table, elsewhere>>, confirmed \subseteq confirmed'
  PROVE  TuiInv'
<1> DEFINE n == [m EXCEPT !.cursor[t] = k]
           c == Command("delete", t, row)
<1>0. /\ t \in Tables /\ t \in Lists /\ t # "server" /\ m.cursor[t] \in Nat /\ Len(m.rows[t]) \in Nat
      /\ Cardinality(table[t]) \in Nat /\ IsFiniteSet(table[t])
  BY TableCount DEF Stepping, Lists, Tables, Holds, ModelHolds, TuiInv, Sequence
<1>1. /\ n.cursor = [m.cursor EXCEPT ![t] = k] /\ n.rows = m.rows
      /\ n.startAt = m.startAt /\ n.end = "no" /\ Holds(n) /\ n.screen = m.screen /\ k \in Nat /\ k <= m.cursor[t]
  <2>1. k \in Nat /\ k <= m.cursor[t]
    BY <1>0
  <2> QED
    BY <1>0, <2>1 DEF TuiInv, Holds, ModelHolds, Lists, Tables
<1>2. CommandHolds(c) /\ c.op = "delete" /\ c.table = t /\ c.stage = "run"
  BY <1>0 DEF Command, CommandHolds, Reading, Stepping
<1>3. m' = Landed(n) /\ Issue(c)
  BY DEF BecomesAnd
<1> HIDE DEF n, c
<1>4. /\ Holds(m') /\ m'.rows = m.rows /\ m'.cursor = [m.cursor EXCEPT ![t] = k] /\ m'.end = "no"
      /\ m'.startAt = m.startAt /\ Near(m'.screen.of)
  BY <1>1, <1>3, LandedHolds, LandedNear DEF Near
<1>5. ASSUME Calm' PROVE ListsHold' /\ CursorsHold'
  <2>1. ListsHold /\ CursorsHold /\ cmds = {} /\ cmds' = {c}
    BY <1>3, <1>5 DEF TuiInv, Calm, Issue
  <2>2. \A u \in Tables : True(u, m.rows[u]) \/ Hidden(u)
    BY <2>1 DEF ListsHold, Renewed
  <2>s. \A l : Shrinks(l) => Shrinks(l)'
    BY <1>4, ShrinksOn
  <2>3. ListsHold'
    <3>1. \A u \in Tables : True(u, m.rows[u])' \/ Hidden(u)'
      BY <1>4, <2>2, ShrinksOn DEF True
    <3> QED
      BY <1>0, <1>2, <2>1, <3>1 DEF ListsHold
  <2>4. ASSUME NEW l \in Stepping \cup {"picker"}
        PROVE  m'.rows[l] = <<>> \/ m'.cursor[l] = 0 \/ m'.cursor[l] < Len(m'.rows[l]) \/ Shrinks(l)'
    <3>1. l \in Lists /\ m.cursor[l] \in Nat /\ Len(m.rows[l]) \in Nat
      BY DEF Stepping, Lists, Tables, Holds, ModelHolds, TuiInv, Sequence
    <3>2. m'.cursor[l] = m.cursor[l] \/ (l = t /\ m'.cursor[l] = k)
      BY <1>0, <1>4, <3>1 DEF Holds, ModelHolds, TuiInv
    <3> QED
      BY <1>0, <1>1, <1>4, <2>1, <2>s, <3>1, <3>2 DEF CursorsHold
  <2>5. ASSUME NEW u \in Stepping
        PROVE  \/ m'.cursor[u] = 0
               \/ m'.cursor[u] < Cardinality(table'[u]) - (IF Deleting(u)' THEN 1 ELSE 0)
               \/ Shrinks(u)'
    <3>1. /\ u \in Tables /\ u \in Lists /\ m.cursor[u] \in Nat
          /\ Cardinality(table[u]) \in Nat /\ ~Deleting(u) /\ (Deleting(u)' <=> u = t)
      BY <1>2, <2>1, TableCount DEF Stepping, Lists, Tables, Holds, ModelHolds, TuiInv, Deleting
    <3>2. CASE u = t
      <4>1. m.rows[t] = <<>> \/ m.rows[t] = Listed(table[t]) \/ Shrinks(t)'
        BY <1>0, <2>2, <2>s DEF True, TableOf, Tables, Hidden
      <4>2. Len(m.rows[t]) = Cardinality(table[t]) \/ Shrinks(t)'
        BY <1>0, <4>1, ListedLen
      <4>3. m'.cursor[t] = k
        BY <1>0, <1>4 DEF Holds, ModelHolds, TuiInv
      <4>4. k = 0 \/ k < Len(m.rows[t]) - 1
        BY <1>0
      <4> QED
        BY <3>1, <3>2, <4>2, <4>3, <4>4
    <3>3. CASE u # t
      BY <1>4, <2>1, <2>s, <3>1, <3>3 DEF Holds, ModelHolds, TuiInv, CursorsHold
    <3> QED
      BY <3>2, <3>3
  <2>6. CursorsHold'
    BY <1>2, <2>1, <2>4, <2>5 DEF CursorsHold
  <2> QED
    BY <2>3, <2>6
<1>6. ClampedListsHold'
  BY <1>4 DEF ClampedListsHold
<1>7. \A d \in cmds' : CommandHolds(d)
  BY <1>2, <1>3 DEF TuiInv, Issue
<1> QED
  BY <1>4, <1>5, <1>6, <1>7 DEF TuiInv

(* Where an index may run beyond its list. *)
Excused ==
  \/ ~Calm
  \/ m.screen \in {List("profile"), List("plugin")} \/ m.form.overlay = "gateway"
  \/ Cascades /\ m.screen \in {List(t) : t \in Dependent}

LEMMA EndsInv ==
  ASSUME TuiInv, m.end = "no", NEW how \in {"quit", "chosen", "panic"}, Ends(how), UNCHANGED <<table, elsewhere>>,
         confirmed \subseteq confirmed', how = "panic" => Excused
  PROVE  TuiInv'
<1>1. DOMAIN m = {"startAt", "screen", "rows", "filtered", "cursor", "query", "form", "doomed", "end"}
  BY DEF TuiInv, Holds, ModelHolds
<1>2. m'.end = how
  BY <1>1 DEF Ends
<1>3. how = "panic" => m'.screen = m.screen /\ m'.form = m.form /\ m'.startAt = m.startAt
  BY <1>1 DEF Ends
<1>4. hasty' = hasty
  BY DEF Ends
<1>5. ClampedListsHold'
  BY <1>2, <1>3, <1>4 DEF ClampedListsHold, Calm, Excused, Cascades
<1> QED
  BY <1>2, <1>5 DEF TuiInv

-----------------------------------------------------------------------------
(* Commands.                                                               *)

(* The deletion of a server, with what goes along. *)
Takes(c) ==
  /\ c.op = "delete" /\ c.table = "server"
  /\ \E gone \in SUBSET TakesAlong(c.row) : table' = Without(gone \cup {<<"server", c.row>>})

LEMMA TakesEffect ==
  ASSUME table \in [Tables -> Rows], NEW c, Takes(c)
  PROVE  /\ table' \in [Tables -> Rows] /\ table'["server"] = table["server"] \ {c.row}
         /\ \A t \in Tables \ {"server"} : table'[t] = table[t] \/ (t \in Dependent /\ m.startAt \in Creator)
<1>1. PICK gone \in SUBSET TakesAlong(c.row) : table' = Without(gone \cup {<<"server", c.row>>})
  BY DEF Takes
<1>2. table' \in [Tables -> Rows]
  BY <1>1 DEF Without, Rows
<1>3. \A x \in gone : x[1] \in Dependent /\ m.startAt \in Creator
  BY DEF TakesAlong
<1>4. "server" \in Tables /\ "server" \notin Dependent
  BY DEF Tables, Dependent
<1>5. table'["server"] = table["server"] \ {c.row}
  BY <1>1, <1>3, <1>4 DEF Without
<1>6. ASSUME NEW t \in Tables \ {"server"}
      PROVE  table'[t] = table[t] \/ (t \in Dependent /\ m.startAt \in Creator)
  BY <1>1, <1>3 DEF Without
<1> QED
  BY <1>2, <1>5, <1>6

LEMMA RunsEffect ==
  ASSUME TuiInv, NEW c \in cmds, CommandHolds(c), Runs(c)
  PROVE  /\ c.stage = "run" /\ cmds' = (cmds \ {c}) \cup {[c EXCEPT !.stage = "list"]}
         /\ UNCHANGED <<m, issued, elsewhere, confirmed, hasty>>
         /\ ~Silent(c) /\ ~ReportsFailure(c)
         /\ \/ UNCHANGED table /\ c.op # "delete"
            \/ \E r \in Ids : table' = [table EXCEPT ![c.table] = @ \cup {r}] /\ c.op # "delete"
            \/ table' = [table EXCEPT ![c.table] = @ \ {c.row}] /\ c.op = "delete"
            \/ Takes(c)
<1>1. c.op \notin Reading
  BY DEF CommandHolds, Runs
<1>2. CASE deleteServerCmd(c)
  BY <1>1, <1>2 DEF Runs, deleteServerCmd, Replaces, Silent, ReportsFailure, Takes
<1>3. CASE ~deleteServerCmd(c)
  BY <1>1, <1>3
  DEF Runs, submitServerForm, submitGatewayForm, submitClusterForm, submitHostForm,
     submitTunnelForm, submitAppServerForm, submitProfileForm,
     deleteGatewayCmd, deleteClusterCmd, deleteHostCmd,
     deleteTunnelCmd, deleteAppServerCmd, deleteProfileCmd,
     tunnelStartCmd, tunnelStopCmd, activateProfileCmd, deactivateProfileCmd,
     Saves, Drops, Affects, Replaces, Silent, ReportsFailure, Reading
<1> QED
  BY <1>2, <1>3

LEMMA RunsInv ==
  ASSUME TuiInv, m.end = "no", NEW c \in cmds, Runs(c)
  PROVE  TuiInv'
<1> DEFINE d == [c EXCEPT !.stage = "list"]
<1>0. CommandHolds(c)
  BY DEF TuiInv
<1>1. /\ c.stage = "run" /\ cmds' = (cmds \ {c}) \cup {d}
      /\ UNCHANGED <<m, issued, elsewhere, confirmed, hasty>>
      /\ ~Silent(c) /\ ~ReportsFailure(c)
      /\ \/ UNCHANGED table /\ c.op # "delete"
         \/ \E r \in Ids : table' = [table EXCEPT ![c.table] = @ \cup {r}] /\ c.op # "delete"
         \/ table' = [table EXCEPT ![c.table] = @ \ {c.row}] /\ c.op = "delete"
         \/ Takes(c)
  BY <1>0, RunsEffect
<1>2. d.stage = "list" /\ d.table = c.table /\ d.op = c.op /\ CommandHolds(d) /\ c.table \in Tables
  BY <1>0 DEF CommandHolds
<1>3. ~Silent(d) /\ ~ReportsFailure(d)
  BY <1>1, <1>2 DEF Silent, ReportsFailure
<1> HIDE DEF d
<1>4. table' \in [Tables -> Rows]
  <2>1. CASE Takes(c)
    BY <2>1, TakesEffect DEF TuiInv
  <2>2. CASE ~Takes(c)
    BY <1>1, <1>2, <2>2 DEF TuiInv, Rows
  <2> QED
    BY <2>1, <2>2
<1>5. \A t \in Tables \ {c.table} :
        \/ table'[t] = table[t]
        \/ t \in Dependent /\ m.startAt \in Creator /\ c.op = "delete" /\ c.table = "server"
  <2>1. CASE Takes(c)
    BY <2>1, TakesEffect DEF TuiInv, Takes
  <2>2. CASE ~Takes(c)
    BY <1>1, <1>2, <2>2 DEF TuiInv
  <2> QED
    BY <2>1, <2>2
<1>6. Cardinality(table'[c.table]) >= Cardinality(table[c.table]) - (IF c.op = "delete" THEN 1 ELSE 0)
  <2>1. IsFiniteSet(table[c.table]) /\ Cardinality(table[c.table]) \in Nat
    BY <1>2, TableCount DEF TuiInv
  <2>2. \/ table'[c.table] = table[c.table] /\ c.op # "delete"
        \/ \E r : table'[c.table] = table[c.table] \cup {r} /\ c.op # "delete"
        \/ table'[c.table] = table[c.table] \ {c.row} /\ c.op = "delete"
    <3>1. CASE Takes(c)
      BY <3>1, TakesEffect DEF TuiInv, Takes
    <3>2. CASE ~Takes(c)
      BY <1>1, <1>2, <3>2 DEF TuiInv
    <3> QED
      BY <3>1, <3>2
  <2>3. \A r : /\ Cardinality(table[c.table] \cup {r}) >= Cardinality(table[c.table])
               /\ Cardinality(table[c.table] \ {r}) >= Cardinality(table[c.table]) - 1
    <3>1. ASSUME NEW r PROVE Cardinality(table[c.table] \cup {r}) >= Cardinality(table[c.table])
      BY <2>1, Added
    <3>2. ASSUME NEW r PROVE Cardinality(table[c.table] \ {r}) >= Cardinality(table[c.table]) - 1
      BY <2>1, FS_RemoveElement
    <3> QED
      BY <3>1, <3>2
  <2>4. CASE c.op = "delete"
    BY <2>2, <2>3, <2>4
  <2>5. CASE c.op # "delete"
    <3>1. Cardinality(table'[c.table]) >= Cardinality(table[c.table])
      <4>1. CASE table'[c.table] = table[c.table]
        BY <2>1, <4>1
      <4>2. CASE \E r : table'[c.table] = table[c.table] \cup {r}
        BY <2>3, <4>2
      <4> QED
        BY <2>2, <2>5, <4>1, <4>2
    <3>2. Cardinality(table'[c.table]) \in Nat
      BY <1>2, <1>4, IdsFinite DEF Rows
    <3> QED
      BY <2>1, <2>5, <3>1, <3>2
  <2> QED
    BY <2>4, <2>5
<1>7. ASSUME Calm' PROVE ListsHold' /\ CursorsHold'
  <2>1. ListsHold /\ CursorsHold
    BY <1>1, <1>7 DEF TuiInv, Calm
  <2>2. cmds = {c} /\ cmds' = {d}
    BY <1>1, <2>1 DEF ListsHold
  <2>h. ASSUME NEW t \in Tables \ {c.table} PROVE table'[t] = table[t] \/ (Hidden(t)' /\ Shrinks(t)')
    BY <1>1, <1>5, <2>1, <2>2 DEF ListsHold, Hidden, Shrinks, Cascades
  <2>s. /\ \A t : Shrinks(t)' <=> Shrinks(t)
        /\ \A t : Hidden(t)' <=> Hidden(t)
    BY <1>1 DEF Hidden, Shrinks, Cascades
  <2>3. ListsHold'
    <3>1. ASSUME NEW t \in Tables PROVE True(t, m.rows[t])' \/ Renewed(t)' \/ Hidden(t)'
      <4>1. CASE t = c.table
        BY <1>2, <1>3, <2>2, <4>1 DEF Renewed, Silent, ReportsFailure
      <4>2. CASE t # c.table /\ ~Hidden(t)'
        <5>1. True(t, m.rows[t])
          BY <2>1, <2>2, <2>s, <4>2 DEF ListsHold, Renewed
        <5>2. table'[t] = table[t] /\ TableOf(t) = t
          BY <2>h, <4>2 DEF TableOf, Tables
        <5> QED
          BY <1>1, <5>1, <5>2 DEF True
      <4> QED
        BY <4>1, <4>2
    <3>2. d.op = "delete" /\ d.table = "server" => confirmed' # {} /\ m'.screen.of \notin Dependent
      BY <1>1, <1>2, <2>1, <2>2 DEF ListsHold
    <3> QED
      BY <1>2, <2>2, <3>1, <3>2 DEF ListsHold
  <2>4. ASSUME NEW t \in Stepping
        PROVE  \/ m'.cursor[t] = 0
               \/ m'.cursor[t] < Cardinality(table'[t]) - (IF Deleting(t)' THEN 1 ELSE 0)
               \/ Shrinks(t)'
    <3>1. /\ t \in Tables /\ m.cursor[t] \in Nat /\ Cardinality(table[t]) \in Nat /\ Cardinality(table'[t]) \in Nat
      <4>1. Cardinality(table'[t]) \in Nat
        BY <1>4, IdsFinite DEF Rows, Stepping, Tables
      <4> QED
        BY <4>1, TableCount DEF Stepping, Lists, Tables, Holds, ModelHolds, TuiInv
    <3>2. ~Deleting(t)' /\ (Deleting(t) <=> c.op = "delete" /\ c.table = t)
      BY <1>1, <1>2, <2>2 DEF Deleting
    <3>3. \/ m.cursor[t] = 0
          \/ m.cursor[t] < Cardinality(table[t]) - (IF Deleting(t) THEN 1 ELSE 0)
          \/ Shrinks(t)'
      BY <2>1, <2>s DEF CursorsHold
    <3>4. CASE t = c.table
      BY <1>1, <1>6, <3>1, <3>2, <3>3, <3>4
    <3>5. CASE t # c.table
      BY <1>1, <2>h, <3>1, <3>2, <3>3, <3>5
    <3> QED
      BY <3>4, <3>5
  <2>5. CursorsHold'
    BY <1>1, <1>3, <2>1, <2>2, <2>4, <2>s DEF CursorsHold, Silent
  <2> QED
    BY <2>3, <2>5
<1> QED
  BY <1>1, <1>2, <1>4, <1>7 DEF TuiInv, ClampedListsHold, Cascades

LEMMA FailsInv ==
  ASSUME TuiInv, m.end = "no", NEW c \in cmds, Fails(c)
  PROVE  TuiInv'
<1>1. cmds' = cmds \ {c} /\ UNCHANGED <<m, issued, table, elsewhere, confirmed, hasty>>
  BY DEF Fails
<1>2. ASSUME Calm' PROVE ListsHold' /\ CursorsHold'
  <2>1. ListsHold /\ CursorsHold
    BY <1>1, <1>2 DEF TuiInv, Calm
  <2>2. cmds = {c} /\ cmds' = {}
    BY <1>1, <2>1 DEF ListsHold
  <2>s. \A t : (Shrinks(t)' <=> Shrinks(t)) /\ (Hidden(t)' <=> Hidden(t))
    BY <1>1 DEF Hidden, Shrinks, Cascades
  <2>3. \A t \in Tables : True(t, m.rows[t]) \/ Hidden(t)
    BY <2>1, <2>2 DEF ListsHold, Renewed, Fails
  <2>4. ListsHold'
    BY <1>1, <2>2, <2>3, <2>s DEF ListsHold, True
  <2>5. CursorsHold'
    <3>1. ASSUME NEW t \in Stepping
          PROVE  m.cursor[t] \in Nat /\ Cardinality(table[t]) \in Nat /\ ~Deleting(t)'
      BY <2>2, TableCount DEF Stepping, Lists, Tables, Holds, ModelHolds, TuiInv, Deleting
    <3>2. ASSUME NEW t \in Stepping
          PROVE  \/ m'.cursor[t] = 0
                 \/ m'.cursor[t] < Cardinality(table'[t]) - (IF Deleting(t)' THEN 1 ELSE 0)
                 \/ Shrinks(t)'
      BY <1>1, <2>1, <2>s, <3>1 DEF CursorsHold
    <3> QED
      BY <1>1, <2>1, <2>2, <2>s, <3>2 DEF CursorsHold
  <2> QED
    BY <2>4, <2>5
<1> QED
  BY <1>1, <1>2 DEF TuiInv, ClampedListsHold, Cascades

LEMMA ReadsBackInv ==
  ASSUME TuiInv, m.end = "no", NEW c \in cmds, ReadsBack(c)
  PROVE  TuiInv'
<1>0. CommandHolds(c) /\ c.stage = "list"
  BY DEF TuiInv, ReadsBack
<1>1. PICK lost \in SUBSET Reads(c) :
        Replaces(c, [c EXCEPT !.stage = "answer",
                      !.answer = [l \in Reads(c) |->
                                      IF l \in lost THEN <<>>
                                      ELSE Listed(table[IF l = "picker" THEN "plugin" ELSE l])]])
  BY DEF ReadsBack
<1>a. PICK a : a = [l \in Reads(c) |-> IF l \in lost THEN <<>>
                                          ELSE Listed(table[IF l = "picker" THEN "plugin" ELSE l])]
  OBVIOUS
<1>d. PICK d : d = [c EXCEPT !.stage = "answer", !.answer = a]
  OBVIOUS
<1>2. cmds' = (cmds \ {c}) \cup {d} /\ UNCHANGED <<m, issued, table, elsewhere, confirmed, hasty>>
  BY <1>1, <1>a, <1>d DEF ReadsBack, Replaces
<1>3. Reads(c) \subseteq Tables \cup {"picker"}
  BY <1>0 DEF Reads, CommandHolds, Tables
<1>4. \A l \in Reads(c) : True(l, a[l]) /\ Sequence(a[l])
  <2>1. ASSUME NEW l \in Reads(c) PROVE True(l, a[l]) /\ Sequence(a[l])
    <3>1. a[l] = <<>> \/ a[l] = Listed(table[TableOf(l)])
      BY <1>a DEF TableOf
    <3>2. TableOf(l) \in Tables
      BY <1>3 DEF TableOf, Tables
    <3>3. Sequence(Listed(table[TableOf(l)]))
      BY <3>2, TableCount, ListedLen DEF TuiInv
    <3> QED
      BY <3>1, <3>3, EmptyLen DEF True
  <2> QED
    BY <2>1
<1>5. DOMAIN a = Reads(c)
  BY <1>a
<1>6. /\ d.stage = "answer" /\ d.table = c.table /\ d.op = c.op /\ d.answer = a
      /\ DOMAIN d = DOMAIN c
  BY <1>0, <1>d DEF CommandHolds
<1>7. Reads(d) = Reads(c) /\ (Silent(d) <=> Silent(c)) /\ (ReportsFailure(d) <=> ReportsFailure(c))
  BY <1>6 DEF Reads, Silent, ReportsFailure
<1>8. CommandHolds(d)
  BY <1>0, <1>4, <1>5, <1>6, <1>7 DEF CommandHolds
<1>9. ASSUME Calm' PROVE ListsHold' /\ CursorsHold'
  <2>1. ListsHold /\ CursorsHold
    BY <1>2, <1>9 DEF TuiInv, Calm
  <2>2. cmds = {c} /\ cmds' = {d}
    BY <1>2, <2>1 DEF ListsHold
  <2>s. \A t : (Shrinks(t)' <=> Shrinks(t)) /\ (Hidden(t)' <=> Hidden(t))
    BY <1>2 DEF Hidden, Shrinks, Cascades
  <2>3. ListsHold'
    <3>1. \A t \in Tables : Renewed(t) => Renewed(t)'
      BY <1>6, <1>7, <2>2 DEF Renewed
    <3>2. \A t \in Tables : True(t, m.rows[t])' \/ Renewed(t)' \/ Hidden(t)'
      BY <1>2, <2>1, <2>s, <3>1 DEF ListsHold, True
    <3>3. \A l \in Reads(d) : True(l, d.answer[l])'
      BY <1>2, <1>4, <1>6, <1>7 DEF True
    <3>4. d.op = "delete" /\ d.table = "server" => confirmed' # {} /\ m'.screen.of \notin Dependent
      BY <1>2, <1>6, <2>1, <2>2 DEF ListsHold
    <3> QED
      BY <2>2, <3>2, <3>3, <3>4 DEF ListsHold
  <2>4. CursorsHold'
    <3>1. \A t \in Stepping : Deleting(t)' <=> Deleting(t)
      BY <1>0, <1>6, <2>2 DEF Deleting
    <3>2. ASSUME NEW t \in Stepping
          PROVE  \/ m'.cursor[t] = 0
                 \/ m'.cursor[t] < Cardinality(table'[t]) - (IF Deleting(t)' THEN 1 ELSE 0)
                 \/ Shrinks(t)'
      BY <1>2, <2>1, <2>s, <3>1 DEF CursorsHold
    <3> QED
      BY <1>2, <1>6, <2>1, <2>2, <2>s, <3>2 DEF CursorsHold
  <2> QED
    BY <2>3, <2>4
<1> QED
  BY <1>2, <1>8, <1>9 DEF TuiInv, ClampedListsHold, Cascades

LEMMA ElsewhereInv ==
  ASSUME TuiInv, m.end = "no", NEW t \in Tables, NEW r \in Ids, Elsewhere(t, r)
  PROVE  TuiInv'
<1>1. table' \in [Tables -> Rows]
  BY DEF TuiInv, Elsewhere, Rows
<1>2. ~Calm'
  BY DEF Elsewhere, Calm
<1> QED
  BY <1>1, <1>2 DEF TuiInv, Elsewhere, ClampedListsHold, Cascades

LEMMA SilentReads ==
  ASSUME NEW c, CommandHolds(c), Silent(c) PROVE "server" \notin Reads(c)
BY DEF CommandHolds, Silent, Reads

(* The Model that an answer makes before what was left is put away. *)
LEMMA AnsweredHolds ==
  ASSUME Holds(m), m.end = "no", NEW c, CommandHolds(c), c.stage = "answer", NEW n \in Answered(c)
  PROVE  /\ ModelHolds(n) /\ n.end = "no" /\ n.startAt = m.startAt
         /\ n.screen.kind = "form" => FormHolds(n.form, n.rows["server"])
         /\ n.rows = [l \in Lists |-> IF l \in Reads(c) THEN c.answer[l] ELSE m.rows[l]]
         /\ \A l \in Lists \ {"server", "plugin"} : n.cursor[l] = m.cursor[l]
         /\ n.screen.of \in Dependent => n.screen.of = m.screen.of \/ n.screen.of \in Reads(c)
<1> DEFINE R == [l \in Lists |-> IF l \in DOMAIN c.answer THEN c.answer[l] ELSE m.rows[l]]
           b == [m EXCEPT !.rows = R]
<1>1. DOMAIN R = Lists /\ (\A l \in Lists : Sequence(R[l]))
  BY DEF CommandHolds, Holds, ModelHolds
<1>2. R = [l \in Lists |-> IF l \in Reads(c) THEN c.answer[l] ELSE m.rows[l]]
  BY DEF CommandHolds
<1>3. \/ Silent(c) /\ n = b
      \/ ~Silent(c) /\ n = [b EXCEPT !.doomed = c.row, !.screen = At("view", "plugin")]
      \/ ~Silent(c) /\ n = [b EXCEPT !.cursor["plugin"] = 0, !.screen = List("plugin")]
      \/ ~Silent(c) /\ \E S \in SUBSET Ids : n = [applyFilter(b, S) EXCEPT !.query = "none", !.screen = List("server")]
      \/ ~Silent(c) /\ c.table \in Reads(c) /\ n = [b EXCEPT !.screen = List(c.table)]
  <2>1. CASE Silent(c)
    <3>1. n \in {b}
      BY <2>1 DEF Answered, Silent
    <3> QED
      BY <2>1, <3>1
  <2>2. CASE ~Silent(c) /\ c.op = "edit"
    <3>1. c.table = "plugin"
      BY <2>2 DEF CommandHolds
    <3>2. n \in {[b EXCEPT !.doomed = c.row, !.screen = At("view", "plugin")]}
      BY <2>2, <3>1 DEF Answered
    <3> QED
      BY <2>2, <3>2
  <2>3. CASE ~Silent(c) /\ c.op # "edit" /\ c.table = "plugin"
    <3>1. c.op = "load"
      BY <2>3 DEF CommandHolds, Silent
    <3>2. n \in {[b EXCEPT !.cursor["plugin"] = 0, !.screen = List("plugin")]}
      BY <2>3, <3>1 DEF Answered
    <3> QED
      BY <2>3, <3>2
  <2>4. CASE ~Silent(c) /\ c.op # "edit" /\ c.table = "server"
    <3>1. n \in {[applyFilter(b, S) EXCEPT !.query = "none", !.screen = List("server")] : S \in SUBSET Ids}
      BY <2>4 DEF Answered
    <3> HIDE DEF b
    <3> QED
      BY <2>4, <3>1
  <2>5. CASE ~Silent(c) /\ c.op # "edit" /\ c.table \notin {"plugin", "server"}
    BY <2>5 DEF Answered, Reads, Silent
  <2> QED
    BY <2>1, <2>2, <2>3, <2>4, <2>5
<1>4. Silent(c) => R["server"] = m.rows["server"]
  BY SilentReads DEF CommandHolds, Lists, Tables
<1>5. c.table \in Tables /\ "server" \in Lists /\ "plugin" \in Lists
  BY DEF CommandHolds, Lists, Tables
<1>6. PICK rows : rows = R
  OBVIOUS
<1> HIDE DEF R
<1> USE DEF Holds, ModelHolds, At, List, Kinds, Dependent
<1>7. CASE Silent(c) /\ n = b
  BY <1>1, <1>2, <1>4, <1>7
<1>8. CASE n = [b EXCEPT !.doomed = c.row, !.screen = At("view", "plugin")]
  BY <1>1, <1>2, <1>5, <1>8 DEF Tables
<1>9. CASE n = [b EXCEPT !.cursor["plugin"] = 0, !.screen = List("plugin")]
  BY <1>1, <1>2, <1>5, <1>9 DEF Tables
<1>10. CASE \E S \in SUBSET Ids : n = [applyFilter(b, S) EXCEPT !.query = "none", !.screen = List("server")]
  <2>1. PICK S \in SUBSET Ids : n = [applyFilter(b, S) EXCEPT !.query = "none", !.screen = List("server")]
    BY <1>10
  <2>2. PICK F : F = (IF b.query = "word" THEN Listed(S \cap ToSet(b.rows["server"])) ELSE b.rows["server"])
    OBVIOUS
  <2>3. Sequence(F)
    <3>1. Sequence(Listed(S \cap ToSet(b.rows["server"])))
      BY IdsFinite, ListedLen
    <3> QED
      BY <1>1, <1>5, <2>2, <3>1
  <2>4. n = [[[[b EXCEPT !.filtered = F] EXCEPT !.cursor["server"] = 0] EXCEPT !.query = "none"] EXCEPT !.screen = List("server")]
    BY <2>1, <2>2 DEF applyFilter, applyFilterKeeps
  <2> QED
    BY <1>1, <1>2, <1>5, <2>3, <2>4 DEF Tables
<1>11. CASE c.table \in Reads(c) /\ n = [b EXCEPT !.screen = List(c.table)]
  BY <1>1, <1>2, <1>5, <1>11
<1> QED
  BY <1>3, <1>7, <1>8, <1>9, <1>10, <1>11

LEMMA UpdateInv ==
  ASSUME TuiInv, m.end = "no", NEW c \in cmds, Update(c)
  PROVE  TuiInv'
<1>0. CommandHolds(c) /\ Holds(m) /\ c.stage = "answer"
  BY DEF TuiInv, Update
<1>1. PICK n \in Answered(c) : m' = Tidy(n)
  BY DEF Update
<1>2. cmds' = cmds \ {c} /\ UNCHANGED <<issued, table, elsewhere, confirmed, hasty>>
  BY DEF Update
<1>3. /\ ModelHolds(n) /\ n.end = "no" /\ n.startAt = m.startAt
      /\ n.screen.kind = "form" => FormHolds(n.form, n.rows["server"])
      /\ n.rows = [l \in Lists |-> IF l \in Reads(c) THEN c.answer[l] ELSE m.rows[l]]
      /\ \A l \in Lists \ {"server", "plugin"} : n.cursor[l] = m.cursor[l]
      /\ n.screen.of \in Dependent => n.screen.of = m.screen.of \/ n.screen.of \in Reads(c)
  BY <1>0, AnsweredHolds
<1>4. /\ Holds(m)' /\ m'.end = "no"
      /\ m'.rows = [l \in Lists |-> IF l \in Reads(c) THEN c.answer[l] ELSE m.rows[l]]
      /\ \A l \in Lists \ {"server", "plugin"} : m'.cursor[l] = m.cursor[l]
      /\ m'.startAt = m.startAt /\ m'.screen = n.screen
  BY <1>1, <1>3, TidyHolds
<1>5. ASSUME Calm' PROVE ListsHold' /\ CursorsHold'
  <2>1. ListsHold /\ CursorsHold
    BY <1>2, <1>5 DEF TuiInv, Calm
  <2>2. cmds = {c} /\ cmds' = {}
    BY <1>2, <2>1 DEF ListsHold
  <2>s. \A t : Shrinks(t)' <=> Shrinks(t)
    BY <1>2, <1>4 DEF Shrinks, Cascades
  <2>3. ASSUME NEW t \in Tables PROVE True(t, m'.rows[t]) \/ Hidden(t)'
    <3>1. CASE t \in Reads(c)
      BY <1>0, <1>4, <2>1, <2>2, <3>1 DEF ListsHold, Lists
    <3>2. CASE t \notin Reads(c)
      <4>1. ~Renewed(t)
        BY <2>2, <3>2 DEF Renewed, Silent, Reads
      <4>2. Hidden(t) => Hidden(t)'
        BY <1>3, <1>4, <2>s, <3>2 DEF Hidden, Shrinks
      <4> QED
        BY <1>4, <2>1, <3>2, <4>1, <4>2 DEF ListsHold, Lists
    <3> QED
      BY <3>1, <3>2
  <2>4. ListsHold'
    <3>1. \A t \in Tables : True(t, m.rows[t])' \/ Hidden(t)'
      BY <1>2, <2>3 DEF True
    <3> QED
      BY <2>2, <3>1 DEF ListsHold
  <2>5. ASSUME NEW t \in Stepping
        PROVE  /\ t \in Tables /\ t \in Lists /\ t \notin {"server", "plugin"} /\ m'.cursor[t] = m.cursor[t] /\ m.cursor[t] \in Nat
               /\ Cardinality(table[t]) \in Nat /\ Len(Listed(table[t])) = Cardinality(table[t])
               /\ ~Deleting(t)'
    BY <1>4, <2>2, TableCount, ListedLen DEF Stepping, Lists, Tables, Holds, ModelHolds, TuiInv, Deleting
  <2>6. ASSUME NEW t \in Stepping
        PROVE  m'.cursor[t] = 0 \/ m'.cursor[t] < Cardinality(table[t]) \/ Shrinks(t)'
    BY <2>1, <2>5, <2>s DEF CursorsHold
  <2>7. ASSUME NEW l \in Stepping \cup {"picker"}
        PROVE  m'.rows[l] = <<>> \/ m'.cursor[l] = 0 \/ m'.cursor[l] < Len(m'.rows[l]) \/ Shrinks(l)'
    <3>1. CASE l \in Stepping
      <4>1. m'.rows[l] = <<>> \/ m'.rows[l] = Listed(table[l]) \/ Shrinks(l)'
        BY <2>3, <2>5, <3>1 DEF True, TableOf, Stepping, Hidden
      <4> QED
        BY <2>5, <2>6, <3>1, <4>1
    <3>2. CASE l = "picker"
      <4>1. "picker" \in Lists \ {"server", "plugin"}
        BY DEF Lists
      <4>s. ~Shrinks(l)
        BY <3>2 DEF Shrinks, Dependent
      <4>2. CASE c.op = "plugins"
        BY <1>4, <2>1, <2>2, <3>2, <4>1, <4>2 DEF CursorsHold
      <4>3. CASE c.op # "plugins"
        <5>1. "picker" \notin Reads(c)
          BY <1>0, <4>3 DEF Reads, CommandHolds, Tables
        <5> QED
          BY <1>4, <2>1, <3>2, <4>1, <4>s, <5>1 DEF CursorsHold
      <4> QED
        BY <4>2, <4>3
    <3> QED
      BY <3>1, <3>2
  <2>8. ASSUME NEW t \in Stepping
        PROVE  \/ m'.cursor[t] = 0
               \/ m'.cursor[t] < Cardinality(table'[t]) - (IF Deleting(t)' THEN 1 ELSE 0)
               \/ Shrinks(t)'
    BY <1>2, <2>5, <2>6
  <2>9. CursorsHold'
    BY <2>2, <2>7, <2>8 DEF CursorsHold
  <2> QED
    BY <2>4, <2>9
<1>6. ClampedListsHold'
  BY <1>4 DEF ClampedListsHold
<1> QED
  BY <1>2, <1>4, <1>5, <1>6 DEF TuiInv

LEMMA EditorInv ==
  ASSUME TuiInv, m.end = "no", updatePluginDetail
  PROVE  TuiInv'
<1>0. Holds(m)
  BY DEF TuiInv
<1>c. confirmed' = confirmed
  BY DEF updatePluginDetail
<1>1. CASE Quits /\ UNCHANGED table
  BY <1>1, EndsInv DEF updatePluginDetail, Quits
<1>2. CASE Goes(List("plugin")) /\ UNCHANGED table
  <2>1. KeyStep([m EXCEPT !.screen = List("plugin")])
    BY <1>0 DEF KeyStep, Near, Dependent, Holds, ModelHolds, List, At, Kinds, Tables
  <2> QED
    BY <1>2, <2>1, BecomesInv DEF Goes, updatePluginDetail
<1>3. ASSUME NEW S \in {table["plugin"], table["plugin"] \ {m.doomed}}, NEW failed \in BOOLEAN,
             table' = [table EXCEPT !["plugin"] = S],
             BecomesAnd(m, [Command("edit", "plugin", IF failed \/ m.doomed \notin S THEN 0 ELSE m.doomed)
                                 EXCEPT !.stage = "answer",
                                        !.answer = [l \in {"plugin"} |-> IF failed THEN <<>> ELSE Listed(S)]])
      PROVE  TuiInv'
  <2>a. PICK a : a = [l \in {"plugin"} |-> IF failed THEN <<>> ELSE Listed(S)]
    OBVIOUS
  <2>r. PICK r : r = (IF failed \/ m.doomed \notin S THEN 0 ELSE m.doomed)
    OBVIOUS
  <2>c. PICK c : c = [Command("edit", "plugin", r) EXCEPT !.stage = "answer", !.answer = a]
    OBVIOUS
  <2>s. PICK T : T = S
    OBVIOUS
  <2>1. BecomesAnd(m, c)
    BY <1>3, <2>a, <2>r, <2>c
  <2>2. T \in SUBSET Ids /\ table'["plugin"] = T /\ table' \in [Tables -> Rows] /\ (\A t \in Tables \ {"plugin"} : table'[t] = table[t])
    BY <1>3, <2>s DEF TuiInv, Rows, Tables
  <2>3. a["plugin"] \in {<<>>, Listed(T)} /\ DOMAIN a = {"plugin"} /\ Sequence(a["plugin"])
    BY <2>a, <2>s, <2>2, IdsFinite, ListedLen, EmptyLen
  <2>4. /\ c.op = "edit" /\ c.table = "plugin" /\ c.stage = "answer" /\ c.answer = a /\ ~Silent(c) /\ ~ReportsFailure(c)
        /\ Reads(c) = {"plugin"} /\ CommandHolds(c)
    <3>1. /\ c.op = "edit" /\ c.table = "plugin" /\ c.stage = "answer" /\ c.answer = a
          /\ DOMAIN c = {"n", "op", "table", "row", "valid", "stage", "answer"}
      BY <2>c DEF Command
    <3>2. ~Silent(c) /\ ~ReportsFailure(c) /\ Reads(c) = {"plugin"}
      BY <3>1 DEF Silent, ReportsFailure, Reads
    <3> QED
      BY <2>3, <3>1, <3>2 DEF CommandHolds, Reading, Tables
  <2>5. m' = Landed(m) /\ Issue(c) /\ elsewhere' = elsewhere
    BY <2>1 DEF BecomesAnd, updatePluginDetail
  <2>6. /\ Holds(m') /\ m'.rows = m.rows /\ m'.cursor = m.cursor /\ m'.end = "no"
        /\ m'.startAt = m.startAt /\ Near(m'.screen.of)
    BY <1>0, <2>5, LandedHolds, LandedNear DEF Near
  <2>h. \A t : (Shrinks(t) => Shrinks(t)') /\ (Hidden(t) => Hidden(t)')
    BY <1>c, <2>6, ShrinksOn
  <2>7. \A d \in cmds' : CommandHolds(d)
    BY <2>4, <2>5 DEF TuiInv, Issue
  <2>8. ASSUME Calm' PROVE ListsHold' /\ CursorsHold'
    <3>1. ListsHold /\ CursorsHold /\ cmds = {} /\ cmds' = {c}
      BY <2>5, <2>8 DEF TuiInv, Calm, Issue
    <3>2. ASSUME NEW t \in Tables PROVE True(t, m.rows[t])' \/ Renewed(t)' \/ Hidden(t)'
      <4>1. CASE t = "plugin"
        BY <2>4, <3>1, <4>1 DEF Renewed, Silent, ReportsFailure
      <4>2. CASE t # "plugin"
        <5>1. True(t, m.rows[t]) \/ Hidden(t)
          BY <3>1 DEF ListsHold, Renewed
        <5> QED
          BY <2>2, <2>6, <2>h, <4>2, <5>1 DEF True, TableOf, Tables
      <4> QED
        BY <4>1, <4>2
    <3>3. \A l \in Reads(c) : True(l, c.answer[l])'
      BY <2>2, <2>3, <2>4 DEF True, TableOf
    <3>4. ListsHold'
      BY <2>4, <3>1, <3>2, <3>3 DEF ListsHold
    <3>5. \A t \in Stepping : ~Deleting(t) /\ ~Deleting(t)' /\ table'[t] = table[t]
      BY <2>2, <2>4, <3>1 DEF Deleting, Stepping, Tables
    <3>6. CursorsHold'
      BY <2>4, <2>6, <2>h, <3>1, <3>5 DEF CursorsHold
    <3> QED
      BY <3>4, <3>6
  <2>9. ClampedListsHold'
    BY <2>6 DEF ClampedListsHold
  <2> QED
    BY <2>2, <2>6, <2>7, <2>8, <2>9 DEF TuiInv
<1> QED
  BY <1>1, <1>2, <1>3 DEF updatePluginDetail

-----------------------------------------------------------------------------
(* Keys.                                                                   *)

LEMMA NonEmpty == ASSUME NEW s, Sequence(s), s # <<>> PROVE Len(s) > 0
<1>1. Len(s) # 0
  <2> SUFFICES ASSUME Len(s) = 0 PROVE FALSE
    OBVIOUS
  <2>1. s = [i \in 1..0 |-> s[i]]
    BY DEF Sequence
  <2>2. 1..0 = {}
    OBVIOUS
  <2> QED
    BY <2>1, <2>2
<1> QED
  BY <1>1 DEF Sequence

Stepped(t) == IF m.cursor[t] >= Len(m.rows[t]) - 1 /\ m.cursor[t] > 0 THEN m.cursor[t] - 1 ELSE m.cursor[t]

(* What a key may do. *)
Moved == \E n : KeyStep(n) /\ Becomes(n)
Asked == \E n, c : /\ KeyStep(n) /\ Plain(c) /\ (c.op = "delete" => c.table # "server")
                   /\ c.op = "plugins" => n.cursor["picker"] = 0
                   /\ BecomesAnd(n, c)
Deleted == \E t \in Stepping : \E row : /\ m.rows[t] # <<>> /\ m.cursor[t] < Len(m.rows[t])
                                          /\ BecomesAnd([m EXCEPT !.cursor[t] = Stepped(t)], Command("delete", t, row))
Ended == \/ Ends("quit") \/ Ends("chosen")
         \/ Ends("panic") /\ Excused
Keyed == Moved \/ Asked \/ Deleted \/ Ended \/ \E l \in Lists : Down(l)

LEMMA KeyedInv == ASSUME TuiInv, m.end = "no", Keyed, UNCHANGED <<table, elsewhere>>, confirmed \subseteq confirmed' PROVE TuiInv'
<1>1. CASE Moved
  BY <1>1, BecomesInv DEF Moved
<1>2. CASE Asked
  BY <1>2, BecomesAndInv DEF Asked
<1>3. CASE Deleted
  <2>1. PICK t \in Stepping : \E r : /\ m.rows[t] # <<>> /\ m.cursor[t] < Len(m.rows[t])
                                     /\ BecomesAnd([m EXCEPT !.cursor[t] = Stepped(t)], Command("delete", t, r))
    BY <1>3 DEF Deleted
  <2>2. PICK row : /\ m.rows[t] # <<>> /\ m.cursor[t] < Len(m.rows[t])
                   /\ BecomesAnd([m EXCEPT !.cursor[t] = Stepped(t)], Command("delete", t, row))
    BY <2>1
  <2> QED
    BY <2>2, DeletesInv DEF Stepped
<1>4. CASE Ended
  BY <1>4, EndsInv DEF Ended
<1>5. CASE \E l \in Lists : Down(l)
  BY <1>5, DownInv
<1> QED
  BY <1>1, <1>2, <1>3, <1>4, <1>5 DEF Keyed

LEMMA Same == ASSUME TuiInv, m.end = "no" PROVE KeyStep(m) /\ Holds(m) /\ FormHolds(m.form, m.rows["server"])
BY DEF KeyStep, Near, TuiInv, Holds, ModelHolds, Lists, Tables

LEMMA ScreenStep ==
  ASSUME NEW n, KeyStep(n), NEW s \in [kind : Kinds, of : Tables], Near(s.of) PROVE KeyStep([n EXCEPT !.screen = s])
BY DEF KeyStep, Holds, ModelHolds

LEMMA FormStep ==
  ASSUME NEW n, KeyStep(n), NEW f, FormHolds(f, m.rows["server"]) PROVE KeyStep([n EXCEPT !.form = f])
BY DEF KeyStep, Holds, ModelHolds

LEMMA OtherStep ==
  ASSUME NEW n, KeyStep(n), NEW k \in {"doomed", "query"}, NEW v PROVE KeyStep([n EXCEPT ![k] = v])
BY DEF KeyStep, Holds, ModelHolds

LEMMA Screens ==
  /\ \A t \in Tables : List(t) \in [kind : Kinds, of : Tables] /\ Form(t) \in [kind : Kinds, of : Tables]
  /\ Welcome \in [kind : Kinds, of : Tables]
  /\ At("detail", "server") \in [kind : Kinds, of : Tables] /\ At("confirm", "server") \in [kind : Kinds, of : Tables]
  /\ At("picker", "server") \in [kind : Kinds, of : Tables] /\ At("view", "plugin") \in [kind : Kinds, of : Tables]
BY DEF List, Form, Welcome, At, Kinds, Tables

LEMMA NearScreens ==
  /\ \A t : (Near(List(t).of) <=> Near(t)) /\ (Near(Form(t).of) <=> Near(t))
  /\ Near(Welcome.of) /\ Near(List("server").of) /\ Near(At("detail", "server").of) /\ Near(At("confirm", "server").of)
  /\ Near(At("picker", "server").of) /\ Near(At("view", "plugin").of) /\ Near(List("plugin").of)
BY DEF Near, Dependent, List, Form, Welcome, At

LEMMA GoesKeyed ==
  ASSUME TuiInv, m.end = "no", NEW s \in [kind : Kinds, of : Tables], Near(s.of), Goes(s) PROVE Keyed
BY Same, ScreenStep DEF Goes, Keyed, Moved

(* The screens that keys lead to from anywhere. *)
LEMMA GoesNearKeyed ==
  ASSUME TuiInv, m.end = "no", Goes(Welcome) \/ Goes(List("server")) \/ Goes(At("detail", "server")) \/ Goes(List("plugin"))
  PROVE  Keyed
BY GoesKeyed, NearScreens, Screens DEF Tables

LEMMA SetsKeyed ==
  ASSUME TuiInv, m.end = "no", NEW f, FormHolds(f, m.rows["server"]), Sets(f) PROVE Keyed
BY Same, FormStep DEF Sets, Keyed, Moved

LEMMA QuitsKeyed == Quits => Keyed
BY DEF Quits, Keyed, Ended

LEMMA CommandPlain ==
  ASSUME NEW op, NEW t \in Tables, NEW row,
         op = "gateways" => t = "gateway",
         op \in {"plugins", "edit"} => t = "plugin",
         t = "plugin" => op \in {"plugins", "edit", "load"},
         op = "delete" => t = "profile"
  PROVE  Plain(Command(op, t, row)) /\ Command(op, t, row).op = op /\ Command(op, t, row).table = t
<1> DEFINE c == Command(op, t, row)
<1>1. /\ DOMAIN c = {"n", "op", "table", "row", "valid", "stage", "answer"}
      /\ c.op = op /\ c.table = t /\ c.stage = IF op \in Reading THEN "list" ELSE "run"
  BY DEF Command
<1> HIDE DEF c
<1>2. Plain(c)
  BY <1>1 DEF Plain, CommandHolds, Stepping
<1> QED
  BY <1>1, <1>2 DEF c

LEMMA ValidPlain ==
  ASSUME NEW c, Plain(c), NEW b
  PROVE  Plain([c EXCEPT !.valid = b]) /\ [c EXCEPT !.valid = b].op = c.op /\ [c EXCEPT !.valid = b].table = c.table
<1> DEFINE d == [c EXCEPT !.valid = b]
<1>1. /\ DOMAIN d = DOMAIN c /\ d.op = c.op /\ d.table = c.table /\ d.stage = c.stage /\ d.answer = c.answer
  BY DEF Plain, CommandHolds
<1> HIDE DEF d
<1>2. Reads(d) = Reads(c)
  BY <1>1 DEF Reads
<1>3. Plain(d)
  BY <1>1, <1>2 DEF Plain, CommandHolds
<1> QED
  BY <1>1, <1>3 DEF d

LEMMA AsksKeyed ==
  ASSUME NEW n, KeyStep(n), NEW op, NEW t \in Tables, NEW row,
         op = "gateways" => t = "gateway",
         op \in {"plugins", "edit"} => t = "plugin",
         t = "plugin" => op \in {"plugins", "edit", "load"},
         op = "delete" => t = "profile",
         op = "plugins" => n.cursor["picker"] = 0,
         BecomesAnd(n, Command(op, t, row))
  PROVE  Keyed
<1>1. PICK c : c = Command(op, t, row)
  OBVIOUS
<1>2. Plain(c) /\ c.op = op /\ c.table = t
  BY <1>1, CommandPlain
<1> QED
  BY <1>1, <1>2 DEF Keyed, Asked

(* The row under a cursor is there. *)
LEMMA ShownThere ==
  ASSUME TuiInv, m.end = "no", NEW l \in Stepping \cup {"picker", "server"}, Shown(l) # <<>>,
         ~(m.cursor[l] < Len(Shown(l)))
  PROVE  ~Calm \/ Shrinks(l)
<1>0. l \in Lists /\ Holds(m)
  BY DEF Stepping, Lists, Tables, TuiInv
<1>1. m.cursor[l] \in Nat /\ Sequence(Shown(l))
  BY <1>0 DEF Shown, Holds, ModelHolds
<1>2. Len(Shown(l)) > 0 /\ Len(Shown(l)) \in Nat
  BY <1>1, NonEmpty DEF Sequence
<1>3. CASE l = "server"
  BY <1>0, <1>1, <1>2, <1>3 DEF Shown, Holds, ModelHolds
<1>4. CASE l # "server"
  BY <1>0, <1>1, <1>2, <1>4 DEF Shown, TuiInv, CursorsHold
<1> QED
  BY <1>3, <1>4

LEMMA PanicKeyed ==
  ASSUME TuiInv, m.end = "no", NEW l \in Stepping \cup {"picker", "server"}, Shown(l) # <<>>,
         ~(m.cursor[l] < Len(Shown(l))), Ends("panic"), l \in Dependent => m.screen = List(l)
  PROVE  Keyed
BY ShownThere DEF Keyed, Ended, Excused, Shrinks

LEMMA UpKeyed == ASSUME TuiInv, m.end = "no", NEW l \in Lists, Up(l) PROVE Keyed
<1> DEFINE n == [m EXCEPT !.cursor[l] = @ - 1]
<1>1. Holds(m) /\ m.cursor[l] \in Nat /\ m.cursor[l] > 0 /\ Len(m.filtered) \in Nat
  BY DEF TuiInv, Holds, ModelHolds, Up, Sequence
<1>2. Near(n.screen.of) /\ n.screen = m.screen
  BY Same DEF KeyStep, Holds, ModelHolds
<1>3. KeyStep(n)
  BY <1>1, <1>2 DEF KeyStep, Holds, ModelHolds
<1> QED
  BY <1>3 DEF Up, Keyed, Moved

LEMMA MovesKeyed == ASSUME TuiInv, m.end = "no", NEW l \in Lists, Moves(l) PROVE Keyed
BY UpKeyed DEF Moves, Keyed

LEMMA DeletesKeyed ==
  ASSUME TuiInv, m.end = "no", NEW t \in Stepping, Deletes(t), t \in Dependent => m.screen = List(t) PROVE Keyed
<1>1. Shown(t) = m.rows[t] /\ Shown(t) # <<>>
  BY DEF Shown, Stepping, Deletes, WithSelected
<1>2. CASE m.cursor[t] < Len(Shown(t))
  <2>1. PICK row : BecomesAnd([m EXCEPT !.cursor[t] = IF @ >= Len(Shown(t)) - 1 /\ @ > 0 THEN @ - 1 ELSE @],
                              Command("delete", t, row))
    BY <1>2 DEF Deletes, WithSelected
  <2>2. BecomesAnd([m EXCEPT !.cursor[t] = Stepped(t)], Command("delete", t, row))
    BY <1>1, <2>1, Same DEF Stepped, Holds, ModelHolds, Stepping, Lists, Tables
  <2> QED
    BY <1>1, <1>2, <2>2 DEF Keyed, Deleted
<1>3. CASE ~(m.cursor[t] < Len(Shown(t)))
  BY <1>1, <1>3, PanicKeyed DEF Deletes, WithSelected
<1> QED
  BY <1>2, <1>3

LEMMA ChooseKeyed ==
  ASSUME TuiInv, m.end = "no", NEW l \in {"server", "cluster"}, Choose(l) PROVE Keyed
<1>1. Shown(l) # <<>> /\ (Ends("chosen") \/ (~(m.cursor[l] < Len(Shown(l))) /\ Ends("panic")))
  BY DEF Choose, WithSelected
<1>2. l \in Stepping \cup {"server"} /\ l \notin Dependent
  BY DEF Stepping, Dependent
<1> QED
  BY <1>1, <1>2, PanicKeyed DEF Keyed, Ended

-----------------------------------------------------------------------------
(* Forms.                                                                  *)

LEMMA OneLong == ASSUME NEW x PROVE Sequence(<<x>>)
<1>1. Len(<<x>>) = 1 /\ <<x>> = [i \in 1..1 |-> <<x>>[i]]
  OBVIOUS
<1> QED
  BY <1>1 DEF Sequence

LEMMA OpenedHolds ==
  ASSUME NEW t, NEW row, NEW f \in Opened(t, row), NEW servers, NEW i
  PROVE  FormHolds(f, servers) /\ FormHolds([f EXCEPT !.focus = i], servers)
<1> DEFINE fresh == Blank(row)
<1>1. f = fresh \/ \E p \in Picks(t), s \in Parts(t) : f = Filled(t, fresh, p, s)
  <2>1. CASE row = 0
    BY <2>1 DEF Opened
  <2>2. CASE row # 0
    BY <2>2 DEF Opened
  <2> QED
    BY <2>1, <2>2
<1>2. /\ DOMAIN fresh = DOMAIN NoForm /\ fresh.over = 0 /\ fresh.item = 0 /\ fresh.items = <<>> /\ fresh.overlay = "none"
  BY DEF NoForm, Blank
<1>3. \A s \in Parts(t) : Sequence(s)
  BY EmptyLen, OneLong DEF Parts
<1> HIDE DEF fresh
<1>4. /\ DOMAIN f = DOMAIN NoForm /\ f.over = 0 /\ f.item = 0 /\ Sequence(f.items) /\ f.overlay = "none"
  <2>1. CASE f = fresh
    BY <1>2, <2>1, EmptyLen
  <2>2. ASSUME NEW p, NEW s \in Parts(t), f = Filled(t, fresh, p, s)
        PROVE  DOMAIN f = DOMAIN NoForm /\ f.over = 0 /\ f.item = 0 /\ f.items = s /\ f.overlay = "none"
    BY <1>2, <2>2, FormFields DEF Filled
  <2> QED
    BY <1>1, <1>3, <2>1, <2>2
<1>5. FormHolds(f, servers)
  BY <1>4 DEF FormHolds
<1>6. FormHolds([f EXCEPT !.focus = i], servers)
  BY <1>4, FormFields DEF FormHolds
<1> QED
  BY <1>5, <1>6

LEMMA FieldHolds ==
  ASSUME NEW f, NEW servers, FormHolds(f, servers),
         NEW k \in {"changed", "focus", "pick", "srv", "key", "search", "dialogue"}, NEW v
  PROVE  FormHolds([f EXCEPT ![k] = v], servers)
BY FormFields DEF FormHolds

LEMMA OpensStep ==
  ASSUME TuiInv, m.end = "no", NEW t \in Tables, Near(t), NEW f, FormHolds(f, m.rows["server"]) PROVE KeyStep(Opens(t, f))
<1>1. KeyStep([[m EXCEPT !.screen = Form(t)] EXCEPT !.form = f])
  BY Same, ScreenStep, FormStep, Screens, NearScreens
<1> QED
  BY <1>1 DEF Opens

LEMMA InitFormKeyed ==
  ASSUME TuiInv, m.end = "no", NEW t \in Tables, Near(t), NEW row, initForm(t, row) PROVE Keyed
BY OpenedHolds, OpensStep DEF initForm, Keyed, Moved

LEMMA InitFormWithGatewaysKeyed ==
  ASSUME TuiInv, m.end = "no", NEW t \in Tables, Near(t), NEW row, initFormWithGateways(t, row) PROVE Keyed
<1>1. PICK f \in Opened(t, row) : BecomesAnd(Opens(t, f), Command("gateways", "gateway", 0))
  BY DEF initFormWithGateways
<1>2. KeyStep(Opens(t, f))
  BY OpenedHolds, OpensStep
<1> QED
  BY <1>1, <1>2, AsksKeyed DEF Tables

LEMMA InitHostFormKeyed == ASSUME TuiInv, m.end = "no", NEW row, initHostForm(row) PROVE Keyed
<1>1. PICK f \in Opened("hosts", row) : Becomes(Opens("hosts", [f EXCEPT !.focus = IF row = 0 THEN 0 ELSE 1]))
  BY DEF initHostForm
<1>2. KeyStep(Opens("hosts", [f EXCEPT !.focus = IF row = 0 THEN 0 ELSE 1]))
  BY OpenedHolds, OpensStep DEF Tables, Near, Dependent
<1> QED
  BY <1>1, <1>2 DEF Keyed, Moved

LEMMA SubmitsKeyed == ASSUME TuiInv, m.end = "no", NEW t \in Forms, Submits(t) PROVE Keyed
<1> DEFINE op == IF m.form.mode = "add" THEN "create" ELSE "update"
           b == t \in {"tunnel", "app-server"} => m.form.pick # 0
           n == [m EXCEPT !.form.dialogue = "none"]
<1>1. PICK c : c = Command(op, t, 0)
  OBVIOUS
<1>2. Plain(c) /\ c.op = op
  BY <1>1, CommandPlain DEF Forms
<1>3. PICK d : d = [c EXCEPT !.valid = b]
  OBVIOUS
<1>4. Plain(d) /\ d.op = op
  BY <1>2, <1>3, ValidPlain
<1>5. KeyStep(n)
  <2>1. KeyStep([m EXCEPT !.form = [m.form EXCEPT !["dialogue"] = "none"]])
    BY Same, FieldHolds, FormStep
  <2> QED
    BY <2>1
<1>6. BecomesAnd(n, d)
  BY <1>1, <1>3 DEF Submits
<1> QED
  BY <1>4, <1>5, <1>6 DEF Keyed, Asked

LEMMA EscConfirmKeyed == ASSUME TuiInv, m.end = "no", NEW t \in Forms, m.screen = Form(t), handleFormEscConfirm(t) PROVE Keyed
<1>0. Near(t)
  BY DEF Form, At, Near
<1>1. CASE Ends("quit")
  BY <1>1 DEF Keyed, Ended
<1>2. CASE Sets([m.form EXCEPT !.dialogue = "none"])
  BY <1>2, Same, FieldHolds, SetsKeyed
<1>3. CASE Sets([m.form EXCEPT !.dialogue = IF @ = "save" THEN "cancel" ELSE "save"])
  BY <1>3, Same, FieldHolds, SetsKeyed
<1>4. CASE Submits(t)
  BY <1>4, SubmitsKeyed
<1>5. CASE Becomes([m EXCEPT !.screen = List(t), !.form.dialogue = "none"])
  <2>1. KeyStep([[m EXCEPT !.screen = List(t)] EXCEPT !.form = [m.form EXCEPT !["dialogue"] = "none"]])
    BY <1>0, Same, ScreenStep, FieldHolds, FormStep, Screens, NearScreens DEF Forms
  <2>2. [[m EXCEPT !.screen = List(t)] EXCEPT !.form = [m.form EXCEPT !["dialogue"] = "none"]]
         = [m EXCEPT !.screen = List(t), !.form.dialogue = "none"]
    OBVIOUS
  <2> QED
    BY <1>5, <2>1, <2>2 DEF Keyed, Moved
<1> QED
  BY <1>1, <1>2, <1>3, <1>4, <1>5 DEF handleFormEscConfirm

LEMMA LeavesKeyed == ASSUME TuiInv, m.end = "no", NEW t \in Forms, m.screen = Form(t), Leaves(t) PROVE Keyed
<1>0. Near(List(t).of)
  BY DEF Form, List, At, Near
<1>1. Sets([m.form EXCEPT !.dialogue = "cancel"]) \/ Goes(List(t))
  BY DEF Leaves
<1> QED
  BY <1>0, <1>1, Same, FieldHolds, SetsKeyed, GoesKeyed, Screens DEF Forms

LEMMA TypesKeyed == ASSUME TuiInv, m.end = "no", Types PROVE Keyed
BY Same, FieldHolds, SetsKeyed DEF Types

LEMMA FocusKeyed == ASSUME TuiInv, m.end = "no", NEW i, Sets([m.form EXCEPT !.focus = i]) PROVE Keyed
BY Same, FieldHolds, SetsKeyed

LEMMA AdvancesKeyed == ASSUME TuiInv, m.end = "no", NEW n, Advances(n) PROVE Keyed
BY FocusKeyed DEF Advances

LEMMA OverlayKeyed ==
  ASSUME TuiInv, m.end = "no", NEW o, NEW i \in {0, 1}, o = "server" => i = 0, OpensOverlay(o, i) PROVE Keyed
<1>1. FormHolds([m.form EXCEPT !.overlay = o, !.over = i, !.search = FALSE], m.rows["server"])
  BY Same, FormFields DEF FormHolds
<1> QED
  BY <1>1, SetsKeyed DEF OpensOverlay

LEMMA ClosedHolds == ASSUME NEW f, NEW s, FormHolds(f, s) PROVE FormHolds(Closed(f), s)
BY FormFields DEF FormHolds, Closed

LEMMA ClosesKeyed == ASSUME TuiInv, m.end = "no", Closes PROVE Keyed
BY Same, ClosedHolds, SetsKeyed DEF Closes

LEMMA OverUpKeyed == ASSUME TuiInv, m.end = "no", m.form.over > 0, Sets([m.form EXCEPT !.over = @ - 1]) PROVE Keyed
<1>1. Len(m.rows["server"]) \in Nat
  BY Same DEF Holds, ModelHolds, Sequence, Lists, Tables
<1>2. FormHolds([m.form EXCEPT !.over = @ - 1], m.rows["server"])
  BY <1>1, Same, FormFields DEF FormHolds
<1> QED
  BY <1>2, SetsKeyed

LEMMA OverDownKeyed ==
  ASSUME TuiInv, m.end = "no", Sets([m.form EXCEPT !.over = @ + 1]),
         m.form.overlay = "server" => m.form.over < Len(m.rows["server"]) - 1,
         m.form.overlay = "auth" => m.form.over < 1
  PROVE  Keyed
<1>1. Len(m.rows["server"]) \in Nat
  BY Same DEF Holds, ModelHolds, Sequence, Lists, Tables
<1>2. FormHolds([m.form EXCEPT !.over = @ + 1], m.rows["server"])
  BY <1>1, Same, FormFields DEF FormHolds
<1> QED
  BY <1>2, SetsKeyed

LEMMA TakenKeyed ==
  ASSUME TuiInv, m.end = "no", NEW f, FormHolds(f, m.rows["server"]), Sets(Closed(f)) PROVE Keyed
BY ClosedHolds, SetsKeyed

LEMMA ServerOverThere ==
  ASSUME TuiInv, m.end = "no", m.form.overlay = "server", m.rows["server"] # <<>>
  PROVE  m.form.over < Len(m.rows["server"])
<1>1. Sequence(m.rows["server"]) /\ Len(m.rows["server"]) \in Nat
  BY Same DEF Holds, ModelHolds, Sequence, Lists, Tables
<1> QED
  BY <1>1, Same, NonEmpty DEF FormHolds

LEMMA GwPickerLen ==
  ASSUME Holds(m) PROVE Len(gwPickerEntries) \in Nat /\ Len(gwPickerEntries) >= 1
<1> DEFINE g == m.rows["gateway"]
           v == m.rows["server"]
           G == [i \in 1..Len(g) |-> <<g[i], 0>>]
           V == [i \in 1..Len(v) |-> <<0, v[i]>>]
           X == {<<0, 0>>} \cup {<<g[i], 0>> : i \in 1..Len(g)} \cup {<<0, v[i]>> : i \in 1..Len(v)}
           first == << <<0, 0>> >>
<1>1. Len(g) \in Nat /\ Len(v) \in Nat
  BY DEF Holds, ModelHolds, Sequence, Lists, Tables
<1>2. gwPickerEntries = first \o IF m.form.search THEN <<>> ELSE G \o V
  BY DEF gwPickerEntries
<1>3. first \in Seq(X) /\ Len(first) = 1
  OBVIOUS
<1>4. G \in Seq(X) /\ V \in Seq(X)
  BY <1>1
<1> HIDE DEF G, V, X, first
<1>5. G \o V \in Seq(X) /\ <<>> \in Seq(X)
  BY <1>4
<1>6. PICK rest \in Seq(X) : gwPickerEntries = first \o rest
  BY <1>2, <1>5
<1>7. Len(first \o rest) = 1 + Len(rest) /\ Len(rest) \in Nat
  BY <1>3, <1>6, ConcatProperties, LenProperties
<1> QED
  BY <1>6, <1>7

LEMMA AuthOverlayKeyed == ASSUME TuiInv, m.end = "no", AuthOverlay PROVE Keyed
<1>1. m.form.overlay = "auth" /\ m.form.over < 2 /\ m.form.over \in Nat
  BY Same DEF AuthOverlay, FormHolds
<1>2. \/ Quits \/ Closes
      \/ m.form.over > 0 /\ Sets([m.form EXCEPT !.over = @ - 1])
      \/ m.form.over < 1 /\ Sets([m.form EXCEPT !.over = @ + 1])
      \/ \E k : Sets(Closed([m.form EXCEPT !.key = k]))
  <2>1. Len(<<FALSE, TRUE>>) = 2
    OBVIOUS
  <2>2. \/ Quits \/ Closes
        \/ m.form.over > 0 /\ Sets([m.form EXCEPT !.over = @ - 1])
        \/ m.form.over < Len(<<FALSE, TRUE>>) - 1 /\ Sets([m.form EXCEPT !.over = @ + 1])
        \/ IF m.form.over < Len(<<FALSE, TRUE>>)
             THEN Sets(Closed([m.form EXCEPT !.key = <<FALSE, TRUE>>[m.form.over + 1]]))
             ELSE Ends("panic")
    BY Zenon DEF AuthOverlay, PicksFrom
  <2> QED
    BY <1>1, <2>1, <2>2
<1>3. ASSUME NEW k, Sets(Closed([m.form EXCEPT !.key = k])) PROVE Keyed
  BY <1>3, Same, FieldHolds, TakenKeyed
<1> QED
  BY <1>1, <1>2, <1>3, QuitsKeyed, ClosesKeyed, OverUpKeyed, OverDownKeyed

LEMMA GatewayOverlayKeyed == ASSUME TuiInv, m.end = "no", GatewayOverlay PROVE Keyed
<1>1. m.form.overlay = "gateway"
  BY DEF GatewayOverlay
<1>2. \/ Quits \/ Closes \/ Ends("panic")
      \/ m.form.over > 0 /\ Sets([m.form EXCEPT !.over = @ - 1])
      \/ Sets([m.form EXCEPT !.over = @ + 1])
      \/ \E p, s : Sets(Closed([m.form EXCEPT !.pick = p, !.srv = s]))
      \/ \E b \in BOOLEAN :
           Sets([m.form EXCEPT !.search = b,
                               !.over = IF b THEN 0 ELSE IF @ >= Len(gwPickerEntries) THEN Len(gwPickerEntries) - 1 ELSE @])
  BY DEF GatewayOverlay, PicksFrom
<1>3. ASSUME NEW p, NEW s, Sets(Closed([m.form EXCEPT !.pick = p, !.srv = s])) PROVE Keyed
  <2>1. FormHolds([m.form EXCEPT !.pick = p, !.srv = s], m.rows["server"])
    BY Same, FormFields DEF FormHolds
  <2> QED
    BY <1>3, <2>1, TakenKeyed
<1>4. ASSUME NEW b \in BOOLEAN, NEW k \in Nat, Sets([m.form EXCEPT !.search = b, !.over = k]) PROVE Keyed
  <2>1. FormHolds([m.form EXCEPT !.search = b, !.over = k], m.rows["server"])
    BY <1>1, Same, FormFields DEF FormHolds
  <2> QED
    BY <1>4, <2>1, SetsKeyed
<1>5. ASSUME NEW b \in BOOLEAN
      PROVE  (IF b THEN 0 ELSE IF m.form.over >= Len(gwPickerEntries) THEN Len(gwPickerEntries) - 1 ELSE m.form.over) \in Nat
  BY Same, GwPickerLen DEF FormHolds
<1>6. Ends("panic") => Keyed
  BY <1>1 DEF Keyed, Ended, Excused
<1> QED
  BY <1>1, <1>2, <1>3, <1>4, <1>5, <1>6, QuitsKeyed, ClosesKeyed, OverUpKeyed, OverDownKeyed

LEMMA ServerOverlayKeyed == ASSUME TuiInv, m.end = "no", ServerOverlay PROVE Keyed
<1> DEFINE v == m.rows["server"]
<1>1. m.form.overlay = "server"
  BY DEF ServerOverlay
<1>2. \/ Quits \/ Closes
      \/ m.form.over > 0 /\ Sets([m.form EXCEPT !.over = @ - 1])
      \/ m.form.over < Len(v) - 1 /\ Sets([m.form EXCEPT !.over = @ + 1])
      \/ \E r : Sets(Closed([m.form EXCEPT !.pick = r]))
      \/ v # <<>> /\ ~(m.form.over < Len(v))
  BY DEF ServerOverlay, PicksFrom
<1>3. ASSUME NEW r, Sets(Closed([m.form EXCEPT !.pick = r])) PROVE Keyed
  BY <1>3, Same, FieldHolds, TakenKeyed
<1> QED
  BY <1>1, <1>2, <1>3, QuitsKeyed, ClosesKeyed, OverUpKeyed, OverDownKeyed, ServerOverThere

LEMMA TabsKeyed ==
  ASSUME TuiInv, m.end = "no", (\E i : Sets([m.form EXCEPT !.focus = i])) PROVE Keyed
BY FocusKeyed

LEMMA ServerFormKeyed == ASSUME TuiInv, m.end = "no", updateServerForm PROVE Keyed
<1>1. \/ handleFormEscConfirm("server") \/ AuthOverlay \/ GatewayOverlay \/ Quits \/ Leaves("server")
      \/ OpensOverlay("gateway", 0) \/ OpensOverlay("auth", 0) \/ OpensOverlay("auth", 1)
      \/ Submits("server") \/ Types \/ \E i : Sets([m.form EXCEPT !.focus = i])
  BY DEF updateServerForm, Tabs
<1>2. "server" \in Forms /\ m.screen = Form("server")
  BY DEF Forms, Tables, updateServerForm
<1> QED
  BY <1>1, <1>2, EscConfirmKeyed, AuthOverlayKeyed, GatewayOverlayKeyed, QuitsKeyed, LeavesKeyed, OverlayKeyed,
     SubmitsKeyed, TypesKeyed, TabsKeyed

LEMMA HostFormKeyed == ASSUME TuiInv, m.end = "no", updateHostForm PROVE Keyed
<1>1. \/ handleFormEscConfirm("hosts") \/ Quits \/ Leaves("hosts") \/ Submits("hosts") \/ Types
      \/ Advances(3) \/ \E i : Sets([m.form EXCEPT !.focus = i])
  BY DEF updateHostForm, Tabs
<1>2. "hosts" \in Forms /\ m.screen = Form("hosts")
  BY DEF Forms, Tables, updateHostForm
<1> QED
  BY <1>1, <1>2, EscConfirmKeyed, QuitsKeyed, LeavesKeyed, AdvancesKeyed, SubmitsKeyed, TypesKeyed, TabsKeyed

LEMMA TunnelFormKeyed == ASSUME TuiInv, m.end = "no", updateTunnelForm PROVE Keyed
<1>1. \/ handleFormEscConfirm("tunnel") \/ ServerOverlay \/ Quits \/ Leaves("tunnel") \/ Submits("tunnel") \/ Types
      \/ OpensOverlay("server", 0) \/ Advances(7) \/ \E i : Sets([m.form EXCEPT !.focus = i])
  BY DEF updateTunnelForm, Tabs
<1>2. "tunnel" \in Forms /\ m.screen = Form("tunnel")
  BY DEF Forms, Tables, updateTunnelForm
<1> QED
  BY <1>1, <1>2, EscConfirmKeyed, ServerOverlayKeyed, QuitsKeyed, LeavesKeyed, OverlayKeyed, AdvancesKeyed, SubmitsKeyed,
     TypesKeyed, TabsKeyed

LEMMA AppServerFormKeyed == ASSUME TuiInv, m.end = "no", updateAppServerForm PROVE Keyed
<1>1. \/ handleFormEscConfirm("app-server") \/ ServerOverlay \/ Quits \/ Leaves("app-server") \/ Submits("app-server")
      \/ Types \/ OpensOverlay("server", 0) \/ Advances(4) \/ \E i : Sets([m.form EXCEPT !.focus = i])
  BY DEF updateAppServerForm, Tabs
<1>2. "app-server" \in Forms /\ m.screen = Form("app-server")
  BY DEF Forms, Tables, updateAppServerForm
<1> QED
  BY <1>1, <1>2, EscConfirmKeyed, ServerOverlayKeyed, QuitsKeyed, LeavesKeyed, OverlayKeyed, AdvancesKeyed, SubmitsKeyed,
     TypesKeyed, TabsKeyed

LEMMA ProfileFormKeyed == ASSUME TuiInv, m.end = "no", updateProfileForm PROVE Keyed
<1>1. \/ handleFormEscConfirm("profile") \/ Quits \/ Leaves("profile") \/ Submits("profile")
      \/ Types \/ OpensOverlay("gateway", 0) \/ Advances(3) \/ \E i : Sets([m.form EXCEPT !.focus = i])
      \/ /\ m.form.overlay = "gateway"
         /\ \/ Closes \/ Ends("panic") \/ Sets([m.form EXCEPT !.over = 0])
            \/ m.form.over > 0 /\ Sets([m.form EXCEPT !.over = @ - 1])
            \/ Sets([m.form EXCEPT !.over = @ + 1])
            \/ \E p : Sets(Closed([m.form EXCEPT !.pick = p]))
  BY DEF updateProfileForm, Tabs, PicksFrom
<1>2. "profile" \in Forms /\ m.screen = Form("profile")
  BY DEF Forms, Tables, updateProfileForm
<1>3. CASE /\ m.form.overlay = "gateway"
           /\ \/ Closes \/ Ends("panic") \/ Sets([m.form EXCEPT !.over = 0])
              \/ m.form.over > 0 /\ Sets([m.form EXCEPT !.over = @ - 1])
              \/ Sets([m.form EXCEPT !.over = @ + 1])
              \/ \E p : Sets(Closed([m.form EXCEPT !.pick = p]))
  <2>1. ASSUME NEW p, Sets(Closed([m.form EXCEPT !.pick = p])) PROVE Keyed
    BY <2>1, Same, FieldHolds, TakenKeyed
  <2>2. FormHolds([m.form EXCEPT !.over = 0], m.rows["server"])
    BY <1>3, Same, FormFields DEF FormHolds
  <2>3. Ends("panic") => Keyed
    BY <1>3 DEF Keyed, Ended, Excused
  <2> QED
    BY <1>3, <2>1, <2>2, <2>3, ClosesKeyed, SetsKeyed, OverUpKeyed, OverDownKeyed
<1> QED
  BY <1>1, <1>2, <1>3, EscConfirmKeyed, QuitsKeyed, LeavesKeyed, OverlayKeyed, AdvancesKeyed, SubmitsKeyed,
     TypesKeyed, TabsKeyed

LEMMA InSeq == ASSUME NEW s, Sequence(s), NEW x PROVE \E X : s \in Seq(X) /\ x \in X
<1> DEFINE X == {s[i] : i \in 1..Len(s)} \cup {x}
<1>1. s \in Seq(X) /\ x \in X
  BY DEF Sequence
<1> HIDE DEF X
<1> QED
  BY <1>1

LEMMA FromSeq == ASSUME NEW X, NEW s \in Seq(X) PROVE Sequence(s)
BY DEF Sequence

LEMMA AppendLen ==
  ASSUME NEW s, Sequence(s), NEW x PROVE Sequence(Append(s, x)) /\ Len(Append(s, x)) = Len(s) + 1
<1>1. PICK X : s \in Seq(X) /\ x \in X
  BY InSeq
<1> QED
  BY <1>1, AppendProperties, FromSeq

LEMMA ReplacedLen ==
  ASSUME NEW s, Sequence(s), NEW k, NEW v PROVE Sequence([s EXCEPT ![k] = v]) /\ Len([s EXCEPT ![k] = v]) = Len(s)
<1>1. PICK X : s \in Seq(X) /\ v \in X
  BY InSeq
<1> DEFINE t == [s EXCEPT ![k] = v]
<1>2. Len(s) \in Nat /\ DOMAIN s = 1..Len(s)
  BY <1>1
<1>3. DOMAIN t = 1..Len(s) /\ \A i \in 1..Len(s) : t[i] \in X
  BY <1>1, <1>2
<1>4. t = [i \in 1..Len(s) |-> t[i]]
  BY <1>2, <1>3
<1> HIDE DEF t
<1>5. \A n \in Nat : DOMAIN t = 1..n /\ t = [i \in 1..n |-> t[i]] => Len(t) = n
  OBVIOUS
<1>6. Len(t) = Len(s)
  BY <1>2, <1>3, <1>4, <1>5
<1> QED
  BY <1>2, <1>4, <1>6 DEF t, Sequence

LEMMA RemovedLen ==
  ASSUME NEW s, Sequence(s), NEW i \in 1..Len(s) PROVE Sequence(RemoveAt(s, i)) /\ Len(RemoveAt(s, i)) = Len(s) - 1
<1>1. PICK X : s \in Seq(X)
  BY InSeq
<1> DEFINE a == SubSeq(s, 1, i - 1)
           b == SubSeq(s, i + 1, Len(s))
<1>2. Len(s) \in Nat
  BY <1>1
<1>3. a \in Seq(X) /\ Len(a) = i - 1
  BY <1>1, <1>2, SubSeqProperties
<1>4. b \in Seq(X) /\ Len(b) = Len(s) - i
  BY <1>1, <1>2, SubSeqProperties
<1>5. RemoveAt(s, i) = a \o b
  BY DEF RemoveAt
<1> HIDE DEF a, b
<1>6. a \o b \in Seq(X) /\ Len(a \o b) = Len(a) + Len(b)
  BY <1>3, <1>4, ConcatProperties
<1>7. Len(a \o b) = Len(s) - 1
  BY <1>2, <1>3, <1>4, <1>6
<1>8. Sequence(a \o b)
  BY <1>6, FromSeq
<1> QED
  BY <1>5, <1>7, <1>8

LEMMA ItemThere ==
  ASSUME TuiInv, m.end = "no", m.form.items # <<>>
  PROVE  m.form.item \in Nat /\ m.form.item < Len(m.form.items) /\ Len(m.form.items) \in Nat
<1>1. Sequence(m.form.items) /\ Len(m.form.items) \in Nat
  BY Same DEF FormHolds, Sequence
<1> QED
  BY <1>1, Same, NonEmpty DEF FormHolds

LEMMA AddsItemKeyed == ASSUME TuiInv, m.end = "no", m.form.overlay = "server", AddsItem PROVE Keyed
<1> DEFINE v == m.rows["server"]
<1>1. \/ Closes
      \/ m.form.over > 0 /\ Sets([m.form EXCEPT !.over = @ - 1])
      \/ m.form.over < Len(v) - 1 /\ Sets([m.form EXCEPT !.over = @ + 1])
      \/ \E r : Sets(Closed([m.form EXCEPT !.items = Append(@, Item(r))]))
      \/ v # <<>> /\ ~(m.form.over < Len(v))
  BY DEF AddsItem, PicksFrom
<1>2. ASSUME NEW r, Sets(Closed([m.form EXCEPT !.items = Append(@, Item(r))])) PROVE Keyed
  <2>1. /\ Sequence(Append(m.form.items, Item(r))) /\ Len(Append(m.form.items, Item(r))) = Len(m.form.items) + 1
        /\ Len(m.form.items) \in Nat
    BY Same, AppendLen DEF FormHolds, Sequence
  <2>2. FormHolds([m.form EXCEPT !.items = Append(@, Item(r))], v)
    BY <2>1, Same, FormFields DEF FormHolds
  <2> QED
    BY <1>2, <2>2, TakenKeyed
<1> QED
  BY <1>1, <1>2, ClosesKeyed, OverUpKeyed, OverDownKeyed, ServerOverThere

LEMMA RemovesItemKeyed == ASSUME TuiInv, m.end = "no", RemovesItem PROVE Keyed
<1> DEFINE s == m.form.items
           i == m.form.item
<1>1. s # <<>> /\ i \in Nat /\ i < Len(s) /\ Len(s) \in Nat /\ Sequence(s)
  BY ItemThere, Same DEF RemovesItem, FormHolds
<1>2. Sets([m.form EXCEPT !.items = RemoveAt(@, i + 1), !.item = IF @ >= Len(s) - 1 /\ @ > 0 THEN @ - 1 ELSE @])
  BY <1>1 DEF RemovesItem
<1>3. PICK r : r = RemoveAt(s, i + 1)
  OBVIOUS
<1>4. PICK j : j = (IF i >= Len(s) - 1 /\ i > 0 THEN i - 1 ELSE i)
  OBVIOUS
<1>9. i + 1 \in 1..Len(s)
  BY <1>1
<1> HIDE DEF s, i
<1>5. Sequence(r) /\ Len(r) = Len(s) - 1
  BY <1>1, <1>3, <1>9, RemovedLen
<1> USE DEF s, i
<1>6. j \in Nat /\ (j = 0 \/ j < Len(r))
  BY <1>1, <1>4, <1>5
<1>7. FormHolds([m.form EXCEPT !.items = r, !.item = j], m.rows["server"])
  BY <1>5, <1>6, Same, FormFields DEF FormHolds
<1>8. Sets([m.form EXCEPT !.items = r, !.item = j])
  BY <1>2, <1>3, <1>4, Same, FormFields DEF FormHolds
<1> QED
  BY <1>7, <1>8, SetsKeyed

LEMMA SwapsKeyed ==
  ASSUME TuiInv, m.end = "no", NEW i, NEW j \in Nat, j < Len(m.form.items), Swaps(i, j) PROVE Keyed
<1> DEFINE s == m.form.items
<1>1. PICK r : r = [s EXCEPT ![i + 1] = s[j + 1], ![j + 1] = s[i + 1]]
  OBVIOUS
<1>2. Sequence(s) /\ Len(s) \in Nat
  BY Same DEF FormHolds, Sequence
<1>3. Sequence(r) /\ Len(r) = Len(s)
  <2>1. PICK q : q = [s EXCEPT ![i + 1] = s[j + 1]]
    OBVIOUS
  <2>2. r = [q EXCEPT ![j + 1] = s[i + 1]]
    BY <1>1, <2>1
  <2> HIDE DEF s
  <2>3. Sequence(q) /\ Len(q) = Len(s)
    BY <1>2, <2>1, ReplacedLen
  <2> QED
    BY <2>2, <2>3, ReplacedLen
<1>4. FormHolds([m.form EXCEPT !.items = r, !.item = j], m.rows["server"])
  BY <1>2, <1>3, Same, FormFields DEF FormHolds
<1>5. Sets([m.form EXCEPT !.items = r, !.item = j])
  BY <1>1 DEF Swaps
<1> QED
  BY <1>4, <1>5, SetsKeyed

LEMMA ItemMoveKeyed ==
  ASSUME TuiInv, m.end = "no", NEW j \in Nat, j < Len(m.form.items), Sets([m.form EXCEPT !.item = j]) PROVE Keyed
<1>1. FormHolds([m.form EXCEPT !.item = j], m.rows["server"])
  BY Same, FormFields DEF FormHolds
<1> QED
  BY <1>1, SetsKeyed

LEMMA ItemKeysKeyed == ASSUME TuiInv, m.end = "no", ItemKeys PROVE Keyed
<1> DEFINE i == m.form.item
           s == m.form.items
<1>1. /\ i \in Nat /\ Len(s) \in Nat /\ (i = 0 \/ i < Len(s))
  BY Same DEF FormHolds, Sequence
<1>2. CASE i > 0 /\ Sets([m.form EXCEPT !.item = @ - 1])
  <2>1. i - 1 \in Nat /\ i - 1 < Len(s) /\ Sets([m.form EXCEPT !.item = i - 1])
    BY <1>1, <1>2
  <2> QED
    BY <2>1, ItemMoveKeyed
<1>3. CASE i < Len(s) - 1 /\ Sets([m.form EXCEPT !.item = @ + 1])
  <2>1. i + 1 \in Nat /\ i + 1 < Len(s) /\ Sets([m.form EXCEPT !.item = i + 1])
    BY <1>1, <1>3
  <2> QED
    BY <2>1, ItemMoveKeyed
<1>4. CASE i > 0 /\ Swaps(i, i - 1)
  BY <1>1, <1>4, SwapsKeyed
<1>5. CASE i < Len(s) - 1 /\ Swaps(i, i + 1)
  BY <1>1, <1>5, SwapsKeyed
<1> QED
  BY <1>2, <1>3, <1>4, <1>5, OverlayKeyed, RemovesItemKeyed DEF ItemKeys

LEMMA ItemFormKeysKeyed == ASSUME TuiInv, m.end = "no", NEW t \in Forms, m.screen = Form(t), ItemFormKeys(t) PROVE Keyed
<1>1. Quits \/ Submits(t) \/ Closes \/ Leaves(t) \/ \E i : Sets([m.form EXCEPT !.focus = i])
  BY DEF ItemFormKeys
<1> QED
  BY <1>1, QuitsKeyed, SubmitsKeyed, ClosesKeyed, LeavesKeyed, TabsKeyed

LEMMA GatewayFormKeyed == ASSUME TuiInv, m.end = "no", updateGatewayForm PROVE Keyed
<1>1. "gateway" \in Forms /\ m.screen = Form("gateway")
  BY DEF Forms, Tables, updateGatewayForm
<1> QED
  BY <1>1, EscConfirmKeyed, ItemFormKeysKeyed, TypesKeyed, AddsItemKeyed, ItemKeysKeyed DEF updateGatewayForm

LEMMA UserKeyed ==
  ASSUME TuiInv, m.end = "no", NEW b,
         Sets([m.form EXCEPT !.overlay = "none",
                 !.items = IF m.form.item < Len(@) THEN [@ EXCEPT ![m.form.item + 1].user = b] ELSE @])
  PROVE  Keyed
<1> DEFINE s == m.form.items
           i == m.form.item
<1>1. PICK r : r = IF i < Len(s) THEN [s EXCEPT ![i + 1].user = b] ELSE s
  OBVIOUS
<1>2. Sequence(r) /\ Len(r) = Len(s) /\ Len(s) \in Nat
  <2>1. Sequence(s) /\ Len(s) \in Nat
    BY Same DEF FormHolds, Sequence
  <2>2. PICK v : v = [s[i + 1] EXCEPT !.user = b]
    OBVIOUS
  <2>3. r = [s EXCEPT ![i + 1] = v] \/ r = s
    BY <1>1, <2>2
  <2> HIDE DEF s, i
  <2>4. CASE r = [s EXCEPT ![i + 1] = v]
    BY <2>1, <2>4, ReplacedLen
  <2> QED
    BY <2>1, <2>3, <2>4
<1>3. FormHolds([m.form EXCEPT !.overlay = "none", !.items = r], m.rows["server"])
  BY <1>2, Same, FormFields DEF FormHolds
<1>4. Sets([m.form EXCEPT !.overlay = "none", !.items = r])
  BY <1>1
<1> QED
  BY <1>3, <1>4, SetsKeyed

LEMMA ClusterFormKeyed == ASSUME TuiInv, m.end = "no", updateClusterForm PROVE Keyed
<1>1. "cluster" \in Forms /\ m.screen = Form("cluster")
  BY DEF Forms, Tables, updateClusterForm
<1>2. \/ handleFormEscConfirm("cluster") \/ ItemFormKeys("cluster") \/ Types
      \/ m.form.overlay = "server" /\ AddsItem
      \/ \E b \in BOOLEAN :
           Sets([m.form EXCEPT !.overlay = "none",
                   !.items = IF m.form.item < Len(@) THEN [@ EXCEPT ![m.form.item + 1].user = b] ELSE @])
      \/ ItemKeys
      \/ OpensOverlay("user", 0)
      \/ m.form.items # <<>> /\ ~(m.form.item < Len(m.form.items))
  BY DEF updateClusterForm
<1> QED
  BY <1>1, <1>2, EscConfirmKeyed, ItemFormKeysKeyed, TypesKeyed, AddsItemKeyed, UserKeyed, ItemKeysKeyed,
     OverlayKeyed, ItemThere

-----------------------------------------------------------------------------
(* Lists.                                                                  *)

LEMMA FilterStep ==
  ASSUME TuiInv, m.end = "no", NEW n, KeyStep(n), NEW S \in SUBSET Ids PROVE KeyStep(applyFilter(n, S))
<1>1. PICK s : s = (IF n.query = "word" THEN Listed(S \cap ToSet(n.rows["server"])) ELSE n.rows["server"])
  OBVIOUS
<1>2. Sequence(s)
  <2>1. S \cap ToSet(n.rows["server"]) \in SUBSET Ids
    OBVIOUS
  <2>2. Sequence(Listed(S \cap ToSet(n.rows["server"])))
    BY <2>1, IdsFinite, ListedLen
  <2>3. Sequence(n.rows["server"])
    BY DEF KeyStep, Holds, ModelHolds, Lists, Tables
  <2> QED
    BY <1>1, <2>2, <2>3
<1>3. applyFilter(n, S) = [[n EXCEPT !.filtered = s] EXCEPT !.cursor["server"] = 0]
  BY <1>1 DEF applyFilter, applyFilterKeeps
<1>4. KeyStep([[n EXCEPT !.filtered = s] EXCEPT !.cursor["server"] = 0])
  <2> DEFINE o == [[n EXCEPT !.filtered = s] EXCEPT !.cursor["server"] = 0]
  <2>1. Holds(n) /\ ModelHolds(n)
    BY DEF KeyStep, Holds
  <2>2. /\ DOMAIN o = DOMAIN n /\ o.startAt = n.startAt /\ o.screen = n.screen /\ o.rows = n.rows /\ o.form = n.form
        /\ o.end = n.end /\ o.filtered = s
    BY <2>1 DEF ModelHolds
  <2>3. o.cursor = [n.cursor EXCEPT !["server"] = 0]
    BY <2>1 DEF ModelHolds
  <2>4. o.cursor \in [Lists -> Nat] /\ o.cursor["server"] = 0 /\ \A l \in Lists \ {"server"} : o.cursor[l] = n.cursor[l]
    BY <2>1, <2>3 DEF ModelHolds, Lists, Tables
  <2> HIDE DEF o
  <2>5. Holds(o)
    BY <1>2, <2>1, <2>2, <2>4 DEF Holds, ModelHolds
  <2>6. KeyStep(o)
    BY <2>2, <2>4, <2>5 DEF KeyStep
  <2> QED
    BY <2>6 DEF o
<1> QED
  BY <1>3, <1>4

LEMMA QueryStep == ASSUME TuiInv, m.end = "no", NEW q PROVE KeyStep([m EXCEPT !.query = q])
<1>1. KeyStep([m EXCEPT !["query"] = q])
  BY Same, OtherStep
<1> QED
  BY <1>1

LEMMA SearchedKeyed ==
  ASSUME TuiInv, m.end = "no", NEW q, NEW S \in SUBSET Ids, Becomes(applyFilter([m EXCEPT !.query = q], S))
  PROVE  Keyed
BY QueryStep, FilterStep DEF Keyed, Moved

LEMMA ClearsQueryKeyed == ASSUME TuiInv, m.end = "no", ClearsQuery PROVE Keyed
BY SearchedKeyed DEF ClearsQuery

LEMMA SearchesKeyed == ASSUME TuiInv, m.end = "no", Searches PROVE Keyed
<1>1. {} \in SUBSET Ids
  OBVIOUS
<1> QED
  BY <1>1, SearchedKeyed DEF Searches

LEMMA PaletteKeyed == ASSUME TuiInv, m.end = "no", updateCommandPalette PROVE Keyed
<1>1. CASE Becomes([m EXCEPT !.query = "none", !.screen = List("server")])
  <2>1. KeyStep([[m EXCEPT !.query = "none"] EXCEPT !.screen = List("server")])
    BY QueryStep, ScreenStep, Screens, NearScreens DEF Tables
  <2> QED
    BY <1>1, <2>1 DEF Keyed, Moved
<1>2. ASSUME NEW t \in Scope[m.startAt] \ {"server"}, BecomesAnd([m EXCEPT !.query = "none"], Command("load", t, 0))
      PROVE  Keyed
  <2>1. t \in Tables
    BY Same, TuiAssumption DEF Holds, ModelHolds
  <2> QED
    BY <1>2, <2>1, QueryStep, AsksKeyed
<1> QED
  BY <1>1, <1>2, QuitsKeyed, ClearsQueryKeyed DEF updateCommandPalette, executeCommand

(* A row of the server list is opened, or its deletion is to be confirmed. *)
LEMMA SelectedKeyed ==
  ASSUME TuiInv, m.end = "no", NEW l \in Stepping \cup {"picker", "server"}, Shown(l) # <<>>,
         (Ends("panic") /\ ~(m.cursor[l] < Len(Shown(l)))) \/ Keyed, l \in Dependent => m.screen = List(l)
  PROVE  Keyed
BY PanicKeyed

LEMMA ConfirmDeleteKeyed == ASSUME TuiInv, m.end = "no", NEW r, ConfirmDelete(r) PROVE Keyed
<1>1. KeyStep([[m EXCEPT !["doomed"] = r] EXCEPT !.screen = At("confirm", "server")])
  BY Same, OtherStep, ScreenStep, Screens, NearScreens
<1> QED
  BY <1>1 DEF ConfirmDelete, Keyed, Moved

LEMMA InitServerFormKeyed == ASSUME TuiInv, m.end = "no", NEW r, initServerForm(r) PROVE Keyed
BY InitFormWithGatewaysKeyed DEF initServerForm, Tables, Near, Dependent

LEMMA ServerSelectedKeyed ==
  ASSUME TuiInv, m.end = "no", WithSelected("server", initServerForm) \/ WithSelected("server", ConfirmDelete)
  PROVE  Keyed
<1>1. Shown("server") # <<>> /\ (\/ Ends("panic") /\ ~(m.cursor["server"] < Len(Shown("server")))
                                 \/ \E r : initServerForm(r) \/ ConfirmDelete(r))
  BY DEF WithSelected
<1> QED
  BY <1>1, SelectedKeyed, InitServerFormKeyed, ConfirmDeleteKeyed DEF Dependent

LEMMA PluginsKeyed ==
  ASSUME TuiInv, m.end = "no",
         BecomesAnd([m EXCEPT !.cursor["picker"] = 0, !.screen = At("picker", "server")], Command("plugins", "plugin", 0))
  PROVE  Keyed
<1>1. PICK n : n = [m EXCEPT !.cursor["picker"] = 0, !.screen = At("picker", "server")]
  OBVIOUS
<1>2. KeyStep(n) /\ n.cursor["picker"] = 0
  <2>1. PICK s : s = At("picker", "server")
    OBVIOUS
  <2>2. s \in [kind : Kinds, of : Tables] /\ Near(s.of)
    BY <2>1, Screens, NearScreens
  <2>3. n = [m EXCEPT !.cursor["picker"] = 0, !.screen = s]
    BY <1>1, <2>1
  <2>4. DOMAIN m.cursor = Lists /\ "picker" \in Lists /\ m.cursor["picker"] \in Nat /\ n.screen = s
    BY <2>3, Same DEF Holds, ModelHolds, Lists, Tables
  <2>5. KeyStep([m EXCEPT !.cursor["picker"] = 0])
    BY <2>4, Same DEF KeyStep, Holds, ModelHolds
  <2>6. n = [[m EXCEPT !.cursor["picker"] = 0] EXCEPT !.screen = s]
    BY <2>3
  <2>7. KeyStep(n)
    BY <2>2, <2>5, <2>6, ScreenStep
  <2> QED
    BY <2>3, <2>4, <2>7
<1>3. "plugin" \in Tables
  BY DEF Tables
<1>4. BecomesAnd(n, Command("plugins", "plugin", 0))
  BY <1>1
<1> QED
  BY <1>2, <1>3, <1>4, AsksKeyed

LEMMA ListKeyed == ASSUME TuiInv, m.end = "no", updateList PROVE Keyed
<1>1. \/ updateCommandPalette \/ Quits \/ Goes(Welcome) \/ initServerForm(0)
      \/ WithSelected("server", initServerForm) \/ WithSelected("server", ConfirmDelete)
      \/ BecomesAnd([m EXCEPT !.cursor["picker"] = 0, !.screen = At("picker", "server")], Command("plugins", "plugin", 0))
      \/ ClearsQuery \/ Choose("server") \/ Moves("server") \/ Searches \/ Goes(At("detail", "server"))
  BY DEF updateList
<1>2. "server" \in Lists
  BY DEF Lists, Tables
<1> QED
  BY <1>1, <1>2, PaletteKeyed, QuitsKeyed, GoesNearKeyed, InitServerFormKeyed, ServerSelectedKeyed, PluginsKeyed,
     ClearsQueryKeyed, ChooseKeyed, MovesKeyed, SearchesKeyed

LEMMA WelcomeKeyed == ASSUME TuiInv, m.end = "no", updateWelcome PROVE Keyed
BY QuitsKeyed, GoesNearKeyed, ListKeyed DEF updateWelcome

LEMMA DetailKeyed == ASSUME TuiInv, m.end = "no", updateDetail PROVE Keyed
BY QuitsKeyed, GoesNearKeyed, ChooseKeyed, ServerSelectedKeyed DEF updateDetail

LEMMA PickerKeyed == ASSUME TuiInv, m.end = "no", updatePluginPicker PROVE Keyed
<1>1. ASSUME WithSelected("server", LAMBDA r : WithSelected("picker", LAMBDA name : Ends("chosen"))) PROVE Keyed
  <2>1. Shown("server") # <<>> /\ (\/ Ends("panic") /\ ~(m.cursor["server"] < Len(Shown("server")))
                                   \/ WithSelected("picker", LAMBDA name : Ends("chosen")))
    BY <1>1 DEF WithSelected
  <2>2. ASSUME WithSelected("picker", LAMBDA name : Ends("chosen")) PROVE Keyed
    <3>1. Shown("picker") # <<>> /\ ((Ends("panic") /\ ~(m.cursor["picker"] < Len(Shown("picker")))) \/ Ends("chosen"))
      BY <2>2 DEF WithSelected
    <3> QED
      BY <3>1, SelectedKeyed DEF Keyed, Ended, Dependent
  <2> QED
    BY <2>1, <2>2, SelectedKeyed DEF Dependent
<1>2. "picker" \in Lists
  BY DEF Lists
<1> QED
  BY <1>1, <1>2, QuitsKeyed, GoesNearKeyed, MovesKeyed DEF updatePluginPicker

LEMMA PluginListKeyed == ASSUME TuiInv, m.end = "no", updatePluginList PROVE Keyed
<1>1. ASSUME NEW p, Becomes([m EXCEPT !.doomed = p, !.screen = At("view", "plugin")]) PROVE Keyed
  <2>1. KeyStep([[m EXCEPT !["doomed"] = p] EXCEPT !.screen = At("view", "plugin")])
    BY Same, OtherStep, ScreenStep, Screens, NearScreens
  <2> QED
    BY <1>1, <2>1 DEF Keyed, Moved
<1>2. CASE Ends("panic")
  BY <1>2 DEF updatePluginList, Keyed, Ended, Excused
<1>3. \/ Quits \/ Goes(List("server")) \/ Moves("plugin") \/ Ends("panic")
      \/ \E p : Becomes([m EXCEPT !.doomed = p, !.screen = At("view", "plugin")])
  BY DEF updatePluginList, WithSelected
<1>4. "plugin" \in Lists
  BY DEF Lists, Tables
<1> QED
  BY <1>1, <1>2, <1>3, <1>4, QuitsKeyed, GoesNearKeyed, MovesKeyed

(* What the other lists do beside opening their forms. *)
LEMMA OtherListKeyed ==
  ASSUME TuiInv, m.end = "no", NEW t \in Stepping,
         \/ Quits \/ Moves(t) \/ Goes(Welcome) \/ Deletes(t) \/ Ends("chosen")
         \/ Shown(t) # <<>> /\ ~(m.cursor[t] < Len(Shown(t))) /\ Ends("panic"),
         m.screen = List(t)
  PROVE  Keyed
<1>1. t \in Lists
  BY DEF Stepping, Lists, Tables
<1>2. Ends("chosen") => Keyed
  BY DEF Keyed, Ended
<1> QED
  BY <1>1, <1>2, QuitsKeyed, MovesKeyed, GoesNearKeyed, DeletesKeyed, PanicKeyed

LEMMA ListNear == ASSUME NEW t, m.screen = List(t) PROVE Near(t)
BY DEF List, At, Near

LEMMA GatewayListKeyed == ASSUME TuiInv, m.end = "no", updateGatewayList PROVE Keyed
<1>1. \/ \E row : initForm("gateway", row)
      \/ Quits \/ Moves("gateway") \/ Goes(Welcome) \/ Deletes("gateway")
      \/ Shown("gateway") # <<>> /\ ~(m.cursor["gateway"] < Len(Shown("gateway"))) /\ Ends("panic")
  BY DEF updateGatewayList, ListOf, WithSelected, initGatewayForm
<1>2. "gateway" \in Tables /\ "gateway" \in Stepping
  BY DEF Tables, Stepping
<1>3. m.screen = List("gateway") /\ Near("gateway")
  BY ListNear DEF updateGatewayList
<1> QED
  BY <1>1, <1>2, <1>3, InitFormKeyed, OtherListKeyed

LEMMA ClusterListKeyed == ASSUME TuiInv, m.end = "no", updateClusterList PROVE Keyed
<1>1. \/ \E row : initForm("cluster", row)
      \/ Quits \/ Moves("cluster") \/ Goes(Welcome) \/ Deletes("cluster") \/ Choose("cluster")
      \/ Shown("cluster") # <<>> /\ ~(m.cursor["cluster"] < Len(Shown("cluster"))) /\ Ends("panic")
  BY DEF updateClusterList, ListOf, WithSelected, initClusterForm
<1>2. "cluster" \in Tables /\ "cluster" \in Stepping
  BY DEF Tables, Stepping
<1>3. m.screen = List("cluster") /\ Near("cluster")
  BY ListNear DEF updateClusterList
<1> QED
  BY <1>1, <1>2, <1>3, InitFormKeyed, OtherListKeyed, ChooseKeyed

LEMMA HostListKeyed == ASSUME TuiInv, m.end = "no", updateHostList PROVE Keyed
<1>1. \/ \E row : initHostForm(row)
      \/ Quits \/ Moves("hosts") \/ Goes(Welcome) \/ Deletes("hosts")
      \/ Shown("hosts") # <<>> /\ ~(m.cursor["hosts"] < Len(Shown("hosts"))) /\ Ends("panic")
  BY DEF updateHostList, ListOf, WithSelected
<1>2. "hosts" \in Stepping
  BY DEF Stepping
<1>3. m.screen = List("hosts")
  BY DEF updateHostList
<1> QED
  BY <1>1, <1>2, <1>3, InitHostFormKeyed, OtherListKeyed

LEMMA TunnelListKeyed == ASSUME TuiInv, m.end = "no", updateTunnelList PROVE Keyed
<1>1. \/ \E row : initForm("tunnel", row)
      \/ \E r : BecomesAnd(m, Command("start", "tunnel", r)) \/ BecomesAnd(m, Command("stop", "tunnel", r))
      \/ Quits \/ Moves("tunnel") \/ Goes(Welcome) \/ Deletes("tunnel")
      \/ Shown("tunnel") # <<>> /\ ~(m.cursor["tunnel"] < Len(Shown("tunnel"))) /\ Ends("panic")
  BY DEF updateTunnelList, ListOf, WithSelected, initTunnelForm, Starts, Stops
<1>2. "tunnel" \in Tables /\ "tunnel" \in Stepping
  BY DEF Tables, Stepping
<1>3. m.screen = List("tunnel") /\ Near("tunnel")
  BY ListNear DEF updateTunnelList
<1> QED
  BY <1>1, <1>2, <1>3, InitFormKeyed, OtherListKeyed, AsksKeyed, Same

LEMMA AppServerListKeyed == ASSUME TuiInv, m.end = "no", updateAppServerList PROVE Keyed
<1>1. \/ \E row : initForm("app-server", row)
      \/ Becomes(m)
      \/ Quits \/ Moves("app-server") \/ Goes(Welcome) \/ Deletes("app-server") \/ Ends("chosen")
      \/ Shown("app-server") # <<>> /\ ~(m.cursor["app-server"] < Len(Shown("app-server"))) /\ Ends("panic")
  BY DEF updateAppServerList, ListOf, WithSelected, initAppServerForm, Connects
<1>2. "app-server" \in Tables /\ "app-server" \in Stepping
  BY DEF Tables, Stepping
<1>3. Becomes(m) => Keyed
  BY Same DEF Keyed, Moved
<1>4. m.screen = List("app-server") /\ Near("app-server")
  BY ListNear DEF updateAppServerList
<1> QED
  BY <1>1, <1>2, <1>3, <1>4, InitFormKeyed, OtherListKeyed

LEMMA ProfileListKeyed == ASSUME TuiInv, m.end = "no", updateProfileList PROVE Keyed
<1>1. \/ \E row : initFormWithGateways("profile", row)
      \/ \E r : \E op \in {"activate", "deactivate", "delete"} : BecomesAnd(m, Command(op, "profile", r))
      \/ Quits \/ Moves("profile") \/ Goes(List("server")) \/ Ends("panic")
  BY DEF updateProfileList, ListOf, WithSelected, initProfileForm, DeletesInPlace
<1>2. CASE Ends("panic")
  BY <1>2 DEF updateProfileList, Keyed, Ended, Excused
<1>3. "profile" \in Tables /\ "profile" \in Lists /\ Near("profile")
  BY DEF Tables, Lists, Near, Dependent
<1> QED
  BY <1>1, <1>2, <1>3, InitFormWithGatewaysKeyed, QuitsKeyed, MovesKeyed, GoesNearKeyed, AsksKeyed, Same

LEMMA KeyKeyed == ASSUME TuiInv, m.end = "no", Key PROVE Keyed
BY WelcomeKeyed, ListKeyed, DetailKeyed, PickerKeyed, PluginListKeyed, ServerFormKeyed, GatewayListKeyed, GatewayFormKeyed,
   ClusterListKeyed, ClusterFormKeyed, HostListKeyed, HostFormKeyed, TunnelListKeyed, TunnelFormKeyed,
   AppServerListKeyed, AppServerFormKeyed, ProfileListKeyed, ProfileFormKeyed DEF Key

LEMMA ConfirmInv == ASSUME TuiInv, m.end = "no", updateConfirmDelete, UNCHANGED <<table, elsewhere>> PROVE TuiInv'
<1>0. confirmed \subseteq confirmed' /\ m.screen.of \notin Dependent
  BY DEF updateConfirmDelete, At, Dependent
<1>1. CASE Quits
  BY <1>0, <1>1, QuitsKeyed, KeyedInv
<1>2. CASE BecomesAnd(m, Command("delete", "server", m.doomed)) /\ confirmed' = confirmed \cup {m.doomed}
  <2>1. PICK c : c = Command("delete", "server", m.doomed)
    OBVIOUS
  <2>2. /\ DOMAIN c = {"n", "op", "table", "row", "valid", "stage", "answer"}
        /\ c.op = "delete" /\ c.table = "server" /\ c.stage = "run"
    BY <2>1 DEF Command, Reading
  <2>3. Plain(c)
    BY <2>2 DEF Plain, CommandHolds, Stepping, Tables, Reading
  <2>4. BecomesAnd(m, c)
    BY <1>2, <2>1
  <2> QED
    BY <1>0, <1>2, <2>2, <2>3, <2>4, Same, BecomesAndInv
<1>3. CASE Goes(List("server"))
  BY <1>0, <1>3, GoesNearKeyed, KeyedInv
<1> QED
  BY <1>1, <1>2, <1>3 DEF updateConfirmDelete

-----------------------------------------------------------------------------
(* The invariant.                                                          *)

LEMMA InitInv == Init => TuiInv
<1> SUFFICES ASSUME Init PROVE TuiInv
  OBVIOUS
<1>0. PICK s \in StartAt : \E t :
        /\ t = IF s = "welcome" THEN "server" ELSE s
        /\ m = [startAt |-> s, screen |-> IF s = "welcome" THEN Welcome ELSE List(s),
                rows |-> [l \in Lists |-> IF l = "server" THEN Listed(Stored[s]["server"]) ELSE <<>>],
                filtered |-> Listed(Stored[s]["server"]),
                cursor |-> [l \in Lists |-> 0], query |-> "none",
                form |-> NoForm, doomed |-> 0, end |-> "no"]
        /\ cmds = {[n |-> 0, op |-> IF t = "server" THEN "stats" ELSE "load", valid |-> TRUE,
                    table |-> t, row |-> 0, stage |-> "list", answer |-> NoLists]}
        /\ table = Stored[s]
  BY DEF Init
<1>1. PICK t :
        /\ t = IF s = "welcome" THEN "server" ELSE s
        /\ m = [startAt |-> s, screen |-> IF s = "welcome" THEN Welcome ELSE List(s),
                rows |-> [l \in Lists |-> IF l = "server" THEN Listed(Stored[s]["server"]) ELSE <<>>],
                filtered |-> Listed(Stored[s]["server"]),
                cursor |-> [l \in Lists |-> 0], query |-> "none",
                form |-> NoForm, doomed |-> 0, end |-> "no"]
        /\ cmds = {[n |-> 0, op |-> IF t = "server" THEN "stats" ELSE "load", valid |-> TRUE,
                    table |-> t, row |-> 0, stage |-> "list", answer |-> NoLists]}
        /\ table = Stored[s]
  BY <1>0
<1>2. t \in Tables \ {"plugin"} /\ Stored[s] \in [Tables -> SUBSET Ids]
  BY <1>1, TuiAssumption DEF Forms, Tables
<1>3. PICK v : v = Listed(Stored[s]["server"])
  OBVIOUS
<1>4. Sequence(v)
  BY <1>2, <1>3, IdsFinite, ListedLen DEF Tables
<1>5. FormHolds(NoForm, m.rows["server"])
  BY EmptyLen DEF FormHolds, NoForm
<1>6. \A l \in Lists : m.rows[l] = IF l = "server" THEN v ELSE <<>>
  BY <1>1, <1>3
<1>7. ModelHolds(m)
  <2>1. m.screen \in [kind : Kinds, of : Tables]
    BY <1>1, <1>2, Screens
  <2>2. \A l \in Lists : Sequence(m.rows[l])
    BY <1>4, <1>6, EmptyLen
  <2>3. DOMAIN m.rows = Lists /\ m.cursor \in [Lists -> Nat] /\ m.cursor["server"] = 0
    BY <1>1 DEF Lists, Tables
  <2>4. m.filtered = v /\ m.startAt = s /\ DOMAIN m = {"startAt", "screen", "rows", "filtered", "cursor", "query", "form", "doomed", "end"}
    BY <1>1, <1>3
  <2> QED
    BY <1>4, <2>1, <2>2, <2>3, <2>4 DEF ModelHolds
<1>8. Holds(m) /\ m.end = "no"
  BY <1>1, <1>5, <1>7 DEF Holds
<1>9. PICK c : cmds = {c} /\ c = [n |-> 0, op |-> IF t = "server" THEN "stats" ELSE "load", valid |-> TRUE,
                                  table |-> t, row |-> 0, stage |-> "list", answer |-> NoLists]
  BY <1>1
<1>10. CommandHolds(c) /\ c.stage = "list" /\ c.op \in {"stats", "load"}
  BY <1>2, <1>9 DEF CommandHolds, Reading, Tables
<1>11. ListsHold
  <2>1. ASSUME NEW u \in Tables PROVE True(u, m.rows[u])
    <3>1. u \in Lists /\ TableOf(u) = u
      BY DEF Lists, TableOf, Tables
    <3> QED
      BY <1>1, <1>3, <1>6, <3>1 DEF True
  <2> QED
    BY <1>9, <1>10, <2>1 DEF ListsHold
<1>12. CursorsHold
  <2>1. \A l \in Stepping \cup {"picker"} : m.cursor[l] = 0
    BY <1>1 DEF Stepping, Lists, Tables
  <2> QED
    BY <1>9, <1>10, <2>1 DEF CursorsHold
<1>13. table \in [Tables -> Rows]
  BY <1>1, <1>2 DEF Rows
<1> QED
  BY <1>8, <1>9, <1>10, <1>11, <1>12, <1>13 DEF TuiInv, ClampedListsHold

LEMMA Inductive == TuiInv /\ [Next]_vars => TuiInv'
<1> SUFFICES ASSUME TuiInv, [Next]_vars PROVE TuiInv'
  OBVIOUS
<1>1. CASE UNCHANGED vars
  <2>1. /\ m' = m /\ cmds' = cmds /\ table' = table /\ elsewhere' = elsewhere /\ hasty' = hasty
        /\ confirmed' = confirmed
    BY <1>1 DEF vars
  <2>2. ClampedListsHold' <=> ClampedListsHold
    BY <2>1 DEF ClampedListsHold, Cascades
  <2>3. Calm' <=> Calm
    BY <2>1 DEF Calm
  <2>4. ListsHold' <=> ListsHold
    BY <2>1 DEF ListsHold, True, Renewed, Hidden, Shrinks, Cascades
  <2>5. CursorsHold' <=> CursorsHold
    BY <2>1 DEF CursorsHold, Deleting, Shrinks, Cascades
  <2> QED
    BY <2>1, <2>2, <2>3, <2>4, <2>5 DEF TuiInv
<1>2. ASSUME Next PROVE TuiInv'
  <2>1. m.end = "no"
    BY <1>2 DEF Next
  <2>2. CASE Key /\ UNCHANGED <<table, elsewhere, confirmed>>
    BY <2>1, <2>2, KeyKeyed, KeyedInv
  <2>3. CASE updateConfirmDelete /\ UNCHANGED <<table, elsewhere>>
    BY <2>1, <2>3, ConfirmInv
  <2>4. CASE updatePluginDetail
    BY <2>1, <2>4, EditorInv
  <2>5. CASE \E c \in cmds : Runs(c) \/ Fails(c) \/ ReadsBack(c) \/ Update(c)
    BY <2>1, <2>5, RunsInv, FailsInv, ReadsBackInv, UpdateInv
  <2>6. CASE \E u \in Tables, r \in Ids : Elsewhere(u, r)
    BY <2>1, <2>6, ElsewhereInv
  <2> QED
    BY <1>2, <2>2, <2>3, <2>4, <2>5, <2>6 DEF Next
<1> QED
  BY <1>1, <1>2

(* TuiInv is inductive: the indices of every list, form and picker, the commands in
   flight, and, as long as commands do not overlap, what lists and cursors have to do
   with the tables. *)
THEOREM TuiHolds == Spec => []TuiInv
<1> QED
  BY InitInv, Inductive, PTL DEF Spec

(* The cursor of the server list, the one over the items of a form and the one of a
   server picker stay within what they move over, whatever results arrive. *)
THEOREM IndicesStayInRange == Spec => []IndicesInRange
<1>1. TuiInv => IndicesInRange
  BY DEF TuiInv, Holds, ModelHolds, FormHolds, IndicesInRange
<1> QED
  BY <1>1, TuiHolds, PTL

(* A user who waits for each answer deletes rows of any list but the profiles' without
   an index ever running beyond a list. *)
THEOREM ClampedListsStay == Spec => []ClampedListsHold
<1>1. TuiInv => ClampedListsHold
  BY DEF TuiInv
<1> QED
  BY <1>1, TuiHolds, PTL

(* With nothing in flight, and commands that never overlapped, the list on the screen is
   the table's. *)
THEOREM QuietListsStayTrue == Spec => []QuietListsAreTrue
<1>1. TuiInv => QuietListsAreTrue
  <2> SUFFICES ASSUME TuiInv, cmds = {} /\ ~hasty /\ elsewhere = {} /\ m.screen.kind = "list" /\ m.end = "no"
               PROVE  m.rows[m.screen.of] \in {<<>>, Listed(table[m.screen.of])}
    BY DEF QuietListsAreTrue
  <2>1. m.screen.of \in Tables /\ ListsHold
    BY DEF TuiInv, Calm, Holds, ModelHolds
  <2>2. True(m.screen.of, m.rows[m.screen.of])
    BY <2>1 DEF ListsHold, Renewed, Hidden
  <2>3. TableOf(m.screen.of) = m.screen.of
    BY <2>1 DEF TableOf, Tables
  <2> QED
    BY <2>2, <2>3 DEF True
<1> QED
  BY <1>1, TuiHolds, PTL

-----------------------------------------------------------------------------
(* Forms with unsaved changes.                                             *)

Stays == m'.screen = m.screen \/ m'.end # "no" \/ m.form.dialogue = "cancel"

(* What the keys of a form do that has unsaved changes. *)
FormKey(t) ==
  \/ \E f : Sets(f)
  \/ Submits(t) \/ Leaves(t)
  \/ Ends("quit") \/ Ends("panic")
  \/ m.form.dialogue = "cancel" /\ Becomes([m EXCEPT !.screen = List(t), !.form.dialogue = "none"])

LEMMA EscConfirmIsFormKey == ASSUME NEW t, handleFormEscConfirm(t) PROVE FormKey(t)
BY DEF handleFormEscConfirm, FormKey

LEMMA PlainFormKeys ==
  ASSUME NEW t, \/ Quits \/ Closes \/ Types \/ (\E n : Advances(n)) \/ (\E o, i : OpensOverlay(o, i))
                \/ Leaves(t) \/ Submits(t)
  PROVE  FormKey(t)
BY DEF Quits, Closes, Types, Advances, OpensOverlay, FormKey

LEMMA ItemKeysAreFormKeys == ASSUME NEW t, AddsItem \/ ItemKeys \/ ItemFormKeys(t) PROVE FormKey(t)
<1>1. CASE AddsItem
  BY <1>1 DEF AddsItem, PicksFrom, Closes, FormKey
<1>2. CASE ItemKeys
  BY <1>2, PlainFormKeys DEF ItemKeys, RemovesItem, Swaps, FormKey
<1>3. CASE ItemFormKeys(t)
  BY <1>3, PlainFormKeys DEF ItemFormKeys, FormKey
<1> QED
  BY <1>1, <1>2, <1>3

LEMMA ServerFormKeys == ASSUME updateServerForm PROVE FormKey("server")
<1>1. CASE AuthOverlay
  BY <1>1, PlainFormKeys DEF AuthOverlay, PicksFrom, FormKey
<1>2. CASE GatewayOverlay
  BY <1>2, PlainFormKeys DEF GatewayOverlay, PicksFrom, FormKey
<1>3. CASE Tabs(12, ForthServer, BackServer)
  BY <1>3 DEF Tabs, FormKey
<1> QED
  BY <1>1, <1>2, <1>3, EscConfirmIsFormKey, PlainFormKeys DEF updateServerForm

LEMMA HostFormKeys == ASSUME updateHostForm PROVE FormKey("hosts")
<1>1. CASE Tabs(3, ForthHost, BackHost)
  BY <1>1 DEF Tabs, FormKey
<1> QED
  BY <1>1, EscConfirmIsFormKey, PlainFormKeys DEF updateHostForm

LEMMA ServerOverlayKeys == ASSUME NEW t, ServerOverlay PROVE FormKey(t)
BY PlainFormKeys DEF ServerOverlay, PicksFrom, FormKey

LEMMA TunnelFormKeys == ASSUME updateTunnelForm PROVE FormKey("tunnel")
<1>1. CASE Tabs(7, NoSkip, NoSkip)
  BY <1>1 DEF Tabs, FormKey
<1> QED
  BY <1>1, EscConfirmIsFormKey, ServerOverlayKeys, PlainFormKeys DEF updateTunnelForm

LEMMA AppServerFormKeys == ASSUME updateAppServerForm PROVE FormKey("app-server")
<1>1. CASE Tabs(4, NoSkip, NoSkip)
  BY <1>1 DEF Tabs, FormKey
<1> QED
  BY <1>1, EscConfirmIsFormKey, ServerOverlayKeys, PlainFormKeys DEF updateAppServerForm

LEMMA ProfileFormKeys == ASSUME updateProfileForm PROVE FormKey("profile")
<1>1. CASE Tabs(3, NoSkip, NoSkip)
  BY <1>1 DEF Tabs, FormKey
<1>2. CASE PicksFrom(gwPickerEntries, LAMBDA e : [m.form EXCEPT !.pick = e[1]])
  BY <1>2, PlainFormKeys DEF PicksFrom, FormKey
<1>3. CASE Sets([m.form EXCEPT !.over = 0])
  BY <1>3 DEF FormKey
<1> QED
  BY <1>1, <1>2, <1>3, EscConfirmIsFormKey, PlainFormKeys DEF updateProfileForm

LEMMA GatewayFormKeys == ASSUME updateGatewayForm PROVE FormKey("gateway")
BY EscConfirmIsFormKey, ItemKeysAreFormKeys, PlainFormKeys DEF updateGatewayForm

LEMMA ClusterFormKeys == ASSUME updateClusterForm PROVE FormKey("cluster")
<1>1. \/ handleFormEscConfirm("cluster") \/ ItemFormKeys("cluster") \/ Types \/ AddsItem \/ ItemKeys
      \/ (\E f : Sets(f)) \/ OpensOverlay("user", 0) \/ Ends("panic")
  BY DEF updateClusterForm
<1> QED
  BY <1>1, EscConfirmIsFormKey, ItemKeysAreFormKeys, PlainFormKeys DEF FormKey

LEMMA LandsOnForm ==
  ASSUME Holds(m), m.screen.kind = "form", NEW f
  PROVE  Landed([m EXCEPT !.form = f]).screen = m.screen
<1>1. [m EXCEPT !.form = f].screen = m.screen
  BY DEF Holds, ModelHolds
<1>2. m.screen # Welcome
  BY DEF Welcome, At
<1> QED
  BY <1>1, <1>2 DEF Landed, Tidy

LEMMA FormKeyStays ==
  ASSUME Holds(m), m.screen.kind = "form", Dirty(m.form), NEW t, FormKey(t)
  PROVE  Stays
<1>1. ASSUME NEW f, Sets(f) PROVE Stays
  BY <1>1, LandsOnForm DEF Sets, Becomes, Stays
<1>2. CASE Submits(t)
  <2>1. m' = Landed([m EXCEPT !.form.dialogue = "none"])
    BY <1>2 DEF Submits, BecomesAnd
  <2>2. m' = Landed([m EXCEPT !.form = [m.form EXCEPT !.dialogue = "none"]])
    BY <2>1
  <2> QED
    BY <2>2, LandsOnForm DEF Stays
<1>3. CASE Leaves(t)
  BY <1>1, <1>3 DEF Leaves
<1>4. ASSUME NEW how \in {"quit", "panic"}, Ends(how) PROVE Stays
  <2>1. m'.end = how
    BY <1>4 DEF Ends, Holds, ModelHolds
  <2> QED
    BY <2>1 DEF Stays
<1> QED
  BY <1>1, <1>2, <1>3, <1>4 DEF FormKey, Stays

LEMMA KeyStays == ASSUME Holds(m), m.screen.kind = "form", Dirty(m.form), Key PROVE Stays
<1>1. \/ updateServerForm \/ updateGatewayForm \/ updateClusterForm \/ updateHostForm \/ updateTunnelForm
      \/ updateAppServerForm \/ updateProfileForm
  BY DEF Key, updateWelcome, updateDetail, updatePluginPicker, updatePluginList, updateGatewayList, updateClusterList,
         updateHostList, updateTunnelList, updateAppServerList, updateProfileList, Welcome, List, At
<1> QED
  BY <1>1, FormKeyStays, ServerFormKeys, GatewayFormKeys, ClusterFormKeys, HostFormKeys, TunnelFormKeys, AppServerFormKeys,
     ProfileFormKeys

LEMMA UpdateStays ==
  ASSUME Holds(m), m.screen.kind = "form", NEW c \in cmds, Update(c)
  PROVE  Stays \/ (c \in cmds \ cmds' /\ c.stage = "answer" /\ ~Silent(c))
<1>1. CASE Silent(c)
  <2>1. m' = Tidy([m EXCEPT !.rows = [l \in Lists |-> IF l \in DOMAIN c.answer THEN c.answer[l] ELSE m.rows[l]]])
    BY <1>1 DEF Update, Answered, Silent
  <2> DEFINE n == [m EXCEPT !.rows = [l \in Lists |-> IF l \in DOMAIN c.answer THEN c.answer[l] ELSE m.rows[l]]]
  <2>2. n.screen = m.screen
    BY DEF Holds, ModelHolds
  <2> QED
    BY <2>1, <2>2 DEF Tidy, Stays
<1>2. CASE ~Silent(c)
  BY <1>2 DEF Update
<1> QED
  BY <1>1, <1>2

(* No key but Cancel in the dialogue leaves a form with unsaved changes; only a result
   that brings up its own screen does. *)
THEOREM DirtyFormsAreKept == Spec => DirtyFormsStay
<1> DEFINE Kept == m.screen.kind = "form" /\ Dirty(m.form) /\ m'.screen # m.screen /\ m'.end = "no" =>
                     \/ m.form.dialogue = "cancel"
                     \/ \E c \in cmds \ cmds' : c.stage = "answer" /\ ~Silent(c)
<1>1. TuiInv /\ [Next]_vars => [Kept]_vars
  <2> SUFFICES ASSUME TuiInv, Next, m.screen.kind = "form", Dirty(m.form) PROVE Kept
    OBVIOUS
  <2>0. m.end = "no" /\ Holds(m)
    BY DEF Next, TuiInv
  <2>1. Stays => Kept
    BY DEF Stays
  <2>2. CASE Key
    BY <2>0, <2>1, <2>2, KeyStays
  <2>3. ~updateConfirmDelete /\ ~updatePluginDetail
    <3>1. m.screen # At("confirm", "server") /\ m.screen # At("view", "plugin")
      BY DEF At
    <3> QED
      BY <3>1 DEF updateConfirmDelete, updatePluginDetail
  <2>4. ASSUME NEW c \in cmds, Runs(c) \/ Fails(c) \/ ReadsBack(c) PROVE Kept
    <3>1. m' = m
      BY <2>4 DEF Runs, Fails, ReadsBack, Replaces
    <3> QED
      BY <3>1
  <2>5. ASSUME NEW c \in cmds, Update(c) PROVE Kept
    BY <2>0, <2>1, <2>5, UpdateStays
  <2>6. ASSUME NEW u, NEW r, Elsewhere(u, r) PROVE Kept
    BY <2>6 DEF Elsewhere
  <2> QED
    BY <2>2, <2>3, <2>4, <2>5, <2>6 DEF Next
<1> QED
  BY <1>1, TuiHolds, PTL DEF Spec, DirtyFormsStay

-----------------------------------------------------------------------------
(* Servers that disappear.                                                 *)

(* A step that deletes no server and issues at most a command that will not. *)
Harmless ==
  /\ m'.startAt = m.startAt /\ elsewhere' = elsewhere /\ confirmed' = confirmed
  /\ table["server"] \subseteq table'["server"]
  /\ \A d \in cmds' : d \in cmds \/ ~(d.op = "delete" /\ d.table = "server")

LEMMA HarmlessInv == ASSUME DeathsHold, Harmless PROVE DeathsHold'
<1>1. ServersDieConfirmed'
  BY DEF DeathsHold, ServersDieConfirmed, Harmless
<1> QED
  BY <1>1 DEF DeathsHold, Harmless

LEMMA LandedStart ==
  ASSUME NEW n, DOMAIN n = DOMAIN m, Holds(m) PROVE Landed(n).startAt = n.startAt
BY DEF Landed, Tidy, Holds, ModelHolds

LEMMA KeyedHarmless ==
  ASSUME TuiInv, m.end = "no", Keyed, UNCHANGED <<table, elsewhere, confirmed>> PROVE Harmless
<1>0. Holds(m)
  BY DEF TuiInv
<1>1. CASE Moved
  <2>1. PICK n : KeyStep(n) /\ m' = Landed(n) /\ cmds' = cmds
    BY <1>1 DEF Moved, Becomes
  <2> QED
    BY <2>1, LandedHolds DEF KeyStep, Harmless
<1>2. CASE Asked
  <2>1. PICK n, c : /\ KeyStep(n) /\ m' = Landed(n) /\ cmds' = cmds \cup {c}
                    /\ c.op = "delete" => c.table # "server"
    BY <1>2 DEF Asked, BecomesAnd, Issue
  <2> QED
    BY <2>1, LandedHolds DEF KeyStep, Harmless
<1>3. CASE Deleted
  <2>1. PICK t \in Stepping : \E r : BecomesAnd([m EXCEPT !.cursor[t] = Stepped(t)], Command("delete", t, r))
    BY <1>3 DEF Deleted
  <2>2. PICK c, n : /\ c.table = t /\ cmds' = cmds \cup {c} /\ m' = Landed(n)
                    /\ n = [m EXCEPT !.cursor[t] = Stepped(t)]
    BY <2>1 DEF BecomesAnd, Issue, Command
  <2>3. DOMAIN n = DOMAIN m /\ n.startAt = m.startAt
    BY <1>0, <2>2 DEF Holds, ModelHolds
  <2>4. m'.startAt = m.startAt
    BY <1>0, <2>2, <2>3, LandedStart
  <2> QED
    BY <2>2, <2>4 DEF Stepping, Harmless
<1>4. CASE Ended
  BY <1>0, <1>4 DEF Ended, Ends, Harmless, Holds, ModelHolds
<1>5. CASE \E l \in Lists : Down(l)
  <2>1. PICK l \in Lists : m' = Landed([m EXCEPT !.cursor[l] = @ + 1]) /\ cmds' = cmds
    BY <1>5 DEF Down
  <2>2. PICK n : n = [m EXCEPT !.cursor[l] = @ + 1]
    OBVIOUS
  <2>3. DOMAIN n = DOMAIN m /\ n.startAt = m.startAt
    BY <1>0, <2>2 DEF Holds, ModelHolds
  <2> QED
    BY <1>0, <2>1, <2>2, <2>3, LandedStart DEF Harmless
<1> QED
  BY <1>1, <1>2, <1>3, <1>4, <1>5 DEF Keyed

LEMMA ConfirmDeaths ==
  ASSUME TuiInv, m.end = "no", DeathsHold, updateConfirmDelete, UNCHANGED <<table, elsewhere>> PROVE DeathsHold'
<1>1. CASE Quits /\ UNCHANGED confirmed
  BY <1>1, QuitsKeyed, KeyedHarmless, HarmlessInv
<1>2. CASE BecomesAnd(m, Command("delete", "server", m.doomed)) /\ confirmed' = confirmed \cup {m.doomed}
  <2>0. PICK c : c = Command("delete", "server", m.doomed)
    OBVIOUS
  <2>1. c.row = m.doomed /\ cmds' = cmds \cup {c} /\ m' = Landed(m)
    <3>1. c.row = m.doomed
      BY <2>0 DEF Command
    <3>2. BecomesAnd(m, c)
      BY <1>2, <2>0
    <3> QED
      BY <3>1, <3>2 DEF BecomesAnd, Issue
  <2>2. m'.startAt = m.startAt
    BY <2>1, LandedStart DEF TuiInv
  <2> QED
    BY <1>2, <2>1, <2>2 DEF DeathsHold, ServersDieConfirmed
<1>3. CASE Goes(List("server")) /\ UNCHANGED confirmed
  BY <1>3, GoesNearKeyed, KeyedHarmless, HarmlessInv
<1> QED
  BY <1>1, <1>2, <1>3 DEF updateConfirmDelete

LEMMA RunsDeaths == ASSUME TuiInv, m.end = "no", DeathsHold, NEW c \in cmds, Runs(c) PROVE DeathsHold'
<1>0. CommandHolds(c)
  BY DEF TuiInv
<1>1. PICK d : d = [c EXCEPT !.stage = "list"]
  OBVIOUS
<1>2. /\ cmds' = (cmds \ {c}) \cup {d} /\ UNCHANGED <<m, elsewhere, confirmed>>
      /\ \/ UNCHANGED table /\ c.op # "delete"
         \/ \E r \in Ids : table' = [table EXCEPT ![c.table] = @ \cup {r}] /\ c.op # "delete"
         \/ table' = [table EXCEPT ![c.table] = @ \ {c.row}] /\ c.op = "delete"
         \/ Takes(c)
  BY <1>0, <1>1, RunsEffect
<1>3. d.op = c.op /\ d.table = c.table /\ d.row = c.row /\ c.table \in Tables
  BY <1>0, <1>1 DEF CommandHolds
<1>4. \A r \in table["server"] \ table'["server"] : r = c.row /\ c.op = "delete" /\ c.table = "server"
  <2>1. table \in [Tables -> Rows] /\ "server" \in Tables
    BY DEF TuiInv, Tables
  <2>2. CASE Takes(c)
    BY <2>1, <2>2, TakesEffect DEF Takes
  <2>3. CASE ~Takes(c)
    BY <1>2, <1>3, <2>1, <2>3
  <2> QED
    BY <2>2, <2>3
<1>5. ServersDieConfirmed'
  <2> SUFFICES ASSUME NEW r \in Stored[m.startAt]["server"] \ table'["server"]
               PROVE  r \in confirmed \/ <<"server", r>> \in elsewhere
    BY <1>2 DEF ServersDieConfirmed
  <2>1. CASE r \in table["server"]
    BY <1>4, <2>1 DEF DeathsHold
  <2>2. CASE r \notin table["server"]
    BY <2>2 DEF DeathsHold, ServersDieConfirmed
  <2> QED
    BY <2>1, <2>2
<1> QED
  BY <1>2, <1>3, <1>5 DEF DeathsHold

LEMMA ReadsBackDeaths == ASSUME TuiInv, m.end = "no", DeathsHold, NEW c \in cmds, ReadsBack(c) PROVE DeathsHold'
<1>0. CommandHolds(c)
  BY DEF TuiInv
<1>1. PICK a : Replaces(c, [c EXCEPT !.stage = "answer", !.answer = a])
  BY DEF ReadsBack
<1>2. PICK d : d = [c EXCEPT !.stage = "answer", !.answer = a]
  OBVIOUS
<1>3. d.op = c.op /\ d.table = c.table /\ d.row = c.row
  BY <1>0, <1>2 DEF CommandHolds
<1>4. cmds' = (cmds \ {c}) \cup {d} /\ UNCHANGED <<m, table, elsewhere, confirmed>>
  BY <1>1, <1>2 DEF Replaces, ReadsBack
<1> QED
  BY <1>3, <1>4 DEF DeathsHold, ServersDieConfirmed

LEMMA EditorHarmless == ASSUME TuiInv, m.end = "no", updatePluginDetail PROVE Harmless
<1>0. Holds(m)
  BY DEF TuiInv
<1>1. CASE Quits /\ UNCHANGED table
  BY <1>1, QuitsKeyed, KeyedHarmless DEF updatePluginDetail
<1>2. CASE Goes(List("plugin")) /\ UNCHANGED table
  BY <1>2, GoesNearKeyed, KeyedHarmless DEF updatePluginDetail
<1>3. ASSUME NEW S, NEW row, NEW a, table' = [table EXCEPT !["plugin"] = S],
             BecomesAnd(m, [Command("edit", "plugin", row) EXCEPT !.stage = "answer", !.answer = a])
      PROVE  Harmless
  <2>0. PICK c : c = [Command("edit", "plugin", row) EXCEPT !.stage = "answer", !.answer = a]
    OBVIOUS
  <2>1. cmds' = cmds \cup {c} /\ c.op = "edit" /\ m' = Landed(m)
    <3>1. c.op = "edit"
      BY <2>0 DEF Command
    <3>2. BecomesAnd(m, c)
      BY <1>3, <2>0
    <3> QED
      BY <3>1, <3>2 DEF BecomesAnd, Issue
  <2>2. m'.startAt = m.startAt
    BY <1>0, <2>1, LandedStart
  <2>3. table'["server"] = table["server"]
    BY <1>3 DEF TuiInv, Tables
  <2> QED
    BY <2>1, <2>2, <2>3 DEF Harmless, updatePluginDetail
<1> QED
  BY <1>1, <1>2, <1>3 DEF updatePluginDetail

LEMMA UpdateHarmless == ASSUME TuiInv, m.end = "no", NEW c \in cmds, Update(c) PROVE Harmless
<1>1. PICK n \in Answered(c) : m' = Tidy(n)
  BY DEF Update
<1>2. ModelHolds(n) /\ n.startAt = m.startAt /\ (n.screen.kind = "form" => FormHolds(n.form, n.rows["server"]))
  BY AnsweredHolds DEF TuiInv, Update
<1>3. m'.startAt = m.startAt
  BY <1>1, <1>2, TidyHolds
<1> QED
  BY <1>3 DEF Update, Harmless

LEMMA ElsewhereDeaths ==
  ASSUME TuiInv, DeathsHold, NEW t \in Tables, NEW r \in Ids, Elsewhere(t, r) PROVE DeathsHold'
<1>1. table \in [Tables -> Rows] /\ "server" \in Tables
  BY DEF TuiInv, Tables
<1>2. \A x \in table["server"] \ table'["server"] : x = r /\ t = "server"
  BY <1>1 DEF Elsewhere
<1>3. ServersDieConfirmed'
  BY <1>2 DEF DeathsHold, ServersDieConfirmed, Elsewhere
<1> QED
  BY <1>3 DEF DeathsHold, Elsewhere

(* A server that disappears was confirmed with y, or another process deleted it. *)
THEOREM ServersAlwaysDieConfirmed == Spec => []ServersDieConfirmed
<1>1. Init => DeathsHold
  BY DEF Init, DeathsHold, ServersDieConfirmed
<1>2. TuiInv /\ DeathsHold /\ [Next]_vars => DeathsHold'
  <2> SUFFICES ASSUME TuiInv, DeathsHold, [Next]_vars PROVE DeathsHold'
    OBVIOUS
  <2>1. CASE UNCHANGED vars
    BY <2>1 DEF vars, DeathsHold, ServersDieConfirmed
  <2>2. ASSUME Next PROVE DeathsHold'
    <3>1. m.end = "no"
      BY <2>2 DEF Next
    <3>2. CASE Key /\ UNCHANGED <<table, elsewhere, confirmed>>
      BY <3>1, <3>2, KeyKeyed, KeyedHarmless, HarmlessInv
    <3>3. CASE updateConfirmDelete /\ UNCHANGED <<table, elsewhere>>
      BY <3>1, <3>3, ConfirmDeaths
    <3>4. CASE updatePluginDetail
      BY <3>1, <3>4, EditorHarmless, HarmlessInv
    <3>5. ASSUME NEW c \in cmds, Fails(c) PROVE DeathsHold'
      BY <3>5, HarmlessInv DEF Fails, Harmless
    <3>6. CASE \E c \in cmds : Runs(c) \/ ReadsBack(c) \/ Update(c)
      BY <3>1, <3>6, RunsDeaths, ReadsBackDeaths, UpdateHarmless, HarmlessInv
    <3>7. CASE \E u \in Tables, r \in Ids : Elsewhere(u, r)
      BY <3>7, ElsewhereDeaths
    <3> QED
      BY <2>2, <3>2, <3>3, <3>4, <3>5, <3>6, <3>7 DEF Next
  <2> QED
    BY <2>1, <2>2
<1>3. DeathsHold => ServersDieConfirmed
  BY DEF DeathsHold
<1> QED
  BY <1>1, <1>2, <1>3, TuiHolds, PTL DEF Spec

-----------------------------------------------------------------------------
(* The focus.                                                              *)

Sees == m'.screen.kind = "form" => FocusHolds(m'.screen.of, m'.form)

LEMMA LandedSees ==
  ASSUME NEW n, DOMAIN n = DOMAIN m, Holds(m), n.screen.kind = "form" => FocusHolds(n.screen.of, n.form), m' = Landed(n)
  PROVE  Sees
<1> DEFINE n2 == [n EXCEPT !.screen = List("server")]
<1>1. n2.screen.kind = "list"
  BY DEF Holds, ModelHolds, List, At
<1>2. m' = Tidy(n) \/ m' = Tidy(n2)
  BY DEF Landed
<1> HIDE DEF n2
<1>3. CASE m' = Tidy(n2)
  <2>1. m' = [n2 EXCEPT !.form = [NoForm EXCEPT !.srv = n2.form.srv]]
    BY <1>1, <1>3 DEF Tidy
  <2>2. m'.screen = n2.screen
    BY <2>1
  <2> QED
    BY <1>1, <2>2 DEF Sees
<1>4. CASE m' = Tidy(n)
  <2>1. CASE n.screen.kind = "form"
    BY <1>4, <2>1 DEF Tidy, Sees
  <2>2. CASE n.screen.kind # "form"
    <3>1. m' = [n EXCEPT !.form = [NoForm EXCEPT !.srv = n.form.srv]]
      BY <1>4, <2>2 DEF Tidy
    <3> QED
      BY <2>2, <3>1 DEF Sees
  <2> QED
    BY <2>1, <2>2
<1> QED
  BY <1>2, <1>3, <1>4

(* A key that leads to no form. *)
Away(n) == DOMAIN n = DOMAIN m /\ n.screen.kind # "form"

LEMMA AwaySees ==
  ASSUME Holds(m), NEW n, Away(n), NEW c, Becomes(n) \/ BecomesAnd(n, c) PROVE Sees
BY LandedSees DEF Away, Becomes, BecomesAnd

LEMMA EndsSees == ASSUME Holds(m), FocusInv, NEW how \in {"quit", "chosen", "panic"}, Ends(how) PROVE Sees
BY DEF Ends, Sees, FocusInv, Holds, ModelHolds, Welcome, At

LEMMA GoesSees == ASSUME Holds(m), NEW s, s.kind # "form", Goes(s) PROVE Sees
<1> DEFINE n == [m EXCEPT !.screen = s]
<1>1. Away(n)
  BY DEF Away, Holds, ModelHolds
<1> QED
  BY <1>1, AwaySees DEF Goes

LEMMA Kind ==
  /\ Welcome.kind # "form" /\ \A t : List(t).kind # "form" /\ Form(t).kind = "form" /\ Form(t).of = t
  /\ \A k, t : At(k, t).kind = k
BY DEF Welcome, List, Form, At

(* Keys of the lists, of the screen they are shown on. *)
LEMMA MovesSees ==
  ASSUME Holds(m), m.screen.kind # "form", NEW l, Moves(l) PROVE Sees
<1>1. CASE Up(l)
  <2>1. Away([m EXCEPT !.cursor[l] = @ - 1])
    BY DEF Away, Holds, ModelHolds
  <2> QED
    BY <1>1, <2>1, AwaySees DEF Up
<1>2. CASE Down(l)
  <2>1. Away([m EXCEPT !.cursor[l] = @ + 1])
    BY DEF Away, Holds, ModelHolds
  <2> QED
    BY <1>2, <2>1, LandedSees DEF Down, Away
<1> QED
  BY <1>1, <1>2 DEF Moves

LEMMA DeletesSees ==
  ASSUME Holds(m), FocusInv, m.screen.kind # "form", NEW t, Deletes(t) PROVE Sees
<1>1. PICK x, r : BecomesAnd([m EXCEPT !.cursor[t] = x], Command("delete", t, r)) \/ Ends("panic")
  BY DEF Deletes, WithSelected
<1>2. Away([m EXCEPT !.cursor[t] = x])
  BY DEF Away, Holds, ModelHolds
<1> QED
  BY <1>1, <1>2, AwaySees, EndsSees

LEMMA SearchedSees ==
  ASSUME Holds(m), m.screen.kind # "form", NEW q, NEW S, Becomes(applyFilter([m EXCEPT !.query = q], S)) PROVE Sees
<1> DEFINE n == applyFilter([m EXCEPT !.query = q], S)
<1>1. PICK s : n = [[[m EXCEPT !.query = q] EXCEPT !.filtered = s] EXCEPT !.cursor["server"] = 0]
  BY DEF applyFilter, applyFilterKeeps
<1>2. Away(n)
  BY <1>1 DEF Away, Holds, ModelHolds
<1> QED
  BY <1>2, AwaySees

LEMMA ChooseSees == ASSUME Holds(m), FocusInv, NEW l, Choose(l) PROVE Sees
BY EndsSees DEF Choose, WithSelected

LEMMA StaysSees == ASSUME Holds(m), m.screen.kind # "form", NEW c, Becomes(m) \/ BecomesAnd(m, c) PROVE Sees
BY AwaySees DEF Away

(* What the lists do but for opening a form. *)
ListKey ==
  \/ (\E s : s.kind # "form" /\ Goes(s)) \/ (\E l : Moves(l) \/ Choose(l)) \/ (\E t : Deletes(t))
  \/ Ends("quit") \/ Ends("chosen") \/ Ends("panic")
  \/ \E q, S : Becomes(applyFilter([m EXCEPT !.query = q], S))
  \/ \E n, c : Away(n) /\ (Becomes(n) \/ BecomesAnd(n, c))

LEMMA ListKeySees == ASSUME Holds(m), FocusInv, m.screen.kind # "form", ListKey PROVE Sees
BY AwaySees, GoesSees, MovesSees, ChooseSees, DeletesSees, EndsSees, SearchedSees DEF ListKey

(* A form is opened on a field that is there. *)
LEMMA OpenedFocus ==
  ASSUME NEW t, NEW row, NEW f \in Opened(t, row)
  PROVE  /\ DOMAIN f = DOMAIN NoForm /\ f.focus = 0 /\ f.overlay = "none" /\ f.mode = IF row = 0 THEN "add" ELSE "edit"
<1> DEFINE fresh == Blank(row)
<1>1. f = fresh \/ \E p, s : f = Filled(t, fresh, p, s)
  <2>1. CASE row = 0
    BY <2>1 DEF Opened
  <2>2. CASE row # 0
    BY <2>2 DEF Opened
  <2> QED
    BY <2>1, <2>2
<1>2. /\ DOMAIN fresh = DOMAIN NoForm /\ fresh.focus = 0 /\ fresh.overlay = "none"
      /\ fresh.mode = IF row = 0 THEN "add" ELSE "edit"
  BY DEF NoForm, Blank
<1> HIDE DEF fresh
<1>3. ASSUME NEW p, NEW s, f = Filled(t, fresh, p, s)
      PROVE  DOMAIN f = DOMAIN NoForm /\ f.focus = 0 /\ f.overlay = "none" /\ f.mode = IF row = 0 THEN "add" ELSE "edit"
  BY <1>2, <1>3, FormFields DEF Filled
<1> QED
  BY <1>1, <1>2, <1>3

LEMMA OpensSees ==
  ASSUME Holds(m), NEW t, NEW f, FocusHolds(t, f), NEW c, Becomes(Opens(t, f)) \/ BecomesAnd(Opens(t, f), c) PROVE Sees
<1> DEFINE n == Opens(t, f)
<1>1. DOMAIN n = DOMAIN m /\ n.screen = Form(t) /\ n.form = f
  BY DEF Opens, Holds, ModelHolds
<1>2. n.screen.of = t
  BY <1>1, Kind
<1>3. m' = Landed(n)
  BY DEF Becomes, BecomesAnd
<1> HIDE DEF n
<1> QED
  BY <1>1, <1>2, <1>3, LandedSees

LEMMA InitFormSees ==
  ASSUME Holds(m), NEW t, t # "hosts", NEW row, initForm(t, row) \/ initFormWithGateways(t, row) PROVE Sees
<1>1. PICK f \in Opened(t, row) : \E c : Becomes(Opens(t, f)) \/ BecomesAnd(Opens(t, f), c)
  BY DEF initForm, initFormWithGateways
<1>2. FocusHolds(t, f)
  BY OpenedFocus DEF FocusHolds, KeyStop
<1> QED
  BY <1>1, <1>2, OpensSees

LEMMA InitHostFormSees == ASSUME Holds(m), NEW row, initHostForm(row) PROVE Sees
<1>1. PICK f \in Opened("hosts", row) : Becomes(Opens("hosts", [f EXCEPT !.focus = IF row = 0 THEN 0 ELSE 1]))
  BY DEF initHostForm
<1>2. FocusHolds("hosts", [f EXCEPT !.focus = IF row = 0 THEN 0 ELSE 1])
  BY OpenedFocus, FormFields DEF FocusHolds
<1> QED
  BY <1>1, <1>2, OpensSees

(* The screens that are no form. *)
LEMMA PaletteSees == ASSUME Holds(m), FocusInv, m.screen.kind # "form", updateCommandPalette PROVE Sees
<1>1. CASE Quits \/ ClearsQuery
  BY <1>1, ListKeySees DEF Quits, ClearsQuery, ListKey
<1>2. CASE Becomes([m EXCEPT !.query = "none", !.screen = List("server")])
  <2>1. Away([m EXCEPT !.query = "none", !.screen = List("server")])
    BY Kind DEF Away, Holds, ModelHolds
  <2> QED
    BY <1>2, <2>1, AwaySees
<1>3. ASSUME NEW c, BecomesAnd([m EXCEPT !.query = "none"], c) PROVE Sees
  <2>1. Away([m EXCEPT !.query = "none"])
    BY DEF Away, Holds, ModelHolds
  <2> QED
    BY <1>3, <2>1, AwaySees
<1> QED
  BY <1>1, <1>2, <1>3 DEF updateCommandPalette, executeCommand

LEMMA ShowsSees ==
  ASSUME Holds(m), NEW x, NEW k \in {"confirm", "view", "picker"}, NEW t, NEW l, NEW c,
         \/ Becomes([m EXCEPT !.doomed = x, !.screen = At(k, t)])
         \/ BecomesAnd([m EXCEPT !.cursor[l] = x, !.screen = At(k, t)], c)
  PROVE  Sees
<1>1. Away([m EXCEPT !.doomed = x, !.screen = At(k, t)]) /\ Away([m EXCEPT !.cursor[l] = x, !.screen = At(k, t)])
  BY Kind DEF Away, Holds, ModelHolds
<1> QED
  BY <1>1, AwaySees

LEMMA ServerSelectedSees ==
  ASSUME Holds(m), FocusInv, WithSelected("server", initServerForm) \/ WithSelected("server", ConfirmDelete) PROVE Sees
<1>1. Ends("panic") \/ \E r : initServerForm(r) \/ ConfirmDelete(r)
  BY DEF WithSelected
<1> QED
  BY <1>1, EndsSees, InitFormSees, ShowsSees DEF initServerForm, ConfirmDelete

LEMMA ListSees == ASSUME Holds(m), FocusInv, m.screen.kind # "form", updateList PROVE Sees
<1>1. \/ updateCommandPalette \/ ListKey \/ initServerForm(0)
      \/ WithSelected("server", initServerForm) \/ WithSelected("server", ConfirmDelete)
      \/ BecomesAnd([m EXCEPT !.cursor["picker"] = 0, !.screen = At("picker", "server")], Command("plugins", "plugin", 0))
  BY Kind DEF updateList, ListKey, Quits, ClearsQuery, Searches
<1> QED
  BY <1>1, PaletteSees, ListKeySees, InitFormSees, ServerSelectedSees, ShowsSees DEF initServerForm

LEMMA OtherScreensSee ==
  ASSUME Holds(m), FocusInv, m.screen.kind # "form",
         updateWelcome \/ updateDetail \/ updatePluginPicker \/ updatePluginList
  PROVE  Sees
<1>1. CASE updateWelcome
  BY <1>1, ListSees, ListKeySees, Kind DEF updateWelcome, ListKey, Quits
<1>2. CASE updateDetail
  BY <1>2, ServerSelectedSees, ListKeySees, Kind DEF updateDetail, ListKey, Quits
<1>3. CASE updatePluginPicker
  <2>1. ListKey
    BY <1>3, Kind DEF updatePluginPicker, WithSelected, ListKey, Quits
  <2> QED
    BY <2>1, ListKeySees
<1>4. CASE updatePluginList
  <2>1. ListKey \/ \E p : Becomes([m EXCEPT !.doomed = p, !.screen = At("view", "plugin")])
    BY <1>4, Kind DEF updatePluginList, WithSelected, ListKey, Quits
  <2> QED
    BY <2>1, ListKeySees, ShowsSees
<1> QED
  BY <1>1, <1>2, <1>3, <1>4

LEMMA GatewayListSees == ASSUME Holds(m), FocusInv, m.screen.kind # "form", updateGatewayList PROVE Sees
<1>1. ListKey \/ (\E row : initForm("gateway", row))
  BY Kind DEF updateGatewayList, ListOf, WithSelected, initGatewayForm, ListKey, Quits
<1> QED
  BY <1>1, ListKeySees, InitFormSees

LEMMA ClusterListSees == ASSUME Holds(m), FocusInv, m.screen.kind # "form", updateClusterList PROVE Sees
<1>1. ListKey \/ (\E row : initForm("cluster", row))
  BY Kind DEF updateClusterList, ListOf, WithSelected, initClusterForm, ListKey, Quits
<1> QED
  BY <1>1, ListKeySees, InitFormSees

LEMMA HostListSees == ASSUME Holds(m), FocusInv, m.screen.kind # "form", updateHostList PROVE Sees
<1>1. ListKey \/ (\E row : initHostForm(row))
  BY Kind DEF updateHostList, ListOf, WithSelected, ListKey, Quits
<1> QED
  BY <1>1, ListKeySees, InitHostFormSees

LEMMA TunnelListSees == ASSUME Holds(m), FocusInv, m.screen.kind # "form", updateTunnelList PROVE Sees
<1>1. ListKey \/ (\E row : initForm("tunnel", row)) \/ \E c : Becomes(m) \/ BecomesAnd(m, c)
  BY Kind DEF updateTunnelList, ListOf, WithSelected, initTunnelForm, ListKey, Quits, Starts, Stops
<1> QED
  BY <1>1, ListKeySees, InitFormSees, StaysSees

LEMMA AppServerListSees == ASSUME Holds(m), FocusInv, m.screen.kind # "form", updateAppServerList PROVE Sees
<1>1. ListKey \/ (\E row : initForm("app-server", row)) \/ \E c : Becomes(m) \/ BecomesAnd(m, c)
  BY Kind DEF updateAppServerList, ListOf, WithSelected, initAppServerForm, ListKey, Quits, Connects
<1> QED
  BY <1>1, ListKeySees, InitFormSees, StaysSees

LEMMA ProfileListSees == ASSUME Holds(m), FocusInv, m.screen.kind # "form", updateProfileList PROVE Sees
<1>1. ListKey \/ (\E row : initFormWithGateways("profile", row)) \/ \E c : Becomes(m) \/ BecomesAnd(m, c)
  BY Kind DEF updateProfileList, ListOf, WithSelected, initProfileForm, ListKey, Quits, DeletesInPlace
<1> QED
  BY <1>1, ListKeySees, InitFormSees, StaysSees

(* The forms without a field that may be hidden. *)
LEMMA FormKeySees ==
  ASSUME Holds(m), FocusInv, NEW t, m.screen = Form(t), t \notin {"server", "hosts"}, FormKey(t) PROVE Sees
<1>0. m.screen.of = t /\ List(t).kind # "form"
  BY Kind
<1>1. ASSUME NEW f, NEW c, Becomes([m EXCEPT !.form = f]) \/ BecomesAnd([m EXCEPT !.form = f], c) PROVE Sees
  <2> DEFINE n == [m EXCEPT !.form = f]
  <2>1. DOMAIN n = DOMAIN m /\ n.screen = m.screen
    BY DEF Holds, ModelHolds
  <2>2. FocusHolds(t, n.form)
    BY DEF FocusHolds
  <2>3. m' = Landed(n)
    BY <1>1 DEF Becomes, BecomesAnd
  <2> HIDE DEF n
  <2> QED
    BY <1>0, <2>1, <2>2, <2>3, LandedSees
<1>2. CASE Submits(t)
  BY <1>1, <1>2 DEF Submits
<1>3. CASE Leaves(t)
  BY <1>0, <1>1, <1>3, GoesSees DEF Leaves, Sets
<1>4. CASE Becomes([m EXCEPT !.screen = List(t), !.form.dialogue = "none"])
  <2>1. Away([m EXCEPT !.screen = List(t), !.form.dialogue = "none"])
    BY <1>0 DEF Away, Holds, ModelHolds
  <2> QED
    BY <1>4, <2>1, AwaySees
<1> QED
  BY <1>1, <1>2, <1>3, <1>4, EndsSees DEF FormKey, Sets

(* The two forms that have one. *)
LEMMA FieldsSee ==
  ASSUME Holds(m), FocusInv, NEW t \in {"server", "hosts"}, m.screen = Form(t), NEW f, NEW c,
         FocusHolds(t, f), Becomes([m EXCEPT !.form = f]) \/ BecomesAnd([m EXCEPT !.form = f], c)
  PROVE  Sees
<1> DEFINE n == [m EXCEPT !.form = f]
<1>1. DOMAIN n = DOMAIN m /\ n.screen = m.screen /\ n.form = f
  BY DEF Holds, ModelHolds
<1>2. m.screen.of = t
  BY Kind
<1>3. m' = Landed(n)
  BY DEF Becomes, BecomesAnd
<1> HIDE DEF n
<1> QED
  BY <1>1, <1>2, <1>3, LandedSees

(* Most keys leave the mode, the focus and the choice of a key alone. *)
LEMMA UnfocusedSee ==
  ASSUME Holds(m), FocusInv, NEW t \in {"server", "hosts"}, m.screen = Form(t), NEW f,
         f.mode = m.form.mode, f.focus = m.form.focus, f.key = m.form.key, f.overlay \in {"none", "gateway", m.form.overlay},
         NEW c, Becomes([m EXCEPT !.form = f]) \/ BecomesAnd([m EXCEPT !.form = f], c)
  PROVE  Sees
<1>1. FocusHolds(t, m.form)
  BY Kind DEF FocusInv
<1>2. FocusHolds(t, f)
  BY <1>1 DEF FocusHolds
<1> QED
  BY <1>2, FieldsSee

LEMMA FieldKeySees ==
  ASSUME Holds(m), FocusInv, NEW t \in {"server", "hosts"}, m.screen = Form(t),
         handleFormEscConfirm(t) \/ Quits \/ Leaves(t) \/ Submits(t) \/ Types
  PROVE  Sees
<1>0. DOMAIN m.form = DOMAIN NoForm /\ List(t).kind # "form"
  BY Kind DEF Holds, FormHolds
<1>1. ASSUME NEW d, NEW c, \/ Becomes([m EXCEPT !.form = [m.form EXCEPT !.dialogue = d]])
                           \/ BecomesAnd([m EXCEPT !.form = [m.form EXCEPT !.dialogue = d]], c)
      PROVE  Sees
  <2> DEFINE f == [m.form EXCEPT !.dialogue = d]
  <2>1. f.mode = m.form.mode /\ f.focus = m.form.focus /\ f.key = m.form.key /\ f.overlay = m.form.overlay
    BY <1>0, FormFields
  <2> HIDE DEF f
  <2>2. \/ Becomes([m EXCEPT !.form = f]) \/ BecomesAnd([m EXCEPT !.form = f], c)
    BY <1>1 DEF f
  <2> QED
    BY <2>1, <2>2, UnfocusedSee
<1>2. CASE Submits(t)
  <2>1. PICK c : BecomesAnd([m EXCEPT !.form.dialogue = "none"], c)
    BY <1>2 DEF Submits
  <2>2. BecomesAnd([m EXCEPT !.form = [m.form EXCEPT !.dialogue = "none"]], c)
    BY <2>1
  <2> QED
    BY <1>1, <2>2
<1>3. CASE Leaves(t)
  BY <1>0, <1>1, <1>3, GoesSees DEF Leaves, Sets
<1>4. CASE Types
  <2>1. PICK b : Sets([m.form EXCEPT !.changed = b])
    BY <1>4 DEF Types
  <2> DEFINE f == [m.form EXCEPT !.changed = b]
  <2>2. f.mode = m.form.mode /\ f.focus = m.form.focus /\ f.key = m.form.key /\ f.overlay = m.form.overlay
    BY <1>0, FormFields
  <2> HIDE DEF f
  <2>3. Becomes([m EXCEPT !.form = f])
    BY <2>1 DEF f, Sets
  <2> QED
    BY <2>2, <2>3, UnfocusedSee
<1>5. CASE Becomes([m EXCEPT !.screen = List(t), !.form.dialogue = "none"])
  <2>1. Away([m EXCEPT !.screen = List(t), !.form.dialogue = "none"])
    BY <1>0 DEF Away, Holds, ModelHolds
  <2> QED
    BY <1>5, <2>1, AwaySees
<1>6. CASE Quits
  BY <1>6, EndsSees DEF Quits
<1> QED
  BY <1>1, <1>2, <1>3, <1>4, <1>5, <1>6, EndsSees DEF handleFormEscConfirm, Sets, Quits

LEMMA FocusedSees ==
  ASSUME Holds(m), FocusInv, NEW t \in {"server", "hosts"}, m.screen = Form(t),
         t = "server" => m.form.overlay = "none", NEW i, Sets([m.form EXCEPT !.focus = i]),
         t = "server" => i \in 0..11 /\ (m.form.mode = "edit" => i # 1) /\ (~m.form.key => i # KeyStop),
         t = "hosts" => i \in 0..2 /\ (m.form.mode = "edit" => i # 0)
  PROVE  Sees
<1> DEFINE f == [m.form EXCEPT !.focus = i]
<1>1. f.mode = m.form.mode /\ f.focus = i /\ f.key = m.form.key /\ f.overlay = m.form.overlay
  BY FormFields DEF Holds, FormHolds
<1> HIDE DEF f
<1>2. FocusHolds(t, f)
  BY <1>1 DEF FocusHolds
<1>3. Becomes([m EXCEPT !.form = f])
  BY DEF f, Sets
<1> QED
  BY <1>2, <1>3, FieldsSee

LEMMA AuthOverlaySees == ASSUME TuiInv, m.end = "no", FocusInv, m.screen = Form("server"), AuthOverlay PROVE Sees
<1>1. m.form.overlay = "auth" /\ m.form.over < 2 /\ m.form.over \in Nat /\ Holds(m)
  BY Same DEF AuthOverlay, FormHolds
<1>2. \/ Quits \/ (\E i : Sets([m.form EXCEPT !.over = i]))
      \/ Closes \/ \E k : Sets(Closed([m.form EXCEPT !.key = k]))
  <2>1. Len(<<FALSE, TRUE>>) = 2
    OBVIOUS
  <2>2. \/ Quits \/ Closes \/ Sets([m.form EXCEPT !.over = @ - 1]) \/ Sets([m.form EXCEPT !.over = @ + 1])
        \/ IF m.form.over < Len(<<FALSE, TRUE>>)
             THEN Sets(Closed([m.form EXCEPT !.key = <<FALSE, TRUE>>[m.form.over + 1]]))
             ELSE Ends("panic")
    BY Zenon DEF AuthOverlay, PicksFrom
  <2> QED
    BY <1>1, <2>1, <2>2
<1>3. m.form.focus = AuthStop /\ DOMAIN m.form = DOMAIN NoForm
  BY <1>1, Kind DEF FocusInv, FocusHolds, Holds, FormHolds
<1>4. ASSUME NEW f, f.focus = AuthStop, Sets(f) PROVE Sees
  <2>1. FocusHolds("server", f)
    BY <1>4 DEF FocusHolds, AuthStop, KeyStop
  <2> QED
    BY <1>1, <1>4, <2>1, FieldsSee DEF Sets
<1>5. ASSUME NEW k PROVE /\ Closed([m.form EXCEPT !.key = k]).focus = AuthStop /\ Closed(m.form).focus = AuthStop
                          /\ [m.form EXCEPT !.over = k].focus = AuthStop
  BY <1>3, FormFields DEF Closed
<1> QED
  BY <1>1, <1>2, <1>4, <1>5, EndsSees DEF Quits, Closes

LEMMA GatewayOverlaySees ==
  ASSUME TuiInv, m.end = "no", FocusInv, m.screen = Form("server"), GatewayOverlay PROVE Sees
<1>1. \/ Quits \/ Closes \/ Ends("panic") \/ (\E i : Sets([m.form EXCEPT !.over = i]))
      \/ (\E p, s : Sets(Closed([m.form EXCEPT !.pick = p, !.srv = s])))
      \/ \E b, i : Sets([m.form EXCEPT !.search = b, !.over = i])
  BY DEF GatewayOverlay, PicksFrom
<1>2. DOMAIN m.form = DOMAIN NoForm /\ Holds(m)
  BY Same DEF FormHolds
<1> DEFINE Alike(f) == /\ f.mode = m.form.mode /\ f.focus = m.form.focus /\ f.key = m.form.key
                       /\ f.overlay \in {"none", m.form.overlay}
<1>3. /\ Alike(Closed(m.form)) /\ \A i : Alike([m.form EXCEPT !.over = i])
      /\ \A p, s : Alike(Closed([m.form EXCEPT !.pick = p, !.srv = s])) /\ Alike([m.form EXCEPT !.search = p, !.over = s])
  BY <1>2, FormFields DEF Closed
<1>4. ASSUME NEW f, Alike(f), Sets(f) PROVE Sees
  BY <1>2, <1>4, UnfocusedSee DEF Sets
<1> HIDE DEF Alike
<1> QED
  BY <1>1, <1>2, <1>3, <1>4, EndsSees DEF Quits, Closes

LEMMA ServerFormSees == ASSUME TuiInv, m.end = "no", FocusInv, updateServerForm PROVE Sees
<1>0. m.screen = Form("server") /\ Holds(m) /\ DOMAIN m.form = DOMAIN NoForm
  BY Same DEF updateServerForm, FormHolds
<1>1. FocusHolds("server", m.form)
  BY <1>0, Kind DEF FocusInv
<1>2. CASE m.form.overlay = "none" /\ Tabs(12, ForthServer, BackServer)
  <2>1. PICK i : /\ Sets([m.form EXCEPT !.focus = i])
                 /\ \/ i = ForthServer((m.form.focus + 1) % 12)
                    \/ i = BackServer((m.form.focus - 1 + 12) % 12)
    BY <1>2 DEF Tabs
  <2>2. (m.form.focus + 1) % 12 \in 0..11 /\ (m.form.focus - 1 + 12) % 12 \in 0..11
    BY <1>1 DEF FocusHolds
  <2>3. i \in 0..11 /\ (m.form.mode = "edit" => i # 1) /\ (~m.form.key => i # KeyStop)
    BY <2>1, <2>2 DEF ForthServer, BackServer, KeyStop
  <2> QED
    BY <1>0, <1>2, <2>1, <2>3, FocusedSees
<1>3. ASSUME m.form.focus = 5 \/ m.form.focus = AuthStop, NEW o \in {"gateway", "auth"}, NEW i,
             o = "auth" => m.form.focus = AuthStop, OpensOverlay(o, i)
      PROVE  Sees
  <2> DEFINE f == [m.form EXCEPT !.overlay = o, !.over = i, !.search = FALSE]
  <2>1. f.mode = m.form.mode /\ f.focus = m.form.focus /\ f.key = m.form.key /\ f.overlay = o
    BY <1>0, FormFields
  <2> HIDE DEF f
  <2>2. FocusHolds("server", f)
    BY <1>1, <1>3, <2>1 DEF FocusHolds
  <2>3. Becomes([m EXCEPT !.form = f])
    BY <1>3 DEF f, OpensOverlay, Sets
  <2> QED
    BY <1>0, <2>2, <2>3, FieldsSee
<1>4. \/ handleFormEscConfirm("server") \/ AuthOverlay \/ GatewayOverlay
      \/ Quits \/ Leaves("server") \/ Submits("server") \/ Types
      \/ m.form.focus = 5 /\ OpensOverlay("gateway", 0)
      \/ m.form.focus = AuthStop /\ OpensOverlay("auth", IF m.form.key THEN 1 ELSE 0)
      \/ m.form.overlay = "none" /\ Tabs(12, ForthServer, BackServer)
  BY DEF updateServerForm
<1> QED
  BY <1>0, <1>2, <1>3, <1>4, FieldKeySees, AuthOverlaySees, GatewayOverlaySees

LEMMA HostFormSees == ASSUME TuiInv, m.end = "no", FocusInv, updateHostForm PROVE Sees
<1>0. m.screen = Form("hosts") /\ Holds(m)
  BY Same DEF updateHostForm
<1>1. FocusHolds("hosts", m.form)
  BY <1>0, Kind DEF FocusInv
<1>2. CASE Tabs(3, ForthHost, BackHost)
  <2>1. PICK i : /\ Sets([m.form EXCEPT !.focus = i])
                 /\ i = ForthHost((m.form.focus + 1) % 3) \/ i = BackHost((m.form.focus - 1 + 3) % 3)
    BY <1>2 DEF Tabs
  <2>2. (m.form.focus + 1) % 3 \in 0..2 /\ (m.form.focus - 1 + 3) % 3 \in 0..2
    BY <1>1 DEF FocusHolds
  <2>3. i \in 0..2 /\ (m.form.mode = "edit" => i # 0)
    BY <2>1, <2>2 DEF ForthHost, BackHost
  <2> QED
    BY <1>0, <2>1, <2>3, FocusedSees
<1>3. CASE m.form.focus # 2 /\ Advances(3)
  <2>1. PICK i : Sets([m.form EXCEPT !.focus = i]) /\ i = (m.form.focus + 1) % 3
    BY <1>3 DEF Advances
  <2>2. i \in 1..2
    BY <1>1, <1>3, <2>1 DEF FocusHolds
  <2> QED
    BY <1>0, <2>1, <2>2, FocusedSees
<1> QED
  BY <1>0, <1>2, <1>3, FieldKeySees DEF updateHostForm

LEMMA KeySees == ASSUME TuiInv, m.end = "no", FocusInv, Key PROVE Sees
<1>0. Holds(m)
  BY Same
<1>1. CASE m.screen.kind = "form"
  <2>1. \/ updateServerForm \/ updateGatewayForm \/ updateClusterForm \/ updateHostForm \/ updateTunnelForm
        \/ updateAppServerForm \/ updateProfileForm
    BY <1>1 DEF Key, updateWelcome, updateDetail, updatePluginPicker, updatePluginList, updateGatewayList,
           updateClusterList, updateHostList, updateTunnelList, updateAppServerList, updateProfileList, Welcome, List, At
  <2>2. ASSUME NEW t \in {"gateway", "cluster", "tunnel", "app-server", "profile"}, m.screen = Form(t), FormKey(t)
        PROVE  Sees
    BY <1>0, <2>2, FormKeySees
  <2> QED
    BY <2>1, <2>2, ServerFormSees, HostFormSees, GatewayFormKeys, ClusterFormKeys, TunnelFormKeys, AppServerFormKeys,
       ProfileFormKeys DEF updateGatewayForm, updateClusterForm, updateTunnelForm, updateAppServerForm, updateProfileForm
<1>2. CASE m.screen.kind # "form"
  <2>1. \/ updateWelcome \/ updateList \/ updateDetail \/ updatePluginPicker \/ updatePluginList
        \/ updateGatewayList \/ updateClusterList \/ updateHostList \/ updateTunnelList \/ updateAppServerList
        \/ updateProfileList
    BY <1>2, Kind DEF Key, updateServerForm, updateGatewayForm, updateClusterForm, updateHostForm, updateTunnelForm,
       updateAppServerForm, updateProfileForm
  <2> QED
    BY <1>0, <1>2, <2>1, ListSees, OtherScreensSee, GatewayListSees, ClusterListSees, HostListSees, TunnelListSees,
       AppServerListSees, ProfileListSees
<1> QED
  BY <1>1, <1>2

LEMMA ConfirmSees == ASSUME Holds(m), FocusInv, updateConfirmDelete PROVE Sees
<1>1. m.screen.kind # "form"
  BY Kind DEF updateConfirmDelete
<1>2. Quits \/ (\E c : BecomesAnd(m, c)) \/ Goes(List("server"))
  BY DEF updateConfirmDelete
<1> QED
  BY <1>1, <1>2, EndsSees, StaysSees, GoesSees, Kind DEF Quits

LEMMA EditorSees == ASSUME Holds(m), FocusInv, updatePluginDetail PROVE Sees
<1>0. m.screen = At("view", "plugin")
  BY Zenon DEF updatePluginDetail
<1>1. m.screen.kind # "form"
  BY <1>0, Kind
<1>2. Quits \/ (\E c : BecomesAnd(m, c)) \/ Goes(List("plugin"))
  BY Zenon DEF updatePluginDetail
<1> QED
  BY <1>1, <1>2, EndsSees, StaysSees, GoesSees, Kind DEF Quits

(* An answer that is not silent brings up a list or a plugin. *)
LEMMA AnsweredAway ==
  ASSUME Holds(m), NEW c, CommandHolds(c), ~Silent(c), NEW n \in Answered(c) PROVE n.screen.kind # "form"
<1> DEFINE b == [m EXCEPT !.rows = [l \in Lists |-> IF l \in DOMAIN c.answer THEN c.answer[l] ELSE m.rows[l]]]
<1>1. DOMAIN b = DOMAIN m
  OBVIOUS
<1>2. \/ n = [b EXCEPT !.doomed = c.row, !.screen = At("view", "plugin")]
      \/ n = [b EXCEPT !.cursor["plugin"] = 0, !.screen = List("plugin")]
      \/ \E S \in SUBSET Ids : n = [applyFilter(b, S) EXCEPT !.query = "none", !.screen = List("server")]
      \/ n = [b EXCEPT !.screen = List(c.table)]
  <2>1. CASE c.op = "edit"
    BY <2>1 DEF Answered
  <2>2. CASE c.op # "edit" /\ c.table = "plugin"
    <3>1. c.op = "load"
      BY <2>2 DEF CommandHolds, Silent
    <3>2. n \in {[b EXCEPT !.cursor["plugin"] = 0, !.screen = List("plugin")]}
      BY <2>2, <3>1 DEF Answered
    <3> QED
      BY <3>2
  <2>3. CASE c.op # "edit" /\ c.table = "server"
    <3>1. n \in {[applyFilter(b, S) EXCEPT !.query = "none", !.screen = List("server")] : S \in SUBSET Ids}
      BY <2>3 DEF Answered
    <3> HIDE DEF b
    <3> QED
      BY <3>1
  <2>4. CASE c.op # "edit" /\ c.table \notin {"plugin", "server"}
    BY <2>4 DEF Answered
  <2> QED
    BY <2>1, <2>2, <2>3, <2>4
<1> HIDE DEF b
<1>3. ASSUME NEW S, n = [applyFilter(b, S) EXCEPT !.query = "none", !.screen = List("server")]
      PROVE  n.screen = List("server")
  <2>1. DOMAIN applyFilter(b, S) = DOMAIN b
    BY DEF applyFilter, applyFilterKeeps
  <2> QED
    BY <1>1, <1>3, <2>1 DEF Holds, ModelHolds
<1>4. n.screen \in {At("view", "plugin"), List("plugin"), List("server"), List(c.table)}
  BY <1>1, <1>2, <1>3 DEF Holds, ModelHolds
<1> QED
  BY <1>4, Kind

LEMMA UpdateSees == ASSUME TuiInv, m.end = "no", FocusInv, NEW c \in cmds, Update(c) PROVE Sees
<1>0. Holds(m) /\ CommandHolds(c) /\ c.stage = "answer"
  BY DEF TuiInv, Update
<1>1. PICK n \in Answered(c) : m' = Tidy(n)
  BY DEF Update
<1>2. ModelHolds(n)
  BY <1>0, AnsweredHolds DEF TuiInv
<1>3. n.screen.kind = "form" => n.screen = m.screen /\ n.form = m.form
  <2>1. CASE Silent(c)
    <3> DEFINE r == [l \in Lists |-> IF l \in DOMAIN c.answer THEN c.answer[l] ELSE m.rows[l]]
    <3>1. n = [m EXCEPT !.rows = r]
      BY <2>1 DEF Answered, Silent
    <3> HIDE DEF r
    <3> QED
      BY <1>0, <3>1 DEF Holds, ModelHolds
  <2>2. CASE ~Silent(c)
    <3>1. n.screen.kind # "form"
      BY <1>0, <2>2, AnsweredAway
    <3> QED
      BY <3>1
  <2> QED
    BY <2>1, <2>2
<1>4. CASE n.screen.kind = "form"
  BY <1>1, <1>3, <1>4 DEF Tidy, Sees, FocusInv
<1>5. CASE n.screen.kind # "form"
  BY <1>1, <1>2, <1>5, TidyHolds DEF Sees
<1> QED
  BY <1>4, <1>5

(* The focus of a form is never on a field that is not there: the name of a stored server
   or host, or the identity file of a server that uses a password. *)
THEOREM FocusStaysVisible == Spec => []FocusIsVisible
<1>1. Init => FocusInv
  <2> SUFFICES ASSUME Init PROVE FocusInv
    OBVIOUS
  <2>1. m.screen = Welcome \/ \E t : m.screen = List(t)
    BY DEF Init
  <2> QED
    BY <2>1, Kind DEF FocusInv
<1>2. TuiInv /\ FocusInv /\ [Next]_vars => FocusInv'
  <2> SUFFICES ASSUME TuiInv, FocusInv, [Next]_vars PROVE FocusInv'
    OBVIOUS
  <2>0. Sees => FocusInv'
    BY DEF Sees, FocusInv
  <2>1. CASE UNCHANGED vars
    BY <2>1 DEF vars, FocusInv
  <2>2. ASSUME Next PROVE FocusInv'
    <3>0. m.end = "no" /\ Holds(m)
      BY <2>2 DEF Next, TuiInv
    <3>1. CASE Key \/ updateConfirmDelete \/ updatePluginDetail
      BY <2>0, <3>0, <3>1, KeySees, ConfirmSees, EditorSees
    <3>2. ASSUME NEW c \in cmds, Runs(c) \/ Fails(c) \/ ReadsBack(c) PROVE FocusInv'
      <4>1. m' = m
        BY <3>2 DEF Runs, Fails, ReadsBack, Replaces
      <4> QED
        BY <4>1 DEF FocusInv
    <3>3. ASSUME NEW c \in cmds, Update(c) PROVE FocusInv'
      BY <2>0, <3>0, <3>3, UpdateSees
    <3>4. ASSUME NEW t, NEW r, Elsewhere(t, r) PROVE FocusInv'
      BY <3>4 DEF Elsewhere, FocusInv
    <3> QED
      BY <2>2, <3>1, <3>2, <3>3, <3>4 DEF Next
  <2> QED
    BY <2>1, <2>2
<1>3. FocusInv => FocusIsVisible
  BY DEF FocusInv, FocusHolds, FocusIsVisible
<1> QED
  BY <1>1, <1>2, <1>3, TuiHolds, PTL DEF Spec

===============================================================================
