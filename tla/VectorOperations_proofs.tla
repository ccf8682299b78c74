----------------------- MODULE VectorOperations_proofs -----------------------
(* For every set of operations, players, buildings and agents and every value
   of the knobs: the operation contract is type correct, its durable and
   in-memory states agree, an ended operation stays ended across crashes, and
   the driver implements OperationLifecycle; an effect is applied once, only
   by those able to act, and after its whole window; the price of every
   operation is accounted for, and the in-flight cap is kept. *)
EXTENDS VectorOperations, FiniteSetTheorems, TLAPS

\* The record the thread is inside of exists, and its effect has been counted.
ThreadOK ==
  /\ step = "clock" => cur \in Ops /\ LiveRec(cur) /\ mem[cur].state = "pending"
  /\ step = "effect" => cur \in Ops /\ mem[cur] # NoRec /\ hits[cur] > 0
  /\ ~up => step = "idle" /\ req = NoOp /\ known = {}
  /\ req # NoOp => bill[req] = "charged"

\* An operation that never reached Pending has left no trace.
Traceless(o) ==
  /\ mem[o] = NoRec /\ store[o] = NoRec /\ ended[o] = "none"
  /\ o \notin tracked /\ o \notin known /\ o \notin todo /\ o \notin kept

\* The state of one operation: an unplaced one has no trace; a stored entry is
\* live, and while the server is up it is the live record's, which is tracked
\* and still due in the pass that listed it; an ended one is stored nowhere.
OpOK(o) ==
  /\ order[o] = NoOrder => bill[o] = "none"
  /\ bill[o] # "spent" => Traceless(o)
  /\ store[o] # NoRec => store[o].state \in LiveStates
  /\ ~up => mem[o] = NoRec
  /\ up => ((store[o] # NoRec) <=> LiveRec(o))
  /\ up => (store[o] # NoRec => store[o].state = mem[o].state)
  /\ LiveRec(o) => o \in tracked
  /\ (LiveRec(o) /\ o \in known) => (o \in todo \/ o \in kept)
  /\ ended[o] # "none" => store[o] = NoRec
  /\ (ended[o] # "none" /\ mem[o] # NoRec) => mem[o].state = ended[o]

IInv == TypeOK /\ ThreadOK /\ \A o \in Ops : OpOK(o)

-----------------------------------------------------------------------------
(* What the record operators return. *)

LEMMA RecordOps ==
  ASSUME NEW r \in Record
  PROVE  /\ Paused(r) \in Record /\ Paused(r).state = "suspended"
         /\ Resumed(r) \in Record /\ Resumed(r).state = "pending"
         /\ Elapsed(r) \in Record /\ Elapsed(r).state = r.state
<1>1. /\ r = [state |-> r.state, ticks |-> r.ticks, life |-> r.life, held |-> r.held]
      /\ r.ticks \in Int /\ r.life \in Int /\ r.held \in Int /\ Floor \in Int
  BY KnobsAssumption DEF Record
<1>2. Paused(r) \in Record /\ Paused(r).state = "suspended"
  <2>1. AtLeast(r.ticks, 0) \in Int BY <1>1 DEF AtLeast
  <2>2. QED BY <1>1, <2>1 DEF Record, Paused, LiveStates
<1>3. Resumed(r) \in Record /\ Resumed(r).state = "pending"
  <2>1. \A k \in Int : Window(k, TRUE) \in Int BY <1>1 DEF Window, AtLeast
  <2>2. (IF r.held = Unset THEN r.ticks ELSE AtLeast(r.held, 0)) \in Int BY <1>1 DEF AtLeast
  <2> DEFINE t == Window(IF r.held = Unset THEN r.ticks ELSE AtLeast(r.held, 0), TRUE)
  <2>3. Resumed(r) = [r EXCEPT !.state = "pending", !.held = Unset, !.ticks = t]
    BY DEF Resumed
  <2>4. t \in Int BY <2>1, <2>2
  <2> HIDE DEF t
  <2>5. Unset \in Int BY DEF Unset
  <2>6. QED BY <1>1, <2>3, <2>4, <2>5 DEF Record, LiveStates
<1>4. Elapsed(r) \in Record /\ Elapsed(r).state = r.state
  <2>1. (IF r.life = Unset THEN r.life ELSE r.life - 1) \in Int /\ r.ticks - 1 \in Int
    BY <1>1
  <2>2. QED BY <1>1, <2>1 DEF Record, Elapsed
<1>5. QED BY <1>2, <1>3, <1>4

LEMMA StateSet ==
  ASSUME NEW r \in Record, NEW s \in TerminalStates
  PROVE  [r EXCEPT !.state = s] \in Record /\ [r EXCEPT !.state = s].state = s
<1>1. r = [state |-> r.state, ticks |-> r.ticks, life |-> r.life, held |-> r.held]
  BY DEF Record
<1>2. QED BY <1>1 DEF Record

LEMMA EntryRecord ==
  ASSUME NEW f \in Fuses, NEW l \in Lives, NEW h \in BOOLEAN
  PROVE  [state |-> "pending", life |-> l, held |-> Unset, ticks |-> Window(f, h)] \in Record
BY KnobsAssumption DEF Record, Window, AtLeast, Unset, LiveStates, TerminalStates

-----------------------------------------------------------------------------
(* Types. *)

LEMMA InitInv == Init => IInv
<1>1. ASSUME Init PROVE TypeOK
  BY <1>1, KnobsAssumption DEF Init, TypeOK, TerminalStates
<1>2. ASSUME Init PROVE ThreadOK
  BY <1>2 DEF Init, ThreadOK
<1>3. ASSUME Init, NEW o \in Ops PROVE OpOK(o)
  BY <1>3 DEF Init, OpOK, Traceless, LiveRec
<1>4. QED BY <1>1, <1>2, <1>3 DEF IInv

LEMMA EndTypes ==
  ASSUME TypeOK, NEW S \in SUBSET Ops, NEW t \in TerminalStates, End(S, t)
  PROVE  /\ mem' \in [Ops -> Record \cup {NoRec}] /\ store' \in [Ops -> Record \cup {NoRec}]
         /\ tracked' \subseteq Ops /\ ended' \in [Ops -> TerminalStates \cup {"none"}]
BY StateSet DEF TypeOK, End, Movable, LiveRec

LEMMA SuspendTypes ==
  ASSUME TypeOK, NEW S \in SUBSET Ops, Suspend(S)
  PROVE  /\ mem' \in [Ops -> Record \cup {NoRec}] /\ store' \in [Ops -> Record \cup {NoRec}]
         /\ tracked' \subseteq Ops /\ ended' \in [Ops -> TerminalStates \cup {"none"}]
BY RecordOps DEF TypeOK, Suspend, LiveRec

LEMMA StepTypes == TypeOK /\ ThreadOK /\ [Next]_vars => TypeOK'
<1> SUFFICES ASSUME TypeOK, ThreadOK, [Next]_vars PROVE TypeOK'
  OBVIOUS
<1> USE DEF passVars, worldVars, recVars, moneyVars, clockVars, histVars
<1>1. ASSUME NEW o \in Ops, NEW p \in Players, NEW t \in Players, NEW b \in Buildings,
             NEW a \in Agents, NEW h \in BOOLEAN, Request(o, p, b, a, t, h)
      PROVE  TypeOK'
  <2>1. CostOf(p) \in Nat BY KnobsAssumption DEF CostOf
  <2>2. stock' \in [Players -> Int] BY <1>1, <2>1 DEF Request, TypeOK
  <2>3. order' \in [Ops -> Order \cup {NoOrder}] BY <1>1 DEF Request, TypeOK, Order
  <2>4. QED BY <1>1, <2>2, <2>3 DEF Request, TypeOK
<1>2. ASSUME NEW o \in Ops, NEW f \in Fuses, NEW l \in Lives, EnterPending(o, f, l)
      PROVE  TypeOK'
  <2> DEFINE r == [state |-> "pending", life |-> l, held |-> Unset,
                   ticks |-> Window(f, order[o].hostile)]
  <2>1. r \in Record
    BY KnobsAssumption DEF Record, Window, AtLeast, Unset, LiveStates
  <2>2. mem' = [mem EXCEPT ![o] = r] /\ store' = [store EXCEPT ![o] = mem'[o]]
    BY <1>2 DEF EnterPending
  <2> HIDE DEF r
  <2>3. mem' \in [Ops -> Record \cup {NoRec}] /\ store' \in [Ops -> Record \cup {NoRec}]
    BY <2>1, <2>2 DEF TypeOK
  <2>4. cool' \in [Buildings -> Nat]
    BY <1>2, KnobsAssumption DEF EnterPending, TypeOK
  <2>5. fuse' \in [Ops -> Fuses \cup {0}] BY <1>2 DEF EnterPending, TypeOK
  <2>6. QED BY <1>2, <2>3, <2>4, <2>5 DEF EnterPending, TypeOK
<1>3. ASSUME NEW o \in Ops, EnterFailed(o) PROVE TypeOK'
  <2>1. CostOf(order[o].owner) \in Nat BY KnobsAssumption DEF CostOf
  <2> DEFINE q == order[o].owner
             c == CostOf(q)
  <2>4. stock' = [stock EXCEPT ![q] = @ + c] BY <1>3 DEF EnterFailed
  <2> HIDE DEF q, c
  <2>5. c \in Int BY <2>1 DEF c, q
  <2>2. stock' \in [Players -> Int]
    <3>1. CASE q \in Players BY <3>1, <2>4, <2>5 DEF TypeOK
    <3>2. CASE q \notin Players BY <3>2, <2>4 DEF TypeOK
    <3>3. QED BY <3>1, <3>2
  <2>3. QED BY <1>3, <2>2 DEF EnterFailed, TypeOK
<1>4. ASSUME NEW o \in Ops, AdvanceSettled(o) PROVE TypeOK'
  BY <1>4 DEF AdvanceSettled, Drop, Walking, TypeOK
<1>5. ASSUME NEW o \in Ops, AdvanceRaises(o) PROVE TypeOK'
  BY <1>5 DEF AdvanceRaises, Keep, Walking, TypeOK
<1>6. ASSUME NEW o \in Ops, AdvanceCancel(o) PROVE TypeOK'
  BY <1>6, EndTypes DEF AdvanceCancel, Drop, Walking, TypeOK, TerminalStates
<1>7. ASSUME NEW o \in Ops, AdvanceSuspend(o) PROVE TypeOK'
  BY <1>7, SuspendTypes DEF AdvanceSuspend, Keep, Walking, TypeOK
<1>8. ASSUME NEW o \in Ops, AdvanceResume(o) PROVE TypeOK'
  <2>1. mem[o] \in Record BY <1>8 DEF AdvanceResume, LiveRec, TypeOK
  <2>2. mem' \in [Ops -> Record \cup {NoRec}] /\ store' \in [Ops -> Record \cup {NoRec}]
    BY <1>8, <2>1, RecordOps DEF AdvanceResume, TypeOK
  <2>3. QED BY <1>8, <2>2 DEF AdvanceResume, TypeOK
<1>9. ASSUME NEW o \in Ops, AdvanceExpire(o) PROVE TypeOK'
  BY <1>9, EndTypes DEF AdvanceExpire, Clocking, Walking, Drop, TypeOK, TerminalStates
<1>10. ASSUME NEW o \in Ops, Clocking(o) PROVE mem[o] \in Record
  BY <1>10 DEF Clocking, LiveRec, ThreadOK, TypeOK
<1>11. ASSUME NEW o \in Ops, Given(o) PROVE worked' \in [Ops -> Nat]
  BY <1>11 DEF Given, TypeOK
<1>12. ASSUME NEW o \in Ops, AdvanceClock(o) PROVE TypeOK'
  <2>1. mem' \in [Ops -> Record \cup {NoRec}]
    BY <1>12, <1>10, RecordOps DEF AdvanceClock, TypeOK
  <2>2. QED BY <1>12, <1>11, <2>1 DEF AdvanceClock, Keep, TypeOK
<1>13. ASSUME NEW o \in Ops, AdvanceEffect(o) PROVE TypeOK'
  <2>1. mem' \in [Ops -> Record \cup {NoRec}]
    BY <1>13, <1>10, RecordOps DEF AdvanceEffect, TypeOK
  <2>2. hits' \in [Ops -> Nat] BY <1>13 DEF AdvanceEffect, TypeOK
  <2>3. QED BY <1>13, <1>11, <2>1, <2>2 DEF AdvanceEffect, TypeOK
<1>14. ASSUME NEW o \in Ops, Resolve(o) PROVE TypeOK'
  <2>1. esc' \in [Ops -> Nat] BY <1>14, KnobsAssumption DEF Resolve, TypeOK
  <2>2. QED BY <1>14, <2>1, EndTypes DEF Resolve, Drop, TypeOK, TerminalStates
<1>15. ASSUME TickBegin PROVE TypeOK'
  <2>1. cool' \in [Buildings -> Nat] /\ esc' \in [Ops -> Nat]
    BY <1>15 DEF TickBegin, Aged, TypeOK
  <2>2. QED BY <1>15, <2>1 DEF TickBegin, TypeOK
<1>16. ASSUME TickEnd PROVE TypeOK'
  <2>1. store' \in [Ops -> Record \cup {NoRec}] BY <1>16 DEF TickEnd, TypeOK
  <2>2. QED BY <1>16, <2>1 DEF TickEnd, TypeOK
<1>17. ASSUME World PROVE TypeOK'
  <2> USE DEF UnchangedByWorld
  <2>1. ASSUME NEW a \in Agents, CarrierKilled(a) PROVE TypeOK'
    BY <2>1, EndTypes DEF CarrierKilled, TypeOK, TerminalStates
  <2>2. ASSUME NEW a \in Agents, AgentChanges(a) PROVE TypeOK'
    BY <2>2 DEF AgentChanges, Quiet, TypeOK
  <2>3. ASSUME NEW b \in Buildings, BuildingDestroyed(b) PROVE TypeOK'
    BY <2>3, EndTypes DEF BuildingDestroyed, TypeOK, TerminalStates
  <2>4. ASSUME NEW b \in Buildings, BuildingChanges(b) PROVE TypeOK'
    BY <2>4 DEF BuildingChanges, Quiet, TypeOK
  <2>5. ASSUME NEW p \in Players, LabDestroyed(p) PROVE TypeOK'
    BY <2>5, SuspendTypes DEF LabDestroyed, TypeOK
  <2>6. ASSUME NEW p \in Players, BaseEliminated(p) PROVE TypeOK'
    BY <2>6, EndTypes DEF BaseEliminated, TypeOK, TerminalStates
  <2>7. ASSUME NEW p \in Players, LabChanges(p) PROVE TypeOK'
    BY <2>7 DEF LabChanges, Quiet, TypeOK
  <2>8. QED BY <1>17, <2>1, <2>2, <2>3, <2>4, <2>5, <2>6, <2>7 DEF World
<1>18. ASSUME Crash PROVE TypeOK'
  <2>1. torn' \subseteq Ops BY <1>18 DEF Crash, TypeOK, ThreadOK
  <2>2. bill' \in [Ops -> {"none", "charged", "spent", "refunded", "lost"}]
    BY <1>18 DEF Crash, TypeOK
  <2>3. mem' \in [Ops -> Record \cup {NoRec}] BY <1>18 DEF Crash
  <2>4. faults' \in Nat BY <1>18 DEF Crash, TypeOK
  <2>5. QED BY <1>18, <2>1, <2>2, <2>3, <2>4 DEF Crash, TypeOK
<1>19. ASSUME Rebuild PROVE TypeOK'
  <2>1. /\ mem' \in [Ops -> Record \cup {NoRec}] /\ store' \in [Ops -> Record \cup {NoRec}]
        /\ tracked' \subseteq Ops
    BY <1>19 DEF Rebuild, Persisted, Dangling, TypeOK
  <2>2. ended' \in [Ops -> TerminalStates \cup {"none"}]
    BY <1>19 DEF Rebuild, TypeOK, TerminalStates
  <2>3. QED BY <1>19, <2>1, <2>2 DEF Rebuild, TypeOK
<1>20. CASE UNCHANGED vars
  BY <1>20 DEF vars, TypeOK
<1>21. QED
  BY <1>1, <1>2, <1>3, <1>4, <1>5, <1>6, <1>7, <1>8, <1>9, <1>12, <1>13, <1>14, <1>15,
     <1>16, <1>17, <1>18, <1>19, <1>20
  DEF Next, Place, Advance

-----------------------------------------------------------------------------
(* What ending and suspending do to one operation. *)

LEMMA EndFacts ==
  ASSUME TypeOK, NEW S \in SUBSET Ops, NEW t \in TerminalStates, End(S, t), NEW o \in Ops
  PROVE  /\ o \in Movable(S) =>
              /\ mem[o] # NoRec /\ mem[o].state \in LiveStates
              /\ mem'[o] \in Record /\ mem'[o].state = t /\ ~LiveRec(o)'
              /\ store'[o] = NoRec /\ ended'[o] = t /\ o \notin tracked'
         /\ o \notin Movable(S) =>
              /\ mem'[o] = mem[o] /\ store'[o] = store[o] /\ ended'[o] = ended[o]
              /\ LiveRec(o)' = LiveRec(o)
              /\ o \in tracked' <=> o \in tracked
<1>1. ASSUME o \in Movable(S)
      PROVE  /\ mem[o] \in Record /\ mem[o].state \in LiveStates
             /\ mem'[o] = [mem[o] EXCEPT !.state = t]
             /\ store'[o] = NoRec /\ ended'[o] = t /\ o \notin tracked'
  BY <1>1 DEF TypeOK, End, Movable, LiveRec, Settled, Record, LiveStates, TerminalStates
<1>2. ASSUME o \in Movable(S) PROVE mem'[o] \in Record /\ mem'[o].state = t
  <2> DEFINE r == mem[o]
  <2>1. r \in Record /\ mem'[o] = [r EXCEPT !.state = t] BY <1>1, <1>2
  <2> HIDE DEF r
  <2>2. QED BY <2>1, StateSet
<1>3. ASSUME o \notin Movable(S)
      PROVE  /\ mem'[o] = mem[o] /\ store'[o] = store[o] /\ ended'[o] = ended[o]
             /\ o \in tracked' <=> o \in tracked
  BY <1>3 DEF TypeOK, End
<1>4. QED BY <1>1, <1>2, <1>3, NoRecordAssumption DEF LiveRec, Settled

LEMMA SuspendFacts ==
  ASSUME TypeOK, NEW S \in SUBSET Ops, Suspend(S), NEW o \in Ops
  PROVE  /\ tracked' = tracked /\ ended' = ended
         /\ \/ /\ LiveRec(o) /\ LiveRec(o)'
               /\ mem'[o] \in Record /\ mem'[o].state = "suspended" /\ store'[o] = mem'[o]
            \/ mem'[o] = mem[o] /\ store'[o] = store[o] /\ LiveRec(o)' = LiveRec(o)
<1> DEFINE paused == {q \in S : LiveRec(q) /\ mem[q].state = "pending"}
<1>1. ASSUME o \in paused
      PROVE  LiveRec(o) /\ mem[o] \in Record /\ mem'[o] = Paused(mem[o]) /\ store'[o] = mem'[o]
  BY <1>1 DEF TypeOK, Suspend, LiveRec
<1>2. ASSUME o \in paused
      PROVE  mem'[o] \in Record /\ mem'[o].state = "suspended" /\ LiveRec(o)'
  BY <1>1, <1>2, RecordOps, NoRecordAssumption DEF LiveRec, Settled, TerminalStates
<1>3. ASSUME o \notin paused
      PROVE  mem'[o] = mem[o] /\ store'[o] = store[o] /\ LiveRec(o)' = LiveRec(o)
  BY <1>3 DEF TypeOK, Suspend, LiveRec, Settled
<1>4. QED BY <1>1, <1>2, <1>3 DEF Suspend

LEMMA EndOps ==
  ASSUME TypeOK, up, NEW S \in SUBSET Ops, NEW t \in TerminalStates, End(S, t),
         \A o \in Ops : OpOK(o),
         up' = up, order' = order, bill' = bill, known' = known, kept' = kept,
         todo' \subseteq todo, \A o \in todo \ todo' : ~LiveRec(o)'
  PROVE  \A o \in Ops : OpOK(o)'
<1> SUFFICES ASSUME NEW o \in Ops PROVE OpOK(o)'
  OBVIOUS
<1>1. OpOK(o) OBVIOUS
<1>2. CASE o \in Movable(S)
  <2>1. bill[o] = "spent" BY <1>1, <1>2, EndFacts DEF OpOK, Traceless
  <2>2. QED BY <1>1, <1>2, <2>1, EndFacts, NoRecordAssumption DEF OpOK
<1>3. CASE o \notin Movable(S)
  BY <1>1, <1>3, EndFacts DEF OpOK, Traceless
<1>4. QED BY <1>2, <1>3

LEMMA SuspendOps ==
  ASSUME TypeOK, up, NEW S \in SUBSET Ops, Suspend(S), \A o \in Ops : OpOK(o),
         up' = up, order' = order, bill' = bill, known' = known,
         todo' \subseteq todo, kept' \in SUBSET (kept \cup todo),
         todo \cup kept = todo' \cup kept'
  PROVE  \A o \in Ops : OpOK(o)'
<1> SUFFICES ASSUME NEW o \in Ops PROVE OpOK(o)'
  OBVIOUS
<1>1. OpOK(o) OBVIOUS
<1>2. tracked' = tracked /\ ended' = ended BY SuspendFacts
<1>3. CASE LiveRec(o) /\ LiveRec(o)' /\ mem'[o] \in Record /\ mem'[o].state = "suspended"
           /\ store'[o] = mem'[o]
  <2>1. store[o] # NoRec /\ bill[o] = "spent" /\ ended[o] = "none"
    BY <1>1, <1>3 DEF OpOK, Traceless
  <2>2. QED BY <1>1, <1>2, <1>3, <2>1, NoRecordAssumption DEF OpOK, LiveStates
<1>4. CASE mem'[o] = mem[o] /\ store'[o] = store[o] /\ LiveRec(o)' = LiveRec(o)
  BY <1>1, <1>2, <1>4 DEF OpOK, Traceless
<1>5. QED BY <1>3, <1>4, SuspendFacts

-----------------------------------------------------------------------------
(* Every step keeps each operation in order. *)

LEMMA StepOps == IInv /\ [Next]_vars => \A o \in Ops : OpOK(o)'
<1> SUFFICES ASSUME TypeOK, ThreadOK, \A o \in Ops : OpOK(o), [Next]_vars
             PROVE  \A o \in Ops : OpOK(o)'
  BY DEF IInv
<1> USE DEF passVars, worldVars, recVars, moneyVars, clockVars, histVars
<1>1. ASSUME NEW o \in Ops, NEW p \in Players, NEW t \in Players, NEW b \in Buildings,
             NEW a \in Agents, NEW h \in BOOLEAN, Request(o, p, b, a, t, h)
      PROVE  \A q \in Ops : OpOK(q)'
  <2> SUFFICES ASSUME NEW q \in Ops PROVE OpOK(q)'
    OBVIOUS
  <2>1. OpOK(q) /\ OpOK(o) OBVIOUS
  <2>2. CASE q = o
    <3>1. order'[q] # NoOrder
      BY <1>1, <2>2, NoRecordAssumption DEF Request, TypeOK, Order
    <3>2. bill[q] = "none" /\ bill'[q] = "charged"
      BY <1>1, <2>1, <2>2 DEF Request, TypeOK, OpOK
    <3>3. QED BY <1>1, <2>1, <3>1, <3>2 DEF Request, OpOK, Traceless, LiveRec
  <2>3. CASE q # o
    <3>1. order'[q] = order[q] /\ bill'[q] = bill[q]
      BY <1>1, <2>3 DEF Request, TypeOK
    <3>2. QED BY <1>1, <2>1, <3>1 DEF Request, OpOK, Traceless, LiveRec
  <2>4. QED BY <2>2, <2>3
<1>2. ASSUME NEW o \in Ops, NEW f \in Fuses, NEW l \in Lives, EnterPending(o, f, l)
      PROVE  \A q \in Ops : OpOK(q)'
  <2> SUFFICES ASSUME NEW q \in Ops PROVE OpOK(q)'
    OBVIOUS
  <2>1. OpOK(q) /\ OpOK(o) OBVIOUS
  <2>2. bill[o] = "charged" /\ o # NoOp
    BY <1>2, NullsAssumption DEF EnterPending, ThreadOK
  <2> DEFINE r == [state |-> "pending", life |-> l, held |-> Unset,
                   ticks |-> Window(f, order[o].hostile)]
  <2>3. mem' = [mem EXCEPT ![o] = r] /\ store' = [store EXCEPT ![o] = mem'[o]]
    BY <1>2 DEF EnterPending
  <2>4. r \in Record /\ r.state = "pending"
    BY KnobsAssumption DEF Record, Window, AtLeast, Unset, LiveStates
  <2> HIDE DEF r
  <2>5. CASE q = o
    <3>1. mem'[q] = r /\ store'[q] = r BY <2>3, <2>5 DEF TypeOK
    <3>2. Traceless(q) /\ order[q] # NoOrder BY <2>1, <2>2, <2>5 DEF OpOK
    <3>3. bill'[q] = "spent" /\ order' = order /\ q \in tracked' /\ ended' = ended
          /\ known' = known /\ up' = up /\ up
      BY <1>2, <2>5 DEF EnterPending, TypeOK
    <3>4. r # NoRec BY <2>4, NoRecordAssumption
    <3>5. LiveRec(q)' BY <2>4, <3>1, <3>4 DEF LiveRec, Settled, TerminalStates
    <3>6. QED BY <2>4, <3>1, <3>2, <3>3, <3>4, <3>5 DEF OpOK, Traceless, LiveStates
  <2>6. CASE q # o
    <3>1. mem'[q] = mem[q] /\ store'[q] = store[q] BY <2>3, <2>6 DEF TypeOK
    <3>2. bill'[q] = bill[q] /\ (q \in tracked' <=> q \in tracked)
      BY <1>2, <2>6 DEF EnterPending, TypeOK
    <3>3. QED BY <1>2, <2>1, <3>1, <3>2 DEF EnterPending, OpOK, Traceless, LiveRec, Settled
  <2>7. QED BY <2>5, <2>6
<1>3. ASSUME NEW o \in Ops, EnterFailed(o) PROVE \A q \in Ops : OpOK(q)'
  <2> SUFFICES ASSUME NEW q \in Ops PROVE OpOK(q)'
    OBVIOUS
  <2>1. OpOK(q) OBVIOUS
  <2>2. bill[o] = "charged" BY <1>3, NullsAssumption DEF EnterFailed, ThreadOK
  <2>3. CASE q = o
    <3>1. Traceless(q) /\ order[q] # NoOrder BY <2>1, <2>2, <2>3 DEF OpOK
    <3>2. QED BY <1>3, <2>1, <3>1 DEF EnterFailed, OpOK, Traceless, LiveRec
  <2>4. CASE q # o
    <3>1. bill'[q] = bill[q] BY <1>3, <2>4 DEF EnterFailed, TypeOK
    <3>2. QED BY <1>3, <2>1, <2>4, <3>1 DEF EnterFailed, OpOK, Traceless, LiveRec
  <2>5. QED BY <2>3, <2>4
<1>4. ASSUME NEW o \in Ops, AdvanceSettled(o) PROVE \A q \in Ops : OpOK(q)'
  BY <1>4 DEF AdvanceSettled, Drop, Walking, OpOK, Traceless, LiveRec
<1>5. ASSUME NEW o \in Ops, AdvanceRaises(o) PROVE \A q \in Ops : OpOK(q)'
  BY <1>5 DEF AdvanceRaises, Keep, Walking, OpOK, Traceless, LiveRec
<1>6. ASSUME NEW o \in Ops, AdvanceCancel(o) PROVE \A q \in Ops : OpOK(q)'
  <2>1. o \in Movable({o}) /\ "cancelled" \in TerminalStates
    BY <1>6 DEF AdvanceCancel, Movable, TerminalStates
  <2>2. ~LiveRec(o)' BY <1>6, <2>1, EndFacts DEF AdvanceCancel
  <2>3. QED BY <1>6, <2>1, <2>2, EndOps DEF AdvanceCancel, Walking, Drop
<1>7. ASSUME NEW o \in Ops, AdvanceSuspend(o) PROVE \A q \in Ops : OpOK(q)'
  BY <1>7, SuspendOps DEF AdvanceSuspend, Walking, Keep
<1>8. ASSUME NEW o \in Ops, AdvanceResume(o) PROVE \A q \in Ops : OpOK(q)'
  <2> SUFFICES ASSUME NEW q \in Ops PROVE OpOK(q)'
    OBVIOUS
  <2>1. OpOK(q) OBVIOUS
  <2>2. mem[o] \in Record BY <1>8 DEF AdvanceResume, LiveRec, TypeOK
  <2>3. mem'[o] \in Record /\ mem'[o].state = "pending" /\ store'[o] = mem'[o]
    BY <1>8, <2>2, RecordOps DEF AdvanceResume, TypeOK
  <2>4. CASE q = o
    <3>1. LiveRec(q)'
      BY <2>3, <2>4, NoRecordAssumption DEF LiveRec, Settled, TerminalStates
    <3>2. LiveRec(q) BY <1>8, <2>4 DEF AdvanceResume
    <3>3. store[q] # NoRec /\ ended[q] = "none" /\ bill[q] = "spent"
      BY <1>8, <2>1, <3>2 DEF AdvanceResume, Walking, OpOK, Traceless
    <3>4. QED
      BY <1>8, <2>1, <2>3, <2>4, <3>1, <3>2, <3>3, NoRecordAssumption
      DEF AdvanceResume, Walking, OpOK, LiveStates
  <2>5. CASE q # o
    <3>1. mem'[q] = mem[q] /\ store'[q] = store[q]
      BY <1>8, <2>5 DEF AdvanceResume, TypeOK
    <3>2. QED BY <1>8, <2>1, <3>1 DEF AdvanceResume, OpOK, Traceless, LiveRec, Settled
  <2>6. QED BY <2>4, <2>5
<1>9. ASSUME NEW o \in Ops, Clocking(o) PROVE up /\ LiveRec(o) /\ mem[o].state = "pending"
  BY <1>9 DEF Clocking, Walking, ThreadOK
<1>10. ASSUME NEW o \in Ops, AdvanceExpire(o) PROVE \A q \in Ops : OpOK(q)'
  <2>1. o \in Movable({o}) /\ "expired" \in TerminalStates /\ up
    BY <1>9, <1>10 DEF AdvanceExpire, Movable, TerminalStates
  <2>2. ~LiveRec(o)' BY <1>10, <2>1, EndFacts DEF AdvanceExpire
  <2>3. QED BY <1>10, <2>1, <2>2, EndOps DEF AdvanceExpire, Drop
<1>11. ASSUME NEW o \in Ops, NEW q \in Ops, Clocking(o), mem' = [mem EXCEPT ![o] = Elapsed(@)]
       PROVE  /\ LiveRec(q)' = LiveRec(q)
              /\ mem[q] # NoRec => mem'[q] # NoRec /\ mem'[q].state = mem[q].state
              /\ mem[q] = NoRec => mem'[q] = NoRec
  <2>1. LiveRec(o) /\ mem[o] \in Record BY <1>9, <1>11 DEF LiveRec, TypeOK
  <2>2. mem'[o] \in Record /\ mem'[o].state = mem[o].state
    BY <1>11, <2>1, RecordOps DEF TypeOK
  <2>3. q # o => mem'[q] = mem[q] BY <1>11 DEF TypeOK
  <2>4. QED BY <2>1, <2>2, <2>3, NoRecordAssumption DEF LiveRec, Settled
<1>12. ASSUME NEW o \in Ops, AdvanceClock(o) PROVE \A q \in Ops : OpOK(q)'
  <2> SUFFICES ASSUME NEW q \in Ops PROVE OpOK(q)'
    OBVIOUS
  <2>1. OpOK(q) /\ OpOK(o) OBVIOUS
  <2>2. up /\ LiveRec(o) BY <1>9, <1>12 DEF AdvanceClock
  <2>3. /\ LiveRec(q)' = LiveRec(q)
        /\ mem[q] # NoRec => mem'[q] # NoRec /\ mem'[q].state = mem[q].state
        /\ mem[q] = NoRec => mem'[q] = NoRec
    BY <1>11, <1>12 DEF AdvanceClock
  <2>4. bill[q] # "spent" => q # o BY <2>1, <2>2 DEF OpOK, Traceless, LiveRec
  <2>5. LiveRec(q) => mem[q] # NoRec BY DEF LiveRec
  <2>6. QED BY <1>12, <2>1, <2>2, <2>3, <2>4, <2>5 DEF AdvanceClock, Keep, OpOK, Traceless
<1>13. ASSUME NEW o \in Ops, AdvanceEffect(o) PROVE \A q \in Ops : OpOK(q)'
  <2> SUFFICES ASSUME NEW q \in Ops PROVE OpOK(q)'
    OBVIOUS
  <2>1. OpOK(q) OBVIOUS
  <2>2. up BY <1>9, <1>13 DEF AdvanceEffect
  <2>3. /\ LiveRec(q)' = LiveRec(q)
        /\ mem[q] # NoRec => mem'[q] # NoRec /\ mem'[q].state = mem[q].state
        /\ mem[q] = NoRec => mem'[q] = NoRec
    BY <1>11, <1>13 DEF AdvanceEffect
  <2>4. LiveRec(q) => mem[q] # NoRec BY DEF LiveRec
  <2>5. QED BY <1>13, <2>1, <2>2, <2>3, <2>4 DEF AdvanceEffect, OpOK, Traceless
<1>14. ASSUME NEW o \in Ops, Resolve(o) PROVE \A q \in Ops : OpOK(q)'
  <2>1. "resolved" \in TerminalStates BY DEF TerminalStates
  <2>2. ~LiveRec(o)'
    BY <1>14, <2>1, EndFacts DEF Resolve, Movable
  <2>3. QED BY <1>14, <2>1, <2>2, EndOps DEF Resolve, Drop
<1>15. ASSUME TickBegin PROVE \A q \in Ops : OpOK(q)'
  BY <1>15 DEF TickBegin, OpOK, Traceless, LiveRec
<1>16. ASSUME TickEnd PROVE \A q \in Ops : OpOK(q)'
  <2> SUFFICES ASSUME NEW q \in Ops PROVE OpOK(q)'
    OBVIOUS
  <2>1. OpOK(q) OBVIOUS
  <2>2. mem' = mem /\ LiveRec(q)' = LiveRec(q) /\ up /\ up'
    BY <1>16 DEF TickEnd, LiveRec, Settled
  <2>3. LiveRec(q) => mem[q] # NoRec /\ mem[q].state \in LiveStates
    BY DEF LiveRec, Settled, TypeOK, Record, LiveStates, TerminalStates
  <2>4. store'[q] = IF q \in kept THEN IF LiveRec(q) THEN mem[q] ELSE NoRec ELSE store[q]
    BY <1>16 DEF TickEnd
  <2>5. LiveRec(q) => q \in tracked' BY <1>16, <2>1 DEF TickEnd, OpOK
  <2>6. QED BY <1>16, <2>1, <2>2, <2>3, <2>4, <2>5 DEF TickEnd, OpOK, Traceless
<1>17. ASSUME World PROVE \A q \in Ops : OpOK(q)'
  <2> USE DEF UnchangedByWorld, Open
  <2>0. "cancelled" \in TerminalStates BY DEF TerminalStates
  <2>1. ASSUME NEW a \in Agents, CarrierKilled(a) PROVE \A q \in Ops : OpOK(q)'
    <3> DEFINE S == {o \in tracked : order[o].carrier = a}
    <3>1. S \subseteq Ops BY DEF TypeOK
    <3>2. QED BY <2>0, <2>1, <3>1, EndOps DEF CarrierKilled
  <2>2. ASSUME NEW b \in Buildings, BuildingDestroyed(b) PROVE \A q \in Ops : OpOK(q)'
    <3> DEFINE S == {o \in tracked : order[o].origin = b}
    <3>1. S \subseteq Ops BY DEF TypeOK
    <3>2. QED BY <2>0, <2>2, <3>1, EndOps DEF BuildingDestroyed
  <2>3. ASSUME NEW p \in Players, LabDestroyed(p) PROVE \A q \in Ops : OpOK(q)'
    <3> DEFINE S == {o \in tracked : order[o].owner = p}
    <3>1. S \subseteq Ops BY DEF TypeOK
    <3>2. QED BY <2>3, <3>1, SuspendOps DEF LabDestroyed
  <2>4. ASSUME NEW p \in Players, BaseEliminated(p) PROVE \A q \in Ops : OpOK(q)'
    <3> DEFINE S == {o \in tracked : order[o].owner = p}
    <3>1. S \subseteq Ops BY DEF TypeOK
    <3>2. QED BY <2>0, <2>4, <3>1, EndOps DEF BaseEliminated
  <2>5. ASSUME UNCHANGED <<up, todo, kept, known, mem, tracked, store, ended, order, bill>>
        PROVE  \A q \in Ops : OpOK(q)'
    BY <2>5 DEF OpOK, Traceless, LiveRec, Settled
  <2>6. ASSUME \/ \E a \in Agents : AgentChanges(a)
               \/ \E b \in Buildings : BuildingChanges(b)
               \/ \E p \in Players : LabChanges(p)
        PROVE  \A q \in Ops : OpOK(q)'
    BY <2>5, <2>6 DEF AgentChanges, BuildingChanges, LabChanges, Quiet
  <2>7. QED BY <1>17, <2>1, <2>2, <2>3, <2>4, <2>6 DEF World
<1>18. ASSUME Crash PROVE \A q \in Ops : OpOK(q)'
  <2> SUFFICES ASSUME NEW q \in Ops PROVE OpOK(q)'
    OBVIOUS
  <2>1. OpOK(q) OBVIOUS
  <2>2. bill'[q] = "spent" <=> bill[q] = "spent"
    BY <1>18, NullsAssumption DEF Crash, ThreadOK, TypeOK
  <2>3. bill'[q] = "none" <=> bill[q] = "none"
    BY <1>18, NullsAssumption DEF Crash, ThreadOK, TypeOK
  <2>4. QED BY <1>18, <2>1, <2>2, <2>3 DEF Crash, OpOK, Traceless, LiveRec
<1>19. ASSUME Rebuild PROVE \A q \in Ops : OpOK(q)'
  <2> SUFFICES ASSUME NEW q \in Ops PROVE OpOK(q)'
    OBVIOUS
  <2>1. OpOK(q) OBVIOUS
  <2>2. step = "idle" /\ mem[q] = NoRec BY <1>19, <2>1 DEF Rebuild, ThreadOK, OpOK
  <2>3. CASE q \in Dangling
    BY <1>19, <2>1, <2>2, <2>3
    DEF Rebuild, Dangling, Persisted, OpOK, Traceless, LiveRec
  <2>4. CASE q \in Persisted \ Dangling
    <3>1. mem'[q] = store[q] /\ store'[q] = store[q] /\ ended'[q] = ended[q] /\ q \in tracked'
      BY <1>19, <2>4 DEF Rebuild, Persisted
    <3>2. store[q] # NoRec /\ ~Settled(store[q])
      BY <2>1, <2>4 DEF Persisted, OpOK, Settled, LiveStates, TerminalStates
    <3>3. LiveRec(q)' BY <3>1, <3>2 DEF LiveRec, Settled
    <3>4. known' = {} BY <1>19 DEF Rebuild, ThreadOK
    <3>5. QED BY <1>19, <2>1, <3>1, <3>2, <3>3, <3>4 DEF Rebuild, OpOK, Traceless
  <2>5. CASE q \notin Persisted
    BY <1>19, <2>1, <2>2, <2>5 DEF Rebuild, Dangling, Persisted, OpOK, Traceless, LiveRec
  <2>6. QED BY <2>3, <2>4, <2>5
<1>20. CASE UNCHANGED vars
  BY <1>20 DEF vars, OpOK, Traceless, LiveRec, Settled
<1>21. QED
  BY <1>1, <1>2, <1>3, <1>4, <1>5, <1>6, <1>7, <1>8, <1>10, <1>12, <1>13, <1>14, <1>15,
     <1>16, <1>17, <1>18, <1>19, <1>20
  DEF Next, Place, Advance

LEMMA StepThread == IInv /\ [Next]_vars => ThreadOK'
<1> SUFFICES ASSUME TypeOK, ThreadOK, \A o \in Ops : OpOK(o), [Next]_vars
             PROVE  ThreadOK'
  BY DEF IInv
<1> USE DEF passVars, worldVars, recVars, moneyVars, clockVars, histVars
\* The record the hook is inside of survives what the hook does to the others.
<1>1. ASSUME NEW S \in SUBSET Ops, NEW t \in TerminalStates, End(S, t), NEW o \in Ops,
             mem[o] # NoRec
      PROVE  mem'[o] # NoRec
  BY <1>1, EndFacts, NoRecordAssumption
<1>2. ASSUME NEW S \in SUBSET Ops, Suspend(S), NEW o \in Ops, mem[o] # NoRec
      PROVE  mem'[o] # NoRec
  BY <1>2, SuspendFacts, NoRecordAssumption
<1>3. ASSUME NEW o \in Ops, Place(o) PROVE ThreadOK'
  <2>1. ASSUME NEW p \in Players, NEW t \in Players, NEW b \in Buildings, NEW a \in Agents,
               NEW h \in BOOLEAN, Request(o, p, b, a, t, h)
        PROVE  ThreadOK'
    BY <2>1 DEF Request, Open, ThreadOK, LiveRec, Settled, TypeOK
  <2>2. ASSUME NEW f \in Fuses, NEW l \in Lives, EnterPending(o, f, l) PROVE ThreadOK'
    <3>1. bill[o] = "charged" /\ OpOK(o)
      BY <2>2, NullsAssumption DEF EnterPending, ThreadOK
    <3>2. mem[o] = NoRec BY <3>1 DEF OpOK, Traceless
    <3>3. \A q \in Ops : mem[q] # NoRec => mem'[q] = mem[q]
      BY <2>2, <3>2 DEF EnterPending, TypeOK
    <3>4. QED BY <2>2, <3>3 DEF EnterPending, ThreadOK, LiveRec, Settled
  <2>3. ASSUME EnterFailed(o) PROVE ThreadOK'
    BY <2>3 DEF EnterFailed, ThreadOK, LiveRec, Settled
  <2>4. QED BY <1>3, <2>1, <2>2, <2>3 DEF Place
<1>4. ASSUME NEW o \in Ops, Advance(o) PROVE ThreadOK'
  <2>1. CASE AdvanceSettled(o)
    BY <2>1 DEF AdvanceSettled, Drop, Walking, ThreadOK
  <2>2. CASE AdvanceCancel(o)
    BY <2>2 DEF AdvanceCancel, Drop, Walking, ThreadOK
  <2>3. CASE AdvanceSuspend(o)
    BY <2>3 DEF AdvanceSuspend, Keep, Walking, ThreadOK
  <2>4. CASE AdvanceResume(o)
    <3>1. mem[o] \in Record BY <2>4 DEF AdvanceResume, LiveRec, TypeOK
    <3>2. mem'[o] \in Record /\ mem'[o].state = "pending"
      BY <2>4, <3>1, RecordOps DEF AdvanceResume, TypeOK
    <3>3. QED
      BY <2>4, <3>2, NoRecordAssumption
      DEF AdvanceResume, Walking, ThreadOK, LiveRec, Settled, TerminalStates
  <2>5. ASSUME Clocking(o) PROVE up /\ LiveRec(o) /\ req = req
    BY <2>5 DEF Clocking, Walking, ThreadOK
  <2>6. CASE AdvanceExpire(o)
    BY <2>5, <2>6 DEF AdvanceExpire, Drop, ThreadOK
  <2>7. CASE AdvanceClock(o)
    BY <2>5, <2>7 DEF AdvanceClock, Keep, ThreadOK
  <2>8. CASE AdvanceEffect(o)
    <3>1. mem[o] \in Record BY <2>5, <2>8 DEF AdvanceEffect, LiveRec, TypeOK
    <3>2. mem'[o] \in Record BY <2>8, <3>1, RecordOps DEF AdvanceEffect, TypeOK
    <3>3. hits'[o] > 0 BY <2>8 DEF AdvanceEffect, TypeOK
    <3>4. QED BY <2>5, <2>8, <3>2, <3>3, NoRecordAssumption DEF AdvanceEffect, ThreadOK
  <2>9. CASE Resolve(o)
    BY <2>9 DEF Resolve, Drop, ThreadOK
  <2>10. QED BY <1>4, <2>1, <2>2, <2>3, <2>4, <2>6, <2>7, <2>8, <2>9 DEF Advance
<1>5. ASSUME NEW o \in Ops, AdvanceRaises(o) PROVE ThreadOK'
  BY <1>5 DEF AdvanceRaises, Keep, Walking, ThreadOK
<1>6. CASE TickBegin
  BY <1>6 DEF TickBegin, ThreadOK
<1>7. CASE TickEnd
  BY <1>7 DEF TickEnd, ThreadOK
<1>8. CASE World
  <2> USE DEF UnchangedByWorld, Open
  <2>0. "cancelled" \in TerminalStates BY DEF TerminalStates
  <2>1. ASSUME NEW a \in Agents, CarrierKilled(a) PROVE ThreadOK'
    <3>1. {o \in tracked : order[o].carrier = a} \in SUBSET Ops BY DEF TypeOK
    <3>2. QED BY <1>1, <2>0, <2>1, <3>1 DEF CarrierKilled, ThreadOK
  <2>2. ASSUME NEW b \in Buildings, BuildingDestroyed(b) PROVE ThreadOK'
    <3>1. {o \in tracked : order[o].origin = b} \in SUBSET Ops BY DEF TypeOK
    <3>2. QED BY <1>1, <2>0, <2>2, <3>1 DEF BuildingDestroyed, ThreadOK
  <2>3. ASSUME NEW p \in Players, LabDestroyed(p) PROVE ThreadOK'
    <3>1. {o \in tracked : order[o].owner = p} \in SUBSET Ops BY DEF TypeOK
    <3>2. QED BY <1>2, <2>3, <3>1 DEF LabDestroyed, ThreadOK
  <2>4. ASSUME NEW p \in Players, BaseEliminated(p) PROVE ThreadOK'
    BY <2>4 DEF BaseEliminated, ThreadOK
  <2>5. ASSUME \/ \E a \in Agents : AgentChanges(a)
               \/ \E b \in Buildings : BuildingChanges(b)
               \/ \E p \in Players : LabChanges(p)
        PROVE  ThreadOK'
    BY <2>5 DEF AgentChanges, BuildingChanges, LabChanges, Quiet, ThreadOK
  <2>6. QED BY <1>8, <2>1, <2>2, <2>3, <2>4, <2>5 DEF World
<1>9. CASE Crash
  BY <1>9 DEF Crash, ThreadOK
<1>10. CASE Rebuild
  BY <1>10 DEF Rebuild, ThreadOK
<1>11. CASE UNCHANGED vars
  BY <1>11 DEF vars, ThreadOK, LiveRec, Settled
<1>12. QED
  BY <1>3, <1>4, <1>5, <1>6, <1>7, <1>8, <1>9, <1>10, <1>11 DEF Next

\* The inductive invariant.
THEOREM Inductive == Spec => []IInv
<1>1. IInv /\ [Next]_vars => IInv'
  BY StepTypes, StepOps, StepThread DEF IInv
<1>2. QED BY InitInv, <1>1, PTL DEF Spec

\* Every variable has its type, for every instance.
THEOREM TypeCorrect == Spec => []TypeOK
BY Inductive, PTL DEF IInv

\* Storage and memory never disagree about the state of an operation, at any
\* point of a pass: the hooks, the event handlers and the rebuild included.
THEOREM Durable == Spec => []StateDurable
<1>1. IInv => StateDurable
  <2> SUFFICES ASSUME IInv, up, NEW o \in Ops
               PROVE  /\ (store[o] # NoRec) <=> LiveRec(o)
                      /\ store[o] # NoRec => store[o].state = mem[o].state /\ o \in tracked
    BY DEF StateDurable
  <2>1. QED BY DEF IInv, OpOK
<1>2. QED BY Inductive, <1>1, PTL

\* An operation that ended is in no storage and no copy of it is alive.
THEOREM Final == Spec => []EndedForGood
<1>1. IInv => EndedForGood BY DEF IInv, OpOK, EndedForGood
<1>2. QED BY Inductive, <1>1, PTL

-----------------------------------------------------------------------------
(* The driver implements the lifecycle. *)

\* The phase of a live operation is its state in memory, that of an ended one
\* the state it ended in.
LEMMA PhaseValue ==
  ASSUME NEW o \in Ops, OpOK(o)
  PROVE  /\ LiveRec(o) /\ up => Phase[o] = mem[o].state /\ ended[o] = "none"
         /\ ended[o] # "none" => Phase[o] = ended[o]
         /\ ended[o] = "none" /\ store[o] = NoRec => Phase[o] = "none"
         /\ store[o] # NoRec => Phase[o] = store[o].state /\ ended[o] = "none"
BY DEF OpOK, Phase

\* Equal stored states are equal phases.
LEMMA SamePhase ==
  ASSUME NEW o \in Ops, ended'[o] = ended[o],
         (store'[o] = NoRec) <=> (store[o] = NoRec),
         store[o] # NoRec => store'[o].state = store[o].state
  PROVE  Lifecycle!Stays(o)
BY DEF Lifecycle!Stays, Phase

LEMMA EndMoves ==
  ASSUME TypeOK, up, \A o \in Ops : OpOK(o),
         NEW S \in SUBSET Ops, NEW t \in TerminalStates, End(S, t),
         t = "expired" => \A o \in S : mem[o].state = "pending",
         t = "resolved" => \A o \in S : hits[o] > 0
  PROVE  \A o \in Ops : Lifecycle!Moves(o) \/ Lifecycle!Stays(o)
<1> SUFFICES ASSUME NEW o \in Ops PROVE Lifecycle!Moves(o) \/ Lifecycle!Stays(o)
  OBVIOUS
<1>1. CASE o \in Movable(S)
  <2>1. LiveRec(o) /\ o \in S BY <1>1 DEF Movable
  <2>2. Phase[o] = mem[o].state /\ mem[o].state \in LiveStates
    BY <1>1, <2>1, PhaseValue, EndFacts
  <2>3. ended'[o] = t BY <1>1, EndFacts
  <2>4. Phase'[o] = t BY <2>3 DEF Phase, TerminalStates
  <2>5. QED
    BY <2>1, <2>2, <2>4
    DEF Lifecycle!Moves, Lifecycle!Live, LiveStates, TerminalStates
<1>2. CASE o \notin Movable(S)
  BY <1>2, EndFacts, SamePhase
<1>3. QED BY <1>1, <1>2

LEMMA SuspendMoves ==
  ASSUME TypeOK, up, \A o \in Ops : OpOK(o), NEW S \in SUBSET Ops, Suspend(S)
  PROVE  \A o \in Ops : Lifecycle!Moves(o) \/ Lifecycle!Stays(o)
<1> SUFFICES ASSUME NEW o \in Ops PROVE Lifecycle!Moves(o) \/ Lifecycle!Stays(o)
  OBVIOUS
<1>1. CASE /\ LiveRec(o) /\ mem'[o] \in Record /\ mem'[o].state = "suspended"
           /\ store'[o] = mem'[o] /\ ended' = ended
  <2>1. Phase[o] = mem[o].state /\ ended[o] = "none" BY <1>1, PhaseValue
  <2>2. Phase'[o] = "suspended" BY <1>1, <2>1, NoRecordAssumption DEF Phase
  <2>3. mem[o].state \in {"pending", "suspended"}
    BY <1>1 DEF LiveRec, Settled, TypeOK, Record, LiveStates
  <2>4. QED BY <2>1, <2>2, <2>3 DEF Lifecycle!Moves, Lifecycle!Stays
<1>2. CASE store'[o] = store[o] /\ ended' = ended
  BY <1>2, SamePhase
<1>3. QED BY <1>1, <1>2, SuspendFacts

LEMMA StepMoves ==
  IInv /\ [Next]_vars => \A o \in Ops : Lifecycle!Moves(o) \/ Lifecycle!Stays(o)
<1> SUFFICES ASSUME TypeOK, ThreadOK, \A o \in Ops : OpOK(o), [Next]_vars
             PROVE  \A o \in Ops : Lifecycle!Moves(o) \/ Lifecycle!Stays(o)
  BY DEF IInv
<1> USE DEF passVars, worldVars, recVars, moneyVars, clockVars, histVars
<1> DEFINE Lawful == \A q \in Ops : Lifecycle!Moves(q) \/ Lifecycle!Stays(q)
<1>1. ASSUME store' = store, ended' = ended PROVE Lawful
  BY <1>1, SamePhase
<1>2. ASSUME NEW o \in Ops, Place(o) PROVE Lawful
  <2>1. ASSUME NEW f \in Fuses, NEW l \in Lives, EnterPending(o, f, l) PROVE Lawful
    <3> SUFFICES ASSUME NEW q \in Ops PROVE Lifecycle!Moves(q) \/ Lifecycle!Stays(q)
      OBVIOUS
    <3> DEFINE r == [state |-> "pending", life |-> l, held |-> Unset,
                     ticks |-> Window(f, order[o].hostile)]
    <3>1. r \in Record /\ r.state = "pending"
      BY KnobsAssumption DEF Record, Window, AtLeast, Unset, LiveStates
    <3>2. mem' = [mem EXCEPT ![o] = r] /\ store' = [store EXCEPT ![o] = mem'[o]] /\ ended' = ended
      BY <2>1 DEF EnterPending
    <3> HIDE DEF r
    <3>3. CASE q = o
      <4>1. bill[o] = "charged" /\ OpOK(o)
        BY <2>1, NullsAssumption DEF EnterPending, ThreadOK
      <4>2. Phase[o] = "none" /\ ended[o] = "none" BY <4>1, PhaseValue DEF OpOK, Traceless
      <4>3. store'[o] = r BY <3>2 DEF TypeOK
      <4>4. Phase'[o] = "pending" BY <3>1, <3>2, <4>2, <4>3, NoRecordAssumption DEF Phase
      <4>5. QED BY <3>3, <4>2, <4>4 DEF Lifecycle!Moves
    <3>4. CASE q # o
      BY <3>2, <3>4, SamePhase DEF TypeOK
    <3>5. QED BY <3>3, <3>4
  <2>2. QED BY <1>1, <1>2, <2>1 DEF Place, Request, EnterFailed
<1>3. ASSUME NEW o \in Ops, Clocking(o) PROVE up /\ LiveRec(o) /\ mem[o].state = "pending"
  BY <1>3 DEF Clocking, Walking, ThreadOK
<1>4. ASSUME NEW o \in Ops, Advance(o) PROVE Lawful
  <2>1. CASE AdvanceCancel(o)
    BY <2>1, EndMoves DEF AdvanceCancel, Walking, TerminalStates
  <2>2. CASE AdvanceSuspend(o)
    BY <2>2, SuspendMoves DEF AdvanceSuspend, Walking
  <2>3. CASE AdvanceResume(o)
    <3> SUFFICES ASSUME NEW q \in Ops PROVE Lifecycle!Moves(q) \/ Lifecycle!Stays(q)
      OBVIOUS
    <3>1. mem[o] \in Record BY <2>3 DEF AdvanceResume, LiveRec, TypeOK
    <3>2. mem'[o] \in Record /\ mem'[o].state = "pending" /\ store'[o] = mem'[o]
          /\ ended' = ended
      BY <2>3, <3>1, RecordOps DEF AdvanceResume, TypeOK
    <3>3. CASE q = o
      <4>1. Phase[o] = "suspended" /\ ended[o] = "none"
        BY <2>3, PhaseValue DEF AdvanceResume, Walking
      <4>2. Phase'[o] = "pending" BY <3>2, <4>1, NoRecordAssumption DEF Phase
      <4>3. QED BY <3>3, <4>1, <4>2 DEF Lifecycle!Moves
    <3>4. CASE q # o
      BY <2>3, <3>4, SamePhase DEF AdvanceResume, TypeOK
    <3>5. QED BY <3>3, <3>4
  <2>4. CASE AdvanceExpire(o)
    BY <1>3, <2>4, EndMoves DEF AdvanceExpire, TerminalStates
  <2>5. CASE Resolve(o)
    BY <2>5, EndMoves DEF Resolve, ThreadOK, TerminalStates
  <2>6. QED
    BY <1>1, <1>4, <2>1, <2>2, <2>3, <2>4, <2>5
    DEF Advance, AdvanceSettled, AdvanceClock, AdvanceEffect
<1>5. CASE TickEnd
  <2> SUFFICES ASSUME NEW q \in Ops PROVE Lifecycle!Moves(q) \/ Lifecycle!Stays(q)
    OBVIOUS
  <2>1. OpOK(q) OBVIOUS
  <2>2. /\ ended' = ended /\ up
        /\ store'[q] = IF q \in kept THEN IF LiveRec(q) THEN mem[q] ELSE NoRec ELSE store[q]
    BY <1>5 DEF TickEnd
  <2>3. LiveRec(q) => mem[q] # NoRec BY DEF LiveRec
  <2>4. QED BY <2>1, <2>2, <2>3, SamePhase DEF OpOK
<1>6. CASE World
  <2> USE DEF UnchangedByWorld, Open
  <2>0. "cancelled" \in TerminalStates BY DEF TerminalStates
  <2>1. ASSUME NEW a \in Agents, CarrierKilled(a) PROVE Lawful
    <3>1. {o \in tracked : order[o].carrier = a} \in SUBSET Ops BY DEF TypeOK
    <3>2. QED BY <2>0, <2>1, <3>1, EndMoves DEF CarrierKilled
  <2>2. ASSUME NEW b \in Buildings, BuildingDestroyed(b) PROVE Lawful
    <3>1. {o \in tracked : order[o].origin = b} \in SUBSET Ops BY DEF TypeOK
    <3>2. QED BY <2>0, <2>2, <3>1, EndMoves DEF BuildingDestroyed
  <2>3. ASSUME NEW p \in Players, LabDestroyed(p) PROVE Lawful
    <3>1. {o \in tracked : order[o].owner = p} \in SUBSET Ops BY DEF TypeOK
    <3>2. QED BY <2>3, <3>1, SuspendMoves DEF LabDestroyed
  <2>4. ASSUME NEW p \in Players, BaseEliminated(p) PROVE Lawful
    <3>1. {o \in tracked : order[o].owner = p} \in SUBSET Ops BY DEF TypeOK
    <3>2. QED BY <2>0, <2>4, <3>1, EndMoves DEF BaseEliminated
  <2>5. ASSUME Quiet PROVE Lawful
    BY <1>1, <2>5 DEF Quiet
  <2>6. QED
    BY <1>6, <2>1, <2>2, <2>3, <2>4, <2>5
    DEF World, AgentChanges, BuildingChanges, LabChanges
<1>7. CASE Rebuild
  <2> SUFFICES ASSUME NEW q \in Ops PROVE Lifecycle!Moves(q) \/ Lifecycle!Stays(q)
    OBVIOUS
  <2>1. OpOK(q) OBVIOUS
  <2>2. CASE q \in Dangling
    <3>1. Phase[q] = store[q].state /\ store[q].state \in LiveStates
      BY <2>1, <2>2, PhaseValue DEF Dangling, Persisted, OpOK
    <3>2. ended'[q] = "discarded" BY <1>7, <2>2 DEF Rebuild
    <3>3. Phase'[q] = "discarded" BY <3>2 DEF Phase
    <3>4. QED BY <3>1, <3>3 DEF Lifecycle!Moves, Lifecycle!Live, LiveStates
  <2>3. CASE q \notin Dangling
    BY <1>7, <2>3, SamePhase DEF Rebuild
  <2>4. QED BY <2>2, <2>3
<1>8. CASE TickBegin \/ Crash \/ UNCHANGED vars
  BY <1>1, <1>8 DEF TickBegin, Crash, vars
<1>9. QED
  BY <1>1, <1>2, <1>4, <1>5, <1>6, <1>7, <1>8 DEF Next, AdvanceRaises

\* Only the start of an effect counts one, and only for a pending operation.
LEMMA StepApplies == IInv /\ [Next]_vars => \A o \in Ops : Lifecycle!Applies(o)
<1> SUFFICES ASSUME TypeOK, ThreadOK, \A o \in Ops : OpOK(o), [Next]_vars,
                    NEW q \in Ops
             PROVE  Lifecycle!Applies(q)
  BY DEF IInv
<1> USE DEF passVars, worldVars, recVars, moneyVars, clockVars, histVars
<1>1. CASE hits' = hits
  BY <1>1 DEF Lifecycle!Applies
<1>2. ASSUME NEW o \in Ops, AdvanceEffect(o) PROVE Lifecycle!Applies(q)
  <2>1. up /\ LiveRec(o) /\ mem[o].state = "pending" /\ OpOK(o)
    BY <1>2 DEF AdvanceEffect, Clocking, Walking, ThreadOK
  <2>2. Phase[o] = "pending" BY <2>1, PhaseValue
  <2>3. hits'[o] > 0 /\ (q # o => hits'[q] = hits[q]) BY <1>2 DEF AdvanceEffect, TypeOK
  <2>4. QED BY <2>2, <2>3 DEF Lifecycle!Applies
<1>3. ASSUME NEW o \in Ops, Place(o) PROVE hits' = hits
  BY <1>3 DEF Place, Request, EnterPending, EnterFailed
<1>4. ASSUME NEW o \in Ops, Advance(o), ~AdvanceEffect(o) PROVE hits' = hits
  BY <1>4 DEF Advance, AdvanceSettled, AdvanceCancel, AdvanceSuspend, AdvanceResume,
              AdvanceExpire, AdvanceClock, Resolve
<1>5. World => hits' = hits
  BY DEF World, CarrierKilled, BuildingDestroyed, LabDestroyed, BaseEliminated,
         AgentChanges, BuildingChanges, LabChanges, Quiet, UnchangedByWorld
<1>6. (\E o \in Ops : AdvanceRaises(o)) \/ TickBegin \/ TickEnd \/ Crash \/ Rebuild
        \/ UNCHANGED vars => hits' = hits
  BY DEF AdvanceRaises, TickBegin, TickEnd, Crash, Rebuild, vars
<1>7. QED BY <1>1, <1>2, <1>3, <1>4, <1>5, <1>6 DEF Next

\* The driver, its event handlers, its crashes and rebuilds implement the
\* lifecycle an observer of the durable state is promised.
THEOREM Refinement == Spec => ImplementsLifecycle
<1>1. Init => Lifecycle!Init
  <2> SUFFICES ASSUME Init PROVE Lifecycle!Init
    OBVIOUS
  <2>1. \A o \in Ops : (hits[o] > 0) = FALSE BY DEF Init
  <2>2. [o \in Ops |-> hits[o] > 0] = [o \in Ops |-> FALSE] BY <2>1, Zenon
  <2>3. Phase = [o \in Ops |-> "none"] BY DEF Init, Phase
  <2>4. QED BY <2>2, <2>3 DEF Lifecycle!Init
<1>2. IInv /\ [Next]_vars => [Lifecycle!Next]_(Lifecycle!vars)
  <2> SUFFICES ASSUME IInv, [Next]_vars PROVE Lifecycle!Next
    OBVIOUS
  <2>1. IInv' BY StepTypes, StepOps, StepThread DEF IInv
  <2>2. Phase' \in [Ops -> Lifecycle!Phases]
    BY <2>1
    DEF IInv, OpOK, TypeOK, Phase, LiveStates, TerminalStates,
        Lifecycle!Phases, Lifecycle!Live, Lifecycle!Terminal
  <2>3. QED BY <2>2, StepMoves, StepApplies DEF Lifecycle!Next
<1>3. QED BY <1>1, <1>2, Inductive, PTL DEF Spec, ImplementsLifecycle, Lifecycle!Spec

-----------------------------------------------------------------------------
(* What a step does to one operation. *)

\* The request, the entry, the clock and the charge are as they were; storage
\* only loses entries, to an end; a live record is the old one, paused, resumed,
\* or the stored one again.
Kept(o) ==
  /\ order'[o] = order[o] /\ bill'[o] = bill[o]
  /\ hits'[o] = hits[o] /\ worked'[o] = worked[o] /\ fuse'[o] = fuse[o]
  /\ store'[o] # NoRec => store[o] # NoRec
  /\ (store'[o] # NoRec \/ ended'[o] # "none") <=> (store[o] # NoRec \/ ended[o] # "none")
  /\ LiveRec(o)' =>
       \/ LiveRec(o) /\ \/ mem'[o] = mem[o] \/ mem'[o] = Paused(mem[o])
                        \/ mem[o].state = "suspended" /\ mem'[o] = Resumed(mem[o])
       \/ store[o] # NoRec /\ mem'[o] = store[o]
  /\ store'[o] # NoRec => \/ store'[o] = store[o]
                          \/ LiveRec(o)' /\ store'[o] = mem'[o]
                          \/ LiveRec(o) /\ store'[o] = mem[o]

\* Nothing about the operation has changed but perhaps where the pass is.
Still(o) ==
  /\ order'[o] = order[o] /\ bill'[o] = bill[o]
  /\ hits'[o] = hits[o] /\ worked'[o] = worked[o] /\ fuse'[o] = fuse[o]
  /\ mem'[o] = mem[o] /\ store'[o] = store[o] /\ ended'[o] = ended[o]

LEMMA StillKept ==
  ASSUME NEW o \in Ops, Still(o)
  PROVE  Kept(o)
BY DEF Still, Kept, LiveRec, Settled

\* What the writer of states ends leaves storage; it keeps the rest.
LEMMA EndKept ==
  ASSUME TypeOK, up, NEW S \in SUBSET Ops, NEW t \in TerminalStates, End(S, t),
         order' = order, bill' = bill, hits' = hits, worked' = worked, fuse' = fuse,
         NEW o \in Ops, OpOK(o)
  PROVE  Kept(o)
<1>1. CASE o \in Movable(S)
  <2>1. store'[o] = NoRec /\ ended'[o] = t /\ ~LiveRec(o)' BY <1>1, EndFacts
  <2>2. store[o] # NoRec BY <1>1 DEF OpOK, Movable
  <2>3. t # "none" BY DEF TerminalStates
  <2>4. QED BY <2>1, <2>2, <2>3 DEF Kept
<1>2. CASE o \notin Movable(S)
  BY <1>2, EndFacts, StillKept DEF Still
<1>3. QED BY <1>1, <1>2

LEMMA SuspendKept ==
  ASSUME TypeOK, up, NEW S \in SUBSET Ops, Suspend(S),
         order' = order, bill' = bill, hits' = hits, worked' = worked, fuse' = fuse,
         NEW o \in Ops, OpOK(o)
  PROVE  Kept(o)
<1> DEFINE paused == {q \in S : LiveRec(q) /\ mem[q].state = "pending"}
<1>1. tracked' = tracked /\ ended' = ended BY DEF Suspend
<1>2. CASE o \in paused
  <2>1. LiveRec(o) /\ mem'[o] = Paused(mem[o]) /\ store'[o] = mem'[o]
    BY <1>2 DEF TypeOK, Suspend
  <2>2. store[o] # NoRec BY <2>1 DEF OpOK
  <2>3. LiveRec(o)'
    <3>1. mem[o] \in Record BY <2>1 DEF TypeOK, LiveRec
    <3>2. Paused(mem[o]) \in Record /\ Paused(mem[o]).state = "suspended"
      BY <3>1, RecordOps
    <3>3. QED BY <2>1, <3>2, NoRecordAssumption DEF LiveRec, Settled, TerminalStates
  <2>4. QED BY <1>1, <2>1, <2>2, <2>3 DEF Kept, LiveRec
<1>3. CASE o \notin paused
  <2>1. mem'[o] = mem[o] /\ store'[o] = store[o] BY <1>3 DEF TypeOK, Suspend
  <2>2. QED BY <1>1, <2>1, StillKept DEF Still
<1>4. QED BY <1>2, <1>3

\* The steps that do more to an operation.
Charged(o) == \E p, t \in Players, b \in Buildings, a \in Agents, h \in BOOLEAN :
                 Request(o, p, b, a, t, h)
Entered(o) == \E f \in Fuses, l \in Lives : EnterPending(o, f, l)
Clocked(o) == AdvanceClock(o) \/ AdvanceEffect(o)
Lost(o)    == Crash /\ o = req

LEMMA StepKept ==
  ASSUME IInv, [Next]_vars, NEW q \in Ops
  PROVE  Kept(q) \/ Charged(q) \/ Entered(q) \/ EnterFailed(q) \/ Clocked(q) \/ Lost(q)
<1> USE DEF passVars, worldVars, recVars, moneyVars, clockVars, histVars
<1>0. TypeOK /\ ThreadOK /\ OpOK(q) BY DEF IInv
<1>1. ASSUME NEW o \in Ops, Place(o)
      PROVE  Kept(q) \/ Charged(q) \/ Entered(q) \/ EnterFailed(q)
  <2>1. CASE q = o BY <1>1, <2>1 DEF Place, Charged, Entered
  <2>2. CASE q # o
    <3>1. CASE Charged(o) BY <1>0, <2>2, <3>1, StillKept DEF Still, Charged, Request, TypeOK
    <3>2. CASE Entered(o)
      BY <1>0, <2>2, <3>2, StillKept DEF Still, Entered, EnterPending, TypeOK
    <3>3. CASE EnterFailed(o)
      BY <1>0, <2>2, <3>3, StillKept DEF Still, EnterFailed, TypeOK
    <3>4. QED BY <1>1, <3>1, <3>2, <3>3 DEF Place, Charged, Entered
  <2>3. QED BY <2>1, <2>2
<1>2. ASSUME NEW o \in Ops, Advance(o) PROVE Kept(q) \/ Clocked(q)
  <2>1. CASE AdvanceSettled(o) BY <2>1, StillKept DEF AdvanceSettled, Still
  <2>2. CASE AdvanceCancel(o)
    BY <1>0, <2>2, EndKept DEF AdvanceCancel, Walking, TerminalStates
  <2>3. CASE AdvanceSuspend(o)
    BY <1>0, <2>3, SuspendKept DEF AdvanceSuspend, Walking
  <2>4. CASE AdvanceResume(o)
    <3>1. CASE q = o
      <4>1. up /\ LiveRec(q) /\ mem[q] \in Record
        BY <1>0, <2>4, <3>1 DEF AdvanceResume, Walking, LiveRec, TypeOK
      <4>2. mem[q].state = "suspended" /\ mem'[q] = Resumed(mem[q]) /\ store'[q] = mem'[q]
        BY <1>0, <2>4, <3>1 DEF AdvanceResume, TypeOK
      <4>3. LiveRec(q)'
        BY <4>1, <4>2, RecordOps, NoRecordAssumption
        DEF LiveRec, Settled, TerminalStates
      <4>4. store[q] # NoRec /\ store'[q] # NoRec
        BY <1>0, <4>1, <4>2, <4>3 DEF OpOK, LiveRec
      <4>5. order' = order /\ bill' = bill /\ hits' = hits /\ worked' = worked
            /\ fuse' = fuse /\ ended' = ended
        BY <2>4 DEF AdvanceResume
      <4>6. QED BY <4>1, <4>2, <4>3, <4>4, <4>5 DEF Kept
    <3>2. CASE q # o BY <1>0, <2>4, <3>2, StillKept DEF AdvanceResume, Still, TypeOK
    <3>3. QED BY <3>1, <3>2
  <2>5. CASE AdvanceExpire(o)
    <3>1. up BY <2>5 DEF AdvanceExpire, Clocking, Walking
    <3>2. QED BY <1>0, <2>5, <3>1, EndKept DEF AdvanceExpire, TerminalStates
  <2>6. CASE Clocked(o)
    <3>1. CASE q = o BY <2>6, <3>1
    <3>2. CASE q # o
      BY <1>0, <2>6, <3>2, StillKept
      DEF Clocked, AdvanceClock, AdvanceEffect, Given, Still, TypeOK
    <3>3. QED BY <3>1, <3>2
  <2>7. CASE Resolve(o)
    BY <1>0, <2>7, EndKept DEF Resolve, TerminalStates
  <2>8. QED BY <1>2, <2>1, <2>2, <2>3, <2>4, <2>5, <2>6, <2>7 DEF Advance, Clocked
<1>3. ASSUME NEW o \in Ops, AdvanceRaises(o) PROVE Kept(q)
  BY <1>3, StillKept DEF AdvanceRaises, Still
<1>4. CASE TickBegin BY <1>4, StillKept DEF TickBegin, Still
<1>5. CASE TickEnd
  <2>1. mem' = mem /\ ended' = ended /\ up /\ LiveRec(q)' = LiveRec(q)
    BY <1>5 DEF TickEnd, LiveRec, Settled
  <2>2. store'[q] = IF q \in kept THEN IF LiveRec(q) THEN mem[q] ELSE NoRec ELSE store[q]
    BY <1>5 DEF TickEnd
  <2>3. LiveRec(q) <=> store[q] # NoRec BY <1>0, <2>1 DEF OpOK
  <2>4. LiveRec(q) => mem[q] # NoRec BY DEF LiveRec
  <2>5. QED BY <1>5, <2>1, <2>2, <2>3, <2>4 DEF TickEnd, Kept
<1>6. CASE World
  <2> USE DEF UnchangedByWorld, Open
  <2>0. "cancelled" \in TerminalStates BY DEF TerminalStates
  <2>1. ASSUME NEW a \in Agents, CarrierKilled(a) PROVE Kept(q)
    <3>1. {o \in tracked : order[o].carrier = a} \in SUBSET Ops BY <1>0 DEF TypeOK
    <3>2. QED BY <1>0, <2>0, <2>1, <3>1, EndKept DEF CarrierKilled
  <2>2. ASSUME NEW b \in Buildings, BuildingDestroyed(b) PROVE Kept(q)
    <3>1. {o \in tracked : order[o].origin = b} \in SUBSET Ops BY <1>0 DEF TypeOK
    <3>2. QED BY <1>0, <2>0, <2>2, <3>1, EndKept DEF BuildingDestroyed
  <2>3. ASSUME NEW p \in Players, LabDestroyed(p) PROVE Kept(q)
    <3>1. {o \in tracked : order[o].owner = p} \in SUBSET Ops BY <1>0 DEF TypeOK
    <3>2. QED BY <1>0, <2>3, <3>1, SuspendKept DEF LabDestroyed
  <2>4. ASSUME NEW p \in Players, BaseEliminated(p) PROVE Kept(q)
    <3>1. {o \in tracked : order[o].owner = p} \in SUBSET Ops BY <1>0 DEF TypeOK
    <3>2. QED BY <1>0, <2>0, <2>4, <3>1, EndKept DEF BaseEliminated
  <2>5. ASSUME \/ \E a \in Agents : AgentChanges(a)
               \/ \E b \in Buildings : BuildingChanges(b)
               \/ \E p \in Players : LabChanges(p)
        PROVE  Kept(q)
    BY <2>5, StillKept DEF AgentChanges, BuildingChanges, LabChanges, Quiet, Still
  <2>6. QED BY <1>6, <2>1, <2>2, <2>3, <2>4, <2>5 DEF World
<1>7. CASE Crash
  <2>1. CASE q = req BY <1>7, <2>1 DEF Lost
  <2>2. CASE q # req
    <3>1. bill'[q] = bill[q] /\ mem'[q] = NoRec BY <1>0, <1>7, <2>2 DEF Crash, TypeOK
    <3>2. QED BY <1>7, <3>1 DEF Crash, Kept, LiveRec
  <2>3. QED BY <2>1, <2>2
<1>8. CASE Rebuild
  <2>1. CASE q \in Dangling
    BY <1>8, <2>1 DEF Rebuild, Kept, LiveRec, Dangling, Persisted
  <2>2. CASE q \in Persisted \ Dangling
    BY <1>8, <2>2 DEF Rebuild, Kept, LiveRec, Dangling, Persisted
  <2>3. CASE q \notin Persisted
    BY <1>8, <2>3 DEF Rebuild, Kept, LiveRec, Dangling, Persisted
  <2>4. QED BY <2>1, <2>2, <2>3
<1>9. CASE UNCHANGED vars BY <1>9, StillKept DEF vars, Still
<1>10. QED BY <1>1, <1>2, <1>3, <1>4, <1>5, <1>6, <1>7, <1>8, <1>9 DEF Next

-----------------------------------------------------------------------------
(* Effects. *)

\* An operation that was never placed has had no effect, and one whose effect
\* has run is stored only inside that effect, unless a crash tore it.
Applied(o) ==
  /\ bill[o] # "spent" => hits[o] = 0
  /\ o \notin torn => /\ hits[o] <= 1
                      /\ hits[o] > 0 /\ store[o] # NoRec => step = "effect" /\ cur = o

\* The thread leaves an effect only when it is settled, or torn by a crash.
LEMMA LeaveEffect ==
  ASSUME IInv, [Next]_vars, step = "effect"
  PROVE  (step' = step /\ cur' = cur) \/ cur \in torn' \/ store'[cur] = NoRec
<1> USE DEF passVars, worldVars, recVars, moneyVars, clockVars, histVars
<1>0. TypeOK /\ ThreadOK /\ up /\ cur \in Ops /\ OpOK(cur) BY DEF IInv, ThreadOK
<1>1. ASSUME NEW o \in Ops, Place(o) PROVE step' = step /\ cur' = cur
  BY <1>1 DEF Place, Request, EnterPending, EnterFailed
<1>2. ASSUME NEW o \in Ops, Advance(o) PROVE store'[cur] = NoRec
  <2>1. Resolve(o)
    BY <1>2
    DEF Advance, AdvanceSettled, AdvanceCancel, AdvanceSuspend, AdvanceResume,
        AdvanceExpire, AdvanceClock, AdvanceEffect, Clocking, Walking
  <2>2. cur = o /\ End({cur}, "resolved") /\ "resolved" \in TerminalStates
    BY <2>1 DEF Resolve, TerminalStates
  <2>3. CASE LiveRec(cur)
    BY <1>0, <2>2, <2>3, EndFacts DEF Movable
  <2>4. CASE ~LiveRec(cur)
    <3>1. cur \notin Movable({cur}) /\ store[cur] = NoRec
      BY <1>0, <2>4 DEF Movable, OpOK
    <3>2. QED BY <1>0, <2>2, <3>1, EndFacts
  <2>5. QED BY <2>3, <2>4
<1>3. \A o \in Ops : ~AdvanceRaises(o) BY DEF AdvanceRaises, Walking
<1>4. ~TickBegin /\ ~TickEnd /\ ~Rebuild BY <1>0 DEF TickBegin, TickEnd, Rebuild
<1>5. World => step' = step /\ cur' = cur
  BY DEF World, CarrierKilled, AgentChanges, BuildingDestroyed, BuildingChanges,
         LabDestroyed, BaseEliminated, LabChanges, Quiet, UnchangedByWorld
<1>6. Crash => cur \in torn' BY DEF Crash
<1>7. UNCHANGED vars => step' = step /\ cur' = cur BY DEF vars
<1>8. QED BY <1>1, <1>2, <1>3, <1>4, <1>5, <1>6, <1>7 DEF Next

LEMMA TornStays == [Next]_vars => torn \subseteq torn'
<1> USE DEF passVars, worldVars, recVars, moneyVars, clockVars, histVars
<1>1. \A o \in Ops : Place(o) => torn' = torn
  BY DEF Place, Request, EnterPending, EnterFailed
<1>2. \A o \in Ops : Advance(o) \/ AdvanceRaises(o) => torn' = torn
  BY DEF Advance, AdvanceSettled, AdvanceCancel, AdvanceSuspend, AdvanceResume,
         AdvanceExpire, AdvanceClock, AdvanceEffect, Resolve, AdvanceRaises
<1>3. World => torn' = torn
  BY DEF World, CarrierKilled, AgentChanges, BuildingDestroyed, BuildingChanges,
         LabDestroyed, BaseEliminated, LabChanges, Quiet, UnchangedByWorld
<1>4. TickBegin \/ TickEnd \/ Rebuild \/ UNCHANGED vars => torn' = torn
  BY DEF TickBegin, TickEnd, Rebuild, vars
<1>5. Crash => torn \subseteq torn' BY DEF Crash
<1>6. QED BY <1>1, <1>2, <1>3, <1>4, <1>5 DEF Next

\* The record a clock is taken from is live, placed and stored.
LEMMA ClockingLive ==
  ASSUME IInv, NEW o \in Ops, Clocking(o)
  PROVE  /\ up /\ LiveRec(o) /\ mem[o] \in Record /\ mem[o].state = "pending"
         /\ store[o] # NoRec /\ bill[o] = "spent" /\ order[o] \in Order
         /\ step # "effect"
<1>1. TypeOK /\ ThreadOK /\ OpOK(o) BY DEF IInv
<1>2. up /\ LiveRec(o) /\ mem[o].state = "pending" /\ step # "effect"
  BY <1>1 DEF Clocking, Walking, ThreadOK
<1>3. mem[o] # NoRec BY <1>2 DEF LiveRec
<1>4. store[o] # NoRec /\ bill[o] = "spent" /\ order[o] # NoOrder
  BY <1>1, <1>2, <1>3 DEF OpOK, Traceless
<1>5. QED BY <1>1, <1>2, <1>3, <1>4 DEF TypeOK

LEMMA StepApplied ==
  ASSUME IInv, [Next]_vars, NEW o \in Ops, Applied(o)
  PROVE  Applied(o)'
<1> USE DEF passVars, worldVars, recVars, moneyVars, clockVars, histVars
<1>0. TypeOK /\ ThreadOK /\ OpOK(o) /\ torn \subseteq torn'
  BY TornStays DEF IInv
<1>1. CASE Kept(o)
  <2>1. /\ hits'[o] = hits[o] /\ bill'[o] = bill[o]
        /\ store'[o] # NoRec => store[o] # NoRec
    BY <1>1 DEF Kept
  <2>2. ASSUME o \notin torn', hits[o] > 0, store'[o] # NoRec
        PROVE  step' = "effect" /\ cur' = o
    <3>1. step = "effect" /\ cur = o BY <1>0, <2>1, <2>2 DEF Applied
    <3>2. QED BY <2>2, <3>1, LeaveEffect
  <2>3. QED BY <1>0, <2>1, <2>2 DEF Applied
<1>2. CASE Charged(o)
  <2>1. bill[o] = "none" BY <1>0, <1>2 DEF Charged, Request, OpOK
  <2>2. QED BY <2>1, <1>2 DEF Applied, Charged, Request
<1>3. CASE Entered(o)
  <2>1. bill[o] # "spent" BY <1>0, <1>3, NullsAssumption DEF Entered, EnterPending, ThreadOK
  <2>2. hits'[o] = 0 BY <1>3, <2>1 DEF Entered, EnterPending, Applied
  <2>3. QED BY <2>2 DEF Applied
<1>4. CASE EnterFailed(o)
  <2>1. bill[o] # "spent" BY <1>0, <1>4, NullsAssumption DEF EnterFailed, ThreadOK
  <2>2. hits'[o] = 0 BY <1>4, <2>1 DEF EnterFailed, Applied
  <2>3. QED BY <2>2 DEF Applied
<1>5. CASE Clocked(o)
  <2>1. Clocking(o) /\ bill' = bill /\ store' = store /\ torn' = torn
    BY <1>5 DEF Clocked, AdvanceClock, AdvanceEffect
  <2>2. bill[o] = "spent" /\ (o \notin torn => hits[o] = 0)
    BY <1>0, <2>1, ClockingLive DEF Applied, TypeOK
  <2>3. CASE AdvanceClock(o)
    BY <2>1, <2>2, <2>3 DEF AdvanceClock, Applied
  <2>4. CASE AdvanceEffect(o)
    <3>1. hits'[o] = hits[o] + 1 /\ step' = "effect" /\ cur' = o
      BY <1>0, <2>4 DEF AdvanceEffect, TypeOK
    <3>2. QED BY <2>1, <2>2, <3>1 DEF Applied
  <2>5. QED BY <1>5, <2>3, <2>4 DEF Clocked
<1>6. CASE Lost(o)
  <2>1. bill[o] = "charged" BY <1>0, <1>6, NullsAssumption DEF Lost, ThreadOK
  <2>2. hits'[o] = 0 BY <1>6, <2>1 DEF Lost, Crash, Applied
  <2>3. QED BY <2>2 DEF Applied
<1>7. QED BY <1>1, <1>2, <1>3, <1>4, <1>5, <1>6, StepKept

\* An operation's effect is applied once, and settled before the pass moves on.
THEOREM OneEffect == Spec => []EffectOnce
<1> DEFINE J == \A o \in Ops : Applied(o)
<1>1. Init => J BY DEF Init, Applied
<1>2. IInv /\ [Next]_vars /\ J => J' BY StepApplied
<1>3. J => EffectOnce BY DEF Applied, EffectOnce
<1>4. QED BY Inductive, <1>1, <1>2, <1>3, PTL DEF Spec

-----------------------------------------------------------------------------
(* Who acts. *)

\* Between the resume of a record and its clock nothing has changed.
AbleOK == step = "clock" => ~Fatal(cur) /\ ~Pausing(cur)

LEMMA StepAble == IInv /\ AbleOK /\ [Next]_vars => AbleOK'
<1> SUFFICES ASSUME IInv, AbleOK, [Next]_vars, step' = "clock"
             PROVE  ~Fatal(cur)' /\ ~Pausing(cur)'
  BY DEF AbleOK
<1> USE DEF passVars, worldVars, recVars, moneyVars, clockVars, histVars
<1> USE DEF Fatal, CarrierFatal, OriginFatal, IsOperational, Pausing,
            CarrierUnavailable, CommitmentLapsed
<1>0. ~up => step = "idle" BY DEF IInv, ThreadOK
<1>1. ASSUME step = "clock", cur' = cur, UNCHANGED <<order, worldVars>>
      PROVE  ~Fatal(cur)' /\ ~Pausing(cur)'
  BY <1>1 DEF AbleOK
<1>2. ASSUME NEW o \in Ops, Place(o) PROVE ~Fatal(cur)' /\ ~Pausing(cur)'
  <2>1. ~Charged(o) BY DEF Charged, Request, Open
  <2>2. QED BY <1>1, <1>2, <2>1 DEF Place, Charged, EnterPending, EnterFailed
<1>3. ASSUME NEW o \in Ops, Advance(o) PROVE ~Fatal(cur)' /\ ~Pausing(cur)'
  <2>1. AdvanceResume(o)
    BY <1>3
    DEF Advance, AdvanceSettled, AdvanceCancel, AdvanceSuspend, AdvanceExpire,
        AdvanceClock, AdvanceEffect, Resolve, Walking
  <2>2. cur' = o /\ ~Fatal(o) /\ ~Pausing(o) /\ UNCHANGED <<order, worldVars>>
    BY <2>1 DEF AdvanceResume
  <2>3. QED BY <2>2
<1>4. \A o \in Ops : ~AdvanceRaises(o) BY DEF AdvanceRaises, Walking
<1>5. ~TickBegin /\ ~TickEnd /\ ~Crash BY DEF TickBegin, TickEnd, Crash
<1>6. ~World
  BY DEF World, CarrierKilled, AgentChanges, BuildingDestroyed, BuildingChanges,
         LabDestroyed, BaseEliminated, LabChanges, Quiet, UnchangedByWorld, Open
<1>7. ~Rebuild BY <1>0 DEF Rebuild
<1>8. CASE UNCHANGED vars BY <1>1, <1>8 DEF vars
<1>9. QED BY <1>2, <1>3, <1>4, <1>5, <1>6, <1>7, <1>8 DEF Next

\* An effect starts, and a clock moves, only for an operation whose carrier,
\* origin and Branch are there.
THEOREM AbleOnly == Spec => OnlyAbleOperationsAct
<1>1. Init => AbleOK BY DEF Init, AbleOK
<1>2. ASSUME IInv, AbleOK, [Next]_vars, NEW o \in Ops
      PROVE  /\ hits'[o] > hits[o] => /\ agent[order[o].carrier] = "fit"
                                      /\ IsOperational(order[o].origin)
                                      /\ order[o].owner \in lab
             /\ worked'[o] > worked[o] => mem[o].state = "pending"
  <2>1. hits[o] \in Nat /\ worked[o] \in Nat BY <1>2 DEF IInv, TypeOK
  <2>2. CASE ~Clocked(o)
    <3>1. Kept(o) => hits'[o] = hits[o] /\ worked'[o] = worked[o] BY DEF Kept
    <3>2. Charged(o) \/ Entered(o) => hits' = hits /\ worked' = worked
      BY DEF Charged, Request, Entered, EnterPending, histVars
    <3>3. EnterFailed(o) \/ Lost(o) => hits' = hits /\ worked' = worked
      BY DEF EnterFailed, Lost, Crash, histVars
    <3>4. hits'[o] = hits[o] /\ worked'[o] = worked[o]
      BY <1>2, <2>2, <3>1, <3>2, <3>3, StepKept
    <3>5. QED BY <2>1, <3>4
  <2>3. CASE Clocked(o)
    <3>1. Clocking(o) BY <2>3 DEF Clocked, AdvanceClock, AdvanceEffect
    <3>2. ~Fatal(o) /\ ~Pausing(o) BY <1>2, <3>1 DEF Clocking, AbleOK
    <3>3. mem[o].state = "pending" /\ order[o].carrier \in Agents
      BY <1>2, <3>1, ClockingLive DEF Order
    <3>4. agent[order[o].carrier] \in {"fit", "benched", "gone"}
      BY <1>2, <3>3 DEF IInv, TypeOK
    <3>5. QED
      BY <3>2, <3>3, <3>4
      DEF Fatal, CarrierFatal, OriginFatal, Pausing, CarrierUnavailable, CommitmentLapsed
  <2>4. QED BY <2>2, <2>3
<1>3. IInv /\ AbleOK /\ [Next]_vars =>
        [\A o \in Ops :
           /\ hits'[o] > hits[o] => /\ agent[order[o].carrier] = "fit"
                                    /\ IsOperational(order[o].origin)
                                    /\ order[o].owner \in lab
           /\ worked'[o] > worked[o] => mem[o].state = "pending"]_vars
  BY <1>2
<1>4. QED BY Inductive, StepAble, <1>1, <1>3, PTL DEF Spec, OnlyAbleOperationsAct

-----------------------------------------------------------------------------
(* Windows. *)

\* What the target was promised: so many ticks, the clock chosen for the operation
\* and the floor if it is hostile.
Enough(n, o) == n >= fuse[o] /\ (order[o].hostile => n >= Floor)

\* What was worked and what is still on the clock make up the window; a pause
\* keeps at least the clock.
Sound(r, o) ==
  /\ Enough(worked[o] + r.ticks, o) \/ Enough(worked[o], o)
  /\ r.state = "suspended" => r.held = Unset \/ r.held >= r.ticks

WindowOK(o) ==
  /\ LiveRec(o) => Sound(mem[o], o)
  /\ store[o] # NoRec => Sound(store[o], o)
  /\ hits[o] > 0 => Enough(worked[o], o)

LEMMA EnoughMore ==
  ASSUME NEW o \in Ops, NEW m \in Int, NEW n \in Int, m <= n, Enough(m, o), fuse[o] \in Nat
  PROVE  Enough(n, o)
BY KnobsAssumption DEF Enough

LEMMA PausedSound ==
  ASSUME NEW o \in Ops, NEW r \in Record, Sound(r, o)
  PROVE  Sound(Paused(r), o)
<1>1. r.ticks \in Int /\ Paused(r).ticks = r.ticks /\ Paused(r).held = AtLeast(r.ticks, 0)
  BY DEF Record, Paused
<1>2. AtLeast(r.ticks, 0) >= r.ticks BY <1>1 DEF AtLeast
<1>3. QED BY <1>1, <1>2 DEF Sound

LEMMA ResumedSound ==
  ASSUME NEW o \in Ops, NEW r \in Record, Sound(r, o), r.state = "suspended",
         worked[o] \in Nat, fuse[o] \in Nat
  PROVE  Sound(Resumed(r), o)
<1>1. r.ticks \in Int /\ r.held \in Int /\ Floor \in Nat BY KnobsAssumption DEF Record
<1> DEFINE back == IF r.held = Unset THEN r.ticks ELSE AtLeast(r.held, 0)
<1>2. back \in Int /\ back >= r.ticks BY <1>1 DEF Sound, AtLeast
<1>3. \A n \in Int : Window(n, TRUE) \in Int /\ Window(n, TRUE) >= n
  BY <1>1 DEF Window, AtLeast
<1>4. Resumed(r).ticks = Window(back, TRUE) /\ Resumed(r).held = Unset
  BY DEF Record, Resumed
<1> HIDE DEF back
<1>5. PICK k \in Int : k = Resumed(r).ticks /\ k >= back BY <1>2, <1>3, <1>4
<1>6. worked[o] + r.ticks \in Int /\ worked[o] + k \in Int
      /\ worked[o] + r.ticks <= worked[o] + k
  BY <1>1, <1>2, <1>5
<1>7. Enough(worked[o] + r.ticks, o) => Enough(worked[o] + k, o) BY <1>6, EnoughMore
<1>8. QED BY <1>4, <1>5, <1>7 DEF Sound

LEMMA StepWindow ==
  ASSUME IInv, [Next]_vars, NEW o \in Ops, Applied(o), WindowOK(o)
  PROVE  WindowOK(o)'
<1> USE DEF passVars, worldVars, recVars, moneyVars, clockVars, histVars
<1>0. /\ TypeOK /\ ThreadOK /\ OpOK(o) /\ worked[o] \in Nat
      /\ fuse[o] \in Nat /\ fuse[o] \in Fuses \cup {0}
      /\ LiveRec(o) => mem[o] \in Record
      /\ store[o] # NoRec => store[o] \in Record
  <2>1. TypeOK /\ ThreadOK /\ OpOK(o) BY DEF IInv
  <2>2. worked[o] \in Nat /\ fuse[o] \in Fuses \cup {0} BY <2>1 DEF TypeOK
  <2>3. fuse[o] \in Nat BY <2>2, KnobsAssumption
  <2>4. (LiveRec(o) => mem[o] \in Record) /\ (store[o] # NoRec => store[o] \in Record)
    BY <2>1 DEF TypeOK, LiveRec
  <2>5. QED BY <2>1, <2>2, <2>3, <2>4
<1>1. CASE Kept(o)
  <2>1. ASSUME NEW r PROVE Sound(r, o)' <=> Sound(r, o)
    BY <1>1 DEF Kept, Sound, Enough
  <2>2. LiveRec(o)' => Sound(mem'[o], o)
    BY <1>0, <1>1, PausedSound, ResumedSound DEF Kept, WindowOK
  <2>3. store'[o] # NoRec => Sound(store'[o], o)
    BY <1>1, <2>2 DEF Kept, WindowOK
  <2>4. hits'[o] > 0 => Enough(worked[o], o)' BY <1>1 DEF Kept, WindowOK, Enough
  <2>5. LiveRec(o)' => Sound(mem[o], o)'
    BY <1>1, <2>2 DEF Kept, Sound, Enough
  <2>6. store'[o] # NoRec => Sound(store[o], o)'
    BY <1>1, <2>3 DEF Kept, Sound, Enough
  <2>7. QED BY <2>4, <2>5, <2>6 DEF WindowOK
<1>2. CASE Charged(o)
  <2>1. Traceless(o) /\ hits[o] = 0
    BY <1>0, <1>2 DEF Charged, Request, OpOK, Applied
  <2>2. mem' = mem /\ store' = store /\ hits' = hits BY <1>2 DEF Charged, Request
  <2>3. QED BY <2>1, <2>2 DEF WindowOK, Traceless, LiveRec
<1>3. CASE Entered(o)
  <2>1. PICK f \in Fuses, l \in Lives : EnterPending(o, f, l) BY <1>3 DEF Entered
  <2>2. bill[o] = "charged" BY <1>0, <2>1, NullsAssumption DEF EnterPending, ThreadOK
  <2>3. hits[o] = 0 /\ order[o] # NoOrder BY <1>0, <2>2 DEF OpOK, Applied
  <2> DEFINE t == Window(f, order[o].hostile)
  <2>4. f \in Nat /\ Floor \in Nat /\ order[o].hostile \in BOOLEAN
    BY <1>0, <2>3, KnobsAssumption DEF TypeOK, Order
  <2>5. t \in Int /\ t >= f /\ (order[o].hostile => t >= Floor)
    BY <2>4 DEF Window, AtLeast
  <2>6. /\ mem'[o] = [state |-> "pending", life |-> l, held |-> Unset, ticks |-> t]
        /\ store'[o] = mem'[o] /\ order' = order /\ hits' = hits /\ worked' = worked
        /\ fuse'[o] = f
    BY <1>0, <2>1 DEF EnterPending, TypeOK
  <2> HIDE DEF t
  <2>7. mem'[o].ticks = t /\ mem'[o].state = "pending" BY <2>6
  <2>8. worked'[o] + t >= fuse'[o] /\ (order'[o].hostile => worked'[o] + t >= Floor)
    <3>1. worked[o] + t >= f /\ (order[o].hostile => worked[o] + t >= Floor)
      BY <1>0, <2>4, <2>5
    <3>2. QED BY <2>6, <3>1
  <2>9. Sound(mem[o], o)' /\ Sound(store[o], o)'
    BY <2>6, <2>7, <2>8 DEF Sound, Enough
  <2>10. QED BY <2>3, <2>6, <2>9 DEF WindowOK
<1>4. CASE EnterFailed(o)
  BY <1>4 DEF EnterFailed, WindowOK, Sound, Enough, LiveRec, Settled
<1>5. CASE Clocked(o)
  <2>1. Clocking(o) /\ store' = store /\ order' = order /\ Given(o)
        /\ mem' = [mem EXCEPT ![o] = Elapsed(@)] /\ fuse' = fuse
    BY <1>5 DEF Clocked, AdvanceClock, AdvanceEffect
  <2>2. LiveRec(o) /\ mem[o] \in Record /\ store[o] \in Record /\ store[o] # NoRec
    BY <1>0, <2>1, ClockingLive
  <2> DEFINE r == mem[o]
             w == worked[o]
  <2>3. mem'[o] = Elapsed(r) /\ Elapsed(r).ticks = r.ticks - 1
        /\ Elapsed(r).state = r.state /\ r.state = "pending" /\ r.ticks \in Int
    BY <1>0, <2>1, <2>2, ClockingLive DEF TypeOK, Elapsed, Record
  <2>4. w \in Nat /\ worked'[o] = IF w < MaxWindow THEN w + 1 ELSE w
    BY <1>0, <2>1 DEF Given, TypeOK
  <2>5. Sound(r, o) /\ Sound(store[o], o) BY <2>2 DEF WindowOK
  <2>6. worked'[o] \in Nat /\ worked'[o] >= w BY <2>4, BoundsAssumption
  <2>7. Enough(w, o) => Enough(worked'[o], o) BY <1>0, <2>4, <2>6, EnoughMore
  <2>8. /\ Enough(worked'[o] + Elapsed(r).ticks, o) \/ Enough(worked'[o], o)
        /\ Enough(worked'[o] + store[o].ticks, o) \/ Enough(worked'[o], o)
        /\ r.ticks - 1 <= 0 => Enough(worked'[o], o)
    <3>1. CASE w < MaxWindow
      <4>1. worked'[o] + (r.ticks - 1) = w + r.ticks BY <2>3, <2>4, <3>1
      <4>2. store[o].ticks \in Int BY <2>2 DEF Record
      <4>3. w + store[o].ticks <= worked'[o] + store[o].ticks
            /\ w + store[o].ticks \in Int /\ worked'[o] + store[o].ticks \in Int
        BY <2>4, <2>6, <4>2
      <4>4. Enough(w + store[o].ticks, o) => Enough(worked'[o] + store[o].ticks, o)
        BY <1>0, <4>3, EnoughMore
      <4>5. r.ticks - 1 <= 0 => w + r.ticks <= worked'[o] BY <2>3, <2>4, <3>1
      <4>6. w + r.ticks \in Int BY <2>3, <2>4
      <4>7. r.ticks - 1 <= 0 => Enough(worked'[o], o)
        BY <1>0, <2>5, <2>6, <2>7, <4>5, <4>6, EnoughMore DEF Sound
      <4>8. QED BY <2>3, <2>5, <2>7, <4>1, <4>4, <4>7 DEF Sound
    <3>2. CASE ~(w < MaxWindow)
      <4>0. w \in Nat /\ MaxWindow \in Nat /\ w >= MaxWindow
        BY <2>4, <3>2, BoundsAssumption
      <4>1. ASSUME NEW n \in Fuses \cup {Floor} PROVE w >= n
        <5>1. n \in Nat /\ n <= MaxWindow BY KnobsAssumption, BoundsAssumption
        <5>2. QED BY <4>0, <5>1
      <4>2. w >= fuse[o] BY <1>0, <4>0, <4>1
      <4>3. Enough(w, o) BY <4>1, <4>2 DEF Enough
      <4>4. QED BY <2>7, <4>3
    <3>3. QED BY <3>1, <3>2
  <2>9. hits'[o] > 0 => Enough(worked'[o], o)
    <3>1. CASE AdvanceClock(o)
      BY <2>7, <3>1 DEF AdvanceClock, WindowOK
    <3>2. CASE AdvanceEffect(o)
      BY <2>8, <3>2 DEF AdvanceEffect
    <3>3. QED BY <1>5, <3>1, <3>2 DEF Clocked
  <2>10. Enough(worked[o], o)' <=> Enough(worked'[o], o) BY <2>1 DEF Enough
  <2>11. Sound(mem[o], o)'
    BY <2>1, <2>3, <2>8 DEF Sound, Enough
  <2>12. Sound(store[o], o)'
    BY <2>1, <2>5, <2>8 DEF Sound, Enough
  <2>13. QED BY <2>9, <2>10, <2>11, <2>12 DEF WindowOK
<1>6. CASE Lost(o)
  BY <1>6 DEF Lost, Crash, WindowOK, Sound, Enough, LiveRec
<1>7. QED BY <1>1, <1>2, <1>3, <1>4, <1>5, <1>6, StepKept

\* No effect lands before the operation has been given every tick of the clock
\* chosen for it, and of the floor if it is hostile.
THEOREM WholeWindow == Spec => []WindowServed
<1> DEFINE J == \A o \in Ops : Applied(o) /\ WindowOK(o)
<1>1. Init => J BY DEF Init, Applied, WindowOK, LiveRec
<1>2. IInv /\ [Next]_vars /\ J => J' BY StepApplied, StepWindow
<1>3. J => WindowServed BY DEF WindowOK, Enough, WindowServed
<1>4. QED BY Inductive, <1>1, <1>2, <1>3, PTL DEF Spec

-----------------------------------------------------------------------------
(* Charges. *)

PaidBills == {"charged", "spent", "lost"}

Accounts(p) == stock[p] >= 0 /\ stock[p] + Cardinality(PaidFor(p)) * CostOf(p) = Stock0

BillOK(o) ==
  /\ bill[o] = "spent" <=> (store[o] # NoRec \/ ended[o] # "none")
  /\ bill[o] = "charged" <=> o = req

LEMMA PaidFinite ==
  ASSUME NEW p \in Players
  PROVE  IsFiniteSet(PaidFor(p)) /\ Cardinality(PaidFor(p)) \in Nat /\ CostOf(p) \in Nat
<1>1. PaidFor(p) \in SUBSET Ops BY DEF PaidFor
<1>2. IsFiniteSet(PaidFor(p)) BY <1>1, FS_Subset, BoundsAssumption
<1>3. QED BY <1>2, FS_CardinalityType, KnobsAssumption DEF CostOf

LEMMA AccountsStay ==
  ASSUME NEW p \in Players, Accounts(p), stock' = stock, order' = order,
         \A o \in Ops : bill'[o] \in PaidBills <=> bill[o] \in PaidBills
  PROVE  Accounts(p)'
<1>1. PaidFor(p)' = PaidFor(p) BY DEF PaidFor, PaidBills
<1>2. QED BY <1>1 DEF Accounts, CostOf

LEMMA RequestAccounts ==
  ASSUME IInv, NEW o \in Ops, Charged(o), NEW p \in Players, Accounts(p)
  PROVE  Accounts(p)'
<1>0. TypeOK /\ OpOK(o) BY DEF IInv
<1>1. PICK q, t \in Players, b \in Buildings, a \in Agents, h \in BOOLEAN :
        Request(o, q, b, a, t, h)
  BY DEF Charged
<1>2. /\ bill[o] = "none" /\ bill' = [bill EXCEPT ![o] = "charged"]
      /\ stock' = [stock EXCEPT ![q] = @ - CostOf(q)] /\ CostOf(q) <= stock[q]
      /\ order' = [order EXCEPT ![o] = [owner |-> q, origin |-> b, carrier |-> a,
                                        target |-> t, hostile |-> h]]
  BY <1>0, <1>1 DEF Request, CheckResources, OpOK
<1>3. o \notin PaidFor(p) BY <1>2 DEF PaidFor
<1>4. \A x \in Ops : x # o => bill'[x] = bill[x] /\ order'[x] = order[x]
  BY <1>0, <1>2 DEF TypeOK
<1>5. bill'[o] = "charged" /\ order'[o].owner = q BY <1>0, <1>2 DEF TypeOK
<1>6. stock[p] \in Int /\ stock[q] \in Int /\ Stock0 \in Nat BY <1>0, KnobsAssumption DEF TypeOK
<1>7. CASE p # q
  <2>1. PaidFor(p)' = PaidFor(p) BY <1>3, <1>4, <1>5, <1>7 DEF PaidFor
  <2>2. stock'[p] = stock[p] BY <1>0, <1>2, <1>7 DEF TypeOK
  <2>3. QED BY <2>1, <2>2 DEF Accounts, CostOf
<1>8. CASE p = q
  <2>1. PaidFor(p)' = PaidFor(p) \cup {o} BY <1>3, <1>4, <1>5, <1>8 DEF PaidFor
  <2>2. Cardinality(PaidFor(p)') = Cardinality(PaidFor(p)) + 1
    BY <1>3, <2>1, PaidFinite, FS_AddElement
  <2>3. stock'[p] = stock[p] - CostOf(p) /\ CostOf(p) <= stock[p]
    BY <1>0, <1>2, <1>8 DEF TypeOK
  <2>4. \A n, c \in Nat : (n + 1) * c = n * c + c /\ n * c \in Nat OBVIOUS
  <2>5. Cardinality(PaidFor(p)') * CostOf(p) = Cardinality(PaidFor(p)) * CostOf(p) + CostOf(p)
        /\ Cardinality(PaidFor(p)) * CostOf(p) \in Nat
    BY <2>2, <2>4, PaidFinite
  <2>6. stock'[p] >= 0 /\ stock'[p] + Cardinality(PaidFor(p)') * CostOf(p) = Stock0
    BY <1>6, <2>3, <2>5, PaidFinite DEF Accounts
  <2>7. QED BY <2>6 DEF Accounts, CostOf
<1>9. QED BY <1>7, <1>8

LEMMA RefundAccounts ==
  ASSUME IInv, NEW o \in Ops, EnterFailed(o), NEW p \in Players, Accounts(p)
  PROVE  Accounts(p)'
<1>0. TypeOK /\ OpOK(o) BY DEF IInv
<1>1. bill[o] = "charged" BY NullsAssumption DEF EnterFailed, IInv, ThreadOK
<1>2. /\ bill' = [bill EXCEPT ![o] = "refunded"] /\ order' = order
      /\ stock' = [stock EXCEPT ![order[o].owner] = @ + CostOf(order[o].owner)]
  BY DEF EnterFailed
<1>3. \A x \in Ops : x # o => bill'[x] = bill[x] BY <1>0, <1>2 DEF TypeOK
<1>4. bill'[o] = "refunded" BY <1>0, <1>2 DEF TypeOK
<1>5. order[o].owner \in Players BY <1>0, <1>1 DEF TypeOK, OpOK, Order
<1>6. stock[p] \in Int /\ Stock0 \in Nat BY <1>0, KnobsAssumption DEF TypeOK
<1>7. CASE p # order[o].owner
  <2>1. PaidFor(p)' = PaidFor(p) BY <1>2, <1>3, <1>4, <1>7 DEF PaidFor
  <2>2. stock'[p] = stock[p] BY <1>0, <1>2, <1>7 DEF TypeOK
  <2>3. QED BY <2>1, <2>2 DEF Accounts, CostOf
<1>8. CASE p = order[o].owner
  <2>1. PaidFor(p)' = PaidFor(p) \ {o} /\ o \in PaidFor(p)
    BY <1>1, <1>2, <1>3, <1>4, <1>8 DEF PaidFor
  <2>2. Cardinality(PaidFor(p)') = Cardinality(PaidFor(p)) - 1
    BY <2>1, PaidFinite, FS_RemoveElement
  <2>3. stock'[p] = stock[p] + CostOf(p) BY <1>0, <1>2, <1>8 DEF TypeOK
  <2>4. \A n, c \in Nat : (n - 1) * c = n * c - c /\ n * c \in Nat OBVIOUS
  <2>5. Cardinality(PaidFor(p)') * CostOf(p) = Cardinality(PaidFor(p)) * CostOf(p) - CostOf(p)
        /\ Cardinality(PaidFor(p)) * CostOf(p) \in Nat
    BY <2>2, <2>4, PaidFinite
  <2>6. stock'[p] >= 0 /\ stock'[p] + Cardinality(PaidFor(p)') * CostOf(p) = Stock0
    BY <1>6, <2>3, <2>5, PaidFinite DEF Accounts
  <2>7. QED BY <2>6 DEF Accounts, CostOf
<1>9. QED BY <1>7, <1>8

\* What a step does to the charges, the request under way and the requests' terms.
LEMMA MoneyMoves ==
  ASSUME [Next]_vars
  PROVE  \/ \E o \in Ops : Charged(o) \/ Entered(o) \/ EnterFailed(o)
         \/ stock' = stock /\ order' = order /\ bill' = bill /\ req' = req
         \/ Crash
<1> USE DEF passVars, worldVars, recVars, moneyVars, clockVars, histVars
<1>1. ASSUME NEW o \in Ops, Place(o) PROVE Charged(o) \/ Entered(o) \/ EnterFailed(o)
  BY <1>1 DEF Place, Charged, Entered
<1>2. ASSUME NEW o \in Ops, Advance(o) \/ AdvanceRaises(o)
      PROVE  stock' = stock /\ order' = order /\ bill' = bill /\ req' = req
  BY <1>2
  DEF Advance, AdvanceSettled, AdvanceCancel, AdvanceSuspend, AdvanceResume,
      AdvanceExpire, AdvanceClock, AdvanceEffect, Resolve, AdvanceRaises
<1>3. World => stock' = stock /\ order' = order /\ bill' = bill /\ req' = req
  BY DEF World, CarrierKilled, AgentChanges, BuildingDestroyed, BuildingChanges,
         LabDestroyed, BaseEliminated, LabChanges, Quiet, UnchangedByWorld
<1>4. TickBegin \/ TickEnd \/ Rebuild \/ UNCHANGED vars =>
        stock' = stock /\ order' = order /\ bill' = bill /\ req' = req
  BY DEF TickBegin, TickEnd, Rebuild, vars
<1>5. QED BY <1>1, <1>2, <1>3, <1>4 DEF Next

LEMMA StepAccounts ==
  ASSUME IInv, [Next]_vars, NEW p \in Players, Accounts(p)
  PROVE  Accounts(p)'
<1>0. TypeOK /\ ThreadOK BY DEF IInv
<1>1. ASSUME NEW o \in Ops, Entered(o) PROVE Accounts(p)'
  <2>1. bill[o] = "charged" BY <1>0, <1>1, NullsAssumption DEF Entered, EnterPending, ThreadOK
  <2>2. \A q \in Ops : bill'[q] \in PaidBills <=> bill[q] \in PaidBills
    BY <1>0, <1>1, <2>1 DEF Entered, EnterPending, TypeOK, PaidBills
  <2>3. stock' = stock /\ order' = order BY <1>1 DEF Entered, EnterPending
  <2>4. QED BY <2>2, <2>3, AccountsStay
<1>2. CASE Crash
  <2>1. \A q \in Ops : bill'[q] \in PaidBills <=> bill[q] \in PaidBills
    BY <1>0, <1>2, NullsAssumption DEF Crash, ThreadOK, PaidBills
  <2>2. stock' = stock /\ order' = order BY <1>2 DEF Crash
  <2>3. QED BY <2>1, <2>2, AccountsStay
<1>3. CASE stock' = stock /\ order' = order /\ bill' = bill BY <1>3, AccountsStay
<1>4. QED BY <1>1, <1>2, <1>3, MoneyMoves, RequestAccounts, RefundAccounts

LEMMA StepBill ==
  ASSUME IInv, [Next]_vars, \A q \in Ops : BillOK(q), NEW o \in Ops
  PROVE  BillOK(o)'
<1> USE DEF passVars, worldVars, recVars, moneyVars, clockVars, histVars
<1>0. TypeOK /\ ThreadOK /\ OpOK(o) /\ BillOK(o) BY DEF IInv
<1>1. ASSUME NEW q \in Ops, Charged(q) PROVE BillOK(o)'
  <2>1. req = NoOp /\ req' = q /\ bill' = [bill EXCEPT ![q] = "charged"]
        /\ store' = store /\ ended' = ended /\ order[q] = NoOrder
    BY <1>1 DEF Charged, Request, Open
  <2>2. bill[q] = "none" BY <2>1 DEF IInv, OpOK
  <2>3. QED BY <1>0, <2>1, <2>2, NullsAssumption DEF BillOK, TypeOK
<1>2. ASSUME NEW q \in Ops, Entered(q) PROVE BillOK(o)'
  <2>1. req = q /\ req' = NoOp /\ bill' = [bill EXCEPT ![q] = "spent"] /\ ended' = ended
    BY <1>2 DEF Entered, EnterPending
  <2>2. o # q => store'[o] = store[o] BY <1>0, <1>2 DEF Entered, EnterPending, TypeOK
  <2>3. store'[q] # NoRec
    <3>1. PICK f \in Fuses, l \in Lives : EnterPending(q, f, l) BY <1>2 DEF Entered
    <3>2. bill[q] = "charged" /\ OpOK(q) BY <1>0, <2>1, NullsAssumption DEF ThreadOK, IInv
    <3>3. order[q].hostile \in BOOLEAN BY <1>0, <3>2 DEF OpOK, TypeOK, Order
    <3> DEFINE r == [state |-> "pending", life |-> l, held |-> Unset,
                     ticks |-> Window(f, order[q].hostile)]
    <3>4. r \in Record BY <3>3, EntryRecord
    <3>5. store'[q] = r BY <1>0, <3>1 DEF EnterPending, TypeOK
    <3> HIDE DEF r
    <3>6. QED BY <3>4, <3>5, NoRecordAssumption
  <2>4. QED BY <1>0, <2>1, <2>2, <2>3, NullsAssumption DEF BillOK, TypeOK
<1>3. ASSUME NEW q \in Ops, EnterFailed(q) PROVE BillOK(o)'
  BY <1>0, <1>3, NullsAssumption DEF EnterFailed, BillOK, TypeOK
<1>4. CASE Crash
  BY <1>0, <1>4, NullsAssumption DEF Crash, BillOK, TypeOK
<1>5. CASE bill' = bill /\ req' = req
  <2>1. CASE Kept(o) BY <1>0, <1>5, <2>1 DEF Kept, BillOK
  <2>2. CASE Clocked(o)
    BY <1>0, <1>5, <2>2 DEF Clocked, AdvanceClock, AdvanceEffect, BillOK
  <2>3. QED BY <1>1, <1>2, <1>3, <1>4, <2>1, <2>2, StepKept DEF Lost
<1>6. QED BY <1>1, <1>2, <1>3, <1>4, <1>5, MoneyMoves

\* No operation both charges and fails, and every unit a player misses is the
\* price of one.
THEOREM ChargesWhole == Spec => []WholeOrNone
<1> DEFINE J == (\A p \in Players : Accounts(p)) /\ (\A o \in Ops : BillOK(o))
<1>1. Init => J
  <2> SUFFICES ASSUME Init PROVE J
    OBVIOUS
  <2>1. ASSUME NEW p \in Players PROVE Accounts(p)
    <3>1. PaidFor(p) = {} /\ stock[p] = Stock0 BY DEF Init, PaidFor
    <3>2. Cardinality(PaidFor(p)) * CostOf(p) = 0
      BY <3>1, FS_EmptySet, PaidFinite
    <3>3. QED BY <3>1, <3>2, KnobsAssumption DEF Accounts
  <2>2. ASSUME NEW o \in Ops PROVE BillOK(o) BY NullsAssumption DEF Init, BillOK
  <2>3. QED BY <2>1, <2>2
<1>2. IInv /\ [Next]_vars /\ J => J' BY StepAccounts, StepBill
<1>3. J => WholeOrNone BY DEF Accounts, BillOK, WholeOrNone
<1>4. QED BY Inductive, <1>1, <1>2, <1>3, PTL DEF Spec

-----------------------------------------------------------------------------
(* The in-flight cap. *)

LiveOf(p) == {o \in Ops : store[o] # NoRec /\ order[o].owner = p}

\* There is room for the request under way.
Room ==
  Cap > 0 => /\ \A p \in Players : Cardinality(LiveOf(p)) <= Cap
             /\ req # NoOp => Cardinality(LiveOf(order[req].owner)) < Cap

LEMMA LiveFinite ==
  ASSUME NEW p
  PROVE  IsFiniteSet(LiveOf(p)) /\ Cardinality(LiveOf(p)) \in Nat
<1>1. LiveOf(p) \in SUBSET Ops BY DEF LiveOf
<1>2. QED BY <1>1, FS_Subset, FS_CardinalityType, BoundsAssumption

LEMMA StepLive ==
  ASSUME IInv, [Next]_vars, NEW o \in Ops, ~Entered(o), store'[o] # NoRec
  PROVE  store[o] # NoRec /\ order'[o] = order[o]
<1> USE DEF passVars, worldVars, recVars, moneyVars, clockVars, histVars
<1>0. TypeOK /\ OpOK(o) BY DEF IInv
<1>1. ~Charged(o) BY <1>0 DEF Charged, Request, OpOK, Traceless
<1>2. QED
  BY <1>0, <1>1, StepKept
  DEF Kept, EnterFailed, Clocked, AdvanceClock, AdvanceEffect, Lost, Crash

LEMMA StepRoom == IInv /\ [Next]_vars /\ Room => Room'
<1> SUFFICES ASSUME IInv, [Next]_vars, Room, Cap > 0
             PROVE  /\ \A p \in Players : Cardinality(LiveOf(p)') <= Cap
                    /\ req' # NoOp => Cardinality(LiveOf(order[req].owner)') < Cap
  BY DEF Room
<1> USE DEF passVars, worldVars, recVars, moneyVars, clockVars, histVars
<1>0. TypeOK /\ ThreadOK /\ Cap \in Nat BY KnobsAssumption DEF IInv
<1>1. ASSUME \A o \in Ops : ~Entered(o), NEW p
      PROVE  LiveOf(p)' \in SUBSET LiveOf(p)
  BY <1>1, StepLive DEF LiveOf
<1>2. ASSUME \A o \in Ops : ~Entered(o), NEW p
      PROVE  Cardinality(LiveOf(p)') <= Cardinality(LiveOf(p))
             /\ Cardinality(LiveOf(p)') \in Nat
  BY <1>1, <1>2, LiveFinite, FS_Subset, FS_CardinalityType
<1>3. ASSUME NEW o \in Ops, Entered(o)
      PROVE  req' = NoOp /\ \A p \in Players : Cardinality(LiveOf(p)') <= Cap
  <2>1. req = o /\ req' = NoOp /\ order' = order BY <1>3 DEF Entered, EnterPending
  <2>2. \A q \in Ops : q # o => store'[q] = store[q]
    BY <1>0, <1>3 DEF Entered, EnterPending, TypeOK
  <2>3. Cardinality(LiveOf(order[o].owner)) < Cap
    BY <2>1, NullsAssumption DEF Room
  <2>4. ASSUME NEW p \in Players PROVE Cardinality(LiveOf(p)') <= Cap
    <3>1. CASE p = order[o].owner
      <4>1. LiveOf(p)' \in SUBSET (LiveOf(p) \cup {o}) BY <2>1, <2>2 DEF LiveOf
      <4>2. IsFiniteSet(LiveOf(p) \cup {o})
            /\ Cardinality(LiveOf(p) \cup {o}) <= Cardinality(LiveOf(p)) + 1
        <5>1. IsFiniteSet(LiveOf(p)) /\ Cardinality(LiveOf(p)) \in Nat BY LiveFinite
        <5>2. /\ IsFiniteSet(LiveOf(p) \cup {o})
              /\ Cardinality(LiveOf(p) \cup {o}) =
                   IF o \in LiveOf(p) THEN Cardinality(LiveOf(p))
                   ELSE Cardinality(LiveOf(p)) + 1
          BY <5>1, FS_AddElement
        <5>3. QED BY <5>1, <5>2
      <4>3. Cardinality(LiveOf(p) \cup {o}) \in Nat /\ Cardinality(LiveOf(p)') \in Nat
            /\ Cardinality(LiveOf(p)') <= Cardinality(LiveOf(p) \cup {o})
        BY <4>1, <4>2, FS_Subset, FS_CardinalityType
      <4>4. QED BY <1>0, <2>3, <3>1, <4>2, <4>3, LiveFinite
    <3>2. CASE p # order[o].owner
      <4>1. LiveOf(p)' \in SUBSET LiveOf(p) BY <2>1, <2>2, <3>2 DEF LiveOf
      <4>2. Cardinality(LiveOf(p)') <= Cardinality(LiveOf(p))
            /\ Cardinality(LiveOf(p)') \in Nat
        BY <4>1, LiveFinite, FS_Subset, FS_CardinalityType
      <4>3. QED BY <1>0, <4>2, LiveFinite DEF Room
    <3>3. QED BY <3>1, <3>2
  <2>5. QED BY <2>1, <2>4
<1>4. ASSUME NEW o \in Ops, Charged(o)
      PROVE  req' = o /\ Cardinality(LiveOf(order'[o].owner)) < Cap
  <2>1. PICK p, t \in Players, b \in Buildings, a \in Agents, h \in BOOLEAN :
          Request(o, p, b, a, t, h)
    BY <1>4 DEF Charged
  <2>2. req' = o /\ up /\ InFlightCount(p) < Cap /\ order[o] = NoOrder
    BY <1>0, <2>1 DEF Request, Open, CheckInFlight
  <2>3. order'[o].owner = p BY <1>0, <2>1 DEF Request, TypeOK
  <2>4. LiveOf(p) = {q \in tracked : LiveRec(q) /\ order[q].owner = p}
    BY <1>0, <2>2 DEF LiveOf, IInv, OpOK, TypeOK
  <2>5. QED BY <2>2, <2>3, <2>4 DEF InFlightCount
<1>5. CASE \E o \in Ops : Entered(o) BY <1>3, <1>5
<1>6. CASE \A o \in Ops : ~Entered(o)
  <2>1. ASSUME NEW p \in Players PROVE Cardinality(LiveOf(p)') <= Cap
    BY <1>0, <1>2, <1>6, LiveFinite DEF Room
  <2>2. ASSUME req' # NoOp PROVE Cardinality(LiveOf(order[req].owner)') < Cap
    <3>0. ASSUME NEW p, p = order'[req'].owner, Cardinality(LiveOf(p)) < Cap
          PROVE  Cardinality(LiveOf(order[req].owner)') < Cap
      <4>1. Cardinality(LiveOf(p)') < Cap BY <1>0, <1>2, <1>6, <3>0, LiveFinite
      <4>2. LiveOf(order[req].owner)' = LiveOf(p)' BY <3>0 DEF LiveOf
      <4>3. QED BY <4>1, <4>2
    <3>1. CASE \E o \in Ops : Charged(o) BY <1>4, <3>0, <3>1
    <3>2. CASE order' = order /\ req' = req
      <4>1. Cardinality(LiveOf(order[req].owner)) < Cap BY <2>2, <3>2 DEF Room
      <4>2. QED BY <3>0, <3>2, <4>1
    <3>3. QED BY <1>6, <2>2, <3>1, <3>2, MoneyMoves DEF EnterFailed, Crash
  <2>3. QED BY <2>1, <2>2
<1>7. QED BY <1>5, <1>6

\* The cap bounds a player's live operations, follow-ups and rebuilds included.
THEOREM CapKept == Spec => []InFlightCapped
<1>1. Init => Room
  <2> SUFFICES ASSUME Init PROVE Room
    OBVIOUS
  <2>1. \A p : LiveOf(p) = {} /\ Cardinality(LiveOf(p)) = 0
    BY FS_EmptySet DEF Init, LiveOf
  <2>2. req = NoOp /\ Cap \in Nat BY KnobsAssumption DEF Init
  <2>3. Cap > 0 => \A p \in Players : Cardinality(LiveOf(p)) <= Cap BY <2>1, <2>2
  <2>4. QED BY <2>2, <2>3 DEF Room
<1>2. Room => InFlightCapped BY DEF Room, LiveOf, InFlightCapped
<1>3. QED BY Inductive, StepRoom, <1>1, <1>2, PTL DEF Spec
=============================================================================
