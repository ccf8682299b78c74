--------------------------- MODULE VectorOperations ---------------------------
(* The operation contract (world/systems/operation_contract.py) with the Branch
   services it consumes (world/systems/branch_system.py), for one registered
   Vector_System on one planet.

   The server is single threaded: a command, an event and a tick step run to
   completion, so what can intervene is (a) a crash between two writes, (b) the
   vector's own on_resolve hook, which reaches back into the driver: the damage
   it deals publishes events whose handlers cancel and suspend operations, and
   it may request a follow-up operation. "step" says where the thread is:
     idle    no pass is running
     walk    advance_all, between two records of its snapshot
     clock   _advance_one of record cur, after a successful resume
     effect  inside on_resolve of record cur
   and req names an operation that is charged and not yet Pending.

   A record is split in two: order[o] is what the request fixed, mem[o] and
   store[o] hold the fields that change. mem is the object in memory, store the
   entry in the durable owner's attribute. *)
EXTENDS Integers, FiniteSets

CONSTANTS Ops,        \* operation identities; bounds the requests of a behaviour
          Players, Npcs, Buildings, Agents,
          Owner,      \* [Buildings \cup Agents -> Players]
          Neutral,    \* origin buildings with no Branch affiliation
          Cost,       \* resource cost of the Operation_Kind
          Stock0,     \* resources each player starts with
          Fuses,      \* effect clocks the vector's build_record may choose
          Lives,      \* bounded lifetimes it may choose, Unset for none
          Floor,      \* minimum_response_window_ticks
          Cap,        \* in-flight cap
          Cooldown,   \* cooldown ticks per building
          EscCap, EscWindow,
          MaxFaults,  \* bounds crashes and raising records of a behaviour
          MaxWindow,  \* bounds the count of worked ticks; no clock starts above it
          NoOp, NoRec, NoOrder

Unset == -1           \* None in lifetime_remaining and suspended_ticks

ASSUME PlacesAssumption ==
  /\ Npcs \subseteq Players
  /\ Neutral \subseteq Buildings
  /\ Owner \in [Buildings \cup Agents -> Players]
ASSUME KnobsAssumption ==
  /\ Cost \in Nat /\ Stock0 \in Nat /\ Floor \in Nat /\ Cap \in Nat
  /\ Cooldown \in Nat /\ EscCap \in Nat /\ EscWindow \in Nat /\ MaxFaults \in Nat
  /\ Fuses \subseteq Nat /\ Lives \subseteq Nat \cup {Unset}
ASSUME NullsAssumption == NoOp \notin Ops
ASSUME BoundsAssumption ==
  /\ IsFiniteSet(Ops) /\ MaxWindow \in Nat
  /\ \A n \in Fuses \cup {Floor} : n <= MaxWindow

VARIABLES
  up,       \* the server is running and rebuilt
  step, cur, req,
  mem,      \* [Ops -> record object, NoRec when there is none]
  tracked,  \* the driver's _tracked
  todo, kept, known,            \* advance_all's remaining snapshot, survivors, ids
  store,    \* [Ops -> persisted entry, NoRec when there is none]
  order,    \* [Ops -> the request's terms, NoOrder before the request]
  agent,    \* [Agents -> fit | benched | gone]
  bldg,     \* [Buildings -> up | offline | gone]
  lab,      \* players whose completed lab of this Branch stands
  stock, cool, esc,             \* resources; cooldown ledger; escalation ledger
  ended,    \* [Ops -> the terminal state the operation was moved to, or none]
  hits,     \* times on_resolve ran
  fuse,     \* the clock its build_record chose
  worked,   \* clock ticks the operation was actually given
  bill,     \* where the operation's charge went
  torn,     \* operations a crash interrupted inside on_resolve
  faults

passVars  == <<step, cur, todo, kept, known>>
worldVars == <<agent, bldg, lab>>
recVars   == <<mem, tracked, store, ended>>
moneyVars == <<stock, bill, req, order>>
clockVars == <<cool, esc>>
histVars  == <<hits, fuse, worked, torn, faults>>
vars == <<up, passVars, worldVars, recVars, moneyVars, clockVars, histVars>>

-------------------------------------------------------------------------------
(* Records and their states. *)

LiveStates     == {"pending", "suspended"}
TerminalStates == {"resolved", "expired", "cancelled", "discarded"}

Record == [state : LiveStates \cup TerminalStates,
           ticks : Int, life : Int, held : Int]

Order == [owner : Players, origin : Buildings, carrier : Agents,
          target : Players, hostile : BOOLEAN]

ASSUME NoRecordAssumption == NoRec \notin Record /\ NoOrder \notin Order

Settled(r)  == r.state \in TerminalStates
LiveRec(o)  == mem[o] # NoRec /\ ~Settled(mem[o])
InFlight(o) == o \in tracked /\ LiveRec(o)

AtLeast(a, b) == IF a < b THEN b ELSE a

-------------------------------------------------------------------------------
(* The Branch services. *)

IsOperational(b) == bldg[b] = "up" /\ (b \in Neutral \/ Owner[b] \in lab)

CostOf(p) == IF p \in Npcs THEN 0 ELSE Cost

\* Mutant: a suspended operation no longer counts against the cap.
InFlightCountPendingOnly(p) ==
  Cardinality({o \in tracked : mem[o].state = "pending" /\ order[o].owner = p})

InFlightCount(p) == Cardinality({o \in tracked : LiveRec(o) /\ order[o].owner = p})

EscalationCount(p, t) ==
  Cardinality({o \in Ops : esc[o] > 0 /\ order[o].owner = p /\ order[o].target = t})

MayTarget(p, t, hostile) ==
  \/ t = p
  \/ ~hostile
  \/ EscCap = 0
  \/ EscalationCount(p, t) < EscCap

\* The supporting kinds keep their own clock; a hostile window is floored.
Window(ticks, hostile) == IF hostile THEN AtLeast(ticks, Floor) ELSE ticks

-------------------------------------------------------------------------------
(* The single writer of a state, on a set of records at once: the operations one
   call ends. Terminal records do not move, a terminal entry leaves storage. *)

\* Mutant: the writer forgets that terminal states are final.
MovableUnguarded(S) == {o \in S : mem[o] # NoRec}

Movable(S) == {o \in S : LiveRec(o)}

End(S, state) ==
  /\ mem' = [o \in Ops |-> IF o \in Movable(S) THEN [mem[o] EXCEPT !.state = state]
                                               ELSE mem[o]]
  /\ store' = [o \in Ops |-> IF o \in Movable(S) THEN NoRec ELSE store[o]]
  /\ ended' = [o \in Ops |-> IF o \in Movable(S) THEN state ELSE ended[o]]
  /\ tracked' = tracked \ Movable(S)

Paused(r) == [r EXCEPT !.state = "suspended", !.held = AtLeast(r.ticks, 0)]

Suspend(S) ==
  LET paused == {o \in S : LiveRec(o) /\ mem[o].state = "pending"}
  IN /\ mem' = [o \in Ops |-> IF o \in paused THEN Paused(mem[o]) ELSE mem[o]]
     /\ store' = [o \in Ops |-> IF o \in paused THEN Paused(mem[o]) ELSE store[o]]
     /\ UNCHANGED <<tracked, ended>>

\* Mutant: resume starts a fresh window instead of giving the snapshot back.
ResumedAfresh(r) ==
  [r EXCEPT !.state = "pending", !.held = Unset, !.ticks = Window(0, TRUE)]

\* resume: the snapshot back, a window floored as for any record that does not
\* say otherwise (hostility is not persisted), the snapshot cleared.
Resumed(r) ==
  [r EXCEPT !.state = "pending", !.held = Unset,
            !.ticks = Window(IF r.held = Unset THEN r.ticks ELSE AtLeast(r.held, 0), TRUE)]

-------------------------------------------------------------------------------
Init ==
  /\ up = TRUE /\ step = "idle" /\ cur = NoOp /\ req = NoOp
  /\ mem = [o \in Ops |-> NoRec] /\ store = mem
  /\ tracked = {} /\ todo = {} /\ kept = {} /\ known = {} /\ torn = {}
  /\ order = [o \in Ops |-> NoOrder]
  /\ agent = [a \in Agents |-> "fit"]
  /\ bldg = [b \in Buildings |-> "up"]
  /\ lab = Players
  /\ stock = [p \in Players |-> Stock0]
  /\ cool = [b \in Buildings |-> 0]
  /\ esc = [o \in Ops |-> 0]
  /\ ended = [o \in Ops |-> "none"] /\ bill = ended
  /\ hits = [o \in Ops |-> 0] /\ worked = hits /\ fuse = hits
  /\ faults = 0

-------------------------------------------------------------------------------
(* Requests. A command or an NPC plan asks between passes, an on_resolve hook
   asks in the middle of one. A refused request writes nothing. *)

\* Outside a driver call, or inside the hook of one.
Open == up /\ req = NoOp /\ step \in {"idle", "effect"}

CheckCommitment(p)     == p \in lab
CheckOrigin(p, b)      == Owner[b] = p /\ IsOperational(b)
CheckCarrier(p, a)     == Owner[a] = p /\ agent[a] = "fit"
CheckCooldown(b)       == cool[b] <= 0
CheckInFlight(p)       == Cap < 1 \/ InFlightCount(p) < Cap
CheckResources(p)      == CostOf(p) <= stock[p]

\* Every check passes, then the charge: whole, or nothing for an empty cost.
Request(o, p, b, a, t, hostile) ==
  /\ Open /\ order[o] = NoOrder
  /\ CheckCommitment(p) /\ CheckOrigin(p, b) /\ CheckCarrier(p, a)
  /\ MayTarget(p, t, hostile)
  /\ CheckCooldown(b) /\ CheckInFlight(p) /\ CheckResources(p)
  /\ order' = [order EXCEPT ![o] = [owner |-> p, origin |-> b, carrier |-> a,
                                    target |-> t, hostile |-> hostile]]
  /\ stock' = [stock EXCEPT ![p] = @ - CostOf(p)]
  /\ bill' = [bill EXCEPT ![o] = "charged"]
  /\ req' = o
  /\ UNCHANGED <<up, passVars, worldVars, recVars, clockVars, histVars>>

\* The record is built, floored, tracked, moved to Pending and persisted; then
\* the cooldown starts.
EnterPending(o, ticks, life) ==
  /\ up /\ req = o
  /\ mem' = [mem EXCEPT ![o] = [state |-> "pending", life |-> life, held |-> Unset,
                                ticks |-> Window(ticks, order[o].hostile)]]
  /\ store' = [store EXCEPT ![o] = mem'[o]]
  /\ tracked' = tracked \cup {o}
  /\ cool' = [cool EXCEPT ![order[o].origin] = Cooldown]
  /\ bill' = [bill EXCEPT ![o] = "spent"]
  /\ req' = NoOp
  /\ fuse' = [fuse EXCEPT ![o] = ticks]
  /\ UNCHANGED <<up, passVars, worldVars, ended, stock, order, esc, hits, worked, torn, faults>>

\* Mutant: a failed entry keeps the charge.
EnterFailedNoRefund(o) ==
  /\ up /\ req = o
  /\ bill' = [bill EXCEPT ![o] = "refunded"]
  /\ req' = NoOp
  /\ UNCHANGED <<up, passVars, worldVars, recVars, stock, order, clockVars, histVars>>

\* build_record raised or handed back a finished record: the whole charge
\* returns and nothing stays tracked.
EnterFailed(o) ==
  /\ up /\ req = o
  /\ stock' = [stock EXCEPT ![order[o].owner] = @ + CostOf(order[o].owner)]
  /\ bill' = [bill EXCEPT ![o] = "refunded"]
  /\ tracked' = tracked \ {o}
  /\ req' = NoOp
  /\ UNCHANGED <<up, passVars, worldVars, mem, store, ended, order, clockVars, histVars>>

-------------------------------------------------------------------------------
(* The tick: advance_all and _advance_one. *)

CarrierFatal(o) == agent[order[o].carrier] = "gone"
\* Mutant: only a destroyed origin ends an operation, not one gone offline.
OriginFatalDestroyedOnly(o) == bldg[order[o].origin] = "gone"

OriginFatal(o)  == ~IsOperational(order[o].origin)
Fatal(o)        == CarrierFatal(o) \/ OriginFatal(o)

CarrierUnavailable(o) == agent[order[o].carrier] = "benched"
CommitmentLapsed(o)   == order[o].owner \notin lab
Pausing(o)            == CarrierUnavailable(o) \/ CommitmentLapsed(o)

\* Mutant: an elapsed clock runs below zero.
AgedPastZero(ledger) == [k \in DOMAIN ledger |-> ledger[k] - 1]

Aged(ledger) == [k \in DOMAIN ledger |-> IF ledger[k] > 0 THEN ledger[k] - 1 ELSE 0]

\* The game clock moves and the pass takes its snapshot.
TickBegin ==
  /\ up /\ step = "idle" /\ req = NoOp
  /\ cool' = Aged(cool) /\ esc' = Aged(esc)
  /\ step' = "walk" /\ todo' = tracked /\ known' = tracked /\ kept' = {}
  /\ UNCHANGED <<up, cur, worldVars, recVars, moneyVars, histVars>>

Walking(o) == up /\ step = "walk" /\ o \in todo

Drop(o) == todo' = todo \ {o} /\ UNCHANGED <<kept, known>>
Keep(o) == todo' = todo \ {o} /\ kept' = kept \cup {o} /\ UNCHANGED known

\* A record an earlier record's effect already ended.
AdvanceSettled(o) ==
  /\ Walking(o) /\ ~LiveRec(o)
  /\ Drop(o)
  /\ UNCHANGED <<up, step, cur, worldVars, recVars, moneyVars, clockVars, histVars>>

\* Mutant: a record that raises is dropped, as the bomb tick drops one.
AdvanceRaisesDropped(o) ==
  /\ Walking(o) /\ faults < MaxFaults
  /\ Drop(o)
  /\ tracked' = tracked \ {o}
  /\ faults' = faults + 1
  /\ UNCHANGED <<up, step, cur, worldVars, mem, store, ended, moneyVars, clockVars,
                 hits, fuse, worked, torn>>

\* One record raises: it is kept, and the others still advance.
AdvanceRaises(o) ==
  /\ Walking(o) /\ faults < MaxFaults
  /\ Keep(o)
  /\ faults' = faults + 1
  /\ UNCHANGED <<up, step, cur, worldVars, recVars, moneyVars, clockVars,
                 hits, fuse, worked, torn>>

AdvanceCancel(o) ==
  /\ Walking(o) /\ LiveRec(o) /\ Fatal(o)
  /\ End({o}, "cancelled")
  /\ Drop(o)
  /\ UNCHANGED <<up, step, cur, worldVars, moneyVars, clockVars, histVars>>

AdvanceSuspend(o) ==
  /\ Walking(o) /\ LiveRec(o) /\ ~Fatal(o) /\ Pausing(o)
  /\ Suspend({o})
  /\ Keep(o)
  /\ UNCHANGED <<up, step, cur, worldVars, moneyVars, clockVars, histVars>>

AdvanceResume(o) ==
  /\ Walking(o) /\ LiveRec(o) /\ ~Fatal(o) /\ ~Pausing(o)
  /\ mem[o].state = "suspended"
  /\ mem' = [mem EXCEPT ![o] = Resumed(@)]
  /\ store' = [store EXCEPT ![o] = mem'[o]]
  /\ step' = "clock" /\ cur' = o
  /\ UNCHANGED <<up, todo, kept, known, worldVars, tracked, ended, moneyVars,
                 clockVars, histVars>>

\* Where this tick's progress is taken: straight from the walk for a pending
\* record, or after the resume.
Clocking(o) ==
  \/ step = "clock" /\ cur = o /\ up
  \/ Walking(o) /\ LiveRec(o) /\ ~Fatal(o) /\ ~Pausing(o) /\ mem[o].state = "pending"

LifeOut(r) == r.life # Unset /\ r.life - 1 <= 0

Elapsed(r) == [r EXCEPT !.life = IF @ = Unset THEN @ ELSE @ - 1, !.ticks = @ - 1]

Given(o) == worked' = [worked EXCEPT ![o] = IF @ < MaxWindow THEN @ + 1 ELSE @]

\* The lifetime is a deadline: it is judged before the effect clock.
AdvanceExpire(o) ==
  /\ Clocking(o) /\ LifeOut(mem[o])
  /\ End({o}, "expired")
  /\ Drop(o) /\ step' = "walk" /\ cur' = NoOp
  /\ UNCHANGED <<up, worldVars, moneyVars, clockVars, histVars>>

\* The decremented clock stays in memory until the pass's batched write.
AdvanceClock(o) ==
  /\ Clocking(o) /\ ~LifeOut(mem[o]) /\ mem[o].ticks - 1 > 0
  /\ mem' = [mem EXCEPT ![o] = Elapsed(@)]
  /\ Given(o)
  /\ Keep(o) /\ step' = "walk" /\ cur' = NoOp
  /\ UNCHANGED <<up, worldVars, tracked, store, ended, moneyVars, clockVars,
                 hits, fuse, torn, faults>>

\* _resolve runs the on_resolve hook first ...
AdvanceEffect(o) ==
  /\ Clocking(o) /\ ~LifeOut(mem[o]) /\ mem[o].ticks - 1 <= 0
  /\ mem' = [mem EXCEPT ![o] = Elapsed(@)]
  /\ Given(o)
  /\ hits' = [hits EXCEPT ![o] = @ + 1]
  /\ step' = "effect" /\ cur' = o
  /\ UNCHANGED <<up, todo, kept, known, worldVars, tracked, store, ended, moneyVars,
                 clockVars, fuse, torn, faults>>

\* Mutant: a hook that raised leaves its operation Pending for another tick.
ResolveRetried(o) ==
  /\ up /\ step = "effect" /\ cur = o /\ req = NoOp
  /\ IF LiveRec(o) THEN Keep(o) ELSE Drop(o)
  /\ step' = "walk" /\ cur' = NoOp
  /\ UNCHANGED <<up, worldVars, recVars, moneyVars, clockVars, histVars>>

\* ... and settles the record when the hook returns or raises, unless the effect
\* ended the operation itself; then neither state nor escalation is written.
Resolve(o) ==
  /\ up /\ step = "effect" /\ cur = o /\ req = NoOp
  /\ End({o}, "resolved")
  /\ esc' = [esc EXCEPT ![o] = IF LiveRec(o) /\ EscCap > 0 THEN EscWindow ELSE @]
  /\ Drop(o) /\ step' = "walk" /\ cur' = NoOp
  /\ UNCHANGED <<up, worldVars, moneyVars, cool, histVars>>

\* Mutant: the batched write stores a survivor a later record's effect has ended.
TickEndStoresEnded ==
  /\ up /\ step = "walk" /\ todo = {}
  /\ tracked' = kept \cup (tracked \ known)
  /\ store' = [o \in Ops |-> IF o \in kept THEN mem[o] ELSE store[o]]
  /\ step' = "idle" /\ kept' = {} /\ known' = {}
  /\ UNCHANGED <<up, cur, todo, worldVars, mem, ended, moneyVars, clockVars, histVars>>

\* Survivors and the operations placed meanwhile are the new tracked list; one
\* write per owner stores the survivors' clocks and drops the ended ones.
TickEnd ==
  /\ up /\ step = "walk" /\ todo = {}
  /\ tracked' = kept \cup (tracked \ known)
  /\ store' = [o \in Ops |-> IF o \in kept
                               THEN IF LiveRec(o) THEN mem[o] ELSE NoRec
                               ELSE store[o]]
  /\ step' = "idle" /\ kept' = {} /\ known' = {}
  /\ UNCHANGED <<up, cur, todo, worldVars, mem, ended, moneyVars, clockVars, histVars>>

-------------------------------------------------------------------------------
(* The world, and the three events the driver subscribes. An effect may kill and
   destroy; everything else happens between passes. *)

UnchangedByWorld == UNCHANGED <<up, passVars, moneyVars, clockVars, histVars>>

\* PLAYER_ELIMINATED for an agent, which respawns before anything polls it.
CarrierKilled(a) ==
  /\ Open /\ agent[a] # "gone"
  /\ End({o \in tracked : order[o].carrier = a}, "cancelled")
  /\ UNCHANGED worldVars /\ UnchangedByWorld

\* BUILDING_DESTROYED for an originating building.
BuildingDestroyed(b) ==
  /\ Open /\ bldg[b] # "gone"
  /\ End({o \in tracked : order[o].origin = b}, "cancelled")
  /\ bldg' = [bldg EXCEPT ![b] = "gone"]
  /\ UNCHANGED <<agent, lab>> /\ UnchangedByWorld

\* BUILDING_DESTROYED for the Branch lab.
LabDestroyed(p) ==
  /\ Open /\ p \in lab
  /\ Suspend({o \in tracked : order[o].owner = p})
  /\ lab' = lab \ {p}
  /\ UNCHANGED <<agent, bldg>> /\ UnchangedByWorld

\* BASE_ELIMINATED, after the base's buildings are deleted.
BaseEliminated(p) ==
  /\ Open /\ step = "idle" /\ p \in Npcs /\ \E b \in Buildings : Owner[b] = p /\ bldg[b] # "gone"
  /\ End({o \in tracked : order[o].owner = p}, "cancelled")
  /\ bldg' = [b \in Buildings |-> IF Owner[b] = p THEN "gone" ELSE bldg[b]]
  /\ lab' = lab \ {p}
  /\ UNCHANGED agent /\ UnchangedByWorld

\* What no event announces: reserve and recovery, dismissal, a building going
\* offline or being demolished, a lab demolished or built again.
Quiet == Open /\ step = "idle" /\ UNCHANGED recVars /\ UnchangedByWorld

AgentChanges(a) ==
  /\ Quiet /\ agent[a] # "gone"
  /\ \E s \in {"fit", "benched", "gone"} \ {agent[a]} : agent' = [agent EXCEPT ![a] = s]
  /\ UNCHANGED <<bldg, lab>>

BuildingChanges(b) ==
  /\ Quiet /\ bldg[b] # "gone"
  /\ \E s \in {"up", "offline", "gone"} \ {bldg[b]} : bldg' = [bldg EXCEPT ![b] = s]
  /\ UNCHANGED <<agent, lab>>

LabChanges(p) ==
  /\ Quiet
  /\ lab' = IF p \in lab THEN lab \ {p} ELSE lab \cup {p}
  /\ UNCHANGED <<agent, bldg>>

-------------------------------------------------------------------------------
(* Crash and restart: memory goes, attributes and the world stay. *)

Crash ==
  /\ up /\ faults < MaxFaults
  /\ up' = FALSE /\ faults' = faults + 1
  /\ step' = "idle" /\ cur' = NoOp /\ req' = NoOp
  /\ todo' = {} /\ kept' = {} /\ known' = {} /\ tracked' = {}
  /\ mem' = [o \in Ops |-> NoRec]
  /\ bill' = [o \in Ops |-> IF o = req THEN "lost" ELSE bill[o]]
  /\ torn' = IF step = "effect" THEN torn \cup {cur} ELSE torn
  /\ UNCHANGED <<worldVars, store, ended, order, stock, clockVars,
                 hits, fuse, worked>>

MissingRef(o) == bldg[order[o].origin] = "gone" \/ agent[order[o].carrier] = "gone"

Persisted == {o \in Ops : store[o] # NoRec}
Dangling  == {o \in Persisted : MissingRef(o)}

\* Mutant: a discarded record stays in its owner's container.
RebuildKeepsDangling ==
  /\ ~up /\ up' = TRUE
  /\ tracked' = Persisted \ Dangling
  /\ mem' = [o \in Ops |-> IF o \in Persisted \ Dangling THEN store[o] ELSE NoRec]
  /\ ended' = [o \in Ops |-> IF o \in Dangling THEN "discarded" ELSE ended[o]]
  /\ UNCHANGED <<store, passVars, worldVars, moneyVars, clockVars, histVars>>

\* Keyed by op_id: whole records are tracked again, dangling ones discarded.
Rebuild ==
  /\ ~up /\ up' = TRUE
  /\ tracked' = Persisted \ Dangling
  /\ mem' = [o \in Ops |-> IF o \in Persisted \ Dangling THEN store[o] ELSE NoRec]
  /\ store' = [o \in Ops |-> IF o \in Dangling THEN NoRec ELSE store[o]]
  /\ ended' = [o \in Ops |-> IF o \in Dangling THEN "discarded" ELSE ended[o]]
  /\ UNCHANGED <<passVars, worldVars, moneyVars, clockVars, histVars>>

-------------------------------------------------------------------------------
Place(o) ==
  \/ \E p, t \in Players, b \in Buildings, a \in Agents, h \in BOOLEAN : Request(o, p, b, a, t, h)
  \/ \E f \in Fuses, l \in Lives : EnterPending(o, f, l)
  \/ EnterFailed(o)

Advance(o) ==
  \/ AdvanceSettled(o) \/ AdvanceCancel(o) \/ AdvanceSuspend(o) \/ AdvanceResume(o)
  \/ AdvanceExpire(o) \/ AdvanceClock(o) \/ AdvanceEffect(o) \/ Resolve(o)

World ==
  \/ \E a \in Agents : CarrierKilled(a) \/ AgentChanges(a)
  \/ \E b \in Buildings : BuildingDestroyed(b) \/ BuildingChanges(b)
  \/ \E p \in Players : LabDestroyed(p) \/ BaseEliminated(p) \/ LabChanges(p)

Next ==
  \/ \E o \in Ops : Place(o) \/ Advance(o) \/ AdvanceRaises(o)
  \/ TickBegin \/ TickEnd
  \/ World
  \/ Crash \/ Rebuild

\* The ticker fires and the thread finishes what it started; nobody has to
\* request, kill, bench, build or crash anything.
Fairness ==
  /\ WF_vars(TickBegin) /\ WF_vars(TickEnd) /\ WF_vars(Rebuild)
  /\ \A o \in Ops : WF_vars(Advance(o))
  /\ \A o \in Ops : WF_vars((\E f \in Fuses, l \in Lives : EnterPending(o, f, l)) \/ EnterFailed(o))

Spec     == Init /\ [][Next]_vars
FairSpec == Spec /\ Fairness

-------------------------------------------------------------------------------
(* Properties. *)

\* Every variable has its type, and the thread is where the pass says it is.
TypeOK ==
  /\ up \in BOOLEAN /\ step \in {"idle", "walk", "clock", "effect"}
  /\ cur \in Ops \cup {NoOp} /\ req \in Ops \cup {NoOp}
  /\ mem \in [Ops -> Record \cup {NoRec}] /\ store \in [Ops -> Record \cup {NoRec}]
  /\ tracked \subseteq Ops /\ todo \subseteq Ops /\ kept \subseteq Ops /\ known \subseteq Ops
  /\ order \in [Ops -> Order \cup {NoOrder}]
  /\ agent \in [Agents -> {"fit", "benched", "gone"}]
  /\ bldg \in [Buildings -> {"up", "offline", "gone"}]
  /\ lab \subseteq Players
  /\ stock \in [Players -> Int] /\ cool \in [Buildings -> Nat] /\ esc \in [Ops -> Nat]
  /\ ended \in [Ops -> TerminalStates \cup {"none"}]
  /\ hits \in [Ops -> Nat] /\ worked \in [Ops -> Nat] /\ fuse \in [Ops -> Fuses \cup {0}]
  /\ bill \in [Ops -> {"none", "charged", "spent", "refunded", "lost"}]
  /\ torn \subseteq Ops /\ faults \in Nat

\* The durable record and the one in memory never disagree about the state, also
\* between two records of a pass and inside a hook: an operation is in storage
\* exactly while it is live in memory, and then in the same state; the driver
\* tracks every live one. So a restart neither resurrects an operation that
\* ended nor forgets one that has not.
StateDurable ==
  up => \A o \in Ops :
          /\ (store[o] # NoRec) <=> LiveRec(o)
          /\ store[o] # NoRec => /\ store[o].state = mem[o].state
                                 /\ o \in tracked

\* A terminal state is final, across restarts too: an operation that ended is in
\* no storage, whatever copy of it is still listed has that state, and no step
\* changes it.
EndedForGood ==
  \A o \in Ops : ended[o] # "none" =>
    store[o] = NoRec /\ (mem[o] # NoRec => mem[o].state = ended[o])

\* No operation both charges and fails: an accepted operation is live or has
\* ended, and what each player is missing is exactly the price of the operations
\* charged, placed, or cut off by a crash between the charge and the record.
PaidFor(p) == {o \in Ops : bill[o] \in {"charged", "spent", "lost"} /\ order[o].owner = p}

WholeOrNone ==
  /\ \A p \in Players : stock[p] + Cardinality(PaidFor(p)) * CostOf(p) = Stock0
  /\ \A p \in Players : stock[p] >= 0
  /\ \A o \in Ops : /\ bill[o] = "spent" <=> (store[o] # NoRec \/ ended[o] # "none")
                    /\ bill[o] = "charged" <=> o = req

\* The target's warning (and the owner's delay): no effect lands before the
\* operation was given every tick of the clock its build_record chose, and never
\* fewer than the floor for a hostile one. Ticks spent paused do not count, and
\* neither suspending and resuming nor a rebuild shortens what is left.
WindowServed ==
  \A o \in Ops : hits[o] > 0 =>
    /\ worked[o] >= fuse[o]
    /\ order[o].hostile => worked[o] >= Floor

\* An effect is applied once: an operation whose effect ran is settled before the
\* pass moves on, so it is never offered another tick. The one exception is a
\* crash between the effect and the write that settles the record.
EffectOnce ==
  \A o \in Ops : o \notin torn =>
    /\ hits[o] <= 1
    /\ (hits[o] > 0 /\ store[o] # NoRec) => (step = "effect" /\ cur = o)

\* The in-flight cap bounds the live operations of a player, also while a hook
\* places a follow-up and after a rebuild.
InFlightCapped ==
  Cap > 0 => \A p \in Players :
    Cardinality({o \in Ops : store[o] # NoRec /\ order[o].owner = p}) <= Cap

\* A dormant Branch resolves nothing: an effect starts only with the carrier fit
\* and the origin operational, and a suspended operation's clock does not move.
OnlyAbleOperationsAct ==
  [][\A o \in Ops :
       /\ hits'[o] > hits[o] => /\ agent[order[o].carrier] = "fit"
                                /\ IsOperational(order[o].origin)
                                /\ order[o].owner \in lab
       /\ worked'[o] > worked[o] => mem[o].state = "pending"]_vars

\* The lifecycle an observer of the durable state sees.
Phase == [o \in Ops |-> IF ended[o] # "none" THEN ended[o]
                        ELSE IF store[o] = NoRec THEN "none" ELSE store[o].state]
Lifecycle == INSTANCE OperationLifecycle
               WITH phase <- Phase, applied <- [o \in Ops |-> hits[o] > 0]
ImplementsLifecycle == Lifecycle!Spec

\* Every placed operation is settled, or is paused by a carrier on the bench or a
\* lapsed commitment (liveness, under Fairness).
PlacedOperationsSettle ==
  \A o \in Ops : bill[o] = "spent" ~> (ended[o] # "none" \/ (order[o] # NoOrder /\ Pausing(o)))

\* The documented promise of R8.18: the loss of the lab suspends an operation
\* "rather than ending" it, so a poll cancels only over the carrier or the
\* building itself.
LabLossOnlySuspends ==
  [][\A o \in Ops : (step = "walk" /\ ended[o] = "none" /\ ended'[o] = "cancelled") =>
       CarrierFatal(o) \/ bldg[order[o].origin] # "up"]_vars

===============================================================================
