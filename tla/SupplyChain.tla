----------------------------- MODULE SupplyChain -----------------------------
(***************************************************************************)
(* One resource on its way from an Extractor to its owner: drops on tiles  *)
(* (typeclasses/objects.py), the delivery loop of a harvester              *)
(* (typeclasses/agent_scripts.py), the Vaults and the inflow choke point   *)
(* (world/systems/equipment_storage.py, building_storage.py), and what     *)
(* death takes and the respawn building gives back (equipment_system.py).  *)
(*                                                                         *)
(* Every quantity is persisted, one attribute at a time: `todo' holds the  *)
(* writes the running handler has still to make, and a crash may fall      *)
(* between any two of them.  Nothing else can.                             *)
(* Left out: several resources, weights (a unit weighs one), who stands    *)
(* where (a player may walk anywhere between calls), distances (any store  *)
(* may be the nearest), XP, the benching of the harvester.  A tile that is *)
(* at its capacity refuses a new drop: whether it is, is left open, and so *)
(* is whether a path is found.                                             *)
(***************************************************************************)
EXTENDS Integers, Sequences, FiniteSets, Tallies

CONSTANTS
    Stores, Field,   \* the owner's storage buildings; the Extractor's tile
    NoStore,         \* no building
    Capacity,        \* storage_capacity of a store
    Carry,           \* the owner's carry limit
    Bag,             \* carry_capacity of the harvester
    MaxMade,         \* bound: units produced
    MaxFaults        \* bound: crashes

ASSUME SupplyAssumption ==
    /\ IsFiniteSet(Stores) /\ Field \notin Stores /\ NoStore \notin Stores
    /\ {Capacity, Carry, Bag, MaxMade, MaxFaults} \subseteq Nat

Spots == Stores \cup {Field}

VARIABLES
    ground,     \* ResourceDrop.db.amount on each tile; 0: no drop
    hand,       \* the amount of a drop that is in the owner's inventory
    purse,      \* the owner's db.resources
    pool,       \* Building.db.stored_resources
    stash,      \* db.recovery_stash of the respawn building
    load,       \* NPC.db.carried_resources
    state,      \* NPC.db.delivery_state
    dest,       \* NPC.db.delivery_target; a deleted building reads as None
    walking,    \* NPC.db.movement_queue is not empty
    posted,     \* NPC.db.role_target is the Extractor
    script,     \* DeliveryBehavior is attached
    enabled,    \* level and player allow the delivery ability
    todo,       \* writes left of the running handler
    faults,     \* bound: crashes so far
    made,       \* history: units that came into the world
    gone,       \* history: units that were given up
    slip        \* history: units the crashes doubled (or lost, if negative)

goods == <<ground, hand, purse, pool, stash, load>>
fsm == <<state, dest, walking, posted, script, enabled>>
supply == <<goods, fsm, todo, faults, made, gone, slip>>

-----------------------------------------------------------------------------
DeliveryState == {"idle", "picking_up", "delivering", "returning"}

Step ==
    [op: {"ground", "pool", "add", "spill"}, at: Spots \cup {NoStore}, n: Int]
        \cup [op: {"hand", "purse", "stash", "load"}, n: Nat]
        \cup [op: {"state"}, to: DeliveryState \cup {"none"}]
        \cup [op: {"dest"}, to: Stores \cup {NoStore}]
        \cup [op: {"walking", "posted", "script"}, to: BOOLEAN]
        \cup [op: {"drop", "turn"}]

SupplyTypeOK ==
    /\ ground \in [Spots -> Nat] /\ pool \in [Stores -> 0..Capacity]
    /\ hand \in Nat /\ purse \in Nat /\ stash \in Nat /\ load \in 0..Bag
    /\ state \in DeliveryState \cup {"none"}
    /\ dest \in Stores \cup {NoStore}
    /\ walking \in BOOLEAN /\ posted \in BOOLEAN
    /\ script \in BOOLEAN /\ enabled \in BOOLEAN
    /\ todo \in Seq(Step)
    /\ faults \in 0..MaxFaults /\ made \in 0..MaxMade /\ gone \in Nat /\ slip \in Int

SupplyInit ==
    /\ ground = [s \in Spots |-> 0] /\ pool = [v \in Stores |-> 0]
    /\ hand = 0 /\ purse = 0 /\ stash = 0 /\ load = 0
    /\ state = "none" /\ dest = NoStore
    /\ walking = FALSE /\ posted = FALSE /\ script = FALSE /\ enabled = FALSE
    /\ todo = <<>> /\ faults = 0 /\ made = 0 /\ gone = 0 /\ slip = 0

Least(a, b) == IF a < b THEN a ELSE b
Room(held, limit) == IF held < limit THEN limit - held ELSE 0

(* Everything there is. *)
Held == Tally(ground, Spots) + Tally(pool, Stores) + hand + purse + stash + load

(* A handler that only leaves writes to do. *)
Leaves(steps) ==
    /\ todo = <<>>
    /\ todo' = steps
    /\ UNCHANGED <<goods, fsm, faults, made, gone, slip>>

-----------------------------------------------------------------------------
(* HarvesterScript of an agent that is at work, process_harvest_tick: a    *)
(* drop on the tile grows or is made.  On a full tile nothing is made.     *)
Produce(n) ==
    /\ todo = <<>> /\ made + n <= MaxMade
    /\ ground' = [ground EXCEPT ![Field] = @ + n]
    /\ made' = made + n
    /\ UNCHANGED <<hand, purse, pool, stash, load, fsm, todo, faults, gone, slip>>

(* CmdGet and ResourceDrop.at_get: the drop is in the inventory already    *)
(* when the carry limit decides how much of it is taken.                   *)
Get(s) ==
    /\ todo = <<>> /\ ground[s] > 0
    /\ ground' = [ground EXCEPT ![s] = 0]
    /\ hand' = hand + ground[s]
    /\ LET fits == Least(ground[s], Room(purse, Carry)) IN
         todo' = <<[op |-> "add", at |-> NoStore, n |-> fits],
                   [op |-> "ground", at |-> s, n |-> ground[s] - fits],
                   [op |-> "hand", n |-> hand]>>
    /\ UNCHANGED <<purse, pool, stash, load, fsm, faults, made, gone, slip>>

(* Mutant: what was asked for is deducted, not what was stored.            *)
DepositTakesAll(v, n) ==
    LET want == Least(n, purse)
        stored == Least(want, Room(pool[v], Capacity)) IN
      /\ stored > 0
      /\ Leaves(<<[op |-> "pool", at |-> v, n |-> stored],
                  [op |-> "add", at |-> NoStore, n |-> -want]>>)

(* deposit: what is held and fits; the store first, then the player.       *)
Deposit(v, n) ==
    LET stored == Least(Least(n, purse), Room(pool[v], Capacity)) IN
      /\ stored > 0
      /\ Leaves(<<[op |-> "pool", at |-> v, n |-> stored],
                  [op |-> "add", at |-> NoStore, n |-> -stored]>>)

(* withdraw: what is stored and can be carried; the store first.           *)
Withdraw(v, n) ==
    LET taken == Least(Least(n, pool[v]), Room(purse, Carry)) IN
      /\ taken > 0
      /\ Leaves(<<[op |-> "pool", at |-> v, n |-> -taken],
                  [op |-> "add", at |-> NoStore, n |-> taken]>>)

(* apply_death_loss: some of what is carried goes to the stash, the rest   *)
(* is lost; the stash is written last.                                     *)
Die(kept) ==
    /\ todo = <<>> /\ purse > 0 /\ kept <= purse
    /\ todo' = <<[op |-> "purse", n |-> 0], [op |-> "stash", n |-> stash + kept]>>
    /\ gone' = gone + purse - kept
    /\ UNCHANGED <<goods, fsm, faults, made, slip>>

(* collect_recovery: what can be carried, the leftover stays in the stash. *)
Collect ==
    LET taken == Least(stash, Room(purse, Carry)) IN
      /\ stash > 0
      /\ Leaves(<<[op |-> "add", at |-> NoStore, n |-> taken],
                  [op |-> "stash", n |-> stash - taken]>>)

(* A store is destroyed with its pool, and another stands in its place.    *)
Raze(v) ==
    /\ todo = <<>>
    /\ pool' = [pool EXCEPT ![v] = 0] /\ gone' = gone + pool[v]
    /\ dest' = IF dest = v THEN NoStore ELSE dest
    /\ pool[v] > 0 \/ dest = v
    /\ UNCHANGED <<ground, hand, purse, stash, load, state, walking, posted, script,
                   enabled, todo, faults, made, slip>>

-----------------------------------------------------------------------------
(* The agent commands as far as they touch the delivery loop.  The load of *)
(* an agent that is assigned or released is given up.                      *)
Dropping ==
    <<[op |-> "state", to |-> "none"], [op |-> "drop"], [op |-> "dest", to |-> NoStore]>>

(* assign_agent: the scripts are changed before the delivery attributes of *)
(* the previous role are cleared.                                          *)
Assign ==
    /\ todo = <<>>
    /\ todo' = <<[op |-> "posted", to |-> TRUE], [op |-> "script", to |-> FALSE],
                 [op |-> "walking", to |-> FALSE], [op |-> "script", to |-> enabled]>>
                   \o Dropping \o <<[op |-> "walking", to |-> TRUE]>>
    /\ UNCHANGED <<goods, fsm, faults, made, gone, slip>>

Unassign ==
    Leaves(<<[op |-> "script", to |-> FALSE], [op |-> "walking", to |-> FALSE]>>
            \o Dropping
            \o <<[op |-> "posted", to |-> FALSE], [op |-> "walking", to |-> TRUE]>>)

(* stop_agent: a harvester keeps its load. *)
Stop ==
    Leaves(<<[op |-> "walking", to |-> FALSE]>>
            \o (IF posted THEN <<[op |-> "state", to |-> "idle"]>> ELSE <<>>)
            \o <<[op |-> "script", to |-> FALSE], [op |-> "posted", to |-> FALSE]>>)

(* evaluate_gated_abilities, after `agent ability' or a change of level.   *)
Converge(may) ==
    /\ todo = <<>> /\ <<enabled, script>> # <<may, may>>
    /\ enabled' = may
    /\ todo' = <<[op |-> "script", to |-> may]>>
    /\ UNCHANGED <<goods, state, dest, walking, posted, script, faults, made, gone, slip>>

(* movement_system: the queue is exhausted. *)
Arrive ==
    /\ todo = <<>> /\ walking
    /\ walking' = FALSE
    /\ UNCHANGED <<goods, state, dest, posted, script, enabled, todo, faults, made, gone,
                   slip>>

-----------------------------------------------------------------------------
(* DeliveryBehavior.at_repeat, one action per state.                       *)
Awake(s) == todo = <<>> /\ script /\ ~walking /\ state = s

(* select_delivery_target: a store that is not full.                       *)
Targets == IF posted THEN {v \in Stores : pool[v] < Capacity} ELSE {}

(* _try_pick_up: the drop first, then the load, then the state.            *)
TryPickUp ==
    LET take == Least(ground[Field], Bag - load) IN
      /\ Awake("idle") /\ posted /\ ground[Field] > 0
      /\ todo' = (IF take = 0 THEN <<>>
                  ELSE <<[op |-> "ground", at |-> Field, n |-> -take]>>)
                   \o <<[op |-> "load", n |-> load + take],
                        [op |-> "state", to |-> "picking_up"]>>
      /\ UNCHANGED <<goods, fsm, faults, made, gone, slip>>

(* _start_delivery: with nothing to deliver or nowhere to go, idle; else   *)
(* the target is written, and the rest only if there is a path.            *)
StartDelivery ==
    /\ Awake("picking_up")
    /\ IF load = 0 \/ Targets = {}
       THEN todo' = <<[op |-> "state", to |-> "idle"]>>
       ELSE \E v \in Targets, path \in BOOLEAN :
              todo' = <<[op |-> "dest", to |-> v]>>
                        \o IF path THEN <<[op |-> "walking", to |-> TRUE],
                                          [op |-> "state", to |-> "delivering"]>>
                           ELSE <<>>
    /\ UNCHANGED <<goods, fsm, faults, made, gone, slip>>

(* Mutant: the whole load goes into the store, full or not.            *)
HandingUncapped ==
    {<<[op |-> "pool", at |-> v, n |-> load], [op |-> "load", n |-> 0]>> :
        v \in IF dest # NoStore THEN {dest} ELSE Targets}

(* deposit_resources: into the target, or one selected now, with the rest  *)
(* on its tile; without any, into the owner's pool without a limit.        *)
Handing ==
    IF load = 0 THEN {<<>>}
    ELSE IF dest = NoStore /\ Targets = {}
         THEN {<<[op |-> "add", at |-> NoStore, n |-> load], [op |-> "load", n |-> 0]>>}
         ELSE {LET stored == Least(load, Room(pool[v], Capacity)) IN
                 <<[op |-> "pool", at |-> v, n |-> stored],
                   [op |-> "spill", at |-> v, n |-> load - stored],
                   [op |-> "load", n |-> 0]>> :
                     v \in IF dest # NoStore THEN {dest} ELSE Targets}

(* _deposit_and_return. *)
HandOver ==
    /\ Awake("delivering")
    /\ \E steps \in Handing : todo' = steps \o <<[op |-> "turn"]>>
    /\ UNCHANGED <<goods, fsm, faults, made, gone, slip>>

(* _arrived_at_extractor. *)
ArriveBack == Awake("returning") /\ Leaves(<<[op |-> "state", to |-> "idle"]>>)

-----------------------------------------------------------------------------
(* The writes of a running handler, in order. *)
Doing(op) == todo # <<>> /\ Head(todo).op = op
It == Head(todo)

WriteGround ==
    /\ Doing("ground") /\ todo' = Tail(todo)
    /\ ground' = [ground EXCEPT ![It.at] = @ + It.n]
    /\ UNCHANGED <<hand, purse, pool, stash, load, fsm, faults, made, gone, slip>>

(* _spawn_resource_drop of a remainder: a tile without a drop may refuse   *)
(* it, and nobody looks at the answer.                                     *)
Spill ==
    /\ Doing("spill") /\ todo' = Tail(todo)
    /\ \/ ground' = [ground EXCEPT ![It.at] = @ + It.n] /\ UNCHANGED gone
       \/ ground[It.at] = 0 /\ gone' = gone + It.n /\ UNCHANGED ground
    /\ UNCHANGED <<hand, purse, pool, stash, load, fsm, faults, made, slip>>

WritePool ==
    /\ Doing("pool") /\ todo' = Tail(todo)
    /\ pool' = [pool EXCEPT ![It.at] = @ + It.n]
    /\ UNCHANGED <<ground, hand, purse, stash, load, fsm, faults, made, gone, slip>>

(* add_resource, deduct_resources, _clear_carried_resources.               *)
WritePurse ==
    /\ Doing("add") \/ Doing("purse")
    /\ todo' = Tail(todo)
    /\ purse' = IF It.op = "add" THEN purse + It.n ELSE It.n
    /\ UNCHANGED <<ground, hand, pool, stash, load, fsm, faults, made, gone, slip>>

WriteHand ==
    /\ Doing("hand") /\ todo' = Tail(todo)
    /\ hand' = It.n
    /\ UNCHANGED <<ground, purse, pool, stash, load, fsm, faults, made, gone, slip>>

WriteStash ==
    /\ Doing("stash") /\ todo' = Tail(todo)
    /\ stash' = It.n
    /\ UNCHANGED <<ground, hand, purse, pool, load, fsm, faults, made, gone, slip>>

(* Filled by a pick-up, emptied by a hand-over.                            *)
WriteLoad ==
    /\ Doing("load") /\ todo' = Tail(todo)
    /\ load' = It.n
    /\ UNCHANGED <<ground, hand, purse, pool, stash, fsm, faults, made, gone, slip>>

(* carried_resources is cleared with the previous role.                    *)
DropLoad ==
    /\ Doing("drop") /\ todo' = Tail(todo)
    /\ load' = 0 /\ gone' = gone + load
    /\ UNCHANGED <<ground, hand, purse, pool, stash, fsm, faults, made, slip>>

WriteState ==
    /\ Doing("state") /\ todo' = Tail(todo)
    /\ state' = It.to
    /\ UNCHANGED <<goods, dest, walking, posted, script, enabled, faults, made, gone, slip>>

WriteDest ==
    /\ Doing("dest") /\ todo' = Tail(todo)
    /\ dest' = It.to
    /\ UNCHANGED <<goods, state, walking, posted, script, enabled, faults, made, gone, slip>>

WriteWalking ==
    /\ Doing("walking") /\ todo' = Tail(todo)
    /\ walking' = It.to
    /\ UNCHANGED <<goods, state, dest, posted, script, enabled, faults, made, gone, slip>>

WritePosted ==
    /\ Doing("posted") /\ todo' = Tail(todo)
    /\ posted' = It.to
    /\ UNCHANGED <<goods, state, dest, walking, script, enabled, faults, made, gone, slip>>

(* _attach_single_script sets the state to idle, unless it was attached.   *)
WriteScript ==
    /\ Doing("script")
    /\ script' = It.to
    /\ todo' = (IF It.to /\ ~script THEN <<[op |-> "state", to |-> "idle"]>> ELSE <<>>)
                 \o Tail(todo)
    /\ UNCHANGED <<goods, state, dest, walking, posted, enabled, faults, made, gone, slip>>

(* The way back: idle without an Extractor, the next tick without a path.  *)
Turn ==
    /\ Doing("turn")
    /\ \/ ~posted /\ todo' = <<[op |-> "state", to |-> "idle"]>>
       \/ posted /\ todo' = <<>>
       \/ posted /\ todo' = <<[op |-> "walking", to |-> TRUE],
                              [op |-> "state", to |-> "returning"],
                              [op |-> "dest", to |-> NoStore]>>
    /\ UNCHANGED <<goods, fsm, faults, made, gone, slip>>

Write ==
    \/ WriteGround \/ Spill \/ WritePool \/ WritePurse \/ WriteHand \/ WriteStash
    \/ WriteLoad \/ DropLoad \/ WriteState \/ WriteDest \/ WriteWalking \/ WritePosted
    \/ WriteScript \/ Turn

(* The process dies and starts again: nothing else runs in between.        *)
ProcessDies ==
    /\ faults < MaxFaults
    /\ faults' = faults + 1
    /\ todo' = <<>>
    /\ slip' = Held + gone - made
    /\ UNCHANGED <<goods, fsm, made, gone>>

Amounts == 1..(MaxMade + Bag)

SupplyNext ==
    \/ \E n \in 1..MaxMade : Produce(n)
    \/ \E s \in Spots : Get(s)
    \/ \E v \in Stores, n \in Amounts : Deposit(v, n) \/ Withdraw(v, n)
    \/ \E kept \in 0..purse : Die(kept)
    \/ Collect
    \/ \E v \in Stores : Raze(v)
    \/ Assign \/ Unassign \/ Stop \/ (\E may \in BOOLEAN : Converge(may)) \/ Arrive
    \/ TryPickUp \/ StartDelivery \/ HandOver \/ ArriveBack
    \/ Write \/ ProcessDies

SupplySpec == SupplyInit /\ [][SupplyNext]_supply

-----------------------------------------------------------------------------
(* No unit appears and none disappears between the tile, the harvester,    *)
(* the stores, the owner and the stash, but for what is given up with an   *)
(* assignment, a life or a building and a remainder a full tile refuses.   *)
(* While a handler runs only what it moves may count twice, and a crash    *)
(* leaves it at that: it never more than doubles what there was, and       *)
(* nothing after it goes wrong for that reason.  (add_resource_capped,     *)
(* deposit, withdraw, deposit_resources, apply_death_loss,                 *)
(* collect_recovery)                                                       *)
Conserved ==
    /\ todo = <<>> => Held + gone = made + slip
    /\ Held + gone <= 2 * (made + slip)

(* A delivery loop that is attached is in one of its states: it starts     *)
(* from idle and its next tick does something.  (_attach_single_script)    *)
AttachedLoopRuns == todo = <<>> /\ script => state \in DeliveryState
=============================================================================
