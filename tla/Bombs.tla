-------------------------------- MODULE Bombs --------------------------------
(***************************************************************************)
(* Fused bombs (world/systems/bomb_system.py): grenades and mines are set, *)
(* deployed, count down, are disarmed or go off.  A placed bomb is an      *)
(* object with persisted attributes (LiveBomb); the list of bombs being    *)
(* counted down is memory, rebuilt from the objects at startup.            *)
(*                                                                         *)
(* `todo' holds the persisted writes the running handler has still to      *)
(* make, `round' the bombs the running tick has still to visit.  A crash   *)
(* may fall between any two writes; nothing else can.                      *)
(* One kind of bomb, so that a player's fuse queue, which always holds     *)
(* equal values, is a value and a length.  Left out: ranks, the flight of  *)
(* a grenade (it lands on some spot), damage and death (a hit is counted), *)
(* who is disarming (only told, and a bonus on odds that are left open).   *)
(* Bodies stand for all a blast can reach: players, agents, buildings.     *)
(***************************************************************************)
EXTENDS Integers, Sequences, FiniteSets

CONSTANTS
    Players, Bodies,   \* the players, and everything a blast can hit
    Bombs,             \* identities of placed bombs, used again
    Spots, Nowhere,    \* (tile, planet) pairs; no coordinates yet
    Start,             \* where the bodies are at first
    Tile, Planet,      \* the tile and the planet of a spot
    Reach,             \* [Spots -> SUBSET Spots]: within the blast radius
    Fuses,             \* fuse_min..fuse_max
    Rolls,             \* bomb_disarm_ticks_min..max
    MaxUnits,          \* the stack cap of the bomb in the supply bag
    MaxFaults          \* bound: crashes and failing ticks

ASSUME BombAssumption ==
    /\ Players \subseteq Bodies
    /\ Nowhere \notin Spots /\ Start \in [Bodies -> Spots]
    /\ Reach \in [Spots -> SUBSET Spots]
    /\ Fuses \subseteq Nat \ {0} /\ Rolls \subseteq Nat \ {0}
    /\ MaxUnits \in Nat /\ MaxFaults \in Nat

VARIABLES
    pos,        \* where each body is
    units,      \* db.supplies: bombs held
    pending,    \* db.bomb_fuses: the set fuse, and how many units have it
    world,      \* the LiveBomb objects that exist
    at,         \* their coordinates
    fuse,       \* db.fuse_remaining, zero for what is below it
    disarm,     \* db.disarm_ticks_remaining
    live,       \* BombSystem._live_bombs
    round,      \* bombs the running process_tick has still to visit
    todo,       \* writes left of the running handler
    faults,     \* bound: faults so far
    hits,       \* history: times each body was hit by each bomb
    botched,    \* history: bombs set off by a failed disarm
    paid,       \* history: bombs whose unit was taken from the bag
    laid,       \* history: bombs that were fully placed
    cut,        \* history: bombs in the middle of whose deployment a crash came
    dropped     \* history: whose visit or placement raised since the last start

placing == <<units, pending, paid, laid, cut>>
blasting == <<hits, botched>>
vars == <<pos, world, at, fuse, disarm, live, round, todo, faults, dropped,
          placing, blasting>>

-----------------------------------------------------------------------------
NoFuse == [sec |-> 0, n |-> 0]

Step ==
    [op: {"fuse"}, bomb: Bombs, sec: Fuses]
        \cup [op: {"coords"}, bomb: Bombs, spot: Spots]
        \cup [op: {"unit", "consume"}, bomb: Bombs, by: Players]
        \cup [op: {"attempt", "delete"}, bomb: Bombs]
        \cup [op: {"blast"}, bomb: Bombs, left: SUBSET Bodies]

TypeOK ==
    /\ pos \in [Bodies -> Spots]
    /\ units \in [Players -> 0..MaxUnits]
    /\ pending \in [Players -> [sec: Fuses, n: 1..MaxUnits] \cup {NoFuse}]
    /\ world \subseteq Bombs
    /\ at \in [Bombs -> Spots \cup {Nowhere}]
    /\ fuse \in [Bombs -> Fuses \cup Nat]
    /\ disarm \in [Bombs -> Nat]
    /\ live \subseteq Bombs /\ round \subseteq Bombs
    /\ todo \in Seq(Step)
    /\ faults \in 0..MaxFaults
    /\ hits \in [Bombs -> [Bodies -> Nat]]
    /\ botched \subseteq Bombs /\ paid \subseteq Bombs /\ laid \subseteq Bombs
    /\ cut \subseteq Bombs /\ dropped \subseteq Bombs

(* Between two calls: a command may start.                                 *)
Idle == todo = <<>> /\ round = {}

Init ==
    /\ pos = Start
    /\ units = [p \in Players |-> 0]
    /\ pending = [p \in Players |-> NoFuse]
    /\ world = {} /\ at = [b \in Bombs |-> Nowhere]
    /\ fuse = [b \in Bombs |-> 0] /\ disarm = [b \in Bombs |-> 0]
    /\ live = {} /\ round = {} /\ todo = <<>> /\ faults = 0
    /\ hits = [b \in Bombs |-> [x \in Bodies |-> 0]]
    /\ botched = {} /\ paid = {} /\ laid = {} /\ cut = {} /\ dropped = {}

-----------------------------------------------------------------------------
(* What players do between calls of the bomb system: walk, change planet,  *)
(* pick up or produce bombs (add_supply), drop them or die with them.      *)
Move(p, s) ==
    /\ Idle /\ pos[p] # s
    /\ pos' = [pos EXCEPT ![p] = s]
    /\ UNCHANGED <<world, at, fuse, disarm, live, round, todo, faults, dropped,
                   placing, blasting>>

Supply(p, n) ==
    /\ Idle /\ units[p] # n
    /\ units' = [units EXCEPT ![p] = n]
    /\ UNCHANGED <<pos, world, at, fuse, disarm, live, round, todo, faults, dropped,
                   pending, paid, laid, cut, blasting>>

(* set_fuse, set_all: one fuse for each unit held, in place of the queue.  *)
SetFuse(p, sec) ==
    /\ Idle /\ units[p] > 0
    /\ pending' = [pending EXCEPT ![p] = [sec |-> sec, n |-> units[p]]]
    /\ UNCHANGED <<pos, world, at, fuse, disarm, live, round, todo, faults, dropped,
                   units, paid, laid, cut, blasting>>

(* Mutant: the unit and its fuse are consumed before the bomb is placed.   *)
DeployingPaysFirst(p, b, s) ==
    <<[op |-> "unit", bomb |-> b, by |-> p],
      [op |-> "fuse", bomb |-> b, sec |-> pending[p].sec],
      [op |-> "coords", bomb |-> b, spot |-> s],
      [op |-> "consume", bomb |-> b, by |-> p]>>

(* What follows create_object: spawn_bomb's attributes, the fuse before    *)
(* the coordinates, then the unit and its fuse.                            *)
Deploying(p, b, s) ==
    <<[op |-> "fuse", bomb |-> b, sec |-> pending[p].sec],
      [op |-> "coords", bomb |-> b, spot |-> s],
      [op |-> "unit", bomb |-> b, by |-> p],
      [op |-> "consume", bomb |-> b, by |-> p]>>

(* throw_grenade, arm_mine: a held unit with a fuse set.  The object is    *)
(* created with default attributes.                                        *)
Deploy(p, b, s) ==
    /\ Idle /\ units[p] > 0 /\ pending[p].n > 0
    /\ Planet[s] = Planet[pos[p]]
    /\ b \notin world /\ b \notin live
    /\ world' = world \cup {b}
    /\ todo' = Deploying(p, b, s)
    /\ UNCHANGED <<pos, at, fuse, disarm, live, round, faults, dropped,
                   placing, blasting>>

(* _live_bomb_at: a tracked bomb on the tile; the planet is not compared.  *)
Here(p) ==
    {b \in live \cap world : at[b] # Nowhere /\ Tile[at[b]] = Tile[pos[p]]}

(* disarm: begin an attempt, unless one is under way.                      *)
Disarm(p, b, n) ==
    /\ Idle /\ b \in Here(p) /\ disarm[b] = 0
    /\ disarm' = [disarm EXCEPT ![b] = n]
    /\ UNCHANGED <<pos, world, at, fuse, live, round, todo, faults, dropped,
                   placing, blasting>>

(* The object is deleted, and its attributes and history with it.          *)
Gone(b) ==
    /\ world' = world \ {b}
    /\ at' = [at EXCEPT ![b] = Nowhere]
    /\ fuse' = [fuse EXCEPT ![b] = 0] /\ disarm' = [disarm EXCEPT ![b] = 0]
    /\ hits' = [hits EXCEPT ![b] = [x \in Bodies |-> 0]]
    /\ botched' = botched \ {b} /\ paid' = paid \ {b} /\ laid' = laid \ {b}
    /\ cut' = cut \ {b} /\ dropped' = dropped \ {b}

(* CmdObliterate, of what has coordinates: the list keeps the bomb.        *)
Wipe(b) ==
    /\ Idle /\ b \in world /\ at[b] # Nowhere
    /\ Gone(b)
    /\ UNCHANGED <<pos, live, round, todo, faults, units, pending>>

-----------------------------------------------------------------------------
(* process_tick.  The list is replaced by the survivors at the end; nobody *)
(* reads it before, so a bomb leaves it here when its visit says so.       *)
BeginTick ==
    /\ Idle /\ live # {}
    /\ round' = live
    /\ UNCHANGED <<pos, world, at, fuse, disarm, live, todo, faults, dropped,
                   placing, blasting>>

(* _blast_targets: everybody and everything within the radius.             *)
Targets(b) == {x \in Bodies : pos[x] \in Reach[at[b]]}

(* _detonate: the blast, target by target, then the object is deleted.  A  *)
(* bomb without coordinates is deleted without one.                        *)
Detonation(b) ==
    LET delete == [op |-> "delete", bomb |-> b]
    IN  IF at[b] = Nowhere THEN <<delete>>
        ELSE <<[op |-> "blast", bomb |-> b, left |-> Targets(b)], delete>>

(* Mutant: the fuse is written after the blast it decides on.              *)
TickOneWritesLate(b) ==
    /\ todo = <<>> /\ b \in round
    /\ round' = round \ {b}
    /\ IF b \notin world
       THEN live' = live \ {b} /\ UNCHANGED <<fuse, todo>>
       ELSE IF fuse[b] <= 1
            THEN /\ todo' = Detonation(b)
                 /\ live' = live \ {b} /\ UNCHANGED fuse
            ELSE /\ fuse' = [fuse EXCEPT ![b] = @ - 1]
                 /\ todo' = IF disarm[b] > 0
                            THEN <<[op |-> "attempt", bomb |-> b]>> ELSE <<>>
                 /\ UNCHANGED live
    /\ UNCHANGED <<pos, world, at, disarm, faults, dropped, placing, blasting>>

(* _tick_one: a deleted bomb is dropped; else the fuse is written first,   *)
(* and only a bomb that survives it gets a tick of its disarm attempt.     *)
TickOne(b) ==
    /\ todo = <<>> /\ b \in round
    /\ round' = round \ {b}
    /\ IF b \notin world
       THEN live' = live \ {b} /\ UNCHANGED <<fuse, todo>>
       ELSE /\ fuse' = [fuse EXCEPT ![b] = IF @ = 0 THEN 0 ELSE @ - 1]
            /\ IF fuse[b] <= 1
               THEN todo' = Detonation(b) /\ live' = live \ {b}
               ELSE /\ todo' = IF disarm[b] > 0
                               THEN <<[op |-> "attempt", bomb |-> b]>> ELSE <<>>
                    /\ UNCHANGED live
    /\ UNCHANGED <<pos, world, at, disarm, faults, dropped, placing, blasting>>

(* The visit raises: the bomb is dropped from the list and stays placed.   *)
TickRaises(b) ==
    /\ todo = <<>> /\ b \in round /\ b \in world /\ faults < MaxFaults
    /\ round' = round \ {b} /\ live' = live \ {b}
    /\ dropped' = dropped \cup {b}
    /\ faults' = faults + 1
    /\ UNCHANGED <<pos, world, at, fuse, disarm, todo, placing, blasting>>

-----------------------------------------------------------------------------
(* The writes of a running handler, in order. *)
Doing(op) == todo # <<>> /\ Head(todo).op = op
Doer == Head(todo).by
It == Head(todo).bomb

WriteFuse ==
    /\ Doing("fuse") /\ todo' = Tail(todo)
    /\ fuse' = [fuse EXCEPT ![It] = Head(todo).sec]
    /\ UNCHANGED <<pos, world, at, disarm, live, round, faults, dropped,
                   placing, blasting>>

(* place_on_tile, and _place_bomb appends the bomb to the list.            *)
WriteCoords ==
    /\ Doing("coords") /\ todo' = Tail(todo)
    /\ at' = [at EXCEPT ![It] = Head(todo).spot]
    /\ live' = live \cup {It} /\ laid' = laid \cup {It}
    /\ UNCHANGED <<pos, world, fuse, disarm, round, faults, dropped, units, pending,
                   paid, cut, blasting>>

(* spawn_bomb raises, before the object has coordinates or just after:     *)
(* _place_bomb does not track the object that stays, and nothing is paid.  *)
PlacingFails ==
    /\ Doing("fuse") \/ Doing("coords")
    /\ faults < MaxFaults /\ faults' = faults + 1
    /\ todo' = <<>> /\ dropped' = dropped \cup {It}
    /\ \/ UNCHANGED at
       \/ Doing("coords") /\ at' = [at EXCEPT ![It] = Head(todo).spot]
    /\ UNCHANGED <<pos, world, fuse, disarm, live, round, placing, blasting>>

(* remove_supply of one unit. *)
TakeUnit ==
    /\ Doing("unit") /\ todo' = Tail(todo)
    /\ units' = [units EXCEPT ![Doer] = @ - 1]
    /\ paid' = paid \cup {It}
    /\ UNCHANGED <<pos, world, at, fuse, disarm, live, round, faults, dropped,
                   pending, laid, cut, blasting>>

(* Mutant: the key stays when the queue is empty.                          *)
ConsumeFuseKeepsKey ==
    /\ Doing("consume") /\ todo' = Tail(todo)
    /\ pending' = [pending EXCEPT ![Doer].n = @ - 1]
    /\ UNCHANGED <<pos, world, at, fuse, disarm, live, round, faults, dropped,
                   units, paid, laid, cut, blasting>>

(* _consume_fuse: the head of the queue, the key with the last of them.    *)
ConsumeFuse ==
    /\ Doing("consume") /\ todo' = Tail(todo)
    /\ pending' = [pending EXCEPT ![Doer] =
                       IF @.n = 1 THEN NoFuse ELSE [sec |-> @.sec, n |-> @.n - 1]]
    /\ UNCHANGED <<pos, world, at, fuse, disarm, live, round, faults, dropped,
                   units, paid, laid, cut, blasting>>

(* A tick of the disarm attempt; at zero _resolve_disarm rolls: the bomb   *)
(* is deleted, or goes off with its fuse still running.                    *)
Attempt ==
    /\ Doing("attempt")
    /\ disarm' = [disarm EXCEPT ![It] = @ - 1]
    /\ \/ disarm[It] > 1 /\ todo' = Tail(todo) /\ UNCHANGED <<live, botched>>
       \/ /\ disarm[It] = 1 /\ live' = live \ {It}
          /\ \/ /\ todo' = <<[op |-> "delete", bomb |-> It]>>
                /\ UNCHANGED botched
             \/ todo' = Detonation(It) /\ botched' = botched \cup {It}
    /\ UNCHANGED <<pos, world, at, fuse, round, faults, dropped, placing, hits>>

(* apply_direct_hit on one more target; a target that raises is skipped.   *)
Hit(x) ==
    /\ Doing("blast") /\ x \in Head(todo).left
    /\ todo' = [todo EXCEPT ![1].left = @ \ {x}]
    /\ \/ hits' = [hits EXCEPT ![It][x] = @ + 1]
       \/ UNCHANGED hits
    /\ UNCHANGED <<pos, world, at, fuse, disarm, live, round, faults, dropped,
                   placing, botched>>

BlastOver ==
    /\ Doing("blast") /\ Head(todo).left = {}
    /\ todo' = Tail(todo)
    /\ UNCHANGED <<pos, world, at, fuse, disarm, live, round, faults, dropped,
                   placing, blasting>>

Delete ==
    /\ Doing("delete") /\ todo' = Tail(todo)
    /\ Gone(It)
    /\ UNCHANGED <<pos, live, round, faults, units, pending>>

Write ==
    \/ WriteFuse \/ WriteCoords \/ TakeUnit \/ ConsumeFuse \/ Attempt
    \/ (\E x \in Bodies : Hit(x)) \/ BlastOver \/ Delete

-----------------------------------------------------------------------------
(* Mutant: a restart forgets the bombs.                                    *)
RebuildNothing == {}

(* rebuild_from_world: placed bombs with a positive fuse.                  *)
Rebuild == {b \in world : fuse[b] > 0}

(* The process dies and starts again: nothing else runs in between.        *)
Crash ==
    /\ faults < MaxFaults
    /\ faults' = faults + 1
    /\ todo' = <<>> /\ round' = {} /\ dropped' = {}
    /\ live' = Rebuild
    /\ cut' = cut \cup {todo[i].bomb : i \in {j \in DOMAIN todo : todo[j].op = "unit"}}
    /\ UNCHANGED <<pos, world, at, fuse, disarm, units, pending, paid, laid, blasting>>

Next ==
    \/ \E p \in Players, s \in Spots : Move(p, s)
    \/ \E p \in Players, n \in 0..MaxUnits : Supply(p, n)
    \/ \E p \in Players, sec \in Fuses : SetFuse(p, sec)
    \/ \E p \in Players, b \in Bombs, s \in Spots : Deploy(p, b, s)
    \/ \E p \in Players, b \in Bombs, n \in Rolls : Disarm(p, b, n)
    \/ \E b \in Bombs : Wipe(b) \/ TickOne(b) \/ TickRaises(b)
    \/ BeginTick \/ Write \/ PlacingFails \/ Crash

Spec == Init /\ [][Next]_vars

-----------------------------------------------------------------------------
(* A restart neither forgets a countdown nor starts one twice: between two *)
(* calls, every placed bomb that has time left is counted down, unless its *)
(* own visit or placement raised.  (rebuild_from_world, process_tick)      *)
CountdownKept ==
    Idle => \A b \in world : fuse[b] > 0 => b \in live \cup dropped

(* One blast hits nobody twice, wherever the process dies: the fuse is at  *)
(* zero on disk before the first victim is hurt.  The exception is a bomb  *)
(* set off by a failed disarm, whose fuse is still positive on disk.       *)
(* (_tick_one against _resolve_disarm)                                     *)
BlastOnce == \A b \in Bombs \ botched, x \in Bodies : hits[b][x] <= 1

(* A unit buys a bomb: one is never taken from the bag for a bomb that was *)
(* not placed, and a placed bomb is unpaid only in the middle of its own   *)
(* deployment or when a crash cut it short.  (throw_grenade, arm_mine)     *)
UnitForBomb ==
    /\ paid \subseteq laid
    /\ todo = <<>> => laid \subseteq paid \cup cut
=============================================================================
