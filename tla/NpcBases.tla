------------------------------- MODULE NpcBases -------------------------------
(***************************************************************************)
(* The NPC bases of the game world: seeded at startup, disturbed by        *)
(* raiders, eliminated with their headquarters, respawned after a cooldown *)
(* and refreshed when a raid is left unfinished.                           *)
(*                                                                         *)
(* A base is its Sentinel, a database row that owns the base's buildings   *)
(* and guards and carries its tier, place and clock.  The spawner          *)
(* (world/systems/outpost_spawner.py) tracks the bases in memory and keeps *)
(* the schedule of respawns in memory with a copy on the planet rooms; a   *)
(* restart rebuilds the one from the rows and the other from the copy      *)
(* (server/conf/game_init.py).  base_elimination.py deletes a base whose   *)
(* headquarters falls and announces it.                                    *)
(*                                                                         *)
(* `step' is the handler or tick step under way, `left' what its loop has  *)
(* still to visit, in no particular order, and `todo' the writes left of   *)
(* the turn it is in; a crash may cut in between any two.  Ticks are kept  *)
(* as what is left of them: db.tick_count persists, so a deadline survives *)
(* a crash as it is.  Buildings and guards follow their Sentinel; loot,    *)
(* experience and the terrain checks of placement are left out.            *)
(***************************************************************************)
EXTENDS Integers, Sequences, FiniteSets, Tallies

CONSTANTS
    Planets, Tiers,
    Spots,        \* areas too small for two bases (_MIN_BASE_SEPARATION)
    SpotPlanet,   \* [Spots -> Planets]
    SpawnCount,   \* [Tiers -> Nat]: bases of a tier seeded on a planet
    RespawnTicks, \* outpost_respawn_ticks
    Backoff,      \* of a respawn that found no place
    StaleTicks,   \* outpost_stale_ticks
    Pristine,     \* the clock of a base nobody has hit
    MaxWaiting    \* bound on the respawns scheduled at once

ASSUME NpcBasesAssumption ==
    /\ SpotPlanet \in [Spots -> Planets] /\ IsFiniteSet(Spots)
    /\ SpawnCount \in [Tiers -> Nat]
    /\ {RespawnTicks, StaleTicks, MaxWaiting} \subseteq Nat \ {0}
    /\ Backoff \in 1..RespawnTicks /\ Pristine \notin Int

(* Row ids: one for every spot, for no two bases share one. *)
Ids == 1..Cardinality(Spots)
Clock == 0..StaleTicks \cup {Pristine}
Slots == Planets \X Tiers \X (0..RespawnTicks)

VARIABLES
    world,     \* the Sentinel rows: spot, tier, base_disturbed_at, spec stamp
    active,    \* _active_bases
    pending,   \* _pending_respawns: how many per planet, tier and ticks left
    saved,     \* the copy on the planet rooms
    step,      \* "down", "idle", or the handler or tick step under way
    left,      \* what its loop has still to visit
    todo,      \* the writes left of the turn it is in
    promised   \* history: respawns the rooms hold that no base answers yet

vars == <<world, active, pending, saved, step, left, todo, promised>>

NoBase == [spot |-> "none"]
Row == [spot: Spots, tier: Tiers, clock: Clock, stamped: BOOLEAN]
Track == [spot: Spots, tier: Tiers, clock: Clock]

Write ==
    [op: {"delete", "untrack"}, base: Ids]
        \cup [op: {"stamp"}, base: Ids, again: BOOLEAN]
        \cup [op: {"spawn", "schedule"}, planet: Planets, tier: Tiers]
        \cup [op: {"save"}]

Seeding == Planets \X Tiers \X (Nat \ {0})     \* the nth base of a tier

TypeOK ==
    /\ world \in [Ids -> Row \cup {NoBase}]
    /\ active \in [Ids -> Track \cup {NoBase}]
    /\ pending \in [Slots -> Nat] /\ saved \in [Slots -> Nat]
    /\ step \in {"down", "purge", "seed", "idle", "area", "refresh", "combat",
                 "respawn", "respawned", "stale"}
    /\ left \subseteq IF step = "seed" THEN Seeding ELSE Ids
    /\ todo \in Seq(Write)
    /\ promised \in [Planets \X Tiers -> Nat]

Live == {i \in Ids : world[i] # NoBase}
Tracked == {i \in Ids : active[i] # NoBase}
PlanetOf(r) == SpotPlanet[r.spot]

(* How many respawns of a tier a schedule holds for a planet. *)
Waiting(schedule, p, t) == Tally(schedule, {p} \X {t} \X (0..RespawnTicks))

AllWaiting == Tally(pending, Slots)

Idle == step = "idle" /\ todo = <<>>

(* _wipe_base: untracked, then its row is deleted with all it owns. *)
Wipe(i) == <<[op |-> "untrack", base |-> i], [op |-> "delete", base |-> i]>>

(* The same, and another base of its tier. *)
Renew(i) ==
    <<Wipe(i)[1], Wipe(i)[2],
      [op |-> "spawn", planet |-> PlanetOf(active[i]), tier |-> active[i].tier]>>

Save == [op |-> "save"]

-----------------------------------------------------------------------------
Init ==
    /\ world = [i \in Ids |-> NoBase] /\ active = [i \in Ids |-> NoBase]
    /\ pending = [k \in Slots |-> 0] /\ saved = [k \in Slots |-> 0]
    /\ step = "down" /\ left = {} /\ todo = <<>>
    /\ promised = [pt \in Planets \X Tiers |-> 0]

(* A turn of the loop of a step: one of what is left, whichever, is taken  *)
(* and leaves the writes to do.                                            *)
At(st) == step = st /\ todo = <<>>
Over(st) == At(st) /\ left = {}

(* Startup: rows without the spec stamp, written last, are purged before   *)
(* anything is rebuilt.                                                    *)
Boot ==
    /\ step = "down"
    /\ step' = "purge" /\ left' = {i \in Live : ~world[i].stamped}
    /\ UNCHANGED <<world, active, pending, saved, todo, promised>>

(* spawn_initial on each planet that has no row. *)
Seeds ==
    LET unseeded == Planets \ {PlanetOf(world[i]) : i \in Live}
    IN UNION {unseeded \X {t} \X (1..SpawnCount[t]) : t \in Tiers}

(* Mutant: only the schedule is reloaded, not the bases that survived.     *)
RebuildScheduleOnly ==
    /\ Over("purge")
    /\ step' = "seed" /\ left' = Seeds
    /\ pending' = saved
    /\ UNCHANGED <<world, active, saved, todo, promised>>

(* Mutant: the clocks start afresh.                                        *)
RebuildPristine ==
    /\ Over("purge")
    /\ step' = "seed" /\ left' = Seeds
    /\ active' = [i \in Ids |->
                    IF i \notin Live THEN NoBase
                    ELSE [spot |-> world[i].spot, tier |-> world[i].tier,
                          clock |-> Pristine]]
    /\ pending' = saved
    /\ UNCHANGED <<world, saved, todo, promised>>

(* rebuild_from_world, then the seeding. *)
Rebuild ==
    /\ Over("purge")
    /\ step' = "seed" /\ left' = Seeds
    /\ active' = [i \in Ids |->
                    IF i \notin Live THEN NoBase
                    ELSE [spot |-> world[i].spot, tier |-> world[i].tier,
                          clock |-> world[i].clock]]
    /\ pending' = saved
    /\ UNCHANGED <<world, saved, todo, promised>>

Booted ==
    /\ Over("seed")
    /\ step' = "idle"
    /\ UNCHANGED <<world, active, pending, saved, left, todo, promised>>

-----------------------------------------------------------------------------
(* _placement_valid against the bases the spawner tracks. *)
Vacant(s) == \A i \in Tracked : active[i].spot # s

(* spawn_base at a place it found: the Sentinel row comes first, the stamp *)
(* and the tracking after the buildings and guards.  The row's id is a     *)
(* free one; BasesApart leaves one free when there is a place.             *)
Settle(p, t, again) ==
    \E s \in Spots, i \in Ids \ Live :
        /\ SpotPlanet[s] = p /\ Vacant(s)
        /\ \A j \in Ids \ Live : i <= j
        /\ world' = [world EXCEPT ![i] =
             [spot |-> s, tier |-> t, clock |-> Pristine, stamped |-> FALSE]]
        /\ todo' = <<[op |-> "stamp", base |-> i, again |-> again]>>

(* The next write is an op. *)
Doing(op) == todo # <<>> /\ Head(todo).op = op

Stamp ==
    /\ Doing("stamp")
    /\ LET i == Head(todo).base
           pt == <<PlanetOf(world[i]), world[i].tier>>
       IN /\ world' = [world EXCEPT ![i].stamped = TRUE]
          /\ active' = [active EXCEPT ![i] =
               [spot |-> world[i].spot, tier |-> world[i].tier, clock |-> Pristine]]
          /\ promised' = IF Head(todo).again /\ promised[pt] > 0
                         THEN [promised EXCEPT ![pt] = @ - 1] ELSE promised
    /\ todo' = Tail(todo)
    /\ UNCHANGED <<pending, saved, step, left>>

(* spawn_base in the place of a wiped base: a place is drawn at random, so *)
(* none may be found, and then nothing is spawned.                         *)
Spawn ==
    /\ Doing("spawn")
    /\ \/ Settle(Head(todo).planet, Head(todo).tier, FALSE)
       \/ todo' = <<>> /\ UNCHANGED world
    /\ UNCHANGED <<active, pending, saved, step, left, promised>>

(* spawn_base from the seeding. *)
SeedOne(x) ==
    /\ At("seed") /\ x \in left
    /\ left' = left \ {x}
    /\ \/ Settle(x[1], x[2], FALSE)
       \/ UNCHANGED <<world, todo>>
    /\ UNCHANGED <<active, pending, saved, step, promised>>

(* Mutant: the schedule is saved while the base is still to be placed.     *)
RespawnSavedEarly(p, t) ==
    /\ At("respawn") /\ pending[<<p, t, 0>>] > 0
    /\ LET taken == [pending EXCEPT ![<<p, t, 0>>] = @ - 1]
       IN \/ Settle(p, t, TRUE) /\ pending' = taken /\ saved' = taken
          \/ /\ pending' = [taken EXCEPT ![<<p, t, Backoff>>] = @ + 1]
             /\ UNCHANGED <<world, saved, todo>>
    /\ UNCHANGED <<active, step, left, promised>>

(* One turn of process_respawns: an entry that is due goes, and comes back *)
(* with the backoff when no place was found.                               *)
Respawn(p, t) ==
    /\ At("respawn") /\ pending[<<p, t, 0>>] > 0
    /\ LET taken == [pending EXCEPT ![<<p, t, 0>>] = @ - 1]
       IN \/ Settle(p, t, TRUE) /\ pending' = taken
          \/ /\ pending' = [taken EXCEPT ![<<p, t, Backoff>>] = @ + 1]
             /\ UNCHANGED <<world, todo>>
    /\ UNCHANGED <<active, saved, step, left, promised>>

Untrack ==
    /\ Doing("untrack")
    /\ active' = [active EXCEPT ![Head(todo).base] = NoBase]
    /\ todo' = Tail(todo)
    /\ UNCHANGED <<world, pending, saved, step, left, promised>>

Delete ==
    /\ Doing("delete")
    /\ world' = [world EXCEPT ![Head(todo).base] = NoBase]
    /\ todo' = Tail(todo)
    /\ UNCHANGED <<active, pending, saved, step, left, promised>>

(* on_base_eliminated, after it untracked the base by the payload's id. *)
Schedule ==
    /\ Doing("schedule")
    /\ pending' = [pending EXCEPT
                     ![<<Head(todo).planet, Head(todo).tier, RespawnTicks>>] = @ + 1]
    /\ todo' = Tail(todo)
    /\ UNCHANGED <<world, active, saved, step, left, promised>>

(* _save_state. *)
SaveState ==
    /\ Doing("save")
    /\ saved' = pending
    /\ promised' = [pt \in Planets \X Tiers |-> Waiting(pending, pt[1], pt[2])]
    /\ todo' = Tail(todo)
    /\ UNCHANGED <<world, active, pending, step, left>>

Writing == Stamp \/ Spawn \/ Untrack \/ Delete \/ Schedule \/ SaveState

-----------------------------------------------------------------------------
(* Combat runs from commands and in the tick, before the spawner's steps. *)
Fighting == step \in {"idle", "combat"} /\ todo = <<>>

(* on_combat_action: the first damage to a building or a guard starts the  *)
(* clock, in memory and on the row.                                        *)
Hit(i) ==
    /\ Fighting /\ i \in Live \cap Tracked
    /\ active[i].clock = Pristine
    /\ active' = [active EXCEPT ![i].clock = StaleTicks]
    /\ world' = [world EXCEPT ![i].clock = StaleTicks]
    /\ UNCHANGED <<pending, saved, step, left, todo, promised>>

(* Mutant: the deleted Sentinel's id no longer matches what is tracked.    *)
EliminationUnmatched(i) ==
    <<[op |-> "delete", base |-> i],
      [op |-> "schedule", planet |-> PlanetOf(world[i]), tier |-> world[i].tier],
      Save>>

(* The headquarters falls: _eliminate_base deletes the base, then its      *)
(* announcement has the spawner untrack it and schedule the next one.      *)
Elimination(i) ==
    <<[op |-> "delete", base |-> i], [op |-> "untrack", base |-> i],
      [op |-> "schedule", planet |-> PlanetOf(world[i]), tier |-> world[i].tier],
      Save>>

HqFalls(i) ==
    /\ Fighting /\ i \in Live
    /\ AllWaiting < MaxWaiting
    /\ todo' = Elimination(i)
    /\ UNCHANGED <<world, active, pending, saved, step, left, promised>>

(* The map readout refreshes an overdue base in its reader's sight. *)
MapRefresh(i) ==
    /\ Idle /\ i \in Tracked /\ active[i].clock = 0
    /\ step' = "refresh" /\ left' = {i}
    /\ UNCHANGED <<world, active, pending, saved, todo, promised>>

(* wipe_bases_in_area, for an administrator clearing a region: no respawn. *)
ClearArea(S) ==
    /\ Idle
    /\ left' = {i \in Tracked : active[i].spot \in S} /\ left' # {}
    /\ step' = "area"
    /\ UNCHANGED <<world, active, pending, saved, todo, promised>>

(* A turn of a loop that wipes, of purge_outdated_bases too.               *)
WipeOne(i) ==
    /\ At("purge") \/ At("area")
    /\ i \in left /\ left' = left \ {i}
    /\ todo' = Wipe(i)
    /\ UNCHANGED <<world, active, pending, saved, step, promised>>

(* A turn of one that renews. *)
RenewOne(i) ==
    /\ At("refresh") \/ At("stale")
    /\ i \in left /\ left' = left \ {i}
    /\ todo' = Renew(i)
    /\ UNCHANGED <<world, active, pending, saved, step, promised>>

(* Both commands save the schedule at their end. *)
Cleared ==
    /\ Over("area") \/ Over("refresh")
    /\ step' = "idle" /\ todo' = <<Save>>
    /\ UNCHANGED <<world, active, pending, saved, left, promised>>

-----------------------------------------------------------------------------
(* A tick: the count goes up, combat, then the two steps of the spawner.   *)
(* Mutant: the deadline is not the end of it.                              *)
DownBelowZero(n) == n - 1

Down(n) == IF n = 0 THEN 0 ELSE n - 1

Ran(b) == IF b = NoBase \/ b.clock = Pristine THEN b ELSE [b EXCEPT !.clock = Down(@)]

Aged(schedule) ==
    [k \in Slots |->
        LET at(n) == IF n \in 0..RespawnTicks THEN schedule[<<k[1], k[2], n>>] ELSE 0
        IN at(k[3] + 1) + IF k[3] = 0 THEN at(0) ELSE 0]

BeginTick ==
    /\ Idle
    /\ step' = "combat"
    /\ world' = [i \in Ids |-> Ran(world[i])]
    /\ active' = [i \in Ids |-> Ran(active[i])]
    /\ pending' = Aged(pending) /\ saved' = Aged(saved)
    /\ UNCHANGED <<left, todo, promised>>

(* process_respawns: every entry whose cooldown is over, then the schedule *)
(* is saved; without one, nothing.                                         *)
Due == \E p \in Planets, t \in Tiers : pending[<<p, t, 0>>] > 0

RespawnStep ==
    /\ At("combat")
    /\ step' = IF Due THEN "respawn" ELSE "respawned"
    /\ UNCHANGED <<world, active, pending, saved, left, todo, promised>>

RespawnsDone ==
    /\ At("respawn") /\ ~Due
    /\ step' = "respawned" /\ todo' = <<Save>>
    /\ UNCHANGED <<world, active, pending, saved, left, promised>>

(* process_stale: every disturbed base past its deadline is wiped and      *)
(* spawned anew.  The schedule it saves at the end is unchanged.           *)
Overdue == {i \in Tracked : active[i].clock = 0}

StaleStep ==
    /\ At("respawned")
    /\ step' = "stale" /\ left' = Overdue
    /\ UNCHANGED <<world, active, pending, saved, todo, promised>>

EndTick ==
    /\ Over("stale")
    /\ step' = "idle"
    /\ UNCHANGED <<world, active, pending, saved, left, todo, promised>>

(* The process dies, or the server is restarted. *)
Stop ==
    /\ step # "down"
    /\ step' = "down" /\ left' = {} /\ todo' = <<>>
    /\ active' = [i \in Ids |-> NoBase]
    /\ pending' = [k \in Slots |-> 0]
    /\ UNCHANGED <<world, saved, promised>>

Tick ==
    \/ BeginTick \/ RespawnStep \/ RespawnsDone \/ StaleStep \/ EndTick
    \/ \E p \in Planets, t \in Tiers : Respawn(p, t)

Running ==
    \/ Boot \/ Rebuild \/ Booted \/ Writing \/ Tick \/ Cleared
    \/ \E x \in left : SeedOne(x)
    \/ \E i \in Ids : Hit(i) \/ HqFalls(i) \/ MapRefresh(i) \/ WipeOne(i) \/ RenewOne(i)
    \/ \E p \in Planets : \E S \in SUBSET {s \in Spots : SpotPlanet[s] = p} : ClearArea(S)

Next == Running \/ Stop

Spec == Init /\ [][Next]_vars

(* The same with orderly restarts only: the server stops between handlers. *)
Orderly == Init /\ [][Running \/ (Idle /\ Stop)]_vars

-----------------------------------------------------------------------------
(* What the spawner tracks is what stands in the world, record for record: *)
(* no phantom base is listed after an elimination, a wipe, a refresh or a  *)
(* restart, and no standing base is forgotten.  (on_base_eliminated,       *)
(* rebuild_from_world, forget_dead_bases)                                  *)
TrackingIsTrue ==
    Idle => \A i \in Ids :
        IF i \in Live
        THEN i \in Tracked /\ world[i].stamped /\ active[i].spot = world[i].spot
             /\ active[i].tier = world[i].tier /\ active[i].clock = world[i].clock
        ELSE i \notin Tracked

(* Two bases never stand too close, whatever respawns and restarts happen  *)
(* between their spawns.  (_placement_valid over the rebuilt _active_bases) *)
BasesApart == \A i, j \in Live : i # j => world[i].spot # world[j].spot

(* A respawn the rooms hold is kept until its base stands: wherever the    *)
(* process dies, the copy never holds fewer than are still owed.  (Req     *)
(* 7.6, _save_state after process_respawns)                                *)
RespawnsKept ==
    \A p \in Planets, t \in Tiers : Waiting(saved, p, t) >= promised[<<p, t>>]

(* The clock of a disturbed base only runs down: neither a later hit nor a *)
(* restart gives a half-raided base its time back.  (on_combat_action,     *)
(* "a crash can't reset the 24h refresh timer" in rebuild_from_world)      *)
ClockOnlyRuns ==
    [][\A i \in Ids :
        i \in Live /\ i \in Live' /\ world[i].clock # Pristine =>
            world'[i].clock # Pristine /\ world'[i].clock <= world[i].clock]_vars

(* A restart seeds "without stacking duplicate bases", and "a base cleared *)
(* just before the restart still respawns": standing and scheduled bases   *)
(* never exceed what is seeded.  (game_init, 7c)                           *)
NoStacking ==
    Idle => \A p \in Planets, t \in Tiers :
        Waiting(pending, p, t)
          + Cardinality({i \in Live : PlanetOf(world[i]) = p /\ world[i].tier = t})
            <= SpawnCount[t]
=============================================================================
