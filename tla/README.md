# ProjectV in TLA+

Specifications of the game server in `mygame/`: TLA+ modules translated from the
source, TLC configurations that check them on small instances, and TLAPS proofs.
Paths below are relative to `src/mygame/`; Evennia (`src/evennia/`) is the
framework underneath, taken for what the game uses of it.

## 1. The system

One process, one thread. Twisted calls player commands, connection hooks and the
ticker (`GameTickScript.at_repeat`, one call a second); each runs to completion.
Attributes of game objects (`obj.db.x`) persist when they are assigned, one at a
time; attributes of system objects are memory and are rebuilt at startup by
`server/conf/game_init.py`. The event bus is synchronous: a handler runs inside
the publisher's call. What can interfere is therefore

* a **crash** between any two attribute writes, and the rebuild after it;
* **reentrancy**: a hook or an event handler that changes what the caller is
  walking over;
* **ordering** over several calls: what one command checked may be gone when a
  later tick uses it; what one step of a tick does the next step sees;
* **connection**: sockets drop, come back or quit at any time between calls.

| Component | State | Operations | Talks to | Hard part | Module |
|---|---|---|---|---|---|
| Vector operations, `world/systems/operation_contract.py` | records in memory and in the owner's attribute, cooldowns, escalations | request, enter Pending, advance per tick, suspend, resume, cancel, expire, resolve, rebuild | Branch services, vector hooks, combat and building events | hooks that re-enter the driver; batched writes; crash inside an effect | `VectorOperations`, `OperationLifecycle` |
| Player lifecycle, `world/player_lifecycle.py`, `typeclasses/characters.py`, `commands/lifecycle_commands.py` | state, coordinates, location, class, spawn choice, timers | login, drop, quit, class, spawn, deploy, death, expiry | combat, room index | hooks of a connection against ticks of combat | `PlayerPresence` |
| Combat on players, `combat_engine.py`, `guard_combat_system.py`, `targeting_system.py`, `combat_timer.py` | queued fire, locks, burns | guard and turret fire, shots, locks, effects | lifecycle | fire queued on one tick, resolved on another | `PlayerPresence` (part) |
| Branches, `branch_system.py`, with `tech_system.py` and `building_system.py` | labs, research record, bonuses, abandoned bit, pending set, roles, research queue | build, upgrade, finish, demolish, lose, research, reinstate, assign, log in | each other, by calls and events | a commitment that is derived, and records that follow it by triggers | `BranchCommitment` |
| NPC bases, `outpost_spawner.py`, `base_elimination.py` | rows, tracking, schedule and its copy, staleness clocks | seed, hit, eliminate, respawn, refresh, clear, rebuild | combat, map editing, startup | memory, rows and the copied schedule kept in step | `NpcBases` |
| Alliances, `alliance_system.py`, `AllianceRegistry` | rosters, treasury, pointers on characters | found, join, leave, kick, rank, claim, delete, deposit, withdraw, reconcile | characters | membership written twice, an attribute at a time | `Alliances` |
| Bombs, `bomb_system.py` | fuses and the countdown list in memory, placed bombs as objects | set, deploy, tick, disarm, detonate, wipe, rebuild | supply bag, combat | blast against disarm in one tick; restart in a deployment or a blast | `Bombs` |
| Agents, `agent_system.py`, `agent_progression.py` | posts and their agents, training and its cache, IDs, the bench | train, complete, post, release, bench, destroy | buildings, ranks | one bond stored at both ends; IDs issued before they are counted | `AgentRoster`; Branch roles in `BranchCommitment` |
| Resources on the way, `equipment_storage.py`, `building_storage.py`, `equipment_system.py`, `objects.py`, `agent_scripts.py` | drops, purse, store, recovery stash, harvester's bag, its delivery state | produce, pick up, deposit, withdraw, deliver, die, collect, raze | tiles, buildings | quantities moved attribute by attribute under caps; a loop with a state of its own | `SupplyChain` |
| Definitions, `data_registry.py`, `world/admin/` | definition tables, overlay, level curve | start, reload, override, roll back | everything that holds a definition | files edited while they are read; a write that has to be undone | `Definitions`, `AtomicDefinitions` |
| Directives, powerups, shields | counters of one player | award, spend | — | little: one call each | not modelled |
| Coordinates, fog, terrain, rendering | pure functions, bitfields | | | data | not modelled |
| Notifications, status line, parsing | none of interest | | | wording | not modelled |

What makes each component correct, in a sentence: an **operation** is charged
once, given its whole warning, applied once and ended for good; a **player** in
the field has a body there and cannot leave a fight by pulling the plug; a
**planet** has one doctrine and debts are neither forgotten nor invented; the
**spawner** knows exactly the bases that stand, keeps them apart and owes none;
an **alliance** lists exactly living members with their rank and neither creates
nor loses resources; a **bomb** that was placed goes off or is disarmed, once, and
costs its unit; an **agent** and its post agree about each other, and no two
agents ever have one ID; a unit of a **resource** is in one place;
**definitions** change as a whole or not at all. `PROJECT.json` lists the hazards at their lines with the
properties aimed at each.

## 2. The modules

Conventions. A variable `todo` (in `BranchCommitment` and the modules after
it, `Definitions` excepted) holds what is left of the running handler, one entry
per attribute write, so that a crash may fall between any two; a new handler
starts only when it is empty. Loops of a handler keep what they have still to
visit in a variable of their own (`left`, `round`). History variables are
marked as such and guard nothing but bounds. Mutants, marked "Mutant", are
operators used nowhere: each is the named bug that shows a property bites.

**`OperationLifecycle`**: the promise. The durable phase of an operation moves
along the lifecycle; a terminal phase is final; `resolved` needs an applied effect.

**`VectorOperations`**: the driver. `Request` is `request`..`_accept` up to the
charge, `EnterPending`/`EnterFailed` its end, with a crash allowed between;
`TickBegin`, `Advance*`, `TickEnd` are `advance_all`, one record at a time in any
order, in the code's order of tests (settled, raising, fatal, pause, resume,
lifetime, clock); `AdvanceEffect` enters `on_resolve`, during which the world's
events (`CarrierKilled`, `BuildingDestroyed`, `LabDestroyed`, `BaseEliminated`)
and further requests may run, and `Resolve`/`ResolveRetried` leave it; `Rebuild` is
`rebuild_from_world`. `mem` is the record object, `store` the persisted entry. The
history `fuse` keeps the window a vector chose in `EnterPending`, so that what was
worked is measured against that very choice after any suspension or rebuild.
No vector is registered in production; the vector's own hooks are modelled by
what the contract lets them do.

**`PlayerPresence`**: one record per player. Every edge of
`PLAYER_STATE_TRANSITIONS` is taken by the hook that takes it in the code:
`Login` (`at_post_puppet`), `Disconnect`, `QuitField`, `QuitFieldInCombat`,
`QuitStaging`, `ChooseClass`, `ChooseSpawn`, `Deploy`, `DeployFails`, death inside
`Struck`, `ExpiryStep`. A tick is `BeginTick` and then its steps in
`TICK_STEP_ORDER` (`GuardStep`, `ResolveOne` per queued shot, `TurretStep`,
`EffectStep`, `ExpiryStep`). `Crash` loses the queue and the sessions, `Reload` is
a reload that keeps sessions. Left out: ammunition, armor, shields,
aggression and ranks, attacks on buildings, regeneration rates; line of sight and
hostility are left open (any shot the range allows may or may not be taken).
Timers are what is left of them, so a monotonic clock that restarts with the host
is not covered. Guards and the turret belong to NPCs.

**`BranchCommitment`**: one player. Commitment is derived from the labs
(`Committed`), never stored. Building actions are `building_system.py` with the
gates of R3/R4; completions, demolitions and losses run the Branch handlers
(`Mark`, `Seed`, `Unmark`, `Lapse`, `Clear`, `Refill` are their writes); research
is `StartResearch`, `ResearchTick`, `Finish`. Prices, ranks and terrain are left
out, so a command that passes the modelled gates may be afforded.

**`NpcBases`**: rows, tracking and schedule. `step` is the handler or tick step
under way, `left` what its loop has still to visit. `Boot`, `WipeOne`, `Rebuild`,
`SeedOne`, `Booted` are startup in its order; `Hit`, `HqFalls`, `MapRefresh`,
`ClearArea` are what players and administrators do; `RespawnStep`, `Respawn`,
`RespawnsDone` and `StaleStep`, `RenewOne` the tick. A spot
stands for an area within the separation distance. Buildings and guards follow
their Sentinel; the administrator's spawn of one base is left out, and so is a
base whose Sentinel a crash deleted before its headquarters.

**`Alliances`**: rosters, pointers, treasury. A command that passed its checks
leaves its writes in `todo` (`Command`), and each is a step (`WriteRoster`,
`WriteAlly`, `WritePurse`...). What the code does in a loop is one entry of `todo`
that takes a round at a time: `PayShare` for each member `unpaid` by the split of
a treasury, `Release` for each player a disband sends away, `DemoteRival` for each
surplus leader a reconcile finds, before `Enroll` writes the record anew. `due`
holds the records a restart or a deletion has still to reconcile, `doomed` the
character whose row goes at the end (`Erase`). The order of the lists on a roll is
not kept, only who leads, who is an officer and who a member; where the code takes
the first, any of the first rank may be it (`Foremost`, `Heirs`). How a player was
let in, levels, cooldowns, how long a leader has been away and the officers'
withdrawal allowance are left open. Resources are of one kind.

**`Bombs`**: the fuse queue of a player, the placed objects, the list of live
ones. `SetFuse`, `Deploy`, `Disarm` are the commands; a tick is `BeginTick` and
one `TickOne` (or `TickRaises`, which the loop survives) per bomb; a deployment that
raises (`PlacingFails`) leaves its object untracked and nothing paid; `Detonation` and
`Hit` are the blast, a victim at a time; `Crash` includes the rebuild. Bodies stand for all a
blast can reach; damage, ranks and a grenade's flight are left open.

**`AgentRoster`**: one player's agents. `Train`, `AdminCreate`, `Post`, `Enlist`,
`Unassign`, `LosePost`, `ChangeRank`, `AdminDestroy`, `AdminClearTraining` push
their writes; the tick walks the training cache by position (`Visit`), which a
completion shortens under it. `CreateRaises` is a creation that fails inside a
completion. A slot and a target are the two ends of a bond.

**`SupplyChain`**: one resource. `Produce`, `Get`, `Deposit`, `Withdraw`, `Die`,
`Collect`, `Raze` move units; `Assign`, `Unassign`, `Stop`, `Converge`, `Arrive`,
`TryPickUp`, `StartDelivery`, `HandOver`, `ArriveBack` are the harvester's loop.
Whether a tile is full and whether a path exists is left open.

**`AtomicDefinitions`** is the promise and **`Definitions`** the code: `Start`,
`Reload`, `Mutate` begin a load, `Read` reads one document in the order of
`load_all`, `Done`, `Refuse`, `Trip` end it, `Rollback` undoes a refused override.
`Edit` is the operator, who may save a file between any two reads. A document is a
pair: the overridable field of one definition (or `NoEntry`, when the operator has
removed that definition) and the rest. `Merged` is `merge_into`: an override changes
the field only, the rest of the document stays the operator's, and without the
definition the override is not applied and the load goes on. Any document may be
refused or raise (`Refused`, `Trips`), by what the override and the rest say together;
`Populated`, `PopulatedPart` are what a failed start leaves in force. The two ways
the code falls short of "all or nothing" (a start that fails, an optional catalog
of the wrong shape) are actions of the promise, so that everything else is held
to it; the findings tell of both.

**`Tallies`**: what the numbers of a table add up to, as the size of a set, for
`NpcBases`, `Alliances` and `SupplyChain`.

## 3. What the runs check

All passing runs are exhaustive. Counts are distinct states.

| Run | Instance | States | Shows |
|---|---|---|---|
| `vector_ops` | 2 operations, one player, origin and carrier; fuses 1 and 3 around a warning floor of 2, no lifetimes, one fault | 1.6 M | storage and memory agree at every point (`StateDurable`), ended is ended (`EndedForGood`), charge or refund (`WholeOrNone`), the chosen fuse and, for a hostile operation, the floor are served before the effect (`WindowServed`), one effect (`EffectOnce`), nothing dormant acts (`OnlyAbleOperationsAct`), the lifecycle is implemented (`ImplementsLifecycle`) |
| `vector_ops_live` | 2 operations of an NPC, neutral origin, cap 1, lifetimes and two fuses | 0.3 M | the cap counts every live operation (`InFlightCapped`); every placed one ends or is paused (`PlacedOperationsSettle`) |
| `player_presence` | 2 players, 3 tiles: turret, closed building, open ground | 2.0 M | a player in the field is there (`InFieldIsReal`); a fighter leaves the field only by dying or waiting (`AntiCombatLog`) |
| `player_presence_live` | 2 tiles, grace 2 | 0.5 M | a dropped player gets the whole grace (`FullGrace`) and then goes (`LinkdeadEnds`) |
| `branch_commitment` | 3 sites on 2 planets, 2 Branches, 1 technology, 1 agent | 1.6 M | one doctrine per planet, debts remembered, hostile losses free, no job for nothing |
| `npc_bases` | 2 tiers, 3 spots (symmetric), at most 2 respawns waiting | 0.5 M | tracking equals the world, bases apart, respawns kept, clocks only run |
| `alliances` | 3 players (symmetric), 2 alliances, 1 unit of resource | 0.6 M | rosters tell the truth (`RosterTrue`), resources are conserved (`Conserved`) |
| `bombs` | 1 player, a turret, 2 bombs, 3 spots on 2 planets, one fault (a visit or placement that raises, or a crash) | 1.6 M | placed bombs are counted down over restarts (`CountdownKept`), nobody is hit twice (`BlastOnce`), a unit buys a bomb (`UnitForBomb`) |
| `agent_roster` | 3 NPC bodies, 2 posts, 2 Academies, 2 ranks, 2 IDs, one fault | 0.4 M | a post's agent works there (`SlotIsTrue`), IDs are new (`IdsFresh`), training ends (`TrainingEnds`) |
| `supply_chain` | 2 units, 2 stores of one unit, bag 2, two crashes | 1.6 M | between handlers what is held and what was given up make what was produced, give or take what crashes cost; within a handler never more than twice that (`Conserved`) |
| `definitions` | 4 documents; a definition with one of 2 fields or removed, 2 rests (one refused and one of the wrong shape with a field each); 2 edits, one crash | 1.9 M | the promise is implemented, overrides of removed definitions included (`WritesAreAtomic`) |

`SlotIsTrue` excuses an agent whose own assignment a crash cut, `IdsFresh` an ID
whose issue a crash cut, `TrainingEnds` a training whose start it cut, `BlastOnce` a
bomb a failed disarm set off; `Conserved` counts what a crash doubled or lost.
History variables name these, and are set only where the fault happens.

One run finds a documented promise broken: `supply_chain_reassigned`. A harvester
whose delivery is enabled and who is assigned again gets a loop attached and then
its state cleared as "stale state from previous role": the loop never runs
(`AttachedLoopRuns`).

Seven configurations beside the runs reproduce findings; each ends with a
counterexample (`tlc -config X.cfg M`).

| Configuration | Promise | What happens |
|---|---|---|
| `MCVectorOperationsLapse` | losing the lab suspends operations "rather than ending them" | the next poll asks the origin first, for which a lapsed owner's building is not operational, and cancels |
| `MCPlayerPresenceSpawning` | a stowed player "can't be attacked while choosing class + spawn" | fire queued before the death or quit, and locks, still reach the body by its coordinates |
| `MCBranchCommitmentDormant` | a dormant Branch has no effect and no agents | a lab lost in an upgrade is taken for a half-built one; a job applies its effect without asking for its lab |
| `MCNpcBasesStacking` | a restart seeds "without stacking duplicate bases" | a planet whose bases wait for respawn is seeded again |
| `MCAlliancesClaim` | claim demotes the former leader to officer | nobody is demoted: two leaders, one outside the roster |
| `MCAgentRosterBench` | a demotion benches the agents beyond the cap | a second demotion benches the excess of the whole roster again |
| `MCDefinitionsCurve` | the level curve reads the live balance first | at startup it is built before the registry is installed, from the defaults |

The other findings have no configuration of their own: they were met while
translating, and `PROJECT.json` gives each its line and the words it contradicts.

**Bounds and why they suffice.** Two operations are enough for one record's
effect to end, suspend or place another while the pass still holds it, and
symmetry makes them alike; one fault gives a crash at every point and one rebuild
(`MaxFaults`). `worked` is capped at the longest window, where more makes no
difference; of the two fuses one is below the hostile floor and one above it, so that a
pause that gave back the floor in place of what was left would show. Lifetimes run out in
`vector_ops_live`, and the proofs have them everywhere. Two players make an attacker and a target in every state; three tiles
cover in reach, in cover and out of reach; hit points, grace and timers of one or
two reach zero, renewal and the ticks in between. Three sites give two labs on one
planet and one elsewhere. Three spots hold both seeded bases and one duplicate;
`MaxWaiting` = 2 is the number ever seeded, and a spot is as good as another (symmetry). Three players fill every rank of an
alliance, the second alliance receives who left the first; `Wealth` = 1 gives a
whole share to a leader alone and a remainder among several. Two bombs let one be
disarmed, or raise, while the tick still has the other to visit, and two planets
share a tile; a fuse of two has a tick that does not end it. Two Academies make two
training entries in one tick, which one completion shifts; two posts and
three bodies let an agent move to a post another holds; two IDs are issued across a crash.
Stores of capacity one overflow at the second unit. The contents of a document make an
edit seen by one read and missed by the next, an override that spoils or mends what
the operator wrote beside it, and a definition that goes and comes back under its
override; two edits and a write make a
rollback to something no longer on disk. Crashes are unbounded in
`BranchCommitment`, `NpcBases`, `PlayerPresence` and `Alliances`, where after a cut
move of resources another may be cut only while there are no more than `MaxWealth`;
the modules from `Bombs` on bound them by `MaxFaults`, `MaxCrashes`: one falls
everywhere, and the proofs take any number.

**Deadlock** is checked, except where operations are a finite supply
(`VectorOperations`) or every player may be deleted (`MCAlliancesClaim`).

**Fairness.** `VectorOperations`: weak fairness of `TickBegin`, `TickEnd`,
`Rebuild`, each record's `Advance` and the end of an accepted request: the ticker
fires, a call that was entered runs on, a stopped server is restarted. Nobody has
to request, kill, build or crash anything. `PlayerPresence`: weak fairness of the
tick steps and finitely many crashes; nothing is asked of players. Wall clock
deadlines are taken as ticks, one a second. `AgentRoster`: weak fairness of a write
at hand, of the visits and the end of a tick, strong fairness of `BeginTick`, since a
command or a crash may come before any tick, but the ticker fires again and again; nothing is asked of the player.

## 4. What is proved

Eight modules hold theorems, for every value of the constants that meets the
named assumptions of the module concerned (sets of any size, any number of
faults). No theorem rests on recursion or on induction over data. Each module
finds a strengthening (`IInv`; `SupplyInv` for the supply chain), shows it inductive
with one lemma or step per action, and derives the properties from it. The last
module proves two components that share nothing; the names of `SupplyChain` say
`Supply` so that it can stand beside `Definitions`.

| Module | Theorem | States |
|---|---|---|
| `VectorOperations_proofs` | `TypeCorrect`, `Durable`, `Final` | `[]TypeOK`, `[]StateDurable`, `[]EndedForGood` |
| | `Refinement` | `ImplementsLifecycle` |
| | `OneEffect`, `WholeWindow`, `ChargesWhole`, `CapKept` | `[]EffectOnce`, `[]WindowServed`, `[]WholeOrNone`, `[]InFlightCapped` |
| | `AbleOnly` | `OnlyAbleOperationsAct` |
| `PlayerPresence_proofs` | `TypeCorrect`, `FieldIsReal` | `[]TypeOK`, `[]InFieldIsReal` |
| | `NoCombatLog`, `WholeGrace` | `AntiCombatLog`, `FullGrace` |
| `BranchCommitment_proofs` | `TypeCorrect`, `OneDoctrine` | `[]TypeOK`, `[]OneBranchPerPlanet` |
| | `NoDebtForgotten`, `NoDebtInvented`, `JobsWorthTheirPrice` | `[]DebtRemembered`, `[]HostileLossIsFree`, `[]NoJobForNothing` |
| `NpcBases_proofs` | `TypeCorrect`, `NoPhantomBase`, `NoBaseOnAnother` | `[]TypeOK`, `[]TrackingIsTrue`, `[]BasesApart` |
| | `NoTimeBack`, `NoRespawnForgotten` | `ClockOnlyRuns`, `[]RespawnsKept` |
| `Alliances_proofs` | `TypeCorrect`, `RosterAgrees`, `NothingMinted` | `[]TypeOK`, `[]RosterTrue`, `[]Conserved` |
| `Bombs_proofs` | `TypeCorrect`, `NoBombForgotten`, `NoSecondBlast`, `UnitBuysBomb` | `[]TypeOK`, `[]CountdownKept`, `[]BlastOnce`, `[]UnitForBomb` |
| `AgentRoster_proofs` | `TypeCorrect`, `BondIsMutual`, `IdsNeverReused` | `[]TypeOK`, `[]SlotIsTrue`, `[]IdsFresh` |
| `SupplyAndDefinitions_proofs` | `SupplyTypeCorrect`, `SupplyConserved` | `[]SupplyTypeOK`, `[]Conserved` |
| | `TypeCorrect`, `Refinement` | `[]TypeOK`, `WritesAreAtomic` of `Definitions` |

**Vector operations.** `StateDurable` is not inductive: while a hook runs, the
driver holds a record (`cur`), survivors (`kept`) and records still to visit
(`todo`) whose states the hook may change, and a request may be between its charge
and its record. `IInv` adds the position of the thread (`ThreadOK`: the record the
driver is inside of exists, is pending when its clock runs and has its effect
counted) and, per operation, `OpOK`: one not yet placed has left no trace, a
stored one is live, a live one is tracked and, if this pass listed it, still to
be visited or among the survivors, and one that ended is stored nowhere. The
refinement maps the phase to the ended state, or else to the stored one.
The promises are proved from the shapes of a step: every action leaves an
operation as it was up to pause, resume and reload (`Kept`), or is its own request,
clock tick or effect, so that `WindowOK` (what was served and what remains make the
window of the fuse that was chosen), `Applied` (an effect counted is on the way to its end), `Accounts` (what
is owed for the order placed) and `Room` (a counted operation is in flight) each
need a look at a few actions only.

**Player presence.** The invariant speaks of one record at a time (`Sound`): what
the lifecycle state says of class, body, session and deadline; time served and
time left make the grace. Whatever the world does to a player keeps the state or
kills (`Endures`), and only the lifecycle's own hooks do more.

**Branch commitment.** Between two writes the attributes disagree, so none of the
books is inductive alone. `TodoOK` says what the writes to come are about: a Branch
is marked or seeded only after a demolition of its lab, its bit goes right after
the pending set is written and then covers the record, and no job researches what
is about to be recorded. `JobsOK` ties each job to record and pending set.

**NPC bases.** `TrackingIsTrue` is about moments between handlers. `Turn` lists
every tail of writes a handler can have left, each with the one base that may not
match its record meanwhile (untracked and still standing in a wipe, gone and still
tracked in an elimination, standing and not yet tracked in a spawn). `WakesClean` is the
same for the boot: nothing is tracked, and every row without a stamp is still to
be purged. That a place is checked against the tracked bases only is enough,
because a spawn never starts while one of them does not match. `RespawnsKept`
counts: a tick ages the copy on the rooms entry by entry and loses none of them
(`WaitingAged`), and only a base that is stamped settles what is owed, so the copy
never holds fewer than are owed.

**Alliances.** Between two writes nothing agrees, and what a half-done command has
yet to write was fixed when it began. So the invariant does not describe the states
in between: it says that what is left of the command, done to its end, leads
through well-typed states to a good one (`Leads`). `After` is the state a step
comes to, a loop with all its rounds. A write then keeps the invariant by its
definition (`LeadsOn`), whichever command it belongs to, and a round of a loop
because the rounds left come to the same (`PayShareKeeps`, `ReleaseKeeps`,
`DemoteRivalKeeps`). What remains is one lemma per command: that from a good state
its writes lead to a good state (`Reseat` for the roster, `Exchange`, `Emptying`
and `Shared` for the accounts). Every state on the way but those before a move of
resources has its books in order (`Ready`), and that is what a crash needs: it
leaves no command, sound records and even books, or says that it cut a move. After
the restart every record is `due`, so all are good but for those still to be
reconciled, and `Enroll` brings one of them in order at a time. The sums come from
`Tallies`: changing one entry changes the sum by as much (`TallyOne`), giving a
share to each of a set adds share times its size (`TallyGive`), which with
`total = n * (total \div n) + total % n` is all an even split needs. The theorems
ask nothing of the number of players, alliances, units or crashes.

**Bombs.** `Shape` lists what is left of a deployment, a visit or a blast, and what
stays true of the bomb in hand until its next write; every other bomb is counted
down, has hit each body at most once and is paid.

**Agents.** `Shape` again. `Fresh` tells the IDs issued from the counter, which
lags one write behind; `Pointed` says a slot never points at somebody who is gone
or works elsewhere, which holds because a release clears the slot first and a
posting writes it last; `Holding` is the way back.

**Supply chain.** `Conserved` speaks of moments between handlers, and of the worst
moment within one; what lies between is the list of writes left. `Underway` gives
every list its shape (`Getting3` to `Getting1`, `Moving2`, `Handing4`, `Filling`
and so on), what it still knows of the state (a deposit of `n` fits its store, the
load handed over is the sum of what is stored and what is spilled) and, by
`Due(n)`, how many units are still to be booked, or counted twice if `n` is
negative, and then no more than there were. Each write of a shape leads to the
next, or to `Resting`, where only quiet writes are left and nothing is due. A
crash takes the shape away and moves what was due into `slip`; `Due` bounds that,
which is why one crash at most doubles what the books show, and the next count
starts from where it left. That writes are absolute (`purse`, `stash`, `load`,
`hand`) or relative (`add`, `pool`, `ground`) matters only for which numbers a
shape has to remember.

**Definitions.** A load that has come so far knows that the overrides are in what
it read, wherever their definition was there to be read, that the checks that were due have passed and that a write changed one
entry of the overlay. Then `Done` swaps in an accepted snapshot, and a rollback
restores the overlay of the definitions still in force.

TLC agrees that each `IInv` holds on the run's instance (`Leads`, which speaks of
the steps left, by carrying them out). Every invariant, action property and
refinement a passing run checks is a theorem. Only model-checked is liveness
(`PlacedOperationsSettle`, `LinkdeadEnds`, `TrainingEnds`), which needs fairness
and ENABLED.

## 5. Plan and what is left out

Done, in this order: operations with their lifecycle, presence, Branches, NPC
bases, alliances, bombs, agents, the supply chain, definitions, and the proofs
above. What would come next: invitations and requests of alliances; gear and
crafting in the style of `SupplyChain`, with several resources; the harvester's
loop as a refinement of "a load is handed over once"; patrols and engineers.

### Not modelled

* **Coordinates, fog, terrain, pathfinding, rendering**: pure functions of data;
  where a property needs them (reach, separation, tiles) they are constants.
* **Directives, powerups, shields**: bookkeeping of one player inside one
  call, which a unit test reaches.
* **Damage, armor, ammunition, loot, costs and XP**: arithmetic that no property
  here tells apart; where it decides something (a hit that kills, a command that
  may be afforded) the choice is left open.
* **Notifications, status line, command parsing**: wording and dispatch; the guards
  of commands are in the actions.
* **Evennia**: assumed to do what the game relies on: one thread, attributes that
  persist when they are assigned, hooks in their order.
