---------------------------- MODULE PlayerPresence ----------------------------
(***************************************************************************)
(* Where a player is while the game shoots at them: the lifecycle machine  *)
(* of world/player_lifecycle.py (spawning, lobby, playing, linkdead), the  *)
(* login, disconnect, quit and deploy hooks that drive it, and the part of *)
(* the combat engine that can reach a player: automated fire queued on one *)
(* tick and resolved on another, a player's own instant shots, held locks  *)
(* and burns.  The server is single threaded: commands run between ticks,  *)
(* the steps of a tick run in TICK_STEP_ORDER, and a crash may cut in      *)
(* anywhere.                                                               *)
(*                                                                         *)
(* Positions are tiles of a line; a closed building stands on the tiles of *)
(* Cover.  Times are kept as what is left of them: `fight' is              *)
(* combat_timer_expires - tick, `grace' is linkdead_until - now.           *)
(***************************************************************************)
EXTENDS Integers, Sequences, FiniteSets

CONSTANTS
    Players,      \* player characters, each with an account of its own
    None,         \* no player
    Armed,        \* the players with a melee and a ranged weapon equipped
    Tiles,        \* positions, a set of integers; distance is the difference
    Cover,        \* the tiles inside a closed building
    TurretTile,   \* where the one turret stands
    GuardTiles,   \* where the one base guard may be: its home and leash
    Radius,       \* turret_radius, guard_ranged_range and weapon range alike
    MaxHp,        \* hp_max, in hits
    BurnTicks,    \* fire_burn_ticks
    Duration,     \* COMBAT_TIMER_DURATION, in ticks
    Grace         \* linkdead_grace_seconds, in ticks

ASSUME PresenceAssumption ==
    /\ Tiles \subseteq Int /\ Cover \subseteq Tiles
    /\ TurretTile \in Tiles /\ GuardTiles \subseteq Tiles
    /\ {MaxHp, Duration, Grace} \subseteq Nat \ {0}
    /\ {Radius, BurnTicks} \subseteq Nat
    /\ None \notin Players /\ Armed \subseteq Players

VARIABLES
    pl,       \* each player's persisted attributes and session
    pending,  \* CombatEngine.pending_actions: fire waiting for a tick
    batch,    \* resolve_tick's snapshot, not yet resolved
    stage     \* the tick step that runs next, "idle" between ticks

vars == <<pl, pending, batch, stage>>

-----------------------------------------------------------------------------
States == {"none", "SPAWNING", "LOBBY", "PLAYING", "LINKDEAD"}
Stages == {"idle", "guards", "resolve", "effects", "expiry"}

(* puppeted: an account holds the character.  located: it has a location   *)
(* and an entry in the room's coordinate index; tile is coord_x/coord_y,   *)
(* which survives stowing.  class, choice: the class, the spawn point have  *)
(* been picked.  away is a history variable: ticks since the connection    *)
(* dropped.                                                                *)
PlayerRecord ==
    [state: States, puppeted: BOOLEAN, located: BOOLEAN, tile: Tiles,
     hp: 0..MaxHp, burn: 0..BurnTicks, class: BOOLEAN, choice: BOOLEAN,
     fight: 0..Duration, grace: 0..Grace, away: 0..Grace,
     lock: Players \cup {None}, ready: BOOLEAN]

(* One queued attack: who it is aimed at, from which tile, melee or not.   *)
Shot == [target: Players, from: Tiles, melee: BOOLEAN]

(* player_is_present: what turret and guard targeting may see. *)
Present(r) ==
    /\ r.located
    /\ r.state = "LINKDEAD" \/ (r.puppeted /\ r.state \in {"none", "PLAYING"})

(* player_is_sheltered: inside a closed building, and still in a room. *)
Sheltered(r) == r.located /\ r.tile \in Cover

Near(x, y) == x - y \in -Radius..Radius

(* player_in_combat. *)
InCombat(r) == r.fight > 0

(* require_in_game, and a session to type the command from. *)
InGame(r) == r.puppeted /\ r.state = "PLAYING"

(* transition: the declared edges of PLAYER_STATE_TRANSITIONS. *)
Edges ==
    {<<"SPAWNING", "LOBBY">>, <<"LOBBY", "PLAYING">>, <<"LOBBY", "SPAWNING">>,
     <<"PLAYING", "LOBBY">>, <<"PLAYING", "SPAWNING">>, <<"PLAYING", "LINKDEAD">>,
     <<"LINKDEAD", "PLAYING">>, <<"LINKDEAD", "SPAWNING">>, <<"LINKDEAD", "LOBBY">>}

Transition(r, s) ==
    IF r.state = "none" \/ <<r.state, s>> \in Edges THEN [r EXCEPT !.state = s] ELSE r

(* stow_from_world: out of the room and its index; coordinates stay. *)
Stow(r) == [r EXCEPT !.located = FALSE]

(* clear_lock. *)
Unlock(r) == [r EXCEPT !.lock = None, !.ready = FALSE]

(* move_entity: new coordinates, and at_coord_change drops a held lock. *)
MoveTo(r, x) == [Unlock(r) EXCEPT !.tile = x, !.located = TRUE]

-----------------------------------------------------------------------------
(* Death: HP and debuffs reset, then _route_player_death: record_death     *)
(* clears class and choice and routes to SPAWNING, stow_from_world.        *)
RecordDeath(r) == Transition([r EXCEPT !.class = FALSE, !.choice = FALSE], "SPAWNING")

Defeat(r) == Stow(RecordDeath([r EXCEPT !.hp = MaxHp, !.burn = 0]))

(* Mutant: damage that forgets the zero-HP route. *)
HurtPastZero(r) == [r EXCEPT !.hp = @ - 1]

(* _apply_damage and the zero-HP route behind it. *)
Hurt(r) == IF r.hp <= 1 THEN Defeat(r) ELSE [r EXCEPT !.hp = @ - 1]

(* _finalize_hit on a player: combat timer, burn of a fire weapon, death. *)
Struck(r, fire) ==
    Hurt([r EXCEPT !.fight = Duration, !.burn = IF fire THEN BurnTicks ELSE @])

Engaged(r) == [r EXCEPT !.fight = Duration]

(* _advance_spawning / finish_spawning: class first, then the spawn point. *)
Advance(r) ==
    IF r.state = "SPAWNING" /\ r.class /\ r.choice
    THEN Transition(r, "LOBBY") ELSE r

-----------------------------------------------------------------------------
TypeOK ==
    /\ pl \in [Players -> PlayerRecord]
    /\ pending \in Seq(Shot) /\ batch \in Seq(Shot)
    /\ stage \in Stages

(* Characters just created: no lifecycle state, on no planet yet. *)
Init ==
    /\ \E spot \in Tiles :
         pl = [p \in Players |->
                 [state |-> "none", puppeted |-> FALSE, located |-> FALSE,
                  tile |-> spot, hp |-> MaxHp, burn |-> 0, class |-> FALSE,
                  choice |-> FALSE, fight |-> 0, grace |-> 0, away |-> 0,
                  lock |-> None, ready |-> FALSE]]
    /\ pending = <<>> /\ batch = <<>>
    /\ stage = "idle"

(* A command or a connection event of player p: it runs between ticks. *)
Command(p, r) ==
    /\ stage = "idle"
    /\ pl' = [pl EXCEPT ![p] = r]
    /\ UNCHANGED <<pending, batch, stage>>

(* route_on_login, and the stow of a staging player. *)
Routed(r) ==
    CASE r.state \in {"none", "SPAWNING"}   -> Advance(Stow(Transition(r, "SPAWNING")))
      [] r.state \in {"PLAYING", "LINKDEAD"} -> Transition([r EXCEPT !.grace = 0], "PLAYING")
      [] r.state = "LOBBY"                   -> r

(* Puppet: at_pre_puppet puts the character back into its last room, then  *)
(* at_post_puppet routes it.                                               *)
Login(p) ==
    /\ ~pl[p].puppeted
    /\ Command(p, Routed([pl[p] EXCEPT !.puppeted = TRUE, !.located = TRUE]))

(* Mutant: a deadline already written is kept. *)
BeginLinkdeadStale(r) ==
    Transition([r EXCEPT !.grace = IF @ > 0 THEN @ ELSE Grace, !.away = 0], "LINKDEAD")

(* begin_linkdead. *)
BeginLinkdead(r) == Transition([r EXCEPT !.grace = Grace, !.away = 0], "LINKDEAD")

(* Mutant: every unpuppet takes the body off the grid. *)
UnpuppetedStows(r, clean) ==
    LET out == [r EXCEPT !.puppeted = FALSE]
    IN  Stow(IF r.state # "PLAYING" THEN out
             ELSE IF clean THEN Transition(out, "LOBBY") ELSE BeginLinkdead(out))

(* at_post_unpuppet: a clean quit or a staging player is stowed away; a    *)
(* dropped connection leaves the character standing, linkdead.             *)
Unpuppeted(r, clean) ==
    LET out == [r EXCEPT !.puppeted = FALSE]
    IN  IF r.state # "PLAYING" THEN Stow(out)
        ELSE IF clean THEN Stow(Transition(out, "LOBBY")) ELSE BeginLinkdead(out)

Disconnect(p) ==
    /\ pl[p].puppeted
    /\ Command(p, Unpuppeted(pl[p], FALSE))

(* Mutant: retreat without asking combat_timer. *)
QuitFieldInCombat(p) ==
    /\ InGame(pl[p])
    /\ Command(p, Stow(Transition(pl[p], "LOBBY")))

(* CmdQuit in the field: refused in combat, else back to the lobby. *)
QuitField(p) ==
    /\ InGame(pl[p])
    /\ ~InCombat(pl[p])
    /\ Command(p, Stow(Transition(pl[p], "LOBBY")))

(* CmdQuit while staging: marked clean, then a real disconnect. *)
QuitStaging(p) ==
    /\ pl[p].puppeted
    /\ pl[p].state \in {"SPAWNING", "LOBBY"}
    /\ Command(p, Unpuppeted(pl[p], TRUE))

ChooseClass(p) ==
    /\ pl[p].puppeted /\ pl[p].state = "SPAWNING"
    /\ Command(p, Advance([pl[p] EXCEPT !.class = TRUE]))

ChooseSpawn(p) ==
    /\ pl[p].puppeted /\ pl[p].state = "SPAWNING"
    /\ Command(p, Advance([pl[p] EXCEPT !.choice = TRUE]))

(* apply_spawn_choice succeeding.  A choice resolves to some tile, a stowed *)
(* body without one returns to its own; nearest_free_tile keeps both off    *)
(* buildings.  A body still in the room stays where it is.                  *)
Placed(r) ==
    IF r.choice \/ (~r.located /\ r.tile \in Cover)
    THEN {MoveTo(r, x) : x \in Tiles \ Cover}
    ELSE {IF r.located THEN r ELSE MoveTo(r, r.tile)}

(* deploy_from_lobby: into play, out of combat. *)
Deploy(p) ==
    /\ pl[p].puppeted /\ pl[p].state = "LOBBY"
    /\ \E r \in Placed(pl[p]) :
          Command(p, Transition([r EXCEPT !.choice = FALSE, !.fight = 0], "PLAYING"))

(* deploy_from_lobby refused: the target is gone or the move was rolled    *)
(* back; the choice is dropped and the player picks again.                 *)
DeployFails(p) ==
    /\ pl[p].puppeted /\ pl[p].state = "LOBBY"
    /\ pl[p].choice \/ ~pl[p].located
    /\ Command(p, Transition([pl[p] EXCEPT !.choice = FALSE], "SPAWNING"))

Walk(p, x) ==
    /\ InGame(pl[p])
    /\ x # pl[p].tile /\ x - pl[p].tile \in {-1, 1}
    /\ Command(p, MoveTo(pl[p], x))

-----------------------------------------------------------------------------
(* CmdTarget / acquire: anything attackable in the index and in range. *)
TakeAim(p, t) ==
    /\ InGame(pl[p]) /\ p \in Armed /\ t # p
    /\ pl[t].located /\ Near(pl[p].tile, pl[t].tile)
    /\ pl[p].lock # t
    /\ Command(p, [pl[p] EXCEPT !.lock = t, !.ready = FALSE])

(* resolve_now landing (hit) or missing: both sides enter combat. *)
Fire(p, t, hit, fire) ==
    /\ stage = "idle"
    /\ pl' = [q \in Players |->
                 CASE q = t /\ hit                  -> Struck(pl[q], fire)
                   [] q \in {p, t} /\ ~(q = t /\ hit) -> Engaged(pl[q])
                   [] q \notin {p, t}               -> pl[q]]
    /\ UNCHANGED <<pending, batch, stage>>

(* The gates a ranged shot passes: cover on either side. *)
Exposed(p, t) == ~Sheltered(pl[t]) /\ ~Sheltered(pl[p])

(* CmdShoot at a held lock: range and cover are checked, presence is not. *)
ShootLocked(p) ==
    /\ InGame(pl[p])
    /\ pl[p].lock # None /\ pl[p].ready
    /\ Near(pl[p].tile, pl[pl[p].lock].tile) /\ Exposed(p, pl[p].lock)
    /\ \E hit, fire \in BOOLEAN : Fire(p, pl[p].lock, hit, fire)

(* CmdShoot at a lock that left the range: the lock breaks. *)
LoseAim(p) ==
    /\ InGame(pl[p])
    /\ pl[p].lock # None /\ pl[p].ready
    /\ ~Near(pl[p].tile, pl[pl[p].lock].tile)
    /\ Command(p, Unlock(pl[p]))

(* CmdAttack (melee, same tile, always lands) and CmdShoot in a direction. *)
Attack(p, t) ==
    /\ InGame(pl[p]) /\ p \in Armed /\ t # p /\ pl[t].located
    /\ \/ /\ pl[t].tile = pl[p].tile
          /\ Fire(p, t, TRUE, FALSE)
       \/ /\ pl[t].tile # pl[p].tile
          /\ Near(pl[p].tile, pl[t].tile) /\ Exposed(p, t)
          /\ \E hit, fire \in BOOLEAN : Fire(p, t, hit, fire)

-----------------------------------------------------------------------------
(* The tick.  tick_count and the clock advance, then targeting upkeep runs *)
(* over the puppeted players.                                              *)
Less(n) == IF n > 0 THEN n - 1 ELSE 0

Aim(r) ==
    IF r.lock = None \/ ~r.puppeted THEN r
    ELSE IF Near(r.tile, pl[r.lock].tile) THEN [r EXCEPT !.ready = TRUE]
    ELSE Unlock(r)

Aged(r) ==
    [r EXCEPT !.fight = Less(@), !.grace = Less(@),
              !.away = IF r.state = "LINKDEAD" /\ @ < Grace THEN @ + 1 ELSE @]

BeginTick ==
    /\ stage = "idle" /\ stage' = "guards"
    /\ pl' = [p \in Players |-> Aged(Aim(pl[p]))]
    /\ UNCHANGED <<pending, batch>>

(* get_nearby_players: whom a defender at tile x may pick.  Which of them  *)
(* is the nearest hostile that no wall hides is left open.                 *)
InSight(x) == {p \in Players : Present(pl[p]) /\ Near(x, pl[p].tile)}

(* _process_guard: strike on its own tile, shoot in the open, or hold (no  *)
(* active HQ, no sight, a chase step instead).                             *)
GuardMayHit(p, x) == p \in InSight(x) /\ (pl[p].tile = x \/ ~Sheltered(pl[p]))

(* guard_combat, and the snapshot resolve_tick takes of the queue before it *)
(* clears it: a guard's shot resolves on the tick that queued it.           *)
GuardStep ==
    /\ stage = "guards" /\ stage' = "resolve"
    /\ \/ \E p \in Players, x \in GuardTiles :
            /\ GuardMayHit(p, x)
            /\ batch' = Append(pending,
                   [target |-> p, from |-> x, melee |-> pl[p].tile = x])
       \/ batch' = pending
    /\ pending' = <<>>
    /\ UNCHANGED pl

(* resolve_tick re-checks cover and reach for each action in turn. *)
StillHits(s) ==
    LET r == pl[s.target]
    IN  IF s.melee THEN r.tile = s.from
        ELSE ~Sheltered(r) /\ Near(s.from, r.tile)

ResolveOne ==
    /\ stage = "resolve" /\ batch # <<>>
    /\ batch' = Tail(batch)
    /\ pl' = IF StillHits(Head(batch))
             THEN [pl EXCEPT ![Head(batch).target] = Struck(@, FALSE)] ELSE pl
    /\ UNCHANGED <<pending, stage>>

(* process_turrets: fire at the nearest unsheltered player, or hold (no    *)
(* active HQ, offline, no line of sight); resolved on the next tick.       *)
TurretStep ==
    /\ stage = "resolve" /\ batch = <<>> /\ stage' = "effects"
    /\ \/ \E p \in InSight(TurretTile) :
            /\ ~Sheltered(pl[p])
            /\ pending' = Append(pending,
                   [target |-> p, from |-> TurretTile, melee |-> FALSE])
       \/ UNCHANGED pending
    /\ UNCHANGED <<pl, batch>>

(* tick_effects_on_entity, then hp_regen on its interval: both run over    *)
(* the puppeted players only, whatever their lifecycle state.              *)
Burned(r) ==
    IF r.puppeted /\ r.burn > 0
    THEN LET hurt == Hurt(r) IN [hurt EXCEPT !.burn = Less(@)] ELSE r

Healed(r) ==
    IF r.puppeted /\ r.hp \in 1..(MaxHp - 1) THEN [r EXCEPT !.hp = @ + 1] ELSE r

EffectStep ==
    /\ stage = "effects" /\ stage' = "expiry"
    /\ \/ pl' = [p \in Players |-> Burned(pl[p])]
       \/ pl' = [p \in Players |-> Healed(Burned(pl[p]))]
    /\ UNCHANGED <<pending, batch>>

(* Mutant: expiry over the roster of puppeted players. *)
ExpireOnline(r) ==
    IF r.puppeted /\ r.state = "LINKDEAD" /\ r.grace = 0
    THEN Stow(Transition(r, "LOBBY")) ELSE r

(* _process_linkdead_expiry. *)
ExpireLinkdead(r) ==
    IF r.state = "LINKDEAD" /\ r.grace = 0 THEN Stow(Transition(r, "LOBBY")) ELSE r

ExpiryStep ==
    /\ stage = "expiry" /\ stage' = "idle"
    /\ pl' = [p \in Players |-> ExpireLinkdead(pl[p])]
    /\ UNCHANGED <<pending, batch>>

TickStep ==
    \/ BeginTick \/ GuardStep \/ ResolveOne \/ TurretStep
    \/ EffectStep \/ ExpiryStep

-----------------------------------------------------------------------------
(* The process dies, between ticks or inside one: sessions and the queue   *)
(* are lost and no disconnect hook runs; attributes persist.               *)
Crash ==
    /\ pl' = [p \in Players |-> [pl[p] EXCEPT !.puppeted = FALSE]]
    /\ pending' = <<>> /\ batch' = <<>> /\ stage' = "idle"

(* A reload keeps the sessions; the queue is not persisted. *)
Reload ==
    /\ stage = "idle" /\ pending # <<>>
    /\ pending' = <<>>
    /\ UNCHANGED <<pl, batch, stage>>

PlayerStep(p) ==
    \/ Login(p) \/ Disconnect(p) \/ QuitField(p) \/ QuitStaging(p)
    \/ ChooseClass(p) \/ ChooseSpawn(p)
    \/ Deploy(p) \/ DeployFails(p)
    \/ \E x \in Tiles : Walk(p, x)
    \/ ShootLocked(p) \/ LoseAim(p)
    \/ \E t \in Players : TakeAim(p, t) \/ Attack(p, t)

Next == TickStep \/ Crash \/ Reload \/ (\E p \in Players : PlayerStep(p))

Spec == Init /\ [][Next]_vars

(* The reactor keeps calling GameTickScript.at_repeat, which runs every    *)
(* step, and the process does not crash forever; nothing is asked of the   *)
(* players.                                                                *)
FairSpec == Spec /\ WF_vars(TickStep) /\ <>[][~Crash]_vars

-----------------------------------------------------------------------------
InField(r) == r.state \in {"PLAYING", "LINKDEAD"}

(* A player in the field has a class and a body on the grid, whatever      *)
(* logins, failed deployments, deaths and crashes came before: the stow    *)
(* and route steps of the hooks agree with the state they write            *)
(* (deploy_from_lobby, record_death, at_post_unpuppet).                    *)
InFieldIsReal ==
    \A p \in Players : InField(pl[p]) => pl[p].located /\ pl[p].class

(* The anti-combat-log rule: a player in combat leaves the field only by   *)
(* dying, or by lingering as a target for the whole grace period.          *)
(* (CmdQuit, at_post_unpuppet, _process_linkdead_expiry)                   *)
AntiCombatLog ==
    [][\A p \in Players :
         InField(pl[p]) /\ InCombat(pl[p]) /\ ~InField(pl'[p]) =>
             \/ pl'[p].state = "SPAWNING"
             \/ pl[p].state = "LINKDEAD" /\ pl[p].away = Grace]_vars

(* Nobody is taken off the grid before the grace period since that very    *)
(* drop has run: no deadline of an earlier drop is ever used.              *)
(* (begin_linkdead, clear_linkdead, is_linkdead_expired)                   *)
FullGrace ==
    [][\A p \in Players :
         pl[p].state = "LINKDEAD" /\ pl'[p].state = "LOBBY" => pl[p].away = Grace]_vars

(* A linkdead body does not stand forever: the player returns, dies, or    *)
(* the tick takes it to the lobby (_process_linkdead_expiry).              *)
LinkdeadEnds ==
    \A p \in Players : pl[p].state = "LINKDEAD" ~> pl[p].state # "LINKDEAD"

(* "so they can't be attacked while choosing class + spawn"                *)
(* (Character.stow_from_world): a player who is choosing is not hurt.      *)
SpawningUnharmed ==
    [][\A p \in Players :
         pl[p].state = "SPAWNING" => pl'[p].hp >= pl[p].hp]_vars
=============================================================================
