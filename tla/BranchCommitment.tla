--------------------------- MODULE BranchCommitment ---------------------------
(***************************************************************************)
(* One player's doctrine: which Branch they are committed to on each       *)
(* planet, what that makes of their research, and what it costs to walk    *)
(* away.  A commitment is never stored: it is the completed Branch Lab the *)
(* player owns there (world/systems/branch_system.py), so it moves with    *)
(* every start, upgrade, completion, demolition and loss of a lab in       *)
(* world/systems/building_system.py.  The research record, the applied     *)
(* bonuses and the Reinstatement bookkeeping are persisted attributes that *)
(* follow it by triggers; the research queue (tech_system.py) is memory.   *)
(*                                                                         *)
(* The server is single threaded.  `todo' is what is left of the handler   *)
(* that is running, one entry per attribute it still has to write: a crash *)
(* may cut in between any two writes, and nothing else can.                *)
(* Rank, deeds, terrain and prices are left out: a command that passes the *)
(* gates modelled here may always be afforded.  Branches are those whose   *)
(* agent role is gated (all but recon).                                    *)
(***************************************************************************)
EXTENDS Integers, Sequences, FiniteSets

CONSTANTS
    Planets, Sites,   \* building tiles, and the planets they lie on
    PlanetOf,         \* [Sites -> Planets]
    Branches, Techs,
    TreeOf,           \* [Techs -> Branches]: the tree a technology is in
    Unlock,           \* [Branches -> Techs \cup {None}]: unlock_technology
    Agents, Station,  \* the player's agents, and the planets they serve on
    None,
    BuildTicks,       \* construction_total, for a build or an upgrade
    ResearchTicks     \* ticks of a research or reinstatement job

ASSUME BranchAssumption ==
    /\ PlanetOf \in [Sites -> Planets] /\ TreeOf \in [Techs -> Branches]
    /\ Unlock \in [Branches -> Techs \cup {None}]
    /\ Station \in [Agents -> Planets]
    /\ None \notin Techs \cup Sites \cup Branches
    /\ {BuildTicks, ResearchTicks} \subseteq Nat \ {0}

VARIABLES
    built,       \* the player's building on each site, if any
    where,       \* coord_planet: the planet the player occupies
    researched,  \* db.researched_techs
    bonus,       \* db.tech_bonuses, as the technologies whose effect is in it
    abandoned,   \* db.branch_abandoned
    pending,     \* db.branch_reinstatement
    role,        \* the Branch whose role each agent holds, None for any other
    jobs,        \* TechLabSystem._active_research
    todo,        \* the writes left of the running handler
    debt,        \* history: recorded technologies a demolition put in debt
    quits        \* history: Branches a lab of which was ever demolished

vars == <<built, where, researched, bonus, abandoned, pending, role, jobs,
          todo, debt, quits>>

-----------------------------------------------------------------------------
(* under_construction without a target level is a first "building", with   *)
(* one an "upgrading"; left is what construction_progress still lacks.     *)
NoBuilding == [phase |-> "none"]
Building ==
    [phase: {"building", "upgrading", "ready"}, branch: Branches,
     lab: BOOLEAN, left: 0..BuildTicks]

(* A research job; again marks a Reinstatement of what is on record.       *)
Job == [tech: Techs, left: 0..ResearchTicks, again: BOOLEAN]

Step ==
    [op: {"mark", "seed", "unmark"}, branch: Branches]
        \cup [op: {"lapse"}, branch: Branches, planet: Planets]
        \cup [op: {"clear", "refill"}, ignored: Sites \cup {None}]
        \cup [op: {"delete"}, site: Sites]
        \cup [op: {"record"}, tech: Techs]

TypeOK ==
    /\ built \in [Sites -> Building \cup {NoBuilding}]
    /\ where \in Planets
    /\ researched \subseteq Techs /\ bonus \subseteq Techs
    /\ abandoned \subseteq Branches
    /\ pending \in [Branches -> SUBSET Techs]
    /\ role \in [Agents -> Branches \cup {None}]
    /\ jobs \subseteq Job
    /\ todo \in Seq(Step)
    /\ debt \subseteq Techs /\ quits \subseteq Branches

Stands(s) == built[s] # NoBuilding
On(p) == {s \in Sites : PlanetOf[s] = p /\ Stands(s)}
IsLab(s) == Stands(s) /\ built[s].lab

(* commitment: the completed lab owned on the planet.  At most one stands  *)
(* there; one that is about to be deleted is ignored.                      *)
Committed(p, b, ignored) ==
    \E s \in On(p) \ {ignored} :
        IsLab(s) /\ built[s].phase = "ready" /\ built[s].branch = b

(* branch_of_technology over the record. *)
RecordOf(b) == {t \in researched : TreeOf[t] = b}

(* applied_technologies: recorded, live on the planet, nothing owed.       *)
Applied(p, ignored) ==
    {t \in researched : /\ Committed(p, TreeOf[t], ignored)
                        /\ t \notin pending[TreeOf[t]]}

(* recompute_tech_bonuses: the dict is emptied, then refilled.             *)
Recompute(ignored) ==
    <<[op |-> "clear", ignored |-> ignored], [op |-> "refill", ignored |-> ignored]>>

(* Mutant: a job is finished one tick after its last.                      *)
DueLate == {j \in jobs : j.left < 0}

(* No handler is running: a command or a tick step may start.              *)
Due == {j \in jobs : j.left = 0}
Idle == todo = <<>> /\ Due = {}

-----------------------------------------------------------------------------
Init ==
    /\ built = [s \in Sites |-> NoBuilding]
    /\ where \in Planets
    /\ researched = {} /\ bonus = {} /\ abandoned = {}
    /\ pending = [b \in Branches |-> {}]
    /\ role = [a \in Agents |-> None] /\ jobs = {} /\ todo = <<>>
    /\ debt = {} /\ quits = {}

(* A command at a building of the player's own tile. *)
AtSite(s) == Idle /\ where = PlanetOf[s]

Begin(s, b, lab) ==
    [phase |-> "building", branch |-> b, lab |-> lab, left |-> BuildTicks]

(* Mutant: only completed labs are in the way of a new one.                *)
StartLabCompletedOnly(s, b) ==
    /\ AtSite(s) /\ ~Stands(s)
    /\ \A r \in On(where) : built[r].phase # "ready" \/
                            (~built[r].lab /\ built[r].branch = b)
    /\ built' = [built EXCEPT ![s] = Begin(s, b, TRUE)]
    /\ UNCHANGED <<where, researched, bonus, abandoned, pending, role, jobs,
                   todo, debt, quits>>

(* start_construction of a Branch Lab: one lab per planet, half-built ones *)
(* included, and every other Branch's estate there empty.                  *)
StartLab(s, b) ==
    /\ AtSite(s) /\ ~Stands(s)
    /\ \A r \in On(where) : ~built[r].lab /\ built[r].branch = b
    /\ built' = [built EXCEPT ![s] = Begin(s, b, TRUE)]
    /\ UNCHANGED <<where, researched, bonus, abandoned, pending, role, jobs,
                   todo, debt, quits>>

(* start_construction of a Branch building: the matching commitment, and   *)
(* the unlocking technology recorded and live.                             *)
StartBuilding(s, b) ==
    /\ AtSite(s) /\ ~Stands(s)
    /\ Committed(where, b, None)
    /\ Unlock[b] \in Applied(where, None) \cup {None}
    /\ built' = [built EXCEPT ![s] = Begin(s, b, FALSE)]
    /\ UNCHANGED <<where, researched, bonus, abandoned, pending, role, jobs,
                   todo, debt, quits>>

(* start_upgrade: a fresh one restarts the timer, whatever the building    *)
(* was doing; one under way is only resumed.                               *)
StartUpgrade(s) ==
    /\ AtSite(s) /\ Stands(s)
    /\ built[s].phase # "upgrading"
    /\ built' = [built EXCEPT ![s].phase = "upgrading", ![s].left = BuildTicks]
    /\ UNCHANGED <<where, researched, bonus, abandoned, pending, role, jobs,
                   todo, debt, quits>>

(* cancel_upgrade: the timer and the flag are cleared, nothing is told.    *)
CancelUpgrade(s) ==
    /\ AtSite(s) /\ Stands(s)
    /\ built[s].phase = "upgrading"
    /\ built' = [built EXCEPT ![s].phase = "ready", ![s].left = 0]
    /\ UNCHANGED <<where, researched, bonus, abandoned, pending, role, jobs,
                   todo, debt, quits>>

(* Mutant: the abandoned bit goes before the pending set is written.       *)
CompletedUnmarksFirst(s) ==
    IF ~built[s].lab THEN <<>>
    ELSE (IF built[s].branch \in abandoned
          THEN <<[op |-> "unmark", branch |-> built[s].branch],
                 [op |-> "seed", branch |-> built[s].branch]>>
          ELSE <<>>) \o Recompute(None)

(* on_construction_completed: for a lab, an upgraded one included, the     *)
(* abandoned bit becomes a pending set, then the bonuses are rebuilt.      *)
Completed(s) ==
    IF ~built[s].lab THEN <<>>
    ELSE (IF built[s].branch \in abandoned
          THEN <<[op |-> "seed", branch |-> built[s].branch],
                 [op |-> "unmark", branch |-> built[s].branch]>>
          ELSE <<>>) \o Recompute(None)

(* process_construction_tick, process_agent_construction: one tick of work *)
(* by the player on the tile or by an engineer anywhere.                   *)
Work(s) ==
    /\ Idle /\ Stands(s)
    /\ built[s].phase # "ready"
    /\ \/ /\ built[s].left > 1
          /\ built' = [built EXCEPT ![s].left = @ - 1]
          /\ UNCHANGED todo
       \/ /\ built[s].left <= 1
          /\ built' = [built EXCEPT ![s].left = 0, ![s].phase = "ready"]
          /\ todo' = Completed(s)
    /\ UNCHANGED <<where, researched, bonus, abandoned, pending, role, jobs,
                   debt, quits>>

(* CmdDemolish: the building is deleted, then on_building_demolished: for  *)
(* a lab, unless the Branch is still committed here, it is marked          *)
(* abandoned and its agents are released; the bonuses are rebuilt.         *)
Left(s) ==
    IF ~built[s].lab THEN <<>>
    ELSE (IF Committed(where, built[s].branch, s) THEN <<>>
          ELSE <<[op |-> "mark", branch |-> built[s].branch],
                 [op |-> "lapse", branch |-> built[s].branch, planet |-> where]>>)
         \o Recompute(None)

Demolish(s) ==
    /\ AtSite(s) /\ Stands(s)
    /\ built' = [built EXCEPT ![s] = NoBuilding]
    /\ todo' = Left(s)
    /\ quits' = IF built[s].lab THEN quits \cup {built[s].branch} ELSE quits
    /\ UNCHANGED <<where, researched, bonus, abandoned, pending, role, jobs, debt>>

(* Mutant: a lab lost to an attack is marked abandoned like a demolished one. *)
LostMarks(s) ==
    IF ~built[s].lab \/ built[s].phase # "ready" THEN <<>>
    ELSE (IF Committed(PlanetOf[s], built[s].branch, s) THEN <<>>
          ELSE <<[op |-> "mark", branch |-> built[s].branch],
                 [op |-> "lapse", branch |-> built[s].branch,
                  planet |-> PlanetOf[s]]>>)
         \o Recompute(s)

(* A building falls to an attack: BUILDING_DESTROYED is published while it *)
(* still stands.  on_building_destroyed skips a lab that is not complete;  *)
(* else it reads the world without the lab, and marks nothing.             *)
Lost(s) ==
    IF ~built[s].lab \/ built[s].phase # "ready" THEN <<>>
    ELSE (IF Committed(PlanetOf[s], built[s].branch, s) THEN <<>>
          ELSE <<[op |-> "lapse", branch |-> built[s].branch,
                  planet |-> PlanetOf[s]]>>)
         \o Recompute(s)

Destroy(s) ==
    /\ Idle /\ Stands(s)
    /\ todo' = Append(Lost(s), [op |-> "delete", site |-> s])
    /\ UNCHANGED <<built, where, researched, bonus, abandoned, pending, role,
                   jobs, debt, quits>>

(* relocate_object to another planet: PLAYER_MOVED rebuilds the bonuses of *)
(* a player who has a record.                                              *)
Travel(p) ==
    /\ Idle /\ p # where
    /\ where' = p
    /\ todo' = IF researched = {} THEN <<>> ELSE Recompute(None)
    /\ UNCHANGED <<built, researched, bonus, abandoned, pending, role, jobs,
                   debt, quits>>

-----------------------------------------------------------------------------
(* start_research: the tree of the lab owned here, not on record unless    *)
(* its Reinstatement is owed, not already under way.                       *)
StartResearch(t) ==
    /\ Idle
    /\ Committed(where, TreeOf[t], None)
    /\ t \in researched => t \in pending[TreeOf[t]]
    /\ \A j \in jobs : j.tech # t
    /\ jobs' = jobs \cup
                 {[tech |-> t, left |-> ResearchTicks, again |-> t \in researched]}
    /\ UNCHANGED <<built, where, researched, bonus, abandoned, pending, role,
                   todo, debt, quits>>

(* process_tick: count down; the entries that reach zero are finished next. *)
ResearchTick ==
    /\ Idle /\ jobs # {}
    /\ jobs' = {[j EXCEPT !.left = @ - 1] : j \in jobs}
    /\ UNCHANGED <<built, where, researched, bonus, abandoned, pending, role,
                   todo, debt, quits>>

(* A first-time job applies its effect at once and is then recorded; a     *)
(* Reinstatement clears the pending key and rebuilds (on_reinstatement_     *)
(* completed, apply_technology).                                           *)
Finish(j) ==
    /\ todo = <<>> /\ j \in Due
    /\ jobs' = jobs \ {j}
    /\ IF j.again
       THEN /\ pending' = [pending EXCEPT ![TreeOf[j.tech]] = @ \ {j.tech}]
            /\ debt' = debt \ {j.tech}
            /\ todo' = Recompute(None)
            /\ UNCHANGED bonus
       ELSE /\ bonus' = bonus \cup {j.tech}
            /\ todo' = <<[op |-> "record", tech |-> j.tech]>>
            /\ UNCHANGED <<pending, debt>>
    /\ UNCHANGED <<built, where, researched, abandoned, role, quits>>

-----------------------------------------------------------------------------
(* assign_agent behind its commitment gate, and unassign_agent.            *)
Assign(a, b) ==
    /\ Idle /\ role[a] # b
    /\ Committed(Station[a], b, None)
    /\ role' = [role EXCEPT ![a] = b]
    /\ UNCHANGED <<built, where, researched, bonus, abandoned, pending, jobs,
                   todo, debt, quits>>

Unassign(a) ==
    /\ Idle /\ role[a] # None
    /\ role' = [role EXCEPT ![a] = None]
    /\ UNCHANGED <<built, where, researched, bonus, abandoned, pending, jobs,
                   todo, debt, quits>>

(* _migrate_tech_bonuses on login: an empty dict is rebuilt from a record. *)
Login ==
    /\ Idle /\ researched # {} /\ bonus = {}
    /\ todo' = Recompute(None)
    /\ UNCHANGED <<built, where, researched, bonus, abandoned, pending, role,
                   jobs, debt, quits>>

-----------------------------------------------------------------------------
(* The writes of a running handler, in order. *)
Doing(op) == todo # <<>> /\ Head(todo).op = op /\ todo' = Tail(todo)

(* Mutant: abandoning a Branch also drops what it still had pending.       *)
MarkDropsPending ==
    /\ Doing("mark")
    /\ abandoned' = abandoned \cup {Head(todo).branch}
    /\ debt' = debt \cup RecordOf(Head(todo).branch)
    /\ pending' = [pending EXCEPT ![Head(todo).branch] = {}]
    /\ UNCHANGED <<built, where, researched, bonus, role, jobs, quits>>

(* _mark_abandoned. *)
Mark ==
    /\ Doing("mark")
    /\ abandoned' = abandoned \cup {Head(todo).branch}
    /\ debt' = debt \cup RecordOf(Head(todo).branch)
    /\ UNCHANGED <<built, where, researched, bonus, pending, role, jobs, quits>>

(* _seed_reinstatement: the pending set replaces an older one, and only    *)
(* then the bit goes.                                                      *)
Seed ==
    /\ Doing("seed")
    /\ pending' = [pending EXCEPT ![Head(todo).branch] = RecordOf(Head(todo).branch)]
    /\ UNCHANGED <<built, where, researched, bonus, abandoned, role, jobs, debt, quits>>

Unmark ==
    /\ Doing("unmark")
    /\ abandoned' = abandoned \ {Head(todo).branch}
    /\ UNCHANGED <<built, where, researched, bonus, pending, role, jobs, debt, quits>>

(* unassign_branch_roles. *)
Lapse ==
    /\ Doing("lapse")
    /\ role' = [a \in Agents |->
                    IF Station[a] = Head(todo).planet /\ role[a] = Head(todo).branch
                    THEN None ELSE role[a]]
    /\ UNCHANGED <<built, where, researched, bonus, abandoned, pending, jobs, debt, quits>>

Clear ==
    /\ Doing("clear")
    /\ bonus' = {}
    /\ UNCHANGED <<built, where, researched, abandoned, pending, role, jobs, debt, quits>>

Refill ==
    /\ Doing("refill")
    /\ bonus' = Applied(where, Head(todo).ignored)
    /\ UNCHANGED <<built, where, researched, abandoned, pending, role, jobs, debt, quits>>

Delete ==
    /\ Doing("delete")
    /\ built' = [built EXCEPT ![Head(todo).site] = NoBuilding]
    /\ UNCHANGED <<where, researched, bonus, abandoned, pending, role, jobs, debt, quits>>

Record ==
    /\ Doing("record")
    /\ researched' = researched \cup {Head(todo).tech}
    /\ UNCHANGED <<built, where, bonus, abandoned, pending, role, jobs, debt, quits>>

Write == Mark \/ Seed \/ Unmark \/ Lapse \/ Clear \/ Refill \/ Delete \/ Record

(* The process dies: attributes and buildings persist, the research queue  *)
(* and the rest of the handler do not.                                     *)
Crash ==
    /\ jobs # {} \/ todo # <<>>
    /\ jobs' = {} /\ todo' = <<>>
    /\ UNCHANGED <<built, where, researched, bonus, abandoned, pending, role,
                   debt, quits>>

SiteStep(s) ==
    \/ \E b \in Branches : StartLab(s, b) \/ StartBuilding(s, b)
    \/ StartUpgrade(s) \/ CancelUpgrade(s) \/ Work(s) \/ Demolish(s) \/ Destroy(s)

Running ==
    \/ \E s \in Sites : SiteStep(s)
    \/ \E p \in Planets : Travel(p)
    \/ \E t \in Techs : StartResearch(t)
    \/ ResearchTick \/ (\E j \in jobs : Finish(j))
    \/ \E a \in Agents : Unassign(a) \/ \E b \in Branches : Assign(a, b)
    \/ Login \/ Write

Next == Running \/ Crash

Spec == Init /\ [][Next]_vars

(* The same without crashes. *)
Uncrashed == Init /\ [][Running]_vars

-----------------------------------------------------------------------------
(* A planet is committed to one doctrine: whatever order labs and Branch   *)
(* buildings are started, finished, upgraded, demolished and destroyed in, *)
(* all of a player's Branch buildings on a planet are of one Branch, and   *)
(* at most one of them is a lab.  (the construction gates of R3 and R4)    *)
OneBranchPerPlanet ==
    \A r, s \in Sites :
        r # s /\ PlanetOf[r] = PlanetOf[s] /\ Stands(r) /\ Stands(s) =>
            /\ built[r].branch = built[s].branch
            /\ ~(built[r].lab /\ built[s].lab)

(* What a demolition put in debt is never forgotten, wherever the process  *)
(* dies: until the Reinstatement job is done, the abandoned bit or the     *)
(* pending set still says so.  (the write order of _seed_reinstatement)    *)
DebtRemembered ==
    \A t \in debt : TreeOf[t] \in abandoned \/ t \in pending[TreeOf[t]]

(* A lab lost to an attack costs no Reinstatement, ever: only Branches     *)
(* whose lab the player demolished owe any.  (R5.9, on_building_destroyed) *)
HostileLossIsFree ==
    \A b \in Branches : b \in abandoned \/ pending[b] # {} => b \in quits

(* No running job was paid for nothing: what a first-time job researches   *)
(* is not on record, and what a Reinstatement job clears is still pending, *)
(* whatever was abandoned and rebuilt since it started.  (start_research)  *)
NoJobForNothing ==
    todo = <<>> =>
        \A j \in jobs : IF j.again THEN j.tech \in pending[TreeOf[j.tech]]
                        ELSE j.tech \notin researched

(* A completed lab, "mid-upgrade" ones included, confers its Branch (R3.9  *)
(* in commitment's docstring).                                             *)
HasLab(p, b) ==
    \E s \in On(p) : IsLab(s) /\ built[s].phase # "building" /\ built[s].branch = b

(* "A technology whose Branch is not committed on the occupied planet is   *)
(* dormant and its effect stays out of the dict" (recompute_tech_bonuses), *)
(* and "a dormant Branch commands no agents" (on_building_destroyed).      *)
DormantBranchIsInert ==
    Idle => /\ \A t \in bonus : HasLab(where, TreeOf[t])
            /\ \A a \in Agents : role[a] = None \/ HasLab(Station[a], role[a])
=============================================================================
