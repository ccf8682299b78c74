----------------------------- MODULE AgentRoster -----------------------------
(***************************************************************************)
(* The agents of one player (world/systems/agent_system.py and the reserve *)
(* handlers of agent_progression.py): training at Academies, posting at    *)
(* buildings, release, the bench a demotion sends agents to, and the       *)
(* administrator's create, destroy and clear_training.                     *)
(*                                                                         *)
(* Everything but the training cache is persisted, one attribute at a      *)
(* time: `todo' holds the writes the running handler has still to make,    *)
(* `round' the position of the running tick in the cache.  A crash may     *)
(* fall between any two writes; nothing else can.                          *)
(* Left out: costs, XP and levels, walking, behaviour scripts, patrol and  *)
(* delivery attributes (no guard here reads them), the Branch role gate    *)
(* (in BranchCommitment), incapacitation, which nothing sets.              *)
(***************************************************************************)
EXTENDS Integers, Sequences, FiniteSets

CONSTANTS
    Agents,      \* identities of NPC objects, used again
    Posts,       \* the buildings that take an agent
    Academies,
    None,        \* no agent, no building
    Caps,        \* agents allowed at each rank (agent_cap - 1)
    Durations,   \* training times
    MaxId,       \* bound: agent IDs issued
    MaxFaults    \* bound: crashes and failing creations

ASSUME RosterAssumption ==
    /\ None \notin Agents \cup Posts \cup Academies /\ IsFiniteSet(Academies)
    /\ Caps \in Seq(Nat) /\ Caps # <<>>
    /\ Durations \subseteq Nat \ {0}
    /\ MaxId \in Nat /\ MaxFaults \in Nat

VARIABLES
    id,         \* db.agent_id; 0: there is no such object
    role,       \* db.role, as its kind
    target,     \* db.role_target; a deleted building reads as None
    reserve,    \* db.reserve
    slot,       \* Building.db.assigned_agent; a deleted agent reads as None
    trainee,    \* Building.db.training_agent_id; 0: None
    ticks,      \* Building.db.training_ticks_remaining; None counts as 0
    owned,      \* the Academies with a training_owner
    next,       \* player.db.next_agent_id
    rank,       \* the player's rank
    cache,      \* AgentSystem._training_buildings
    round,      \* place of the running process_training_tick, 0 for none
    todo,       \* writes left of the running handler
    faults,     \* bound: faults so far
    torn,       \* history: Academies whose training a crash or a fault cut
    loose,      \* history: agents whose assignment a crash cut
    reissued,   \* history: a crash cut the issue of an ID
    upset       \* history: a crash or a removal came before the next promotion

roster == <<id, role, target, slot>>
school == <<trainee, ticks, owned>>
vars == <<roster, school, reserve, next, rank, cache, round, todo, faults, torn, loose,
          reissued, upset>>

-----------------------------------------------------------------------------
Roster == {a \in Agents : id[a] # 0}          \* get_agents
Bench == {a \in Roster : reserve[a]}
Active == Roster \ Bench

Step ==
    [op: {"clear", "delete"}, agent: Agents]
        \cup [op: {"role"}, agent: Agents, to: {"none", "army", "post"}]
        \cup [op: {"target"}, agent: Agents, to: Posts \cup {None}]
        \cup [op: {"slot"}, agent: Agents, at: Posts]
        \cup [op: {"reserve"}, of: SUBSET Agents, to: BOOLEAN]
        \cup [op: {"trainee", "create"}, at: Academies \cup {None}, new: 0..MaxId]
        \cup [op: {"ticks"}, at: Academies, to: Durations \cup {0}]
        \cup [op: {"owner"}, at: Academies, to: BOOLEAN]
        \cup [op: {"next"}, at: Academies \cup {None}, to: Nat]
        \cup [op: {"leave"}, at: Academies]

TypeOK ==
    /\ id \in [Agents -> 0..MaxId]
    /\ role \in [Agents -> {"none", "army", "post"}]
    /\ target \in [Agents -> Posts \cup {None}]
    /\ reserve \in [Agents -> BOOLEAN]
    /\ slot \in [Posts -> Agents \cup {None}]
    /\ trainee \in [Academies -> 0..MaxId]
    /\ ticks \in [Academies -> Durations \cup Nat]
    /\ owned \subseteq Academies
    /\ next \in 1..(MaxId + 1) /\ rank \in DOMAIN Caps
    /\ cache \in Seq(Academies) /\ round \in Nat
    /\ todo \in Seq(Step)
    /\ faults \in 0..MaxFaults
    /\ torn \subseteq Academies /\ loose \subseteq Agents
    /\ reissued \in BOOLEAN /\ upset \in BOOLEAN

Idle == todo = <<>> /\ round = 0

Init ==
    /\ id = [a \in Agents |-> 0]
    /\ role = [a \in Agents |-> "none"] /\ target = [a \in Agents |-> None]
    /\ reserve = [a \in Agents |-> FALSE] /\ slot = [b \in Posts |-> None]
    /\ trainee = [c \in Academies |-> 0] /\ ticks = [c \in Academies |-> 0]
    /\ owned = {} /\ next = 1 /\ rank \in DOMAIN Caps
    /\ cache = <<>> /\ round = 0 /\ todo = <<>> /\ faults = 0
    /\ torn = {} /\ loose = {} /\ reissued = FALSE /\ upset = FALSE

(* A handler that only leaves writes to do. *)
Start(steps) ==
    /\ Idle
    /\ todo' = steps
    /\ UNCHANGED <<roster, school, reserve, next, rank, cache, round, faults, torn,
                   loose, reissued, upset>>

-----------------------------------------------------------------------------
(* Mutant: the roster alone decides. *)
IsNextIdOfRoster(n) ==
    /\ \A a \in Roster : n > id[a]
    /\ n = 1 \/ \E a \in Roster : n = id[a] + 1

(* The next ID: the counter, raised to one above the highest of the roster. *)
IsNextId(n) ==
    /\ n >= next /\ \A a \in Roster : n > id[a]
    /\ n = next \/ \E a \in Roster : n = id[a] + 1

(* train, at an Academy that trains nobody.  The cap counts the roster and *)
(* not who is still in training; the counter is written last.              *)
Training(c, d, n) ==
    <<[op |-> "trainee", at |-> c, new |-> n], [op |-> "ticks", at |-> c, to |-> d],
      [op |-> "owner", at |-> c, to |-> TRUE], [op |-> "next", at |-> c, to |-> n + 1]>>

Train(c, d) ==
    /\ trainee[c] = 0
    /\ Cardinality(Roster) < Caps[rank]
    /\ \E n \in 1..MaxId : IsNextId(n) /\ Start(Training(c, d, n))

(* admin_create_agent: no cap, no timer. *)
AdminCreate ==
    \E n \in 1..MaxId :
        /\ IsNextId(n)
        /\ Start(<<[op |-> "create", at |-> None, new |-> n],
                   [op |-> "next", at |-> None, to |-> n + 1]>>)

(* admin_clear_training, and the same three writes after a training.       *)
Clearing(c) ==
    <<[op |-> "trainee", at |-> c, new |-> 0], [op |-> "ticks", at |-> c, to |-> 0],
      [op |-> "owner", at |-> c, to |-> FALSE], [op |-> "leave", at |-> c]>>

AdminClearTraining(c) == trainee[c] # 0 /\ Start(Clearing(c))

-----------------------------------------------------------------------------
(* Mutant: the building is told first. *)
PostingSlotFirst(a, b) ==
    <<[op |-> "slot", agent |-> a, at |-> b], [op |-> "clear", agent |-> a],
      [op |-> "role", agent |-> a, to |-> "post"],
      [op |-> "target", agent |-> a, to |-> b]>>

(* assign_agent's writes: the old building, unless it is the same, then    *)
(* role and target, then the new building.                                 *)
Posting(a, b) ==
    LET post == [op |-> "role", agent |-> a, to |-> "post"]
        go == [op |-> "target", agent |-> a, to |-> b]
        hold == [op |-> "slot", agent |-> a, at |-> b]
    IN IF target[a] = b THEN <<post, go, hold>>
       ELSE <<[op |-> "clear", agent |-> a], post, go, hold>>

(* `agent assign <id>' inside a building that has no agent.                *)
Post(a, b) ==
    /\ a \in Active /\ slot[b] = None
    /\ Start(Posting(a, b))

(* A role without a building, for assign_agent with an army role, for      *)
(* unassign_agent and for stop_agent; only the first refuses the bench.    *)
Leaving(a, r) ==
    <<[op |-> "clear", agent |-> a], [op |-> "role", agent |-> a, to |-> r],
      [op |-> "target", agent |-> a, to |-> None]>>

Enlist(a) == a \in Active /\ Start(Leaving(a, "army"))
Unassign(a) == a \in Roster /\ Start(Leaving(a, "none"))

(* admin_destroy_agent. *)
AdminDestroy(a) ==
    /\ a \in Roster
    /\ Start(<<[op |-> "clear", agent |-> a], [op |-> "delete", agent |-> a]>>)

(* The building is lost with its attributes, and rebuilt without an agent. *)
LosePost(b) ==
    /\ Idle /\ \E a \in Agents : target[a] = b \/ slot[b] = a
    /\ slot' = [slot EXCEPT ![b] = None]
    /\ target' = [a \in Agents |-> IF target[a] = b THEN None ELSE target[a]]
    /\ UNCHANGED <<id, role, school, reserve, next, rank, cache, round, todo, faults,
                   torn, loose, reissued, upset>>

-----------------------------------------------------------------------------
(* handle_demotion: as many as the roster exceeds the cap by, taken from   *)
(* those not yet on the bench, highest IDs first.                          *)
Highest(S, n) ==
    {T \in SUBSET S :
        /\ Cardinality(T) = IF n <= 0 THEN 0
                            ELSE IF n < Cardinality(S) THEN n ELSE Cardinality(S)
        /\ \A a \in T, b \in S \ T : id[a] >= id[b]}

Demoted(r) == Highest(Active, Cardinality(Roster) - Caps[r])

(* handle_promotion: as many of the bench as the active leave room for,    *)
(* lowest IDs first.                                                       *)
Promoted(r) == {Bench \ T : T \in Highest(Bench, Cardinality(Roster) - Caps[r])}

(* _sync_level writes the rank and publishes RANK_DEMOTED or RANK_PROMOTED *)
(* with the cap of the new one; several ranks may be crossed at once.      *)
ChangeRank(r) ==
    /\ Idle /\ r # rank
    /\ rank' = r
    /\ \/ /\ r < rank
          /\ \E S \in Demoted(r) : todo' = <<[op |-> "reserve", of |-> S, to |-> TRUE]>>
       \/ /\ r > rank
          /\ \E S \in Promoted(r) : todo' = <<[op |-> "reserve", of |-> S, to |-> FALSE]>>
    /\ upset' = (upset /\ r < rank)
    /\ UNCHANGED <<roster, school, reserve, next, cache, round, faults, torn, loose,
                   reissued>>

-----------------------------------------------------------------------------
(* process_training_tick walks the cache itself: an entry that leaves it   *)
(* moves the next one under the index, which is then passed over.          *)
BeginTick ==
    /\ Idle /\ cache # <<>>
    /\ round' = 1
    /\ UNCHANGED <<roster, school, reserve, next, rank, cache, todo, faults, torn, loose,
                   reissued, upset>>

EndTick ==
    /\ todo = <<>> /\ round > Len(cache)
    /\ round' = 0
    /\ UNCHANGED <<roster, school, reserve, next, rank, cache, todo, faults, torn, loose,
                   reissued, upset>>

(* complete_training, once the timer is at zero: the NPC, then the three   *)
(* attributes, then the cache; without an owner nothing is done.           *)
Completing(c) ==
    IF c \notin owned THEN <<>>
    ELSE <<[op |-> "create", at |-> c, new |-> trainee[c]],
           Clearing(c)[1], Clearing(c)[2], Clearing(c)[3], Clearing(c)[4]>>

(* Mutant: the timer is not looked at before it is decremented.            *)
VisitGoesOn ==
    /\ todo = <<>> /\ round \in DOMAIN cache
    /\ round' = round + 1
    /\ LET c == cache[round] IN
         IF trainee[c] = 0 THEN UNCHANGED <<ticks, todo>>
         ELSE /\ ticks' = [ticks EXCEPT ![c] = @ - 1]
              /\ todo' = IF ticks[c] # 1 THEN <<>> ELSE Completing(c)
    /\ UNCHANGED <<roster, trainee, owned, reserve, next, rank, cache, faults, torn,
                   loose, reissued, upset>>

(* One Academy: a timer at zero ends the training, a running one runs.     *)
Visit ==
    /\ todo = <<>> /\ round \in DOMAIN cache
    /\ round' = round + 1
    /\ LET c == cache[round] IN
         IF trainee[c] = 0 THEN UNCHANGED <<ticks, todo>>
         ELSE /\ ticks' = [ticks EXCEPT ![c] = IF @ = 0 THEN 0 ELSE @ - 1]
              /\ todo' = IF ticks[c] > 1 THEN <<>> ELSE Completing(c)
    /\ UNCHANGED <<roster, trainee, owned, reserve, next, rank, cache, faults, torn,
                   loose, reissued, upset>>

-----------------------------------------------------------------------------
(* The writes of a running handler, in order. *)
Doing(op) == todo # <<>> /\ Head(todo).op = op
It == Head(todo)

(* _clear_building_assignment: only if the building points at the agent.   *)
Clear ==
    /\ Doing("clear") /\ todo' = Tail(todo)
    /\ slot' = [b \in Posts |-> IF b = target[It.agent] /\ slot[b] = It.agent
                                THEN None ELSE slot[b]]
    /\ UNCHANGED <<id, role, target, school, reserve, next, rank, cache, round, faults,
                   torn, loose, reissued, upset>>

WriteRole ==
    /\ Doing("role") /\ todo' = Tail(todo)
    /\ role' = [role EXCEPT ![It.agent] = It.to]
    /\ UNCHANGED <<id, target, slot, school, reserve, next, rank, cache, round, faults,
                   torn, loose, reissued, upset>>

(* The last write of a release: the agent is as the roster says again.     *)
WriteTarget ==
    /\ Doing("target") /\ todo' = Tail(todo)
    /\ target' = [target EXCEPT ![It.agent] = It.to]
    /\ loose' = IF It.to = None THEN loose \ {It.agent} ELSE loose
    /\ UNCHANGED <<id, role, slot, school, reserve, next, rank, cache, round, faults,
                   torn, reissued, upset>>

WriteSlot ==
    /\ Doing("slot") /\ todo' = Tail(todo)
    /\ slot' = [slot EXCEPT ![It.at] = It.agent]
    /\ loose' = loose \ {It.agent}
    /\ UNCHANGED <<id, role, target, school, reserve, next, rank, cache, round, faults,
                   torn, reissued, upset>>

(* The next of the agents to bench (highest ID) or to restore (lowest).    *)
WriteReserve ==
    /\ Doing("reserve")
    /\ IF It.of = {} THEN todo' = Tail(todo) /\ UNCHANGED reserve
       ELSE \E a \in It.of :
              /\ \A b \in It.of : IF It.to THEN id[a] >= id[b] ELSE id[a] <= id[b]
              /\ reserve' = [reserve EXCEPT ![a] = It.to]
              /\ todo' = [todo EXCEPT ![1].of = It.of \ {a}]
    /\ UNCHANGED <<roster, school, next, rank, cache, round, faults, torn, loose,
                   reissued, upset>>

(* The object goes, and with it every reference to it. *)
Delete ==
    /\ Doing("delete") /\ todo' = Tail(todo)
    /\ id' = [id EXCEPT ![It.agent] = 0]
    /\ role' = [role EXCEPT ![It.agent] = "none"]
    /\ target' = [target EXCEPT ![It.agent] = None]
    /\ reserve' = [reserve EXCEPT ![It.agent] = FALSE]
    /\ slot' = [b \in Posts |-> IF slot[b] = It.agent THEN None ELSE slot[b]]
    /\ loose' = loose \ {It.agent} /\ upset' = TRUE
    /\ UNCHANGED <<school, next, rank, cache, round, faults, torn, reissued>>

(* _create_npc_func.  A body that is free; MaxId and MaxFaults bound how   *)
(* many are ever needed.                                                   *)
Create ==
    /\ Doing("create") /\ todo' = Tail(todo)
    /\ \E a \in Agents :
          /\ id[a] = 0 /\ a = CHOOSE x \in Agents : id[x] = 0
          /\ id' = [id EXCEPT ![a] = It.new]
    /\ UNCHANGED <<role, target, slot, school, reserve, next, rank, cache, round, faults,
                   torn, loose, reissued, upset>>

(* It raises: the exception ends the tick step, or the command.            *)
CreateRaises ==
    /\ Doing("create") /\ faults < MaxFaults
    /\ faults' = faults + 1
    /\ todo' = <<>> /\ round' = 0
    /\ UNCHANGED <<roster, school, reserve, next, rank, cache, torn, loose, reissued,
                   upset>>

WriteTrainee ==
    /\ Doing("trainee") /\ todo' = Tail(todo)
    /\ trainee' = [trainee EXCEPT ![It.at] = It.new]
    /\ torn' = torn \ {It.at}
    /\ UNCHANGED <<roster, ticks, owned, reserve, next, rank, cache, round, faults, loose,
                   reissued, upset>>

WriteTicks ==
    /\ Doing("ticks") /\ todo' = Tail(todo)
    /\ ticks' = [ticks EXCEPT ![It.at] = It.to]
    /\ UNCHANGED <<roster, trainee, owned, reserve, next, rank, cache, round, faults,
                   torn, loose, reissued, upset>>

WriteOwner ==
    /\ Doing("owner") /\ todo' = Tail(todo)
    /\ owned' = IF It.to THEN owned \cup {It.at} ELSE owned \ {It.at}
    /\ UNCHANGED <<roster, trainee, ticks, reserve, next, rank, cache, round, faults,
                   torn, loose, reissued, upset>>

(* The Academy joins the cache, unless it is there, then the counter.      *)
WriteNext ==
    /\ Doing("next") /\ todo' = Tail(todo)
    /\ next' = It.to
    /\ cache' = IF It.at = None \/ \E i \in DOMAIN cache : cache[i] = It.at
                THEN cache ELSE Append(cache, It.at)
    /\ UNCHANGED <<roster, school, reserve, rank, round, faults, torn, loose, reissued,
                   upset>>

(* remove: the first place it has, if it has one.                          *)
Without(seq, c) ==
    LET places == {i \in DOMAIN seq : seq[i] = c}
    IN IF places = {} THEN {seq}
       ELSE {[j \in 1..(Len(seq) - 1) |-> IF j < i THEN seq[j] ELSE seq[j + 1]] :
                i \in {k \in places : \A j \in places : k <= j}}

LeaveCache ==
    /\ Doing("leave") /\ todo' = Tail(todo)
    /\ cache' \in Without(cache, It.at)
    /\ UNCHANGED <<roster, school, reserve, next, rank, round, faults, torn, loose,
                   reissued, upset>>

Write ==
    \/ Clear \/ WriteRole \/ WriteTarget \/ WriteSlot \/ WriteReserve \/ Delete
    \/ Create \/ WriteTrainee \/ WriteTicks \/ WriteOwner \/ WriteNext \/ LeaveCache

-----------------------------------------------------------------------------
(* Mutant: the cache starts empty. *)
RestoreNothing == {<<>>}

(* restore_training_cache: the Academies with a training_agent_id, in the  *)
(* order the database gives them.                                          *)
Restored ==
    LET S == {c \in Academies : trainee[c] # 0} IN
    {s \in [1..Cardinality(S) -> S] : \A c \in S : \E i \in DOMAIN s : s[i] = c}

(* The process dies and starts again: nothing else runs in between.        *)
Crash ==
    /\ faults < MaxFaults
    /\ faults' = faults + 1
    /\ todo' = <<>> /\ round' = 0
    /\ cache' \in Restored
    /\ LET left == {todo[i] : i \in DOMAIN todo} IN
         /\ torn' = torn \cup {s.at : s \in {x \in left : x.op = "owner"}}
         /\ loose' = loose \cup
                {s.agent : s \in {x \in left : x.op \in {"target", "slot", "delete"}}}
         /\ reissued' = (reissued \/ \E s \in left : s.op \in {"next", "trainee"})
         /\ upset' = (upset \/ \E s \in left : s.op = "reserve")
    /\ UNCHANGED <<roster, school, reserve, next, rank>>

Tick == BeginTick \/ Visit \/ EndTick

Next ==
    \/ \E c \in Academies, d \in Durations : Train(c, d)
    \/ AdminCreate
    \/ \E c \in Academies : AdminClearTraining(c)
    \/ \E a \in Agents, b \in Posts : Post(a, b)
    \/ \E a \in Agents : Enlist(a) \/ Unassign(a) \/ AdminDestroy(a)
    \/ \E b \in Posts : LosePost(b)
    \/ \E r \in DOMAIN Caps : ChangeRank(r)
    \/ Tick \/ Write \/ CreateRaises \/ Crash

Spec == Init /\ [][Next]_vars

(* A handler that began runs to its end, and the tick comes again.         *)
FairSpec == Spec /\ WF_vars(Write) /\ WF_vars(Visit) /\ WF_vars(EndTick)
                 /\ SF_vars(BeginTick)

-----------------------------------------------------------------------------
(* A building's agent works for that building, at every instant, whatever  *)
(* the process is in the middle of when it dies: what it reads there is    *)
(* never somebody who has gone elsewhere.  Conversely a posted agent holds *)
(* its building, so no two agents work at one, unless a crash cut its own  *)
(* assignment.  (assign_agent, unassign_agent, stop_agent)                 *)
SlotIsTrue ==
    /\ \A b \in Posts : slot[b] # None => id[slot[b]] # 0 /\ target[slot[b]] = b
    /\ todo = <<>> => \A a \in Agents \ loose : target[a] # None => slot[target[a]] = a

(* Agent IDs are unique and never reused: all that were issued, to agents  *)
(* or to somebody in training, differ and are below the counter, unless a  *)
(* crash fell between an ID and the counter.  (train_agent)                *)
IdsFresh ==
    todo = <<>> /\ ~reissued =>
        /\ \A a \in Roster : id[a] < next
        /\ \A c \in Academies : trainee[c] < next
        /\ \A a \in Roster, b \in Agents : id[a] = id[b] => a = b
        /\ \A c \in Academies, a \in Roster : trainee[c] # id[a]
        /\ \A c, d \in Academies : trainee[c] = trainee[d] => c = d \/ trainee[c] = 0

(* Paid training ends: whatever is added to the cache or leaves it during  *)
(* the walk over it, and over restarts, an Academy does not train for      *)
(* ever, unless a crash cut the start of the training.                     *)
(* (process_training_tick, restore_training_cache)                         *)
TrainingEnds ==
    \A c \in Academies : trainee[c] # 0 ~> trainee[c] = 0 \/ c \in torn

(* A demotion benches the agents beyond the cap: somebody sits there only  *)
(* while as many serve as the rank allows.  (handle_demotion; exempt is    *)
(* the time from a removal or a cut bench to the next promotion)           *)
BenchOnlyBeyondCap ==
    Idle /\ ~upset => Bench = {} \/ Cardinality(Active) >= Caps[rank]
=============================================================================
