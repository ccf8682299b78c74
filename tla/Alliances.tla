------------------------------- MODULE Alliances -------------------------------
(***************************************************************************)
(* Alliances of players (world/systems/alliance_system.py) and their store *)
(* (AllianceRegistry).  Who belongs where is written twice: in the roster  *)
(* of the alliance's record and in the pointer each character carries, its *)
(* alliance and its rank there.  Each is an attribute of its own, written  *)
(* when assigned, so a crash may come between any two; a restart           *)
(* reconciles every record with the pointers.  The treasury is in the      *)
(* record, a player's resources are on the character.                      *)
(*                                                                         *)
(* Commands run one at a time.  `todo' is what is left of the running one, *)
(* a write at a time; a step of it that stands for a loop takes one round  *)
(* at a time, in any order.  How a player came to be let in (an            *)
(* invitation, an accepted request, an open door), the levels and          *)
(* cooldowns that may refuse it, how long a leader has been away and how   *)
(* much an officer may still withdraw are left open; resources come in one *)
(* kind.                                                                   *)
(***************************************************************************)
EXTENDS Integers, Sequences, FiniteSets, Tallies

CONSTANTS
    Players,      \* player characters
    None,         \* no alliance, no rank, no leader, no record
    MaxId,        \* bound on the alliances ever founded
    MaxMembers,   \* alliance_max_members
    MaxOfficers,  \* alliance_max_officers
    Wealth,       \* units of the resource, in whoever's hands
    MaxWealth     \* bound on them, once a crash has cut a move, for another to

ASSUME AlliancesAssumption ==
    /\ IsFiniteSet(Players) /\ None \notin Players /\ None \notin Nat
    /\ None \notin {"leader", "officer", "member"}
    /\ None \notin [leader: Players \cup {None}, officers: SUBSET Players,
                     members: SUBSET Players]
    /\ {MaxId, MaxMembers, MaxOfficers, Wealth, MaxWealth} \subseteq Nat

Ids == 1..MaxId
Ranks == {"leader", "officer", "member"}
Roster ==
    [leader: Players \cup {None}, officers: SUBSET Players, members: SUBSET Players]

VARIABLES
    roster,   \* db.alliances: leader_id, officer_ids, member_ids of a record
    chest,    \* the record's treasury
    nextId,   \* next_alliance_id
    alive,    \* the characters not deleted
    ally,     \* db.player_alliance
    rank,     \* db.alliance_rank
    purse,    \* db.resources
    up,       \* the process runs
    todo,     \* the writes left of the running command
    unpaid,   \* the members a running split has still to pay
    due,      \* the records a running reconcile has still to bring in order
    doomed,   \* the character whose row goes when the command ends, or None
    gone      \* history: resources spent, dissolved or deleted with their
              \* owner; None when a crash has cut a move of resources

records == <<roster, chest, nextId>>
characters == <<alive, ally, rank, purse>>
running == <<todo, unpaid, due, doomed>>
vars == <<records, characters, up, running, gone>>

WriteStep ==
    [op: {"roll"}, id: Ids, to: Roster]
        \cup [op: {"ally"}, who: Players, to: Ids \cup {None}]
        \cup [op: {"rank"}, who: Players, to: Ranks \cup {None}]
        \cup [op: {"purse"}, who: Players, by: Int]
        \cup [op: {"chest"}, id: Ids, by: Int]
        \cup [op: {"spend"}, id: Ids, by: Nat]
        \cup [op: {"share"}, each: Nat]
        \cup [op: {"release", "delete"}, id: Ids]
        \cup [op: {"reform"}, id: Ids, keep: Players]

TypeOK ==
    /\ roster \in [Ids -> Roster \cup {None}] /\ chest \in [Ids -> Nat]
    /\ nextId \in 1..(MaxId + 1)
    /\ alive \subseteq Players
    /\ ally \in [Players -> Ids \cup {None}]
    /\ rank \in [Players -> Ranks \cup {None}]
    /\ purse \in [Players -> Nat]
    /\ up \in BOOLEAN /\ gone \in Nat \cup {None}
    /\ todo \in Seq(WriteStep)
    /\ unpaid \subseteq Players /\ due \subseteq Ids /\ doomed \in Players \cup {None}

-----------------------------------------------------------------------------
(* _roster_ids, _member_count. *)
OnRoll(r) == ({r.leader} \ {None}) \cup r.officers \cup r.members
Size(r) == Cardinality({r.leader} \ {None}) + Cardinality(r.officers)
               + Cardinality(r.members)

(* _remove_from_roster: every list, not leader_id. *)
Strip(r, p) == [r EXCEPT !.officers = @ \ {p}, !.members = @ \ {p}]

Live(a) == roster[a] # None

(* _record_of: the record a character points at, if it is there. *)
Belongs(p) == p \in alive /\ ally[p] # None /\ Live(ally[p])
Holds(p, R) == Belongs(p) /\ rank[p] \in R

(* ALLIANCE_RANK_ORDER; a player without a rank is below all. *)
Weight(r) == CASE r = "leader" -> 3 [] r = "officer" -> 2
               [] r = "member" -> 1 [] OTHER -> 0

(* The steps a command is made of: a write to a roster, to either half of  *)
(* a pointer (_set_pointer, _clear_pointer), to an account.                *)
RollTo(a, r) == [op |-> "roll", id |-> a, to |-> r]
AllyTo(p, a) == [op |-> "ally", who |-> p, to |-> a]
RankTo(p, k) == [op |-> "rank", who |-> p, to |-> k]
PurseBy(p, n) == [op |-> "purse", who |-> p, by |-> n]
ChestBy(a, n) == [op |-> "chest", id |-> a, by |-> n]
SpendOf(a, n) == [op |-> "spend", id |-> a, by |-> n]
Moving == {"purse", "chest", "share"}

(* Loops: pay a share to each, clear the pointers of those on the roll,    *)
(* make the rivals of a leader officers.                                   *)
ShareOf(n) == [op |-> "share", each |-> n]
ReleaseOf(a) == [op |-> "release", id |-> a]
DeleteOf(a) == [op |-> "delete", id |-> a]
ReformOf(a, k) == [op |-> "reform", id |-> a, keep |-> k]

(* Who of S comes first on the roll, which names the leader, the officers, *)
(* the members; the order of the lists is not kept here.                   *)
Foremost(a, S) ==
    LET r == roster[a]
    IN IF r.leader \in S THEN {r.leader}
       ELSE IF r.officers \cap S # {} THEN r.officers \cap S ELSE S

(* Mutant: the remainder is paid to every member.                          *)
SplitRoundedUp(total, n) == [share |-> (total + n - 1) \div n, rest |-> 0]

(* _even_split_treasury: equal shares and a remainder. *)
Split(total, n) == [share |-> total \div n, rest |-> total % n]

(* _do_disband: the split, whose remainder goes to the leader or the first *)
(* on the roll, the pointers of those on the roll, the record.             *)
Disbanding(a) ==
    LET heads == alive \cap OnRoll(roster[a])
        split == Split(chest[a], Cardinality(heads))
        closing == <<ReleaseOf(a), DeleteOf(a)>>
        emptying == <<ChestBy(a, -chest[a])>> \o closing
    IN \/ /\ chest[a] = 0
          /\ todo' = closing /\ UNCHANGED unpaid
       \/ /\ chest[a] > 0 /\ heads = {}
          /\ todo' = <<SpendOf(a, chest[a])>> \o closing /\ UNCHANGED unpaid
       \/ /\ chest[a] > 0 /\ heads # {}
          /\ \E first \in Foremost(a, heads) :
               LET topped == IF split.rest = 0 THEN emptying
                             ELSE <<PurseBy(first, split.rest)>> \o emptying
               IN todo' = IF split.share = 0 THEN topped
                          ELSE <<ShareOf(split.share)>> \o topped
          /\ unpaid' = IF split.share = 0 THEN {} ELSE heads

(* _install_leader.  Without an old leader nobody is demoted.              *)
Installing(a, old, new) ==
    LET out == Strip(roster[a], new)
        back == [out EXCEPT !.officers = @ \cup {old}]
    IN IF old = None
       THEN <<RollTo(a, out), RollTo(a, [out EXCEPT !.leader = new]),
              AllyTo(new, a), RankTo(new, "leader")>>
       ELSE <<RollTo(a, out), RollTo(a, back), AllyTo(old, a), RankTo(old, "officer"),
              RollTo(a, [back EXCEPT !.leader = new]),
              AllyTo(new, a), RankTo(new, "leader")>>

-----------------------------------------------------------------------------
Init ==
    /\ roster = [a \in Ids |-> None] /\ chest = [a \in Ids |-> 0] /\ nextId = 1
    /\ alive = Players
    /\ ally = [p \in Players |-> None] /\ rank = [p \in Players |-> None]
    /\ purse \in {f \in [Players -> 0..Wealth] : Tally(f, Players) = Wealth}
    /\ up = TRUE /\ todo = <<>> /\ unpaid = {} /\ due = {} /\ doomed = None /\ gone = 0

Quiet == up /\ todo = <<>> /\ due = {} /\ doomed = None

(* A command that passed its checks: its writes follow. *)
Begin(writes) ==
    /\ Quiet
    /\ todo' = writes
    /\ UNCHANGED <<roster, chest, characters, up, unpaid, gone>>

Command(writes) == Begin(writes) /\ UNCHANGED <<nextId, due, doomed>>

(* found: the id is taken first; one that comes to nothing is not reused. *)
Found(p) ==
    /\ p \in alive /\ ally[p] = None
    /\ nextId \in Ids
    /\ Begin(<<RollTo(nextId, [leader |-> p, officers |-> {}, members |-> {}]),
               AllyTo(p, nextId), RankTo(p, "leader")>>)
    /\ nextId' = nextId + 1
    /\ UNCHANGED <<due, doomed>>

(* accept, accept_request, join_open: _join_gate, then _admit. *)
Join(p, a) ==
    /\ p \in alive /\ ally[p] = None
    /\ Live(a) /\ Size(roster[a]) < MaxMembers
    /\ Command(<<RollTo(a, [roster[a] EXCEPT !.members = @ \cup {p}]),
                 AllyTo(p, a), RankTo(p, "member")>>)

(* Off the roll, then the pointer: leave, kick and the administrator's.    *)
Removing(p, a) ==
    <<RollTo(a, Strip(roster[a], p)), AllyTo(p, None), RankTo(p, None)>>

Disbands(a) ==
    /\ Quiet
    /\ Disbanding(a)
    /\ UNCHANGED <<records, characters, up, due, doomed, gone>>

(* leave: a leader alone disbands, one with others is refused. *)
Leave(p) ==
    /\ Belongs(p)
    /\ \/ rank[p] = "leader" /\ Size(roster[ally[p]]) <= 1 /\ Disbands(ally[p])
       \/ rank[p] # "leader" /\ Command(Removing(p, ally[p]))

(* kick: strictly lower ranks only. *)
Kick(p, t) ==
    /\ Holds(p, {"leader", "officer"})
    /\ t \in alive /\ ally[t] = ally[p] /\ Weight(rank[t]) < Weight(rank[p])
    /\ Command(Removing(t, ally[p]))

Disband(p) == Holds(p, {"leader"}) /\ Disbands(ally[p])

Transfer(p, t) ==
    /\ Holds(p, {"leader"})
    /\ t \in alive /\ t # p /\ ally[t] = ally[p]
    /\ Command(Installing(ally[p], p, t))

Promote(p, t) ==
    /\ Holds(p, {"leader"})
    /\ t \in alive /\ ally[t] = ally[p] /\ rank[t] = "member"
    /\ Cardinality(roster[ally[p]].officers) < MaxOfficers
    /\ LET a == ally[p]
           out == [roster[a] EXCEPT !.members = @ \ {t}]
       IN Command(<<RollTo(a, out), RollTo(a, [out EXCEPT !.officers = @ \cup {t}]),
                    AllyTo(t, a), RankTo(t, "officer")>>)

Demote(p, t) ==
    /\ Holds(p, {"leader"})
    /\ t \in alive /\ ally[t] = ally[p] /\ rank[t] = "officer"
    /\ LET a == ally[p]
           out == [roster[a] EXCEPT !.officers = @ \ {t}]
       IN Command(<<RollTo(a, out), RollTo(a, [out EXCEPT !.members = @ \cup {t}]),
                    AllyTo(t, a), RankTo(t, "member")>>)

(* claim: the leader is long absent or no longer there; nobody is demoted. *)
Claim(p) == Holds(p, {"officer"}) /\ Command(Installing(ally[p], None, p))

(* The administrator's kick, transfer and destroy. *)
AdminKick(a, t) ==
    /\ Live(a) /\ t \in alive \cap OnRoll(roster[a])
    /\ ally[t] = a /\ t # roster[a].leader
    /\ Command(Removing(t, a))

AdminTransfer(a, t) ==
    /\ Live(a) /\ t \in alive \cap OnRoll(roster[a])
    /\ ally[t] = a /\ t # roster[a].leader
    /\ LET r == roster[a]
       IN Command(Installing(a, IF r.leader \in alive THEN r.leader ELSE None, t))

AdminDisband(a) == Live(a) /\ Disbands(a)

(* on_character_deleted: off the roll, the pointer cleared, a leader's     *)
(* alliance reconciled; then the row goes.                                 *)
Deleted(p) ==
    /\ p \in alive
    /\ LET a == ally[p]
           out == Strip(roster[a], p)
       IN \/ ~Belongs(p) /\ Begin(<<>>) /\ UNCHANGED due
          \/ /\ Belongs(p) /\ rank[p] # "leader"
             /\ Begin(Removing(p, a)) /\ UNCHANGED due
          \/ /\ Holds(p, {"leader"})
             /\ Begin(<<RollTo(a, out), RollTo(a, [out EXCEPT !.leader = None]),
                        AllyTo(p, None), RankTo(p, None)>>)
             /\ due' = {a}
    /\ doomed' = p
    /\ UNCHANGED nextId

-----------------------------------------------------------------------------
(* deposit and withdraw, a unit at a time: both write the treasury first.  *)
Deposit(p) ==
    /\ Belongs(p) /\ purse[p] > 0
    /\ Command(<<ChestBy(ally[p], 1), PurseBy(p, -1)>>)

(* Mutant: the treasury may be overdrawn.                                  *)
WithdrawUnchecked(p) ==
    /\ Holds(p, {"leader", "officer"})
    /\ Command(<<ChestBy(ally[p], -1), PurseBy(p, 1)>>)

Withdraw(p) ==
    /\ Holds(p, {"leader", "officer"}) /\ chest[ally[p]] > 0
    /\ Command(<<ChestBy(ally[p], -1), PurseBy(p, 1)>>)

(* activate_perk, as far as it is paid for. *)
ActivatePerk(p) ==
    /\ Holds(p, {"leader"}) /\ chest[ally[p]] > 0
    /\ Command(<<SpendOf(ally[p], 1)>>)

-----------------------------------------------------------------------------
Doing(op) == todo # <<>> /\ Head(todo).op = op
Written == todo' = Tail(todo) /\ UNCHANGED <<unpaid, doomed>>
Lose(n) == gone' = IF gone = None THEN None ELSE gone + n

WriteRoster ==
    /\ Doing("roll") /\ Written
    /\ roster' = [roster EXCEPT ![Head(todo).id] = Head(todo).to]
    /\ UNCHANGED <<chest, nextId, characters, up, due, gone>>

WriteAlly ==
    /\ Doing("ally") /\ Written
    /\ ally' = [ally EXCEPT ![Head(todo).who] = Head(todo).to]
    /\ UNCHANGED <<records, alive, rank, purse, up, due, gone>>

WriteRank ==
    /\ Doing("rank") /\ Written
    /\ rank' = [rank EXCEPT ![Head(todo).who] = Head(todo).to]
    /\ UNCHANGED <<records, alive, ally, purse, up, due, gone>>

WritePurse ==
    /\ Doing("purse") /\ Written
    /\ purse' = [purse EXCEPT ![Head(todo).who] = @ + Head(todo).by]
    /\ UNCHANGED <<records, alive, ally, rank, up, due, gone>>

WriteChest ==
    /\ Doing("chest") /\ Written
    /\ chest' = [chest EXCEPT ![Head(todo).id] = @ + Head(todo).by]
    /\ UNCHANGED <<roster, nextId, characters, up, due, gone>>

Spend ==
    /\ Doing("spend") /\ Written
    /\ chest' = [chest EXCEPT ![Head(todo).id] = @ - Head(todo).by]
    /\ Lose(Head(todo).by)
    /\ UNCHANGED <<roster, nextId, characters, up, due>>

(* The record is gone; a reconcile that disbanded it goes on to the next.  *)
DeleteRecord ==
    /\ Doing("delete") /\ Written
    /\ roster' = [roster EXCEPT ![Head(todo).id] = None]
    /\ due' = due \ {Head(todo).id}
    /\ UNCHANGED <<chest, nextId, characters, up, gone>>

(* A round of the split. *)
PayShare(p) ==
    /\ Doing("share") /\ p \in unpaid
    /\ purse' = [purse EXCEPT ![p] = @ + Head(todo).each]
    /\ unpaid' = unpaid \ {p}
    /\ todo' = IF unpaid = {p} THEN Tail(todo) ELSE todo
    /\ UNCHANGED <<records, alive, ally, rank, up, due, doomed, gone>>

(* _live_members: on the roll, there, and pointing here. *)
LiveMembers(a) == {p \in alive \cap OnRoll(roster[a]) : ally[p] = a}

(* A round of _do_disband, and its end. *)
Release(p) ==
    /\ Doing("release") /\ p \in LiveMembers(Head(todo).id)
    /\ todo' = <<AllyTo(p, None), RankTo(p, None)>> \o todo
    /\ UNCHANGED <<records, characters, up, unpaid, due, doomed, gone>>

Released ==
    /\ Doing("release") /\ LiveMembers(Head(todo).id) = {}
    /\ Written
    /\ UNCHANGED <<records, characters, up, due, gone>>

(* reconcile: who is to lead.  The leader on record if the pointers agree, *)
(* or the first who says so, or by succession an officer before a member.  *)
Ranked(a, k) == {p \in LiveMembers(a) : rank[p] = k}

Heirs(a) ==
    LET senior == IF Ranked(a, "leader") # {} THEN Ranked(a, "leader")
                  ELSE IF Ranked(a, "officer") # {} THEN Ranked(a, "officer")
                  ELSE IF Ranked(a, "member") # {} THEN Ranked(a, "member")
                  ELSE LiveMembers(a)
    IN Foremost(a, senior)

(* reconcile of one record; an alliance nobody points at is disbanded. *)
Reconcile(a) ==
    /\ todo = <<>> /\ a \in due /\ Live(a)
    /\ \/ LiveMembers(a) = {} /\ Disbanding(a)
       \/ \E k \in Heirs(a) :
            /\ todo' = IF Ranked(a, "leader") # {} THEN <<ReformOf(a, k)>>
                       ELSE <<AllyTo(k, a), RankTo(k, "leader"), ReformOf(a, k)>>
            /\ UNCHANGED unpaid
    /\ UNCHANGED <<records, characters, up, due, doomed, gone>>

(* Any other leader is made an officer, *)
DemoteRival(p) ==
    /\ Doing("reform") /\ p \in Ranked(Head(todo).id, "leader") \ {Head(todo).keep}
    /\ todo' = <<AllyTo(p, Head(todo).id), RankTo(p, "officer")>> \o todo
    /\ UNCHANGED <<records, characters, up, unpaid, due, doomed, gone>>

(* and the record is written anew. *)
Enroll ==
    /\ Doing("reform") /\ Ranked(Head(todo).id, "leader") \subseteq {Head(todo).keep}
    /\ LET a == Head(todo).id
           k == Head(todo).keep
           led == [roster[a] EXCEPT !.leader = k]
           staffed == [led EXCEPT !.officers = Ranked(a, "officer") \ {k}]
       IN /\ todo' = <<RollTo(a, led), RollTo(a, staffed),
                       RollTo(a, [staffed EXCEPT !.members = Ranked(a, "member") \ {k}])>>
          /\ due' = due \ {a}
    /\ UNCHANGED <<records, characters, up, unpaid, doomed, gone>>

(* The end of a deletion: at_object_delete lets the row go. *)
Erase ==
    /\ todo = <<>> /\ due = {} /\ doomed # None
    /\ alive' = alive \ {doomed}
    /\ purse' = [purse EXCEPT ![doomed] = 0]
    /\ ally' = [ally EXCEPT ![doomed] = None]
    /\ rank' = [rank EXCEPT ![doomed] = None]
    /\ Lose(purse[doomed])
    /\ doomed' = None
    /\ UNCHANGED <<records, up, todo, unpaid, due>>

Write ==
    \/ WriteRoster \/ WriteAlly \/ WriteRank \/ WritePurse \/ WriteChest
    \/ Spend \/ DeleteRecord \/ Released \/ Enroll \/ Erase
    \/ \E p \in Players : PayShare(p) \/ Release(p) \/ DemoteRival(p)
    \/ \E a \in Ids : Reconcile(a)

(* A crash loses what is left of the command.  The ledger is not followed  *)
(* after one that cuts a move of resources.                                *)
Crash ==
    /\ up
    /\ up' = FALSE /\ todo' = <<>> /\ unpaid' = {} /\ due' = {} /\ doomed' = None
    /\ \/ /\ \E i \in DOMAIN todo : todo[i].op \in Moving
          /\ gone = None => Tally(purse, Players) + Tally(chest, Ids) <= MaxWealth
          /\ gone' = None
       \/ /\ \A i \in DOMAIN todo : todo[i].op \notin Moving
          /\ UNCHANGED gone
    /\ UNCHANGED <<records, characters>>

(* Mutant: the records are taken as they are.                              *)
BootTrusting ==
    /\ ~up /\ up' = TRUE
    /\ UNCHANGED <<records, characters, running, gone>>

(* start_game_scripts: every record is reconciled before anyone logs in.   *)
Boot ==
    /\ ~up /\ up' = TRUE
    /\ due' = {a \in Ids : Live(a)}
    /\ UNCHANGED <<records, characters, todo, unpaid, doomed, gone>>

Commands ==
    \/ \E p \in Players :
          \/ Found(p) \/ Leave(p) \/ Disband(p) \/ Claim(p) \/ Deleted(p)
          \/ Deposit(p) \/ Withdraw(p) \/ ActivatePerk(p)
    \/ \E p, t \in Players : Kick(p, t) \/ Transfer(p, t) \/ Promote(p, t) \/ Demote(p, t)
    \/ \E p \in Players, a \in Ids : Join(p, a) \/ AdminKick(a, p) \/ AdminTransfer(a, p)
    \/ \E a \in Ids : AdminDisband(a)

Running == Commands \/ Write

Next == Running \/ Crash \/ Boot

Spec == Init /\ [][Next]_vars

(* The same without crashes. *)
Uncrashed == Init /\ [][Running]_vars

-----------------------------------------------------------------------------
(* Between commands, everyone a roster lists is a living player who points  *)
(* at that alliance with the rank of the list that holds it, and a leader   *)
(* is among them: whatever joined, left, claimed, was deleted or crashed    *)
(* before.  (the writes of every command against reconcile)                 *)
RosterTrue ==
    Quiet => \A a \in Ids : Live(a) =>
        /\ roster[a].leader # None
        /\ OnRoll(roster[a]) \subseteq alive
        /\ \A p \in OnRoll(roster[a]) :
            /\ ally[p] = a
            /\ rank[p] = "leader"  <=> p = roster[a].leader
            /\ rank[p] = "officer" <=> p \in roster[a].officers
            /\ rank[p] = "member"  <=> p \in roster[a].members

(* Deposits, withdrawals, perks, splits and deletions neither create nor    *)
(* lose a resource, unless a crash cut one of them.  ("no dupe, no loss" of *)
(* _even_split_treasury; deposit's "so no resources are created")           *)
Conserved ==
    Quiet /\ gone # None =>
        Tally(purse, Players) + Tally(chest, Ids) + gone = Wealth

(* The documented promise of claim, to "demote the former Leader to         *)
(* officer": one player at a time holds the powers of a leader.             *)
OneLeader ==
    Quiet => \A a \in Ids : Live(a) =>
        Cardinality({p \in alive : ally[p] = a /\ rank[p] = "leader"}) <= 1
=============================================================================
