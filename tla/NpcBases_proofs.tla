--------------------------- MODULE NpcBases_proofs ---------------------------
(***************************************************************************)
(* What the spawner tracks, for any number of planets, tiers and places,   *)
(* with a crash between any two writes.  The invariant pairs every tail of *)
(* writes a handler can have left with the one base that may not match     *)
(* while it runs.                                                          *)
(***************************************************************************)
EXTENDS NpcBases, FiniteSetTheorems, TLAPS

UntrackOf(i) == [op |-> "untrack", base |-> i]
DeleteOf(i) == [op |-> "delete", base |-> i]
StampOf(i, a) == [op |-> "stamp", base |-> i, again |-> a]
SpawnOf(p, t) == [op |-> "spawn", planet |-> p, tier |-> t]
ScheduleOf(p, t) == [op |-> "schedule", planet |-> p, tier |-> t]

(* A base that stands is tracked as it stands, and no other is tracked. *)
Match(i) ==
    \/ world[i] = NoBase /\ active[i] = NoBase
    \/ /\ world[i] # NoBase /\ active[i] # NoBase /\ world[i].stamped
       /\ active[i].spot = world[i].spot /\ active[i].tier = world[i].tier
       /\ active[i].clock = world[i].clock

MatchBut(E) == \A i \in Ids \ E : Match(i)

(* What is left of a wipe, of a renewal, of an elimination, of a spawn.    *)
AtWipe(i) == todo = <<UntrackOf(i), DeleteOf(i)>>
AtWiped(i) == todo = <<DeleteOf(i)>>
AtRenew(i, p, t) == todo = <<UntrackOf(i), DeleteOf(i), SpawnOf(p, t)>>
AtRenewed(i, p, t) == todo = <<DeleteOf(i), SpawnOf(p, t)>>
AtFall(i, p, t) == todo = <<DeleteOf(i), UntrackOf(i), ScheduleOf(p, t), Save>>
AtFallen(i, p, t) == todo = <<UntrackOf(i), ScheduleOf(p, t), Save>>
AtOwed(p, t) == todo = <<ScheduleOf(p, t), Save>>
AtSpawn(p, t) == todo = <<SpawnOf(p, t)>>
AtStamp(i, a) == todo = <<StampOf(i, a)>>
AtSave == todo = <<Save>>

Waking == step \in {"down", "purge"}
Raided == step \in {"idle", "combat"}

(* Nothing is tracked before the rebuild, and what it will find is whole.  *)
Stamped(E) == \A i \in Ids \ E : world[i] # NoBase => world[i].stamped

WakesClean ==
    Waking =>
        /\ \A i \in Ids : active[i] = NoBase
        /\ \/ step = "down" /\ todo = <<>>
           \/ step = "purge" /\ todo = <<>> /\ Stamped(left)
           \/ step = "purge" /\ \E i \in Ids : AtWipe(i) /\ Stamped(left \cup {i})
           \/ step = "purge" /\ \E i \in Ids : AtWiped(i) /\ Stamped(left \cup {i})

(* Afterwards every base matches but the one whose turn is under way.      *)
Whole ==
    /\ MatchBut({})
    /\ \/ todo = <<>> \/ AtSave
       \/ \E p \in Planets, t \in Tiers : AtOwed(p, t)
       \/ \E p \in Planets, t \in Tiers : AtSpawn(p, t)
       \/ \E i \in Ids : AtWipe(i)
       \/ \E i \in Ids, p \in Planets, t \in Tiers : AtRenew(i, p, t)
       \/ Raided /\ \E i \in Ids, p \in Planets, t \in Tiers : AtFall(i, p, t)

Untracked(i) == MatchBut({i}) /\ active[i] = NoBase
Deleted(i) == MatchBut({i}) /\ world[i] = NoBase

Placed(i) ==
    /\ MatchBut({i}) /\ active[i] = NoBase
    /\ world[i] # NoBase /\ world[i].clock = Pristine

Turn ==
    \/ Whole
    \/ \E i \in Ids : AtWiped(i) /\ Untracked(i)
    \/ \E i \in Ids, p \in Planets, t \in Tiers : AtRenewed(i, p, t) /\ Untracked(i)
    \/ Raided /\ \E i \in Ids, p \in Planets, t \in Tiers : AtFallen(i, p, t) /\ Deleted(i)
    \/ \E i \in Ids, a \in BOOLEAN : AtStamp(i, a) /\ Placed(i)

(* A loop that renews finds what it has still to visit tracked. *)
LeftTracked ==
    step \in {"refresh", "stale"} =>
        \A i \in left : /\ active[i] # NoBase
                        /\ todo # <<>> /\ Head(todo).op = "untrack" => Head(todo).base # i

Types ==
    /\ world \in [Ids -> Row \cup {NoBase}]
    /\ active \in [Ids -> Track \cup {NoBase}]
    /\ pending \in [Slots -> Nat] /\ saved \in [Slots -> Nat]
    /\ step \in {"down", "purge", "seed", "idle", "area", "refresh", "combat",
                 "respawn", "respawned", "stale"}
    /\ left \subseteq IF step = "seed" THEN Seeding ELSE Ids
    /\ promised \in [Planets \X Tiers -> Nat]

IInv == Types /\ WakesClean /\ (~Waking => Turn) /\ LeftTracked /\ BasesApart

-----------------------------------------------------------------------------
(* A tally counts one pair for every unit of every entry; a table whose    *)
(* units can be matched with others' has the lower one.                    *)
LEMMA UnitsOf ==
  ASSUME NEW f, NEW S
  PROVE  /\ \A u \in Units(f, S) : \E x \in S : \E k \in 1..f[x] : u = <<x, k>>
         /\ \A x \in S : \A k \in 1..f[x] : <<x, k>> \in Units(f, S)
BY DEF Units

LEMMA UnitsFinite ==
  ASSUME NEW f, NEW S, IsFiniteSet(S), \A x \in S : f[x] \in Nat
  PROVE  IsFiniteSet(Units(f, S)) /\ Tally(f, S) \in Nat
<1>1. PICK g : g = [x \in S |-> {x} \X (1..f[x])]
  OBVIOUS
<1>2. PICK R : R = {{x} \X (1..f[x]) : x \in S}
  OBVIOUS
<1>3. g \in Surjection(S, R)
  <2>1. g \in [S -> R]
    BY <1>1, <1>2
  <2>2. \A t \in R : \E s \in S : g[s] = t
    BY <1>1, <1>2
  <2> QED BY <2>1, <2>2 DEF Surjection
<1>4. IsFiniteSet(R)
  BY <1>3, FS_Surjection
<1>5. ASSUME NEW x \in S PROVE IsFiniteSet({x} \X (1..f[x]))
  <2>1. IsFiniteSet({x})
    BY FS_Singleton
  <2>2. IsFiniteSet(1..f[x])
    BY FS_Interval
  <2> QED BY <2>1, <2>2, FS_Product
<1>6. IsFiniteSet(UNION R)
  BY <1>2, <1>4, <1>5, FS_UNION
<1> QED BY <1>2, <1>6, FS_CardinalityType DEF Units, Tally

LEMMA TallyGrows ==
  ASSUME NEW f, NEW S, NEW g, NEW T, IsFiniteSet(Units(g, T)),
         NEW m \in [Units(f, S) -> Units(g, T)],
         \A u, v \in Units(f, S) : m[u] = m[v] => u = v
  PROVE  Tally(f, S) <= Tally(g, T)
<1>1. m \in Injection(Units(f, S), Units(g, T))
  BY DEF Injection, IsInjective
<1> QED BY <1>1, FS_Injection DEF Tally

(* The slots a planet and a tier have in the schedule. *)
LEMMA WaitingSlots ==
  ASSUME NEW p \in Planets, NEW t \in Tiers
  PROVE  LET S == {p} \X {t} \X (0..RespawnTicks)
         IN /\ IsFiniteSet(S) /\ S \subseteq Slots
            /\ \A x \in S : x = <<p, t, x[3]>> /\ x[3] \in 0..RespawnTicks
            /\ \A n \in 0..RespawnTicks : <<p, t, n>> \in S
<1>1. PICK S : S = {p} \X {t} \X (0..RespawnTicks)
  OBVIOUS
<1>2. PICK g : g = [n \in 0..RespawnTicks |-> <<p, t, n>>]
  OBVIOUS
<1>3. g \in Surjection(0..RespawnTicks, S)
  <2>1. g \in [0..RespawnTicks -> S]
    BY <1>1, <1>2
  <2>2. \A x \in S : \E n \in 0..RespawnTicks : g[n] = x
    BY <1>1, <1>2
  <2> QED BY <2>1, <2>2 DEF Surjection
<1>4. IsFiniteSet(S)
  BY <1>3, FS_Surjection, FS_Interval, NpcBasesAssumption DEF NpcBasesAssumption
<1> QED BY <1>1, <1>4 DEF Slots

LEMMA WaitingTyped ==
  ASSUME NEW f \in [Slots -> Nat], NEW p \in Planets, NEW t \in Tiers
  PROVE  Waiting(f, p, t) \in Nat
<1>1. PICK S : S = {p} \X {t} \X (0..RespawnTicks)
  OBVIOUS
<1>2. IsFiniteSet(S) /\ S \subseteq Slots
  BY <1>1, WaitingSlots
<1> QED BY <1>1, <1>2, UnitsFinite DEF Waiting

-----------------------------------------------------------------------------
LEMMA Tuples ==
    /\ \A u : <<u>> # <<>> /\ Head(<<u>>) = u /\ Tail(<<u>>) = <<>>
    /\ \A u, v : <<u, v>> # <<>> /\ Head(<<u, v>>) = u /\ Tail(<<u, v>>) = <<v>>
    /\ \A u, v, w : /\ <<u, v, w>> # <<>> /\ Head(<<u, v, w>>) = u
                    /\ Tail(<<u, v, w>>) = <<v, w>>
    /\ \A u, v, w, x : /\ <<u, v, w, x>> # <<>> /\ Head(<<u, v, w, x>>) = u
                       /\ Tail(<<u, v, w, x>>) = <<v, w, x>>
OBVIOUS

LEMMA Ops ==
    /\ \A i : UntrackOf(i).op = "untrack" /\ DeleteOf(i).op = "delete"
              /\ UntrackOf(i).base = i /\ DeleteOf(i).base = i
    /\ \A i, a : /\ StampOf(i, a).op = "stamp" /\ StampOf(i, a).base = i
                 /\ StampOf(i, a).again = a
    /\ \A p, t : /\ SpawnOf(p, t).op = "spawn" /\ SpawnOf(p, t).planet = p
                 /\ SpawnOf(p, t).tier = t
    /\ \A p, t : /\ ScheduleOf(p, t).op = "schedule" /\ ScheduleOf(p, t).planet = p
                 /\ ScheduleOf(p, t).tier = t
    /\ Save.op = "save"
BY DEF UntrackOf, DeleteOf, StampOf, SpawnOf, ScheduleOf, Save

(* What each tail of writes starts with, and leaves. *)
LEMMA Tails ==
    /\ \A i : AtWipe(i) => /\ todo # <<>> /\ Head(todo) = UntrackOf(i)
                          /\ Tail(todo) = <<DeleteOf(i)>>
    /\ \A i : AtWiped(i) => /\ todo # <<>> /\ Head(todo) = DeleteOf(i)
                           /\ Tail(todo) = <<>>
    /\ \A i, p, t : AtRenew(i, p, t) =>
          /\ todo # <<>> /\ Head(todo) = UntrackOf(i)
          /\ Tail(todo) = <<DeleteOf(i), SpawnOf(p, t)>>
    /\ \A i, p, t : AtRenewed(i, p, t) =>
          /\ todo # <<>> /\ Head(todo) = DeleteOf(i)
          /\ Tail(todo) = <<SpawnOf(p, t)>>
    /\ \A i, p, t : AtFall(i, p, t) =>
          /\ todo # <<>> /\ Head(todo) = DeleteOf(i)
          /\ Tail(todo) = <<UntrackOf(i), ScheduleOf(p, t), Save>>
    /\ \A i, p, t : AtFallen(i, p, t) =>
          /\ todo # <<>> /\ Head(todo) = UntrackOf(i)
          /\ Tail(todo) = <<ScheduleOf(p, t), Save>>
    /\ \A p, t : AtOwed(p, t) => /\ todo # <<>> /\ Head(todo) = ScheduleOf(p, t)
                                /\ Tail(todo) = <<Save>>
    /\ \A p, t : AtSpawn(p, t) => /\ todo # <<>> /\ Head(todo) = SpawnOf(p, t)
                                 /\ Tail(todo) = <<>>
    /\ \A i, a : AtStamp(i, a) => /\ todo # <<>> /\ Head(todo) = StampOf(i, a)
                                 /\ Tail(todo) = <<>>
    /\ AtSave => todo # <<>> /\ Head(todo) = Save /\ Tail(todo) = <<>>
<1>1. \A i : AtWipe(i) =>
          todo # <<>> /\ Head(todo) = UntrackOf(i) /\ Tail(todo) = <<DeleteOf(i)>>
  BY Tuples DEF AtWipe
<1>2. \A i : AtWiped(i) =>
          todo # <<>> /\ Head(todo) = DeleteOf(i) /\ Tail(todo) = <<>>
  BY Tuples DEF AtWiped
<1>3. \A i, p, t : AtRenew(i, p, t) =>
          todo # <<>> /\ Head(todo) = UntrackOf(i) /\ Tail(todo) = <<DeleteOf(i), SpawnOf(p, t)>>
  BY Tuples DEF AtRenew
<1>4. \A i, p, t : AtRenewed(i, p, t) =>
          todo # <<>> /\ Head(todo) = DeleteOf(i) /\ Tail(todo) = <<SpawnOf(p, t)>>
  BY Tuples DEF AtRenewed
<1>5. \A i, p, t : AtFall(i, p, t) =>
          todo # <<>> /\ Head(todo) = DeleteOf(i) /\ Tail(todo) = <<UntrackOf(i), ScheduleOf(p, t), Save>>
  BY Tuples DEF AtFall
<1>6. \A i, p, t : AtFallen(i, p, t) =>
          todo # <<>> /\ Head(todo) = UntrackOf(i) /\ Tail(todo) = <<ScheduleOf(p, t), Save>>
  BY Tuples DEF AtFallen
<1>7. \A p, t : AtOwed(p, t) =>
          todo # <<>> /\ Head(todo) = ScheduleOf(p, t) /\ Tail(todo) = <<Save>>
  BY Tuples DEF AtOwed
<1>8. \A p, t : AtSpawn(p, t) =>
          todo # <<>> /\ Head(todo) = SpawnOf(p, t) /\ Tail(todo) = <<>>
  BY Tuples DEF AtSpawn
<1>9. \A i, a : AtStamp(i, a) =>
          todo # <<>> /\ Head(todo) = StampOf(i, a) /\ Tail(todo) = <<>>
  BY Tuples DEF AtStamp
<1>10. AtSave => todo # <<>> /\ Head(todo) = Save /\ Tail(todo) = <<>>
  BY Tuples DEF AtSave
<1> QED BY <1>1, <1>2, <1>3, <1>4, <1>5, <1>6, <1>7, <1>8, <1>9, <1>10

LEMMA Firsts ==
    /\ \A i : AtWipe(i) => todo # <<>> /\ Head(todo).op = "untrack"
    /\ \A i : AtWiped(i) => todo # <<>> /\ Head(todo).op = "delete"
    /\ \A i, p, t : AtRenew(i, p, t) => todo # <<>> /\ Head(todo).op = "untrack"
    /\ \A i, p, t : AtRenewed(i, p, t) => todo # <<>> /\ Head(todo).op = "delete"
    /\ \A i, p, t : AtFall(i, p, t) => todo # <<>> /\ Head(todo).op = "delete"
    /\ \A i, p, t : AtFallen(i, p, t) => todo # <<>> /\ Head(todo).op = "untrack"
    /\ \A p, t : AtOwed(p, t) => todo # <<>> /\ Head(todo).op = "schedule"
    /\ \A p, t : AtSpawn(p, t) => todo # <<>> /\ Head(todo).op = "spawn"
    /\ \A i, a : AtStamp(i, a) => todo # <<>> /\ Head(todo).op = "stamp"
    /\ AtSave => todo # <<>> /\ Head(todo).op = "save"
BY Tails, Ops

(* A row is never mistaken for none. *)
LEMMA RowsReal ==
    /\ NoBase \notin Row /\ NoBase \notin Track
    /\ \A s, t, c, b :
          [spot |-> s, tier |-> t, clock |-> c, stamped |-> b] # NoBase
    /\ \A s, t, c : [spot |-> s, tier |-> t, clock |-> c] # NoBase
BY DEF NoBase, Row, Track

(* Which turn a write belongs to. *)
LEMMA AtUntrack ==
  ASSUME IInv, Doing("untrack")
  PROVE  \/ /\ Waking /\ step = "purge"
            /\ \E i \in Ids : AtWipe(i) /\ Stamped(left \cup {i})
         \/ ~Waking /\ MatchBut({}) /\ \E i \in Ids : AtWipe(i)
         \/ ~Waking /\ MatchBut({}) /\ \E i \in Ids, p \in Planets, t \in Tiers : AtRenew(i, p, t)
         \/ /\ ~Waking /\ Raided
            /\ \E i \in Ids, p \in Planets, t \in Tiers : AtFallen(i, p, t) /\ Deleted(i)
BY Firsts DEF IInv, WakesClean, Turn, Whole, Doing

LEMMA AtDelete ==
  ASSUME IInv, Doing("delete")
  PROVE  \/ /\ Waking /\ step = "purge"
            /\ \E i \in Ids : AtWiped(i) /\ Stamped(left \cup {i})
         \/ ~Waking /\ \E i \in Ids : AtWiped(i) /\ Untracked(i)
         \/ /\ ~Waking
            /\ \E i \in Ids, p \in Planets, t \in Tiers : AtRenewed(i, p, t) /\ Untracked(i)
         \/ /\ ~Waking /\ Raided /\ MatchBut({})
            /\ \E i \in Ids, p \in Planets, t \in Tiers : AtFall(i, p, t)
BY Firsts DEF IInv, WakesClean, Turn, Whole, Doing

LEMMA AtOthers ==
  ASSUME IInv
  PROVE  /\ Doing("stamp") =>
               ~Waking /\ \E i \in Ids, a \in BOOLEAN : AtStamp(i, a) /\ Placed(i)
         /\ Doing("spawn") =>
               ~Waking /\ MatchBut({}) /\ \E p \in Planets, t \in Tiers : AtSpawn(p, t)
         /\ Doing("schedule") =>
               ~Waking /\ MatchBut({}) /\ \E p \in Planets, t \in Tiers : AtOwed(p, t)
         /\ Doing("save") => ~Waking /\ MatchBut({}) /\ AtSave
BY Firsts DEF IInv, WakesClean, Turn, Whole, Doing

(* Between two turns every base matches. *)
LEMMA Quiet ==
  ASSUME IInv, ~Waking, todo = <<>>
  PROVE  MatchBut({})
BY Firsts DEF IInv, Turn, Whole

-----------------------------------------------------------------------------
(* A spawn makes a row of its own, whose place no base is near. *)
LEMMA SettleMakes ==
  ASSUME NEW p \in Planets, NEW t \in Tiers, NEW a \in BOOLEAN,
         Types, MatchBut({}), BasesApart, Settle(p, t, a)
  PROVE  \E i \in Ids :
            /\ i \notin Live
            /\ world' \in [Ids -> Row \cup {NoBase}]
            /\ \A j \in Ids \ {i} : world'[j] = world[j]
            /\ world'[i] # NoBase /\ world'[i].clock = Pristine
            /\ \A j \in Live : world[j].spot # world'[i].spot
            /\ AtStamp(i, a)'
<1>1. PICK s \in Spots, i \in Ids \ Live :
         /\ Vacant(s)
         /\ world' = [world EXCEPT ![i] =
              [spot |-> s, tier |-> t, clock |-> Pristine, stamped |-> FALSE]]
         /\ todo' = <<[op |-> "stamp", base |-> i, again |-> a]>>
  BY DEF Settle
<1>2. [spot |-> s, tier |-> t, clock |-> Pristine, stamped |-> FALSE] \in Row
  BY DEF Row, Clock
<1>3. world' \in [Ids -> Row \cup {NoBase}] /\ \A j \in Ids \ {i} : world'[j] = world[j]
  BY <1>1, <1>2 DEF Types
<1>4. world'[i] = [spot |-> s, tier |-> t, clock |-> Pristine, stamped |-> FALSE]
  BY <1>1 DEF Types
<1>5. world'[i] # NoBase /\ world'[i].clock = Pristine /\ world'[i].spot = s
  BY <1>4, RowsReal
<1>6. \A j \in Live : world[j].spot # s
  BY <1>1 DEF Vacant, MatchBut, Match, Live, Tracked
<1>7. AtStamp(i, a)'
  BY <1>1 DEF AtStamp, StampOf
<1> QED BY <1>1, <1>3, <1>5, <1>6, <1>7

LEMMA SettleKeeps ==
  ASSUME NEW p \in Planets, NEW t \in Tiers, NEW a \in BOOLEAN,
         Types, MatchBut({}), BasesApart, ~Waking, step' = step, active' = active,
         LeftTracked, left' \subseteq left, Settle(p, t, a)
  PROVE  /\ world' \in [Ids -> Row \cup {NoBase}]
         /\ BasesApart' /\ (~Waking)' /\ Turn' /\ LeftTracked'
         /\ \A j \in Live : world'[j] = world[j]
<1>1. PICK i \in Ids :
            /\ i \notin Live
            /\ world' \in [Ids -> Row \cup {NoBase}]
            /\ \A j \in Ids \ {i} : world'[j] = world[j]
            /\ world'[i] # NoBase /\ world'[i].clock = Pristine
            /\ \A j \in Live : world[j].spot # world'[i].spot
            /\ AtStamp(i, a)'
  BY SettleMakes
<1>2. BasesApart'
  BY <1>1 DEF BasesApart, Live
<1>3. (~Waking)'
  BY DEF Waking
<1>4. active[i] = NoBase
  BY <1>1 DEF MatchBut, Match, Live
<1>5. MatchBut({i})'
  BY <1>1 DEF MatchBut, Match
<1>6. Placed(i)'
  BY <1>1, <1>4, <1>5 DEF Placed
<1>7. Turn'
  BY <1>1, <1>6 DEF Turn
<1>8. Head(todo').op = "stamp"
  BY <1>1, Tuples, Ops DEF AtStamp
<1>9. LeftTracked'
  BY <1>8 DEF LeftTracked
<1>10. \A j \in Live : world'[j] = world[j]
  BY <1>1 DEF Live
<1> QED BY <1>1, <1>2, <1>3, <1>7, <1>9, <1>10

(* The invariant but for the turn: what a step that only decides keeps. *)
Calm == /\ world' = world /\ active' = active /\ pending' = pending
        /\ saved' = saved /\ promised' = promised

LEMMA CalmMatch ==
  ASSUME Calm
  PROVE  /\ \A E : MatchBut(E) => MatchBut(E)'
         /\ BasesApart => BasesApart'
         /\ \A E : Stamped(E) => Stamped(E)'
BY DEF Calm, MatchBut, Match, BasesApart, Live, Stamped

-----------------------------------------------------------------------------
(* The boot finds the rows that are whole, and tracks those.               *)
LEMMA Boots == ASSUME IInv, Boot PROVE IInv'
<1> USE DEF IInv, Boot
<1>1. Types'
  BY DEF Types, Live
<1>2. Stamped(left)'
  BY DEF Stamped, Live
<1>3. WakesClean'
  BY <1>2 DEF WakesClean, Waking
<1>4. (~Waking => Turn)' /\ LeftTracked'
  BY DEF Waking, LeftTracked
<1>5. BasesApart'
  BY DEF BasesApart, Live
<1> QED BY <1>1, <1>3, <1>4, <1>5

LEMMA Rebuilds == ASSUME IInv, Rebuild PROVE IInv'
<1> USE DEF IInv
<1>1. step = "purge" /\ todo = <<>> /\ left = {}
  BY DEF Rebuild, Over, At
<1>2. Stamped({}) /\ \A i \in Ids : active[i] = NoBase
  BY <1>1, Firsts DEF WakesClean, Waking
<1>3. active' = [i \in Ids |->
                    IF i \notin Live THEN NoBase
                    ELSE [spot |-> world[i].spot, tier |-> world[i].tier,
                          clock |-> world[i].clock]]
      /\ world' = world /\ todo' = todo /\ step' = "seed" /\ left' = Seeds
      /\ pending' = saved /\ saved' = saved /\ promised' = promised
  BY DEF Rebuild
<1>4. \A i \in Live : world[i] \in Row
  BY DEF Types, Live
<1>5. \A i \in Live :
         [spot |-> world[i].spot, tier |-> world[i].tier, clock |-> world[i].clock] \in Track
  BY <1>4 DEF Row, Track
<1>6. active' \in [Ids -> Track \cup {NoBase}]
  BY <1>3, <1>5
<1>7. left' \subseteq Seeding
  BY <1>3, NpcBasesAssumption DEF Seeds, Seeding, NpcBasesAssumption
<1>8. Types'
  BY <1>3, <1>6, <1>7 DEF Types
<1>9. \A i \in Ids : Match(i)'
  <2> TAKE i \in Ids
  <2>1. CASE i \notin Live
    BY <1>3, <2>1 DEF Match, Live
  <2>2. CASE i \in Live
    <3>1. active'[i] = [spot |-> world[i].spot, tier |-> world[i].tier,
                        clock |-> world[i].clock]
      BY <1>3, <2>2 DEF Live
    <3>2. active'[i] # NoBase /\ active'[i].spot = world[i].spot
          /\ active'[i].tier = world[i].tier /\ active'[i].clock = world[i].clock
      BY <3>1, RowsReal
    <3> QED BY <1>2, <1>3, <2>2, <3>2 DEF Match, Live, Stamped
  <2> QED BY <2>1, <2>2
<1>10. Turn'
  BY <1>1, <1>3, <1>9 DEF Turn, Whole, MatchBut
<1>11. WakesClean' /\ LeftTracked'
  BY <1>3 DEF WakesClean, Waking, LeftTracked
<1>12. BasesApart'
  BY <1>3 DEF BasesApart, Live
<1> QED BY <1>8, <1>10, <1>11, <1>12

-----------------------------------------------------------------------------
(* A step that only takes up the next turn, or the next writes.            *)
LEMMA Passes ==
  ASSUME IInv, ~Waking, todo = <<>>, Calm,
         step' \in {"idle", "area", "refresh", "combat", "respawn", "respawned", "stale"},
         left' \subseteq Ids, todo' = <<>> \/ AtSave',
         step' \in {"refresh", "stale"} => left' \subseteq Tracked
  PROVE  IInv'
<1>1. Types'
  BY DEF IInv, Types, Calm
<1>2. MatchBut({})'
  BY Quiet, CalmMatch
<1>3. Turn'
  BY <1>2 DEF Turn, Whole
<1>4. WakesClean'
  BY DEF WakesClean, Waking
<1>5. todo' # <<>> => Head(todo').op = "save"
  BY Tuples, Ops DEF AtSave
<1>6. LeftTracked'
  BY <1>5 DEF LeftTracked, Tracked, Calm
<1>7. BasesApart'
  BY CalmMatch DEF IInv
<1> QED BY <1>1, <1>3, <1>4, <1>6, <1>7 DEF IInv

LEMMA PassesAll ==
  ASSUME IInv,
         \/ Booted \/ RespawnStep \/ RespawnsDone \/ StaleStep \/ EndTick \/ Cleared
         \/ \E i \in Ids : MapRefresh(i)
         \/ \E p \in Planets : \E S \in SUBSET {s \in Spots : SpotPlanet[s] = p} : ClearArea(S)
  PROVE  IInv'
<1> USE DEF Calm, Waking, At, Over, Idle
<1>0. step # "seed" => left \subseteq Ids
  BY DEF IInv, Types
<1>1. CASE Booted
  BY <1>1, Passes DEF Booted
<1>2. CASE RespawnStep
  BY <1>0, <1>2, Passes DEF RespawnStep
<1>3. CASE RespawnsDone
  BY <1>0, <1>3, Passes DEF RespawnsDone, AtSave
<1>4. CASE StaleStep
  BY <1>4, Passes DEF StaleStep, Overdue, Tracked
<1>5. CASE EndTick
  BY <1>5, Passes DEF EndTick
<1>6. CASE Cleared
  BY <1>6, Passes DEF Cleared, AtSave
<1>7. ASSUME NEW i \in Ids, MapRefresh(i) PROVE IInv'
  BY <1>7, Passes DEF MapRefresh
<1>8. ASSUME NEW S, ClearArea(S) PROVE IInv'
  BY <1>8, Passes DEF ClearArea, Tracked
<1> QED BY <1>1, <1>2, <1>3, <1>4, <1>5, <1>6, <1>7, <1>8

(* A base is taken from what is left: from now on it is in hand.           *)
LEMMA WipesOne == ASSUME IInv, NEW i \in Ids, WipeOne(i) PROVE IInv'
<1>1. /\ step \in {"purge", "area"} /\ todo = <<>> /\ i \in left
      /\ left' = left \ {i} /\ step' = step /\ Calm /\ AtWipe(i)'
  BY DEF WipeOne, At, Calm, AtWipe, Wipe, UntrackOf, DeleteOf
<1>2. Types'
  BY <1>1 DEF IInv, Types, Calm
<1>3. CASE step = "purge"
  <2>1. Stamped(left) /\ \A j \in Ids : active[j] = NoBase
    BY <1>1, <1>3, Firsts DEF IInv, WakesClean, Waking
  <2>2. Stamped(left \cup {i})'
    BY <1>1, <2>1 DEF Stamped, Calm
  <2>3. WakesClean'
    BY <1>1, <1>3, <2>1, <2>2 DEF WakesClean, Calm
  <2> QED BY <1>1, <1>2, <1>3, <2>3, CalmMatch DEF IInv, Waking, LeftTracked
<1>4. CASE step = "area"
  <2>1. MatchBut({})'
    BY <1>1, <1>4, Quiet, CalmMatch DEF Waking
  <2>2. Turn'
    BY <1>1, <2>1 DEF Turn, Whole
  <2> QED BY <1>1, <1>2, <1>4, <2>2, CalmMatch DEF IInv, Waking, WakesClean, LeftTracked
<1> QED BY <1>1, <1>3, <1>4

LEMMA RenewsOne == ASSUME IInv, NEW i \in Ids, RenewOne(i) PROVE IInv'
<1>1. /\ step \in {"refresh", "stale"} /\ todo = <<>> /\ i \in left
      /\ left' = left \ {i} /\ step' = step /\ Calm /\ todo' = Renew(i)
  BY DEF RenewOne, At, Calm
<1>2. Types'
  BY <1>1 DEF IInv, Types, Calm
<1>3. active[i] \in Track
  BY <1>1 DEF IInv, Types, LeftTracked
<1>4. PlanetOf(active[i]) \in Planets /\ active[i].tier \in Tiers
  BY <1>3, NpcBasesAssumption DEF Track, PlanetOf, NpcBasesAssumption
<1>5. PICK p \in Planets, t \in Tiers : Renew(i) = <<UntrackOf(i), DeleteOf(i), SpawnOf(p, t)>>
  BY <1>4, Tuples DEF Renew, Wipe, UntrackOf, DeleteOf, SpawnOf
<1>6. AtRenew(i, p, t)'
  BY <1>1, <1>5 DEF AtRenew
<1>7. MatchBut({})'
  BY <1>1, Quiet, CalmMatch DEF Waking
<1>8. Turn'
  BY <1>6, <1>7 DEF Turn, Whole
<1>9. Head(todo') = UntrackOf(i)
  BY <1>1, <1>5, Tuples
<1>10. LeftTracked'
  BY <1>1, <1>9, Ops DEF IInv, LeftTracked, Calm
<1> QED BY <1>1, <1>2, <1>8, <1>10, CalmMatch DEF IInv, Waking, WakesClean

(* The headquarters falls: the elimination's writes are ahead. *)
LEMMA Falls == ASSUME IInv, NEW i \in Ids, HqFalls(i) PROVE IInv'
<1>1. /\ step \in {"idle", "combat"} /\ todo = <<>> /\ i \in Live
      /\ left' = left /\ step' = step /\ Calm /\ todo' = Elimination(i)
  BY DEF HqFalls, Fighting, Calm
<1>2. world[i] \in Row
  BY <1>1 DEF IInv, Types, Live
<1>3. PlanetOf(world[i]) \in Planets /\ world[i].tier \in Tiers
  BY <1>2, NpcBasesAssumption DEF Row, PlanetOf, NpcBasesAssumption
<1>4. PICK p \in Planets, t \in Tiers :
         Elimination(i) = <<DeleteOf(i), UntrackOf(i), ScheduleOf(p, t), Save>>
  BY <1>3 DEF Elimination, UntrackOf, DeleteOf, ScheduleOf
<1>5. AtFall(i, p, t)'
  BY <1>1, <1>4 DEF AtFall
<1>6. MatchBut({})'
  BY <1>1, Quiet, CalmMatch DEF Waking
<1>7. Turn'
  BY <1>1, <1>5, <1>6 DEF Turn, Whole, Raided
<1>8. Types'
  BY <1>1 DEF IInv, Types, Calm
<1> QED BY <1>1, <1>7, <1>8, CalmMatch DEF IInv, Waking, WakesClean, LeftTracked

-----------------------------------------------------------------------------
(* The steps that spawn, or find no place. *)
LEMMA Seedings == ASSUME IInv, NEW x \in left, SeedOne(x) PROVE IInv'
<1>1. step = "seed" /\ todo = <<>> /\ ~Waking /\ x \in Seeding
  BY DEF SeedOne, At, Waking, IInv, Types
<1>2. /\ step' = step /\ active' = active /\ pending' = pending /\ saved' = saved
      /\ promised' = promised /\ left' = left \ {x}
  BY DEF SeedOne
<1>3. MatchBut({})
  BY <1>1, Quiet
<1>4. PICK p \in Planets, t \in Tiers : p = x[1] /\ t = x[2]
  BY <1>1 DEF Seeding
<1>5. CASE Settle(x[1], x[2], FALSE)
  <2>1. Settle(p, t, FALSE)
    BY <1>4, <1>5
  <2>2. world' \in [Ids -> Row \cup {NoBase}]
    BY <1>1, <1>2, <1>3, <2>1, SettleKeeps DEF IInv
  <2>3. Types'
    BY <1>1, <1>2, <2>2 DEF IInv, Types
  <2>4. BasesApart' /\ (~Waking)' /\ Turn' /\ LeftTracked'
    BY <1>1, <1>2, <1>3, <2>1, SettleKeeps DEF IInv
  <2> QED BY <2>3, <2>4 DEF IInv, WakesClean
<1>6. CASE UNCHANGED <<world, todo>>
  <2>1. Calm
    BY <1>2, <1>6 DEF Calm
  <2>2. Types'
    BY <1>1, <1>2, <1>6 DEF IInv, Types
  <2>3. MatchBut({})'
    BY <1>3, <2>1, CalmMatch
  <2>4. Turn'
    BY <1>1, <1>6, <2>3 DEF Turn, Whole
  <2> QED BY <1>1, <1>2, <2>1, <2>2, <2>4, CalmMatch DEF IInv, Waking, WakesClean, LeftTracked
<1> QED BY <1>5, <1>6 DEF SeedOne

LEMMA RespawnsTyped ==
  ASSUME Types, NEW p \in Planets, NEW t \in Tiers, Respawn(p, t)
  PROVE  pending' \in [Slots -> Nat]
<1>1. <<p, t, 0>> \in Slots /\ <<p, t, Backoff>> \in Slots
  BY NpcBasesAssumption DEF NpcBasesAssumption, Slots
<1>2. PICK taken : taken = [pending EXCEPT ![<<p, t, 0>>] = @ - 1]
  OBVIOUS
<1>3. taken \in [Slots -> Nat]
  BY <1>1, <1>2 DEF Types, Respawn
<1>4. \/ pending' = taken
      \/ pending' = [taken EXCEPT ![<<p, t, Backoff>>] = @ + 1]
  BY <1>2 DEF Respawn
<1>5. [taken EXCEPT ![<<p, t, Backoff>>] = @ + 1] \in [Slots -> Nat]
  BY <1>1, <1>3
<1> QED BY <1>3, <1>4, <1>5

LEMMA Respawns ==
  ASSUME IInv, NEW p \in Planets, NEW t \in Tiers, Respawn(p, t) PROVE IInv'
<1>1. step = "respawn" /\ todo = <<>> /\ ~Waking /\ pending[<<p, t, 0>>] > 0
  BY DEF Respawn, At, Waking
<1>2. /\ step' = step /\ active' = active /\ saved' = saved
      /\ promised' = promised /\ left' = left
  BY DEF Respawn
<1>3. MatchBut({})
  BY <1>1, Quiet
<1>4. pending' \in [Slots -> Nat]
  BY RespawnsTyped DEF IInv
<1>5. CASE Settle(p, t, TRUE)
  <2>1. world' \in [Ids -> Row \cup {NoBase}]
    BY <1>1, <1>2, <1>3, <1>5, SettleKeeps DEF IInv
  <2>2. Types'
    BY <1>1, <1>2, <1>4, <2>1 DEF IInv, Types
  <2>3. BasesApart' /\ (~Waking)' /\ Turn' /\ LeftTracked'
    BY <1>1, <1>2, <1>3, <1>5, SettleKeeps DEF IInv
  <2> QED BY <2>2, <2>3 DEF IInv, WakesClean
<1>6. CASE UNCHANGED <<world, todo>>
  <2>1. Types'
    BY <1>1, <1>2, <1>4, <1>6 DEF IInv, Types
  <2>2. MatchBut({})'
    BY <1>2, <1>3, <1>6 DEF MatchBut, Match
  <2>3. Turn'
    BY <1>1, <1>6, <2>2 DEF Turn, Whole
  <2>4. BasesApart'
    BY <1>6 DEF IInv, BasesApart, Live
  <2> QED BY <1>1, <1>2, <1>6, <2>1, <2>3, <2>4 DEF IInv, Waking, WakesClean, LeftTracked
<1> QED BY <1>5, <1>6 DEF Respawn

LEMMA Spawns == ASSUME IInv, Spawn PROVE IInv'
<1>1. Doing("spawn")
  BY DEF Spawn
<1>2. ~Waking /\ MatchBut({})
  BY <1>1, AtOthers
<1>3. PICK p \in Planets, t \in Tiers : AtSpawn(p, t)
  BY <1>1, AtOthers
<1>4. Head(todo) = SpawnOf(p, t)
  BY <1>3, Tails
<1>5. /\ step' = step /\ active' = active /\ pending' = pending /\ saved' = saved
      /\ promised' = promised /\ left' = left
  BY DEF Spawn
<1>6. CASE Settle(Head(todo).planet, Head(todo).tier, FALSE)
  <2> Head(todo).planet = p /\ Head(todo).tier = t
    BY <1>4, Ops
  <2>1. Settle(p, t, FALSE)
    BY <1>6
  <2>2. world' \in [Ids -> Row \cup {NoBase}]
    BY <1>2, <1>5, <2>1, SettleKeeps DEF IInv
  <2>3. Types'
    BY <1>5, <2>2 DEF IInv, Types
  <2>4. BasesApart' /\ (~Waking)' /\ Turn' /\ LeftTracked'
    BY <1>2, <1>5, <2>1, SettleKeeps DEF IInv
  <2> QED BY <2>3, <2>4 DEF IInv, WakesClean
<1>7. CASE todo' = <<>> /\ UNCHANGED world
  <2>1. Calm
    BY <1>5, <1>7 DEF Calm
  <2>2. Types'
    BY <1>5, <1>7 DEF IInv, Types
  <2>3. MatchBut({})'
    BY <1>2, <2>1, CalmMatch
  <2>4. Turn'
    BY <1>7, <2>3 DEF Turn, Whole
  <2> QED BY <1>2, <1>5, <1>7, <2>1, <2>2, <2>4, CalmMatch
          DEF IInv, Waking, WakesClean, LeftTracked
<1> QED BY <1>6, <1>7 DEF Spawn

-----------------------------------------------------------------------------
(* The writes. *)
LEMMA StampSettles ==
  ASSUME promised \in [Planets \X Tiers -> Nat], Stamp
  PROVE  /\ promised' \in [Planets \X Tiers -> Nat]
         /\ \A pt \in Planets \X Tiers : promised'[pt] <= promised[pt]
<1>1. PICK x : \/ promised[x] > 0 /\ promised' = [promised EXCEPT ![x] = @ - 1]
               \/ promised' = promised
  BY DEF Stamp
<1>2. \A pt \in Planets \X Tiers : promised[pt] \in Nat
  OBVIOUS
<1> QED BY <1>1, <1>2

LEMMA Stamps == ASSUME IInv, Stamp PROVE IInv'
<1>1. Doing("stamp")
  BY DEF Stamp
<1>2. PICK i \in Ids, a \in BOOLEAN : AtStamp(i, a) /\ Placed(i)
  BY <1>1, AtOthers
<1>3. ~Waking
  BY <1>1, AtOthers
<1>4. Head(todo).base = i /\ Tail(todo) = <<>>
  BY <1>2, Tails, Ops
<1>5. /\ world' = [world EXCEPT ![i].stamped = TRUE]
      /\ active' = [active EXCEPT ![i] =
            [spot |-> world[i].spot, tier |-> world[i].tier, clock |-> Pristine]]
      /\ todo' = <<>> /\ pending' = pending /\ saved' = saved
      /\ step' = step /\ left' = left
  BY <1>4 DEF Stamp
<1>6. world[i] \in Row
  BY <1>2 DEF IInv, Types, Placed
<1>7. PICK r : r = [world[i] EXCEPT !.stamped = TRUE]
  OBVIOUS
<1>8. /\ r \in Row /\ r.stamped /\ r.spot = world[i].spot /\ r.tier = world[i].tier
      /\ r.clock = world[i].clock
  BY <1>6, <1>7 DEF Row
<1>9. world' = [world EXCEPT ![i] = r]
  BY <1>5, <1>7
<1>10. world' \in [Ids -> Row \cup {NoBase}] /\ world'[i] = r
       /\ \A j \in Ids \ {i} : world'[j] = world[j]
  BY <1>8, <1>9 DEF IInv, Types
<1>11. [spot |-> world[i].spot, tier |-> world[i].tier, clock |-> Pristine] \in Track
  BY <1>6 DEF Row, Track, Clock
<1>12. /\ active' \in [Ids -> Track \cup {NoBase}]
       /\ active'[i] = [spot |-> world[i].spot, tier |-> world[i].tier, clock |-> Pristine]
       /\ \A j \in Ids \ {i} : active'[j] = active[j]
  BY <1>5, <1>11 DEF IInv, Types
<1>13. promised' \in [Planets \X Tiers -> Nat]
  BY StampSettles DEF IInv, Types
<1>14. Types'
  BY <1>5, <1>10, <1>12, <1>13 DEF IInv, Types
<1>15. r # NoBase /\ active'[i] # NoBase
  BY <1>8, <1>12, RowsReal
<1>16. Match(i)'
  BY <1>2, <1>8, <1>10, <1>12, <1>15 DEF Match, Placed
<1>17. \A j \in Ids \ {i} : Match(j)'
  BY <1>2, <1>10, <1>12 DEF Match, Placed, MatchBut
<1>18. Turn'
  BY <1>5, <1>16, <1>17 DEF Turn, Whole, MatchBut
<1>19. LeftTracked'
  <2>1. \A j \in Ids : active[j] # NoBase => active'[j] # NoBase
    BY <1>12, <1>15
  <2> QED BY <1>5, <2>1 DEF IInv, Types, LeftTracked
<1>20. BasesApart'
  BY <1>2, <1>8, <1>10 DEF IInv, BasesApart, Live, Placed
<1> QED BY <1>3, <1>5, <1>14, <1>18, <1>19, <1>20 DEF IInv, Waking, WakesClean

LEMMA Untracks == ASSUME IInv, Untrack PROVE IInv'
<1> USE DEF IInv
<1>1. Doing("untrack")
  BY DEF Untrack
<1>2. PICK i \in Ids : Head(todo) = UntrackOf(i)
  BY <1>1, AtUntrack, Tails
<1>3. /\ active' = [active EXCEPT ![i] = NoBase] /\ todo' = Tail(todo)
      /\ world' = world /\ pending' = pending /\ saved' = saved /\ step' = step
      /\ left' = left /\ promised' = promised
  <2>1. Head(todo).base = i
    BY <1>2, Ops
  <2> QED BY <2>1 DEF Untrack
<1>4. /\ active' \in [Ids -> Track \cup {NoBase}] /\ active'[i] = NoBase
      /\ \A j \in Ids \ {i} : active'[j] = active[j]
  BY <1>3 DEF Types
<1>5. Types'
  BY <1>3, <1>4 DEF Types
<1>6. BasesApart'
  BY <1>3 DEF BasesApart, Live
<1>7. todo # <<>> /\ Head(todo).op = "untrack" /\ Head(todo).base = i
  BY <1>1, <1>2, Ops DEF Doing
<1>8. \A j \in Ids : UntrackOf(i) = UntrackOf(j) => i = j
  BY Ops
<1>9. step \in {"refresh", "stale"} => \A j \in left : active'[j] # NoBase
  BY <1>4, <1>7 DEF LeftTracked, Types
<1>10. MatchBut({}) => MatchBut({i})'
  BY <1>3, <1>4 DEF MatchBut, Match
<1>11. CASE Waking /\ step = "purge" /\ AtWipe(i) /\ Stamped(left \cup {i})
  <2>1. AtWiped(i)'
    BY <1>3, <1>11, Tails DEF AtWiped
  <2>2. Stamped(left \cup {i})'
    BY <1>3, <1>11 DEF Stamped
  <2>3. \A j \in Ids : active'[j] = NoBase
    BY <1>4, <1>11 DEF WakesClean
  <2>4. WakesClean'
    BY <1>3, <1>11, <2>1, <2>2, <2>3 DEF WakesClean
  <2> QED BY <1>3, <1>5, <1>6, <1>11, <2>4 DEF Waking, LeftTracked
<1>12. CASE ~Waking /\ MatchBut({}) /\ AtWipe(i)
  <2>1. AtWiped(i)' /\ Untracked(i)'
    BY <1>3, <1>4, <1>10, <1>12, Tails DEF AtWiped, Untracked
  <2>2. Head(todo') = DeleteOf(i)
    BY <2>1, Tuples DEF AtWiped
  <2>3. LeftTracked'
    BY <1>3, <1>9, <2>2, Ops DEF LeftTracked
  <2>4. Turn'
    BY <2>1 DEF Turn
  <2> QED BY <1>3, <1>5, <1>6, <1>12, <2>3, <2>4 DEF Waking, WakesClean
<1>13. ASSUME NEW p \in Planets, NEW t \in Tiers,
              ~Waking, MatchBut({}), AtRenew(i, p, t)
       PROVE  IInv'
  <2>1. AtRenewed(i, p, t)' /\ Untracked(i)'
    BY <1>3, <1>4, <1>10, <1>13, Tails DEF AtRenewed, Untracked
  <2>2. Head(todo') = DeleteOf(i)
    BY <2>1, Tuples DEF AtRenewed
  <2>3. LeftTracked'
    BY <1>3, <1>9, <2>2, Ops DEF LeftTracked
  <2>4. Turn'
    BY <2>1 DEF Turn
  <2> QED BY <1>3, <1>5, <1>6, <1>13, <2>3, <2>4 DEF Waking, WakesClean
<1>14. ASSUME NEW p \in Planets, NEW t \in Tiers,
              ~Waking, Raided, AtFallen(i, p, t), Deleted(i)
       PROVE  IInv'
  <2>1. AtOwed(p, t)'
    BY <1>3, <1>14, Tails DEF AtOwed
  <2>2. MatchBut({})'
    BY <1>3, <1>4, <1>14 DEF Deleted, MatchBut, Match
  <2>3. Turn'
    BY <2>1, <2>2 DEF Turn, Whole
  <2> QED BY <1>3, <1>5, <1>6, <1>14, <2>3 DEF Waking, WakesClean, Raided, LeftTracked
<1>15. \A j, p, t : AtWipe(j) \/ AtRenew(j, p, t) \/ AtFallen(j, p, t) => Head(todo) = UntrackOf(j)
  BY Tails
<1> QED BY <1>1, <1>2, <1>8, <1>11, <1>12, <1>13, <1>14, <1>15, AtUntrack

LEMMA Deletes == ASSUME IInv, Delete PROVE IInv'
<1> USE DEF IInv
<1>1. Doing("delete")
  BY DEF Delete
<1>2. PICK i \in Ids : Head(todo) = DeleteOf(i)
  BY <1>1, AtDelete, Tails
<1>3. /\ world' = [world EXCEPT ![i] = NoBase] /\ todo' = Tail(todo)
      /\ active' = active /\ pending' = pending /\ saved' = saved /\ step' = step
      /\ left' = left /\ promised' = promised
  <2>1. Head(todo).base = i
    BY <1>2, Ops
  <2> QED BY <2>1 DEF Delete
<1>4. /\ world' \in [Ids -> Row \cup {NoBase}] /\ world'[i] = NoBase
      /\ \A j \in Ids \ {i} : world'[j] = world[j]
  BY <1>3 DEF Types
<1>5. Types'
  BY <1>3, <1>4 DEF Types
<1>6. BasesApart'
  BY <1>4 DEF BasesApart, Live
<1>7. \A j \in Ids : DeleteOf(i) = DeleteOf(j) => i = j
  BY Ops
<1>8. step \in {"refresh", "stale"} => \A j \in left : active'[j] # NoBase
  BY <1>3 DEF LeftTracked
<1>9. Untracked(i) => MatchBut({})'
  BY <1>3, <1>4 DEF Untracked, MatchBut, Match
<1>10. MatchBut({}) => Deleted(i)'
  BY <1>3, <1>4 DEF Deleted, MatchBut, Match
<1>11. CASE Waking /\ step = "purge" /\ AtWiped(i) /\ Stamped(left \cup {i})
  <2>1. todo' = <<>>
    BY <1>3, <1>11, Tails
  <2>2. Stamped(left)'
    BY <1>3, <1>4, <1>11 DEF Stamped
  <2>3. \A j \in Ids : active'[j] = NoBase
    BY <1>3, <1>11 DEF WakesClean
  <2>4. WakesClean'
    BY <1>3, <1>11, <2>1, <2>2, <2>3 DEF WakesClean
  <2> QED BY <1>3, <1>5, <1>6, <1>11, <2>4 DEF Waking, LeftTracked
<1>12. CASE ~Waking /\ AtWiped(i) /\ Untracked(i)
  <2>1. todo' = <<>>
    BY <1>3, <1>12, Tails
  <2>2. Turn'
    BY <1>9, <1>12, <2>1 DEF Turn, Whole
  <2>3. LeftTracked'
    BY <1>3, <1>8, <2>1 DEF LeftTracked
  <2> QED BY <1>3, <1>5, <1>6, <1>12, <2>2, <2>3 DEF Waking, WakesClean
<1>13. ASSUME NEW p \in Planets, NEW t \in Tiers,
              ~Waking, AtRenewed(i, p, t), Untracked(i)
       PROVE  IInv'
  <2>1. AtSpawn(p, t)'
    BY <1>3, <1>13, Tails DEF AtSpawn
  <2>2. Head(todo') = SpawnOf(p, t)
    BY <2>1, Tuples DEF AtSpawn
  <2>3. Turn'
    BY <1>9, <1>13, <2>1 DEF Turn, Whole
  <2>4. LeftTracked'
    BY <1>3, <1>8, <2>2, Ops DEF LeftTracked
  <2> QED BY <1>3, <1>5, <1>6, <1>13, <2>3, <2>4 DEF Waking, WakesClean
<1>14. ASSUME NEW p \in Planets, NEW t \in Tiers,
              ~Waking, Raided, MatchBut({}), AtFall(i, p, t)
       PROVE  IInv'
  <2>1. AtFallen(i, p, t)'
    BY <1>3, <1>14, Tails DEF AtFallen
  <2>2. Raided'
    BY <1>3, <1>14 DEF Raided
  <2>3. Turn'
    BY <1>10, <1>14, <2>1, <2>2 DEF Turn
  <2> QED BY <1>3, <1>5, <1>6, <1>14, <2>2, <2>3 DEF Waking, WakesClean, Raided, LeftTracked
<1>15. \A j, p, t : AtWiped(j) \/ AtRenewed(j, p, t) \/ AtFall(j, p, t) => Head(todo) = DeleteOf(j)
  BY Tails
<1> QED BY <1>1, <1>2, <1>7, <1>11, <1>12, <1>13, <1>14, <1>15, AtDelete

LEMMA Schedules == ASSUME IInv, Schedule PROVE IInv'
<1>1. Doing("schedule")
  BY DEF Schedule
<1>2. ~Waking /\ MatchBut({})
  BY <1>1, AtOthers
<1>3. PICK p \in Planets, t \in Tiers : AtOwed(p, t)
  BY <1>1, AtOthers
<1>4. Head(todo).planet = p /\ Head(todo).tier = t /\ Tail(todo) = <<Save>>
  BY <1>3, Tails, Ops
<1>5. /\ pending' = [pending EXCEPT ![<<p, t, RespawnTicks>>] = @ + 1]
      /\ todo' = <<Save>> /\ world' = world /\ active' = active /\ saved' = saved
      /\ step' = step /\ left' = left /\ promised' = promised
  BY <1>4 DEF Schedule
<1>6. <<p, t, RespawnTicks>> \in Slots
  BY NpcBasesAssumption DEF NpcBasesAssumption, Slots
<1>7. Types'
  BY <1>5, <1>6 DEF IInv, Types
<1>8. MatchBut({})'
  BY <1>2, <1>5 DEF MatchBut, Match
<1>9. Turn'
  BY <1>5, <1>8 DEF Turn, Whole, AtSave
<1>10. Head(todo').op = "save"
  BY <1>5, Tuples, Ops
<1>11. LeftTracked'
  BY <1>5, <1>10 DEF IInv, LeftTracked
<1>12. BasesApart'
  BY <1>5 DEF IInv, BasesApart, Live
<1> QED BY <1>2, <1>5, <1>7, <1>9, <1>11, <1>12 DEF IInv, Waking, WakesClean

LEMMA Saves == ASSUME IInv, SaveState PROVE IInv'
<1>1. ~Waking /\ MatchBut({}) /\ AtSave
  BY AtOthers DEF SaveState
<1>2. /\ todo' = <<>> /\ world' = world /\ active' = active /\ pending' = pending
      /\ saved' = pending /\ step' = step /\ left' = left
      /\ promised' = [pt \in Planets \X Tiers |-> Waiting(pending, pt[1], pt[2])]
  BY <1>1, Tails DEF SaveState
<1>3. promised' \in [Planets \X Tiers -> Nat]
  <2>1. \A pt \in Planets \X Tiers : Waiting(pending, pt[1], pt[2]) \in Nat
    BY WaitingTyped DEF IInv, Types
  <2> QED BY <1>2, <2>1
<1>4. Types'
  BY <1>2, <1>3 DEF IInv, Types
<1>5. MatchBut({})'
  BY <1>1, <1>2 DEF MatchBut, Match
<1>6. Turn'
  BY <1>2, <1>5 DEF Turn, Whole
<1>7. BasesApart'
  BY <1>2 DEF IInv, BasesApart, Live
<1> QED BY <1>1, <1>2, <1>4, <1>6, <1>7 DEF IInv, Waking, WakesClean, LeftTracked

-----------------------------------------------------------------------------
(* The clocks. *)
LEMMA HitTouches ==
  ASSUME IInv, NEW i \in Ids, Hit(i)
  PROVE  /\ world' \in [Ids -> Row \cup {NoBase}]
         /\ active' \in [Ids -> Track \cup {NoBase}]
         /\ \A j \in Ids \ {i} : world'[j] = world[j] /\ active'[j] = active[j]
         /\ world'[i] # NoBase /\ active'[i] # NoBase
         /\ world'[i].clock = StaleTicks /\ active'[i].clock = StaleTicks
         /\ world'[i].spot = world[i].spot /\ world'[i].tier = world[i].tier
         /\ world'[i].stamped = world[i].stamped
         /\ active'[i].spot = active[i].spot /\ active'[i].tier = active[i].tier
<1>1. /\ active' = [active EXCEPT ![i].clock = StaleTicks]
      /\ world' = [world EXCEPT ![i].clock = StaleTicks]
      /\ world[i] \in Row /\ active[i] \in Track
  BY DEF Hit, Live, Tracked, IInv, Types
<1>2. StaleTicks \in Clock
  BY NpcBasesAssumption DEF NpcBasesAssumption, Clock
<1>3. PICK r, b : /\ r = [world[i] EXCEPT !.clock = StaleTicks]
                  /\ b = [active[i] EXCEPT !.clock = StaleTicks]
  OBVIOUS
<1>4. /\ r \in Row /\ r.spot = world[i].spot /\ r.tier = world[i].tier
      /\ r.stamped = world[i].stamped /\ r.clock = StaleTicks
  BY <1>1, <1>2, <1>3 DEF Row
<1>5. /\ b \in Track /\ b.spot = active[i].spot /\ b.tier = active[i].tier
      /\ b.clock = StaleTicks
  BY <1>1, <1>2, <1>3 DEF Track
<1>6. world' = [world EXCEPT ![i] = r] /\ active' = [active EXCEPT ![i] = b]
  BY <1>1, <1>3
<1>7. /\ world' \in [Ids -> Row \cup {NoBase}] /\ world'[i] = r
      /\ \A j \in Ids \ {i} : world'[j] = world[j]
  BY <1>4, <1>6 DEF IInv, Types
<1>8. /\ active' \in [Ids -> Track \cup {NoBase}] /\ active'[i] = b
      /\ \A j \in Ids \ {i} : active'[j] = active[j]
  BY <1>5, <1>6 DEF IInv, Types
<1>9. r # NoBase /\ b # NoBase
  BY <1>4, <1>5, RowsReal
<1> QED BY <1>4, <1>5, <1>7, <1>8, <1>9

LEMMA Hits == ASSUME IInv, NEW i \in Ids, Hit(i) PROVE IInv'
<1>1. /\ step \in {"idle", "combat"} /\ todo = <<>> /\ world[i] # NoBase
      /\ active[i] # NoBase /\ todo' = <<>> /\ step' = step /\ left' = left
      /\ pending' = pending /\ saved' = saved /\ promised' = promised
  BY DEF Hit, Fighting, Live, Tracked
<1>2. ~Waking /\ MatchBut({})
  BY <1>1, Quiet DEF Waking
<1>3. Types'
  BY <1>1, HitTouches DEF IInv, Types
<1>4. Match(i)'
  BY <1>1, <1>2, HitTouches DEF MatchBut, Match
<1>5. \A j \in Ids \ {i} : Match(j)'
  BY <1>2, HitTouches DEF MatchBut, Match
<1>6. Turn'
  BY <1>1, <1>4, <1>5 DEF Turn, Whole, MatchBut
<1>7. BasesApart'
  BY <1>1, HitTouches DEF IInv, BasesApart, Live
<1> QED BY <1>1, <1>3, <1>6, <1>7 DEF IInv, Waking, WakesClean, LeftTracked

(* A clock that runs stays in its range, and never goes up. *)
LEMMA Runs ==
  /\ Ran(NoBase) = NoBase
  /\ \A b \in Row :
        /\ Ran(b) \in Row /\ Ran(b) # NoBase /\ Ran(b).spot = b.spot
        /\ Ran(b).tier = b.tier /\ Ran(b).stamped = b.stamped
        /\ Ran(b).clock = (IF b.clock = Pristine THEN Pristine ELSE Down(b.clock))
  /\ \A b \in Track :
        /\ Ran(b) \in Track /\ Ran(b) # NoBase /\ Ran(b).spot = b.spot
        /\ Ran(b).tier = b.tier
        /\ Ran(b).clock = (IF b.clock = Pristine THEN Pristine ELSE Down(b.clock))
<1>1. \A c \in Clock : c # Pristine => Down(c) \in Clock
  BY NpcBasesAssumption DEF NpcBasesAssumption, Clock, Down
<1>2. Ran(NoBase) = NoBase
  BY DEF Ran
<1>3. ASSUME NEW b \in Row
      PROVE  /\ Ran(b) \in Row /\ Ran(b) # NoBase /\ Ran(b).spot = b.spot
             /\ Ran(b).tier = b.tier /\ Ran(b).stamped = b.stamped
             /\ Ran(b).clock = (IF b.clock = Pristine THEN Pristine ELSE Down(b.clock))
  <2>1. b # NoBase
    BY RowsReal
  <2>2. CASE b.clock = Pristine
    BY <2>1, <2>2 DEF Ran
  <2>3. CASE b.clock # Pristine
    <3>1. Ran(b) = [b EXCEPT !.clock = Down(b.clock)]
      BY <2>1, <2>3 DEF Ran
    <3>2. Down(b.clock) \in Clock
      BY <1>1, <2>3 DEF Row
    <3>3. /\ Ran(b) \in Row /\ Ran(b).spot = b.spot /\ Ran(b).tier = b.tier
          /\ Ran(b).stamped = b.stamped /\ Ran(b).clock = Down(b.clock)
      BY <3>1, <3>2 DEF Row
    <3> QED BY <2>3, <3>3, RowsReal
  <2> QED BY <2>2, <2>3
<1>4. ASSUME NEW b \in Track
      PROVE  /\ Ran(b) \in Track /\ Ran(b) # NoBase /\ Ran(b).spot = b.spot
             /\ Ran(b).tier = b.tier
             /\ Ran(b).clock = (IF b.clock = Pristine THEN Pristine ELSE Down(b.clock))
  <2>1. b # NoBase
    BY RowsReal
  <2>2. CASE b.clock = Pristine
    BY <2>1, <2>2 DEF Ran
  <2>3. CASE b.clock # Pristine
    <3>1. Ran(b) = [b EXCEPT !.clock = Down(b.clock)]
      BY <2>1, <2>3 DEF Ran
    <3>2. Down(b.clock) \in Clock
      BY <1>1, <2>3 DEF Track
    <3>3. /\ Ran(b) \in Track /\ Ran(b).spot = b.spot /\ Ran(b).tier = b.tier
          /\ Ran(b).clock = Down(b.clock)
      BY <3>1, <3>2 DEF Track
    <3> QED BY <2>3, <3>3, RowsReal
  <2> QED BY <2>2, <2>3
<1> QED BY <1>2, <1>3, <1>4

LEMMA AgedTyped == ASSUME NEW f \in [Slots -> Nat] PROVE Aged(f) \in [Slots -> Nat]
<1>1. ASSUME NEW p \in Planets, NEW t \in Tiers, NEW n \in 0..RespawnTicks
      PROVE  f[<<p, t, n>>] \in Nat
  BY <1>1 DEF Slots
<1>2. ASSUME NEW k \in Slots PROVE Aged(f)[k] \in Nat
  <2>1. k[1] \in Planets /\ k[2] \in Tiers /\ k[3] \in 0..RespawnTicks
    BY DEF Slots
  <2>2. (IF k[3] + 1 \in 0..RespawnTicks THEN f[<<k[1], k[2], k[3] + 1>>] ELSE 0) \in Nat
    BY <1>1, <2>1
  <2>3. (IF k[3] = 0
         THEN IF 0 \in 0..RespawnTicks THEN f[<<k[1], k[2], 0>>] ELSE 0
         ELSE 0) \in Nat
    BY <1>1, <2>1
  <2>4. Aged(f)[k] =
          (IF k[3] + 1 \in 0..RespawnTicks THEN f[<<k[1], k[2], k[3] + 1>>] ELSE 0)
          + (IF k[3] = 0
             THEN IF 0 \in 0..RespawnTicks THEN f[<<k[1], k[2], 0>>] ELSE 0
             ELSE 0)
    BY DEF Aged
  <2> QED BY <2>2, <2>3, <2>4
<1>3. Aged(f) = [k \in Slots |-> Aged(f)[k]]
  BY DEF Aged
<1> QED BY <1>2, <1>3

(* A tick brings every entry of the schedule one slot nearer, and those   *)
(* that are due stay: no unit of it is lost.                               *)
LEMMA AgedAt ==
  ASSUME NEW f \in [Slots -> Nat], NEW p \in Planets, NEW t \in Tiers
  PROVE  /\ Aged(f)[<<p, t, 0>>] = f[<<p, t, 0>>] + f[<<p, t, 1>>]
         /\ \A n \in 2..RespawnTicks : Aged(f)[<<p, t, n - 1>>] = f[<<p, t, n>>]
<1>1. RespawnTicks \in Nat /\ RespawnTicks >= 1
  BY NpcBasesAssumption DEF NpcBasesAssumption
<1>2. \A n \in 0..RespawnTicks : <<p, t, n>> \in Slots
  BY DEF Slots
<1>3. \A n \in 0..RespawnTicks : f[<<p, t, n>>] \in Nat
  BY <1>2
<1>4. \A n \in 0..RespawnTicks :
         Aged(f)[<<p, t, n>>] =
           (IF n + 1 \in 0..RespawnTicks THEN f[<<p, t, n + 1>>] ELSE 0)
             + IF n = 0 THEN IF 0 \in 0..RespawnTicks THEN f[<<p, t, 0>>] ELSE 0 ELSE 0
  BY <1>2 DEF Aged
<1>5. Aged(f)[<<p, t, 0>>] = f[<<p, t, 0>>] + f[<<p, t, 1>>]
  BY <1>1, <1>3, <1>4
<1>6. ASSUME NEW n \in 2..RespawnTicks
      PROVE  Aged(f)[<<p, t, n - 1>>] = f[<<p, t, n>>]
  <2>1. n - 1 \in 0..RespawnTicks /\ (n - 1) + 1 = n /\ n - 1 # 0 /\ n \in 0..RespawnTicks
    BY <1>1
  <2> QED BY <1>3, <1>4, <2>1
<1> QED BY <1>5, <1>6

LEMMA WaitingAged ==
  ASSUME NEW f \in [Slots -> Nat], NEW p \in Planets, NEW t \in Tiers
  PROVE  Waiting(f, p, t) <= Waiting(Aged(f), p, t)
<1>1. PICK S : S = {p} \X {t} \X (0..RespawnTicks)
  OBVIOUS
<1>2. PICK a : a = Aged(f)
  OBVIOUS
<1>3. /\ IsFiniteSet(S) /\ S \subseteq Slots
      /\ \A x \in S : x = <<p, t, x[3]>> /\ x[3] \in 0..RespawnTicks
      /\ \A n \in 0..RespawnTicks : <<p, t, n>> \in S
  BY <1>1, WaitingSlots
<1>4. a \in [Slots -> Nat]
  BY <1>2, AgedTyped
<1>5. IsFiniteSet(Units(a, S))
  BY <1>3, <1>4, UnitsFinite
<1>6. PICK m : m = [u \in Units(f, S) |->
                      IF u[1][3] = 0 THEN u
                      ELSE IF u[1][3] = 1 THEN <<<<p, t, 0>>, f[<<p, t, 0>>] + u[2]>>
                      ELSE <<<<p, t, u[1][3] - 1>>, u[2]>>]
  OBVIOUS
<1>7. ASSUME NEW u \in Units(f, S)
      PROVE  \E n \in 0..RespawnTicks, k \in Nat :
                /\ k \in 1..f[<<p, t, n>>] /\ u = <<<<p, t, n>>, k>> /\ f[<<p, t, n>>] \in Nat
                /\ m[u] = IF n = 0 THEN <<<<p, t, 0>>, k>>
                          ELSE IF n = 1 THEN <<<<p, t, 0>>, f[<<p, t, 0>>] + k>>
                          ELSE <<<<p, t, n - 1>>, k>>
  <2>0. PICK x \in S : \E k \in 1..f[x] : u = <<x, k>>
    BY UnitsOf
  <2>1. PICK k \in 1..f[x] : u = <<x, k>>
    BY <2>0
  <2>2. PICK n \in 0..RespawnTicks : x = <<p, t, n>>
    BY <1>3
  <2>3. u[1][3] = n /\ u[2] = k
    BY <2>1, <2>2
  <2>4. f[x] \in Nat
    BY <1>3
  <2>5. m[u] = IF n = 0 THEN u
               ELSE IF n = 1 THEN <<<<p, t, 0>>, f[<<p, t, 0>>] + k>>
               ELSE <<<<p, t, n - 1>>, k>>
    BY <1>6, <2>3
  <2>6. k \in Nat /\ k \in 1..f[<<p, t, n>>] /\ u = <<<<p, t, n>>, k>>
    BY <2>1, <2>2, <2>4
  <2>7. CASE n = 0
    BY <2>2, <2>4, <2>5, <2>6, <2>7
  <2>8. CASE n # 0
    BY <2>2, <2>4, <2>5, <2>6, <2>8
  <2> QED BY <2>7, <2>8
<1>8. f[<<p, t, 0>>] \in Nat /\ RespawnTicks \in Nat /\ RespawnTicks >= 1 /\ 0 \in 0..RespawnTicks
  BY NpcBasesAssumption DEF NpcBasesAssumption, Slots
<1>9. ASSUME NEW u \in Units(f, S) PROVE m[u] \in Units(a, S)
  <2>1. PICK n \in 0..RespawnTicks, k \in Nat :
                /\ k \in 1..f[<<p, t, n>>] /\ u = <<<<p, t, n>>, k>> /\ f[<<p, t, n>>] \in Nat
                /\ m[u] = IF n = 0 THEN <<<<p, t, 0>>, k>>
                          ELSE IF n = 1 THEN <<<<p, t, 0>>, f[<<p, t, 0>>] + k>>
                          ELSE <<<<p, t, n - 1>>, k>>
    BY <1>7
  <2>2. <<p, t, 0>> \in S /\ (n >= 1 => <<p, t, n - 1>> \in S)
    BY <1>3, <1>8
  <2>3. a[<<p, t, 0>>] = f[<<p, t, 0>>] + f[<<p, t, 1>>]
    BY <1>2, AgedAt
  <2>8. f[<<p, t, 1>>] \in Nat
    BY <1>8 DEF Slots
  <2>4. CASE n = 0
    <3>1. k \in 1..a[<<p, t, 0>>]
      BY <1>8, <2>1, <2>3, <2>8, <2>4
    <3> QED BY <2>1, <2>2, <2>4, <3>1, UnitsOf
  <2>5. CASE n = 1
    <3>1. f[<<p, t, 0>>] + k \in 1..a[<<p, t, 0>>]
      BY <1>8, <2>1, <2>3, <2>5
    <3> QED BY <2>1, <2>2, <2>5, <3>1, UnitsOf
  <2>6. CASE n \notin {0, 1}
    <3>1. n \in 2..RespawnTicks /\ n >= 1 /\ n # 0 /\ n # 1
      BY <1>8, <2>6
    <3>2. a[<<p, t, n - 1>>] = f[<<p, t, n>>]
      BY <1>2, <3>1, AgedAt
    <3>3. m[u] = <<<<p, t, n - 1>>, k>>
      BY <2>1, <3>1
    <3> QED BY <2>1, <2>2, <3>1, <3>2, <3>3, UnitsOf
  <2> QED BY <2>4, <2>5, <2>6
<1>10. ASSUME NEW u \in Units(f, S), NEW v \in Units(f, S), m[u] = m[v] PROVE u = v
  <2>1. PICK n \in 0..RespawnTicks, k \in Nat :
                /\ k \in 1..f[<<p, t, n>>] /\ u = <<<<p, t, n>>, k>> /\ f[<<p, t, n>>] \in Nat
                /\ m[u] = IF n = 0 THEN <<<<p, t, 0>>, k>>
                          ELSE IF n = 1 THEN <<<<p, t, 0>>, f[<<p, t, 0>>] + k>>
                          ELSE <<<<p, t, n - 1>>, k>>
    BY <1>7
  <2>2. PICK i \in 0..RespawnTicks, j \in Nat :
                /\ j \in 1..f[<<p, t, i>>] /\ v = <<<<p, t, i>>, j>> /\ f[<<p, t, i>>] \in Nat
                /\ m[v] = IF i = 0 THEN <<<<p, t, 0>>, j>>
                          ELSE IF i = 1 THEN <<<<p, t, 0>>, f[<<p, t, 0>>] + j>>
                          ELSE <<<<p, t, i - 1>>, j>>
    BY <1>7
  <2>3. \A n1, k1, n2, k2 : <<<<p, t, n1>>, k1>> = <<<<p, t, n2>>, k2>> => n1 = n2 /\ k1 = k2
    OBVIOUS
  <2>4. n = i /\ k = j
    <3>1. CASE n = 0
      BY <1>8, <1>10, <2>1, <2>2, <2>3, <3>1
    <3>2. CASE n = 1
      BY <1>8, <1>10, <2>1, <2>2, <2>3, <3>2
    <3>3. CASE n \notin {0, 1}
      BY <1>8, <1>10, <2>1, <2>2, <2>3, <3>3
    <3> QED BY <3>1, <3>2, <3>3
  <2> QED BY <2>1, <2>2, <2>4
<1>11. m \in [Units(f, S) -> Units(a, S)]
  BY <1>6, <1>9
<1>12. Tally(f, S) <= Tally(a, S)
  BY <1>5, <1>10, <1>11, TallyGrows
<1> QED BY <1>1, <1>2, <1>12 DEF Waiting

LEMMA Ticks == ASSUME IInv, BeginTick PROVE IInv'
<1>1. /\ step = "idle" /\ todo = <<>> /\ step' = "combat" /\ todo' = <<>>
      /\ world' = [i \in Ids |-> Ran(world[i])] /\ active' = [i \in Ids |-> Ran(active[i])]
      /\ pending' = Aged(pending) /\ saved' = Aged(saved) /\ left' = left
      /\ promised' = promised
  BY DEF BeginTick, Idle
<1>2. ~Waking /\ MatchBut({})
  BY <1>1, Quiet DEF Waking
<1>3. /\ world' \in [Ids -> Row \cup {NoBase}]
      /\ active' \in [Ids -> Track \cup {NoBase}]
  BY <1>1, Runs DEF IInv, Types
<1>4. Types'
  BY <1>1, <1>3, AgedTyped DEF IInv, Types
<1>5. \A i \in Ids : Match(i)'
  <2> TAKE i \in Ids
  <2>1. /\ world'[i] = Ran(world[i]) /\ active'[i] = Ran(active[i])
        /\ world[i] \in Row \cup {NoBase} /\ active[i] \in Track \cup {NoBase}
    BY <1>1 DEF IInv, Types
  <2>2. Match(i)
    BY <1>2 DEF MatchBut
  <2>3. CASE world[i] = NoBase
    BY <2>1, <2>2, <2>3, Runs DEF Match
  <2>4. CASE world[i] # NoBase
    <3>1. world[i] \in Row /\ active[i] \in Track
      BY <2>1, <2>2, <2>4 DEF Match
    <3> QED BY <2>1, <2>2, <2>4, <3>1, Runs DEF Match
  <2> QED BY <2>3, <2>4
<1>6. Turn'
  BY <1>1, <1>5 DEF Turn, Whole, MatchBut
<1>7. \A i \in Ids : world'[i] # NoBase =>
         world[i] # NoBase /\ world'[i].spot = world[i].spot
  BY <1>1, Runs DEF IInv, Types
<1>8. BasesApart'
  BY <1>7 DEF IInv, BasesApart, Live
<1> QED BY <1>1, <1>4, <1>6, <1>8 DEF IInv, Waking, WakesClean, LeftTracked

LEMMA Stops == ASSUME IInv, Stop PROVE IInv'
<1>1. Types'
  BY DEF IInv, Types, Stop
<1>2. WakesClean'
  BY DEF Stop, WakesClean
<1> QED BY <1>1, <1>2 DEF IInv, Stop, Waking, LeftTracked, BasesApart, Live

-----------------------------------------------------------------------------
LEMMA Starts == Init => IInv
<1> SUFFICES ASSUME Init PROVE IInv
  OBVIOUS
<1>1. Types
  BY DEF Init, Types
<1> QED BY <1>1 DEF Init, IInv, WakesClean, Waking, LeftTracked, BasesApart, Live

LEMMA Inductive == IInv /\ [Next]_vars => IInv'
<1> SUFFICES ASSUME IInv, [Next]_vars PROVE IInv'
  OBVIOUS
<1>1. CASE Boot \/ Rebuild
  BY <1>1, Boots, Rebuilds
<1>2. CASE Booted \/ RespawnStep \/ RespawnsDone \/ StaleStep \/ EndTick \/ Cleared
  BY <1>2, PassesAll
<1>3. CASE Writing
  BY <1>3, Stamps, Spawns, Untracks, Deletes, Schedules, Saves DEF Writing
<1>4. CASE BeginTick \/ Stop
  BY <1>4, Ticks, Stops
<1>5. ASSUME NEW p \in Planets, NEW t \in Tiers, Respawn(p, t) PROVE IInv'
  BY <1>5, Respawns
<1>6. ASSUME NEW x \in left, SeedOne(x) PROVE IInv'
  BY <1>6, Seedings
<1>7. ASSUME NEW i \in Ids, Hit(i) \/ HqFalls(i) \/ WipeOne(i) \/ RenewOne(i) PROVE IInv'
  BY <1>7, Hits, Falls, WipesOne, RenewsOne
<1>8. ASSUME NEW i \in Ids, MapRefresh(i) PROVE IInv'
  BY <1>8, PassesAll
<1>9. ASSUME NEW p \in Planets, NEW S \in SUBSET {s \in Spots : SpotPlanet[s] = p},
             ClearArea(S)
      PROVE IInv'
  BY <1>9, PassesAll
<1>10. CASE UNCHANGED vars
  BY <1>10 DEF vars, IInv, Types, WakesClean, Waking, Stamped, AtWipe, AtWiped, Turn,
     Whole, MatchBut, Match, AtSave, AtOwed, AtSpawn, AtRenew, AtFall, AtRenewed,
     AtFallen, AtStamp, Untracked, Deleted, Placed, Raided, LeftTracked, BasesApart, Live
<1> QED BY <1>1, <1>2, <1>3, <1>4, <1>5, <1>6, <1>7, <1>8, <1>9, <1>10
        DEF Next, Running, Tick

LEMMA Invariant == Spec => []IInv
<1>1. Init => IInv BY Starts
<1>2. IInv /\ [Next]_vars => IInv' BY Inductive
<1> QED BY <1>1, <1>2, PTL DEF Spec

-----------------------------------------------------------------------------
(* The writes a turn has left are writes. *)
LEMMA TodoTyped ==
  ASSUME IInv PROVE todo \in Seq(Write)
<1>1. \A i \in Ids : UntrackOf(i) \in Write /\ DeleteOf(i) \in Write
  BY DEF Write, UntrackOf, DeleteOf
<1>2. \A i \in Ids, a \in BOOLEAN : StampOf(i, a) \in Write
  BY DEF Write, StampOf
<1>3. \A p \in Planets, t \in Tiers : SpawnOf(p, t) \in Write /\ ScheduleOf(p, t) \in Write
  BY DEF Write, SpawnOf, ScheduleOf
<1>4. Save \in Write
  BY DEF Write, Save
<1>5. /\ <<>> \in Seq(Write)
      /\ \A u \in Write : <<u>> \in Seq(Write)
      /\ \A u, v \in Write : <<u, v>> \in Seq(Write)
      /\ \A u, v, w \in Write : <<u, v, w>> \in Seq(Write)
      /\ \A u, v, w, x \in Write : <<u, v, w, x>> \in Seq(Write)
  OBVIOUS
<1>6. /\ \A i \in Ids : AtWipe(i) => todo \in Seq(Write)
      /\ \A i \in Ids : AtWiped(i) => todo \in Seq(Write)
      /\ \A p \in Planets, t \in Tiers : AtSpawn(p, t) => todo \in Seq(Write)
      /\ \A p \in Planets, t \in Tiers : AtOwed(p, t) => todo \in Seq(Write)
      /\ \A i \in Ids, a \in BOOLEAN : AtStamp(i, a) => todo \in Seq(Write)
  BY <1>1, <1>2, <1>3, <1>4, <1>5 DEF AtWipe, AtWiped, AtSpawn, AtOwed, AtStamp
<1>7. ASSUME NEW i \in Ids, NEW p \in Planets, NEW t \in Tiers
      PROVE  /\ AtRenew(i, p, t) => todo \in Seq(Write)
             /\ AtRenewed(i, p, t) => todo \in Seq(Write)
             /\ AtFall(i, p, t) => todo \in Seq(Write)
             /\ AtFallen(i, p, t) => todo \in Seq(Write)
  BY <1>1, <1>3, <1>4, <1>5 DEF AtRenew, AtRenewed, AtFall, AtFallen
<1>8. AtSave => todo \in Seq(Write)
  BY <1>4, <1>5 DEF AtSave
<1>9. CASE Waking
  BY <1>5, <1>6, <1>9 DEF IInv, WakesClean
<1>10. CASE ~Waking
  BY <1>5, <1>6, <1>7, <1>8, <1>10 DEF IInv, Turn, Whole
<1> QED BY <1>9, <1>10

(* Every row, record and schedule stays what the spawner reads back from   *)
(* the database, whatever is cut off.                                      *)
THEOREM TypeCorrect == Spec => []TypeOK
<1>1. IInv => TypeOK
  BY TodoTyped DEF IInv, Types, TypeOK
<1> QED BY <1>1, Invariant, PTL

(* Between two handlers the spawner tracks what stands, record for record, *)
(* at any number of places: no phantom base, no forgotten one.             *)
THEOREM NoPhantomBase == Spec => []TrackingIsTrue
<1>1. IInv => TrackingIsTrue
  BY Quiet DEF IInv, TrackingIsTrue, Idle, Waking, MatchBut, Match, Live, Tracked
<1> QED BY <1>1, Invariant, PTL

(* Two bases never share a place, though _placement_valid only looks at    *)
(* what is tracked.                                                        *)
THEOREM NoBaseOnAnother == Spec => []BasesApart
<1>1. IInv => BasesApart
  BY DEF IInv
<1> QED BY <1>1, Invariant, PTL

(* Only three kinds of step write a row that stands before and after.      *)
LEMMA RowsKept ==
  ASSUME IInv, [Next]_vars, NEW j \in Ids, j \in Live, j \in Live', world[j].clock # Pristine
  PROVE  world'[j].clock # Pristine /\ world'[j].clock <= world[j].clock
<1>1. world[j] \in Row /\ world[j].clock \in Nat
  BY DEF IInv, Types, Live, Row, Clock
<1>2. Pristine \notin Nat /\ world[j].clock <= world[j].clock
  BY <1>1, NpcBasesAssumption DEF NpcBasesAssumption
<1>3. CASE world'[j] = world[j]
  BY <1>2, <1>3
<1>4. ASSUME NEW p \in Planets, NEW t \in Tiers, NEW a \in BOOLEAN,
             Settle(p, t, a), ~Waking, todo = <<>> \/ Doing("spawn")
      PROVE  world'[j] = world[j]
  <2>1. MatchBut({})
    BY <1>4, Quiet, AtOthers
  <2> QED BY <1>4, <2>1, SettleMakes DEF IInv, Live
<1>5. CASE Stamp
  <2>1. PICK i \in Ids, a \in BOOLEAN : AtStamp(i, a) /\ Placed(i)
    BY <1>5, AtOthers DEF Stamp
  <2>2. Head(todo).base = i
    BY <2>1, Tails, Ops
  <2>3. world' = [world EXCEPT ![i].stamped = TRUE]
    BY <1>5, <2>2 DEF Stamp
  <2>4. i # j
    BY <2>1 DEF Placed
  <2>5. world'[j] = world[j]
    BY <2>3, <2>4 DEF IInv, Types
  <2> QED BY <1>3, <2>5
<1>6. CASE Delete
  <2>1. world' = [world EXCEPT ![Head(todo).base] = NoBase]
    BY <1>6 DEF Delete
  <2>2. world'[j] # NoBase
    BY DEF Live
  <2>3. world'[j] = world[j]
    BY <2>1, <2>2 DEF IInv, Types
  <2> QED BY <1>3, <2>3
<1>7. CASE Spawn
  <2>1. Doing("spawn")
    BY <1>7 DEF Spawn
  <2>2. PICK p \in Planets, t \in Tiers : AtSpawn(p, t)
    BY <2>1, AtOthers
  <2>3. Head(todo).planet = p /\ Head(todo).tier = t
    BY <2>2, Tails, Ops
  <2>4. Settle(p, t, FALSE) \/ world' = world
    BY <1>7, <2>3 DEF Spawn
  <2> QED BY <1>3, <1>4, <2>1, <2>4, AtOthers
<1>8. ASSUME NEW x \in left, SeedOne(x)
      PROVE world'[j].clock # Pristine /\ world'[j].clock <= world[j].clock
  <2>1. step = "seed" /\ todo = <<>> /\ ~Waking /\ x \in Seeding
    BY <1>8 DEF SeedOne, At, Waking, IInv, Types
  <2>2. PICK p \in Planets, t \in Tiers : p = x[1] /\ t = x[2]
    BY <2>1 DEF Seeding
  <2>3. Settle(p, t, FALSE) \/ world' = world
    BY <1>8, <2>2 DEF SeedOne
  <2> QED BY <1>3, <1>4, <2>1, <2>3
<1>9. ASSUME NEW p \in Planets, NEW t \in Tiers, Respawn(p, t)
      PROVE world'[j].clock # Pristine /\ world'[j].clock <= world[j].clock
  BY <1>3, <1>4, <1>9 DEF Respawn, At, Waking
<1>10. ASSUME NEW i \in Ids, Hit(i)
       PROVE world'[j].clock # Pristine /\ world'[j].clock <= world[j].clock
  <2>1. i \in Live /\ active[i].clock = Pristine /\ ~Waking /\ todo = <<>>
    BY <1>10 DEF Hit, Fighting, Waking
  <2>2. world[i].clock = Pristine
    BY <2>1, Quiet DEF MatchBut, Match, Live
  <2>3. i # j
    BY <2>2
  <2> QED BY <1>3, <1>10, <2>3, HitTouches
<1>11. CASE BeginTick
  <2>1. world'[j] = Ran(world[j])
    BY <1>11 DEF BeginTick
  <2>2. world'[j].clock = Down(world[j].clock)
    BY <1>1, <2>1, Runs
  <2> QED BY <1>1, <1>2, <2>2 DEF Down
<1>12. CASE world' = world
  BY <1>3, <1>12
<1> QED BY <1>5, <1>6, <1>7, <1>8, <1>9, <1>10, <1>11, <1>12
        DEF Next, Running, Writing, Tick, Boot, Rebuild, Booted, Untrack, Schedule, SaveState,
            RespawnStep, RespawnsDone, StaleStep, EndTick, Cleared, HqFalls, MapRefresh,
            WipeOne, RenewOne, ClearArea, Stop, vars

(* A base that was hit is refreshed in time: nothing, a crash included,    *)
(* gives its clock a tick back.                                            *)
THEOREM NoTimeBack == Spec => ClockOnlyRuns
<1>1. IInv /\ [Next]_vars =>
        [\A i \in Ids :
            i \in Live /\ i \in Live' /\ world[i].clock # Pristine =>
                world'[i].clock # Pristine /\ world'[i].clock <= world[i].clock]_vars
  BY RowsKept
<1> QED BY <1>1, Invariant, PTL DEF Spec, ClockOnlyRuns

(* Only a tick, a save and a stamp touch the copy or what it owes.         *)
LEMMA RespawnsKeptOn ==
  ASSUME IInv, RespawnsKept, [Next]_vars, NEW p \in Planets, NEW t \in Tiers
  PROVE  Waiting(saved, p, t)' >= promised'[<<p, t>>]
<1>1. /\ saved \in [Slots -> Nat] /\ pending \in [Slots -> Nat]
      /\ promised \in [Planets \X Tiers -> Nat] /\ <<p, t>> \in Planets \X Tiers
      /\ Waiting(saved, p, t) >= promised[<<p, t>>]
  BY DEF IInv, Types, RespawnsKept
<1>2. CASE saved' = saved /\ promised' = promised
  BY <1>1, <1>2 DEF Waiting
<1>3. CASE SaveState
  <2>1. saved' = pending /\ promised'[<<p, t>>] = Waiting(pending, p, t)
    BY <1>1, <1>3 DEF SaveState
  <2>2. Waiting(saved, p, t)' = Waiting(pending, p, t)
    BY <2>1 DEF Waiting
  <2> QED BY <1>1, <2>1, <2>2, WaitingTyped
<1>4. CASE BeginTick
  <2>1. saved' = Aged(saved) /\ promised' = promised
    BY <1>4 DEF BeginTick
  <2>2. Waiting(saved, p, t)' = Waiting(Aged(saved), p, t)
    BY <2>1 DEF Waiting
  <2>3. Waiting(saved, p, t) <= Waiting(Aged(saved), p, t)
    BY <1>1, WaitingAged
  <2>4. Waiting(saved, p, t) \in Nat /\ Waiting(Aged(saved), p, t) \in Nat
        /\ promised[<<p, t>>] \in Nat
    BY <1>1, WaitingTyped, AgedTyped
  <2> QED BY <1>1, <2>1, <2>2, <2>3, <2>4
<1>5. CASE Stamp
  <2>1. saved' = saved
    BY <1>5 DEF Stamp
  <2>2. promised'[<<p, t>>] <= promised[<<p, t>>] /\ promised'[<<p, t>>] \in Nat
    BY <1>1, <1>5, StampSettles
  <2>3. Waiting(saved, p, t)' = Waiting(saved, p, t)
    BY <2>1 DEF Waiting
  <2>4. Waiting(saved, p, t) \in Nat /\ promised[<<p, t>>] \in Nat
    BY <1>1, WaitingTyped
  <2> QED BY <1>1, <2>2, <2>3, <2>4
<1> QED BY <1>2, <1>3, <1>4, <1>5
        DEF Next, Running, Writing, Tick, Boot, Rebuild, Booted, SeedOne, Spawn, Untrack,
            Delete, Schedule, RespawnStep, Respawn, RespawnsDone, StaleStep, EndTick, Cleared,
            Hit, HqFalls, MapRefresh, WipeOne, RenewOne, ClearArea, Stop, vars

(* The copy on the rooms never holds fewer respawns than are still owed,   *)
(* wherever the process dies, for any cooldown: a tick that ages the copy  *)
(* loses none of its entries, and only a base that stands settles one.     *)
THEOREM NoRespawnForgotten == Spec => []RespawnsKept
<1>1. Init => RespawnsKept
  <2> SUFFICES ASSUME Init, NEW p \in Planets, NEW t \in Tiers
               PROVE  Waiting(saved, p, t) >= promised[<<p, t>>]
    BY DEF RespawnsKept
  <2>1. saved \in [Slots -> Nat] /\ promised[<<p, t>>] = 0
    BY DEF Init
  <2> QED BY <2>1, WaitingTyped
<1>2. IInv /\ RespawnsKept /\ [Next]_vars => RespawnsKept'
  <2> SUFFICES ASSUME IInv, RespawnsKept, [Next]_vars,
                      NEW p \in Planets, NEW t \in Tiers
               PROVE  Waiting(saved, p, t)' >= promised'[<<p, t>>]
    BY DEF RespawnsKept
  <2> QED BY RespawnsKeptOn
<1> QED BY <1>1, <1>2, Invariant, PTL DEF Spec
=============================================================================
