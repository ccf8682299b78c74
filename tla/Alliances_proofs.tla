--------------------------- MODULE Alliances_proofs ---------------------------
(***************************************************************************)
(* Proofs about Alliances.  A command decides everything it will write     *)
(* before it writes: the invariant is that what is left of it, done to its *)
(* end, leads through well-typed states to a good one.                     *)
(***************************************************************************)
EXTENDS Alliances, FiniteSetTheorems, TLAPS

(* All that the steps of a command read or write, and its present value.   *)
States ==
    [roster: [Ids -> Roster \cup {None}], chest: [Ids -> Nat], nextId: 1..(MaxId + 1),
     alive: SUBSET Players, ally: [Players -> Ids \cup {None}],
     rank: [Players -> Ranks \cup {None}], purse: [Players -> Nat],
     gone: Nat \cup {None}, unpaid: SUBSET Players, due: SUBSET Ids,
     doomed: Players \cup {None}]

Now ==
    [roster |-> roster, chest |-> chest, nextId |-> nextId, alive |-> alive,
     ally |-> ally, rank |-> rank, purse |-> purse, gone |-> gone,
     unpaid |-> unpaid, due |-> due, doomed |-> doomed]

(* Those a disband of a still has to send away. *)
Flock(S, a) == {p \in S.alive \cap OnRoll(S.roster[a]) : S.ally[p] = a}

Lost(S, n) == IF S.gone = None THEN None ELSE S.gone + n

(* What a step comes to when it is done, all rounds of it if it is a loop. *)
After(w, S) ==
    CASE w.op = "roll" -> [S EXCEPT !.roster = [S.roster EXCEPT ![w.id] = w.to]]
      [] w.op = "ally" -> [S EXCEPT !.ally = [S.ally EXCEPT ![w.who] = w.to]]
      [] w.op = "rank" -> [S EXCEPT !.rank = [S.rank EXCEPT ![w.who] = w.to]]
      [] w.op = "purse" ->
            [S EXCEPT !.purse = [S.purse EXCEPT ![w.who] = S.purse[w.who] + w.by]]
      [] w.op = "chest" ->
            [S EXCEPT !.chest = [S.chest EXCEPT ![w.id] = S.chest[w.id] + w.by]]
      [] w.op = "spend" ->
            [S EXCEPT !.chest = [S.chest EXCEPT ![w.id] = S.chest[w.id] - w.by],
                      !.gone = Lost(S, w.by)]
      [] w.op = "share" ->
            [S EXCEPT !.purse = [p \in Players |-> IF p \in S.unpaid
                                                   THEN S.purse[p] + w.each
                                                   ELSE S.purse[p]],
                      !.unpaid = {}]
      [] w.op = "release" ->
            [S EXCEPT !.ally = [p \in Players |-> IF p \in Flock(S, w.id)
                                                  THEN None ELSE S.ally[p]],
                      !.rank = [p \in Players |-> IF p \in Flock(S, w.id)
                                                  THEN None ELSE S.rank[p]]]
      [] w.op = "delete" ->
            [S EXCEPT !.roster = [S.roster EXCEPT ![w.id] = None],
                      !.due = S.due \ {w.id}]
      [] OTHER -> S

-----------------------------------------------------------------------------
Sound(S) ==
    /\ S \in States
    /\ \A a \in Ids : S.roster[a] # None => a < S.nextId

Balanced(S) ==
    S.gone # None => Tally(S.purse, Players) + Tally(S.chest, Ids) + S.gone = Wealth

(* The roster of a agrees with the pointers of those on it. *)
Fits(S, a) ==
    LET r == S.roster[a]
    IN /\ r.leader # None
       /\ OnRoll(r) \subseteq S.alive
       /\ \A p \in OnRoll(r) :
            /\ S.ally[p] = a
            /\ S.rank[p] = "leader"  <=> p = r.leader
            /\ S.rank[p] = "officer" <=> p \in r.officers
            /\ S.rank[p] = "member"  <=> p \in r.members

(* A state between commands, or between the parts of one: every record     *)
(* fits that no reconcile has still to visit, and the character about to   *)
(* go belongs nowhere.                                                     *)
Good(S) ==
    /\ S.unpaid = {}
    /\ \A a \in Ids : S.roster[a] # None /\ a \notin S.due => Fits(S, a)
    /\ S.doomed # None /\ S.ally[S.doomed] # None => S.roster[S.ally[S.doomed]] = None

(* A reconcile that made k the leader, before it writes the record.        *)
Reformable(S, a, k) ==
    /\ a \in S.due /\ S.roster[a] # None
    /\ k \in S.alive /\ S.ally[k] = a /\ S.rank[k] = "leader"

(* With s left to do.  The books may be open only before a move.           *)
Ready(s, S) ==
    /\ Sound(S)
    /\ s = <<>> => Good(S) /\ Balanced(S)
    /\ s # <<>> =>
        /\ Head(s).op \notin Moving => Balanced(S)
        /\ Head(s).op = "reform" =>
              Tail(s) = <<>> /\ Reformable(S, Head(s).id, Head(s).keep)

(* From S, what is left leads to its end. *)
Leads(s, S) ==
    \E n \in Nat : \E H \in [0..n -> Seq(WriteStep) \X States] :
        /\ H[0] = <<s, S>> /\ H[n][1] = <<>>
        /\ \A i \in 0..n : Ready(H[i][1], H[i][2])
        /\ \A i \in 0..(n - 1) :
             /\ H[i][1] # <<>>
             /\ H[i + 1] = <<Tail(H[i][1]), After(Head(H[i][1]), H[i][2])>>

IInv ==
    /\ up \in BOOLEAN
    /\ up => Leads(todo, Now)
    /\ ~up => /\ Sound(Now) /\ Balanced(Now)
              /\ todo = <<>> /\ unpaid = {} /\ due = {} /\ doomed = None

-----------------------------------------------------------------------------
LEMMA Assumed ==
    /\ IsFiniteSet(Players) /\ IsFiniteSet(Ids)
    /\ None \notin Players /\ None \notin Nat /\ None \notin Ranks /\ None \notin Roster
    /\ None \notin Ids
    /\ MaxId \in Nat /\ Wealth \in Nat
<1>1. MaxId \in Nat
  BY AlliancesAssumption DEF AlliancesAssumption
<1>2. IsFiniteSet(Ids)
  BY <1>1, FS_Interval DEF Ids
<1>3. None \notin Ids
  BY <1>1, AlliancesAssumption DEF AlliancesAssumption, Ids
<1> QED
  BY <1>1, <1>2, <1>3, AlliancesAssumption DEF AlliancesAssumption, Ranks, Roster

LEMMA Tuples ==
    /\ \A u : <<u>> # <<>> /\ Head(<<u>>) = u /\ Tail(<<u>>) = <<>>
    /\ \A u, v : <<u, v>> # <<>> /\ Head(<<u, v>>) = u /\ Tail(<<u, v>>) = <<v>>
    /\ \A u, v, w : /\ <<u, v, w>> # <<>> /\ Head(<<u, v, w>>) = u
                    /\ Tail(<<u, v, w>>) = <<v, w>>
    /\ \A u, v, w, x : /\ <<u, v, w, x>> # <<>> /\ Head(<<u, v, w, x>>) = u
                       /\ Tail(<<u, v, w, x>>) = <<v, w, x>>
    /\ \A u, v, w, x, y : /\ <<u, v, w, x, y>> # <<>> /\ Head(<<u, v, w, x, y>>) = u
                          /\ Tail(<<u, v, w, x, y>>) = <<v, w, x, y>>
    /\ \A u, v, w, x, y, z :
          /\ <<u, v, w, x, y, z>> # <<>> /\ Head(<<u, v, w, x, y, z>>) = u
          /\ Tail(<<u, v, w, x, y, z>>) = <<v, w, x, y, z>>
    /\ \A t, u, v, w, x, y, z :
          /\ <<t, u, v, w, x, y, z>> # <<>> /\ Head(<<t, u, v, w, x, y, z>>) = t
          /\ Tail(<<t, u, v, w, x, y, z>>) = <<u, v, w, x, y, z>>
OBVIOUS

(* A step before others. *)
LEMMA Before ==
  ASSUME NEW w \in WriteStep, NEW s \in Seq(WriteStep)
  PROVE  /\ <<w>> \o s \in Seq(WriteStep) /\ <<w>> \o s # <<>>
         /\ Head(<<w>> \o s) = w /\ Tail(<<w>> \o s) = s
<1>1. <<w>> \o s \in Seq(WriteStep) /\ Len(<<w>> \o s) = 1 + Len(s)
  OBVIOUS
<1>2. (<<w>> \o s)[1] = w
  OBVIOUS
<1>3. \A i \in 1..Len(s) : (<<w>> \o s)[i + 1] = s[i]
  OBVIOUS
<1>4. Tail(<<w>> \o s) = s
  BY <1>1, <1>3
<1> QED
  BY <1>1, <1>2, <1>4

LEMMA TailOfSteps ==
  ASSUME NEW s \in Seq(WriteStep), s # <<>>
  PROVE  Head(s) \in WriteStep /\ Tail(s) \in Seq(WriteStep)
OBVIOUS

-----------------------------------------------------------------------------
LEMMA LeadsReady ==
  ASSUME NEW s, NEW S, Leads(s, S)
  PROVE  s \in Seq(WriteStep) /\ S \in States /\ Ready(s, S)
<1>0. PICK n \in Nat : \E H \in [0..n -> Seq(WriteStep) \X States] :
        H[0] = <<s, S>> /\ \A i \in 0..n : Ready(H[i][1], H[i][2])
  BY DEF Leads
<1>1. PICK H \in [0..n -> Seq(WriteStep) \X States] :
        H[0] = <<s, S>> /\ \A i \in 0..n : Ready(H[i][1], H[i][2])
  BY <1>0
<1>2. 0 \in 0..n
  BY <1>1
<1>3. <<s, S>> \in Seq(WriteStep) \X States
  BY <1>1, <1>2
<1>4. Ready(H[0][1], H[0][2])
  BY <1>1, <1>2
<1>5. H[0][1] = s /\ H[0][2] = S
  BY <1>1
<1> QED BY <1>3, <1>4, <1>5

LEMMA LeadsEnd ==
  ASSUME NEW S, Ready(<<>>, S)
  PROVE  Leads(<<>>, S)
<1>1. S \in States
  BY DEF Ready, Sound
<1>2. PICK H : H = [i \in 0..0 |-> <<<<>>, S>>]
  OBVIOUS
<1>3. H \in [0..0 -> Seq(WriteStep) \X States]
  BY <1>1, <1>2
<1>4. H[0] = <<<<>>, S>> /\ H[0][1] = <<>> /\ H[0][2] = S
  BY <1>2
<1>5. \A i \in 0..0 : Ready(H[i][1], H[i][2])
  BY <1>4
<1>6. \A i \in 0..(0 - 1) : FALSE
  OBVIOUS
<1> QED BY <1>3, <1>4, <1>5, <1>6 DEF Leads

LEMMA LeadsOn ==
  ASSUME NEW s, NEW S, Leads(s, S), s # <<>>
  PROVE  Leads(Tail(s), After(Head(s), S))
<1>0. PICK n \in Nat : \E H \in [0..n -> Seq(WriteStep) \X States] :
        /\ H[0] = <<s, S>> /\ H[n][1] = <<>>
        /\ \A i \in 0..n : Ready(H[i][1], H[i][2])
        /\ \A i \in 0..(n - 1) :
             /\ H[i][1] # <<>>
             /\ H[i + 1] = <<Tail(H[i][1]), After(Head(H[i][1]), H[i][2])>>
  BY DEF Leads
<1>1. PICK H \in [0..n -> Seq(WriteStep) \X States] :
        /\ H[0] = <<s, S>> /\ H[n][1] = <<>>
        /\ \A i \in 0..n : Ready(H[i][1], H[i][2])
        /\ \A i \in 0..(n - 1) :
             /\ H[i][1] # <<>>
             /\ H[i + 1] = <<Tail(H[i][1]), After(Head(H[i][1]), H[i][2])>>
  BY <1>0
<1>2. n # 0 /\ n - 1 \in Nat
  BY <1>1
<1>3. PICK m \in Nat : m = n - 1 /\ n = m + 1
  BY <1>2
<1>4. PICK J : J = [i \in 0..m |-> H[i + 1]]
  OBVIOUS
<1>5. \A i \in 0..m : i + 1 \in 0..n /\ J[i] = H[i + 1]
  BY <1>3, <1>4
<1>6. J \in [0..m -> Seq(WriteStep) \X States]
  BY <1>4, <1>5
<1>7. J[0] = <<Tail(s), After(Head(s), S)>>
  <2>1. 0 \in 0..(n - 1) /\ J[0] = H[0 + 1]
    BY <1>3, <1>5
  <2>2. H[0][1] = s /\ H[0][2] = S
    BY <1>1
  <2> QED BY <1>1, <2>1, <2>2
<1>8. J[m][1] = <<>>
  BY <1>1, <1>3, <1>5
<1>9. \A i \in 0..m : Ready(J[i][1], J[i][2])
  BY <1>1, <1>5
<1>10. ASSUME NEW i \in 0..(m - 1)
       PROVE  /\ J[i][1] # <<>>
              /\ J[i + 1] = <<Tail(J[i][1]), After(Head(J[i][1]), J[i][2])>>
  <2>1. i + 1 \in 0..(n - 1) /\ i \in 0..m /\ i + 1 \in 0..m
    BY <1>3
  <2>2. J[i] = H[i + 1] /\ J[i + 1] = H[i + 1 + 1]
    BY <1>5, <2>1
  <2> QED BY <1>1, <2>1, <2>2
<1> QED BY <1>6, <1>7, <1>8, <1>9, <1>10 DEF Leads

LEMMA LeadsFrom ==
  ASSUME NEW s \in Seq(WriteStep), NEW S, s # <<>>, Ready(s, S),
         Leads(Tail(s), After(Head(s), S))
  PROVE  Leads(s, S)
<1>0. PICK n \in Nat : \E H \in [0..n -> Seq(WriteStep) \X States] :
        /\ H[0] = <<Tail(s), After(Head(s), S)>> /\ H[n][1] = <<>>
        /\ \A i \in 0..n : Ready(H[i][1], H[i][2])
        /\ \A i \in 0..(n - 1) :
             /\ H[i][1] # <<>>
             /\ H[i + 1] = <<Tail(H[i][1]), After(Head(H[i][1]), H[i][2])>>
  BY DEF Leads
<1>1. PICK H \in [0..n -> Seq(WriteStep) \X States] :
        /\ H[0] = <<Tail(s), After(Head(s), S)>> /\ H[n][1] = <<>>
        /\ \A i \in 0..n : Ready(H[i][1], H[i][2])
        /\ \A i \in 0..(n - 1) :
             /\ H[i][1] # <<>>
             /\ H[i + 1] = <<Tail(H[i][1]), After(Head(H[i][1]), H[i][2])>>
  BY <1>0
<1>2. S \in States
  BY DEF Ready, Sound
<1>3. PICK m \in Nat : m = n + 1 /\ n = m - 1
  OBVIOUS
<1>4. PICK J : J = [i \in 0..m |-> IF i = 0 THEN <<s, S>> ELSE H[i - 1]]
  OBVIOUS
<1>5. J[0] = <<s, S>> /\ J[0][1] = s /\ J[0][2] = S
  BY <1>3, <1>4
<1>6. \A i \in 0..m : i # 0 => i - 1 \in 0..n /\ J[i] = H[i - 1]
  BY <1>3, <1>4
<1>11. ASSUME NEW j \in 0..n PROVE j + 1 \in 0..m /\ J[j + 1] = H[j]
  <2>1. PICK i : i = j + 1
    OBVIOUS
  <2>2. i \in 0..m /\ i # 0 /\ i - 1 = j
    BY <1>3, <2>1
  <2>3. J[i] = H[i - 1]
    BY <1>6, <2>2
  <2> QED BY <2>1, <2>2, <2>3
<1>7. J \in [0..m -> Seq(WriteStep) \X States]
  <2>1. \A i \in 0..m : J[i] \in Seq(WriteStep) \X States
    <3>1. J[0] \in Seq(WriteStep) \X States
      BY <1>2, <1>5
    <3> QED BY <1>6, <3>1
  <2> QED BY <1>4, <2>1
<1>8. J[m][1] = <<>>
  <2>1. n \in 0..n
    OBVIOUS
  <2> QED BY <1>1, <1>3, <1>11, <2>1
<1>9. \A i \in 0..m : Ready(J[i][1], J[i][2])
  BY <1>1, <1>5, <1>6
<1>10. ASSUME NEW i \in 0..(m - 1)
       PROVE  /\ J[i][1] # <<>>
              /\ J[i + 1] = <<Tail(J[i][1]), After(Head(J[i][1]), J[i][2])>>
  <2>1. i \in 0..m /\ i + 1 \in 0..m /\ i + 1 # 0 /\ J[i + 1] = H[i]
    <3>1. i \in 0..n
      BY <1>3
    <3> QED BY <1>3, <1>11, <3>1
  <2>2. CASE i = 0
    <3>1. J[i] = <<s, S>> /\ J[i][1] = s /\ J[i][2] = S
      BY <1>5, <2>2
    <3>2. J[i + 1] = <<Tail(s), After(Head(s), S)>>
      BY <1>1, <2>1, <2>2
    <3> QED BY <3>1, <3>2
  <2>3. CASE i # 0
    <3>1. PICK j \in 0..(n - 1) : i = j + 1 /\ j = i - 1
      BY <1>3, <2>1, <2>3
    <3>2. J[i] = H[j]
      BY <1>6, <2>1, <2>3, <3>1
    <3>3. J[i + 1] = H[j + 1]
      BY <2>1, <3>1
    <3> QED BY <1>1, <3>1, <3>2, <3>3
  <2> QED BY <2>2, <2>3
<1> QED BY <1>5, <1>7, <1>8, <1>9, <1>10 DEF Leads

-----------------------------------------------------------------------------
LEMMA Ops ==
    /\ \A a, r : /\ RollTo(a, r).op = "roll" /\ RollTo(a, r).id = a
                 /\ RollTo(a, r).to = r
    /\ \A p, a : /\ AllyTo(p, a).op = "ally" /\ AllyTo(p, a).who = p
                 /\ AllyTo(p, a).to = a
    /\ \A p, k : /\ RankTo(p, k).op = "rank" /\ RankTo(p, k).who = p
                 /\ RankTo(p, k).to = k
    /\ \A p, n : /\ PurseBy(p, n).op = "purse" /\ PurseBy(p, n).who = p
                 /\ PurseBy(p, n).by = n
    /\ \A a, n : /\ ChestBy(a, n).op = "chest" /\ ChestBy(a, n).id = a
                 /\ ChestBy(a, n).by = n
    /\ \A a, n : /\ SpendOf(a, n).op = "spend" /\ SpendOf(a, n).id = a
                 /\ SpendOf(a, n).by = n
    /\ \A n : ShareOf(n).op = "share" /\ ShareOf(n).each = n
    /\ \A a : ReleaseOf(a).op = "release" /\ ReleaseOf(a).id = a
    /\ \A a : DeleteOf(a).op = "delete" /\ DeleteOf(a).id = a
    /\ \A a, k : /\ ReformOf(a, k).op = "reform" /\ ReformOf(a, k).id = a
                 /\ ReformOf(a, k).keep = k
BY DEF RollTo, AllyTo, RankTo, PurseBy, ChestBy, SpendOf, ShareOf, ReleaseOf, DeleteOf,
       ReformOf

(* What each step comes to. *)
LEMMA Pointers ==
  ASSUME NEW S
  PROVE  /\ \A a, r : After(RollTo(a, r), S)
                       = [S EXCEPT !.roster = [S.roster EXCEPT ![a] = r]]
         /\ \A p, to : After(AllyTo(p, to), S)
                       = [S EXCEPT !.ally = [S.ally EXCEPT ![p] = to]]
         /\ \A p, k : After(RankTo(p, k), S)
                       = [S EXCEPT !.rank = [S.rank EXCEPT ![p] = k]]
<1>1. ASSUME NEW a, NEW r
      PROVE  After(RollTo(a, r), S) = [S EXCEPT !.roster = [S.roster EXCEPT ![a] = r]]
  BY Ops DEF After
<1>2. ASSUME NEW p, NEW to
      PROVE  After(AllyTo(p, to), S) = [S EXCEPT !.ally = [S.ally EXCEPT ![p] = to]]
  BY Ops DEF After
<1>3. ASSUME NEW p, NEW k
      PROVE  After(RankTo(p, k), S) = [S EXCEPT !.rank = [S.rank EXCEPT ![p] = k]]
  BY Ops DEF After
<1> QED BY <1>1, <1>2, <1>3

LEMMA StepsTyped ==
    /\ \A a \in Ids, r \in Roster : RollTo(a, r) \in WriteStep
    /\ \A p \in Players, a \in Ids \cup {None} : AllyTo(p, a) \in WriteStep
    /\ \A p \in Players, k \in Ranks \cup {None} : RankTo(p, k) \in WriteStep
    /\ \A p \in Players, n \in Int : PurseBy(p, n) \in WriteStep
    /\ \A a \in Ids, n \in Int : ChestBy(a, n) \in WriteStep
    /\ \A a \in Ids, n \in Nat : SpendOf(a, n) \in WriteStep
    /\ \A n \in Nat : ShareOf(n) \in WriteStep
    /\ \A a \in Ids : ReleaseOf(a) \in WriteStep /\ DeleteOf(a) \in WriteStep
    /\ \A a \in Ids, k \in Players : ReformOf(a, k) \in WriteStep
<1>1. \A a \in Ids, r \in Roster : RollTo(a, r) \in WriteStep
  BY DEF RollTo, WriteStep
<1>2. \A p \in Players, a \in Ids \cup {None} : AllyTo(p, a) \in WriteStep
  BY DEF AllyTo, WriteStep
<1>3. \A p \in Players, k \in Ranks \cup {None} : RankTo(p, k) \in WriteStep
  BY DEF RankTo, WriteStep
<1>4. \A p \in Players, n \in Int : PurseBy(p, n) \in WriteStep
  BY DEF PurseBy, WriteStep
<1>5. \A a \in Ids, n \in Int : ChestBy(a, n) \in WriteStep
  BY DEF ChestBy, WriteStep
<1>6. \A a \in Ids, n \in Nat : SpendOf(a, n) \in WriteStep
  BY DEF SpendOf, WriteStep
<1>7. \A n \in Nat : ShareOf(n) \in WriteStep
  BY DEF ShareOf, WriteStep
<1>8. \A a \in Ids : ReleaseOf(a) \in WriteStep /\ DeleteOf(a) \in WriteStep
  BY DEF ReleaseOf, DeleteOf, WriteStep
<1>9. \A a \in Ids, k \in Players : ReformOf(a, k) \in WriteStep
  BY DEF ReformOf, WriteStep
<1> QED BY <1>1, <1>2, <1>3, <1>4, <1>5, <1>6, <1>7, <1>8, <1>9

(* What a typed step says. *)
LEMMA StepFields ==
  ASSUME NEW w \in WriteStep
  PROVE  /\ w.op = "roll" => w.id \in Ids /\ w.to \in Roster
         /\ w.op = "ally" => w.who \in Players /\ w.to \in Ids \cup {None}
         /\ w.op = "rank" => w.who \in Players /\ w.to \in Ranks \cup {None}
         /\ w.op = "purse" => w.who \in Players /\ w.by \in Int
         /\ w.op = "chest" => w.id \in Ids /\ w.by \in Int
         /\ w.op = "spend" => w.id \in Ids /\ w.by \in Nat
         /\ w.op = "share" => w.each \in Nat
         /\ w.op \in {"release", "delete"} => w.id \in Ids
         /\ w.op = "reform" => w.id \in Ids /\ w.keep \in Players
BY DEF WriteStep

LEMMA NowFields ==
    /\ Now.roster = roster
    /\ Now.chest = chest
    /\ Now.nextId = nextId
    /\ Now.alive = alive
    /\ Now.ally = ally
    /\ Now.rank = rank
    /\ Now.purse = purse
    /\ Now.gone = gone
    /\ Now.unpaid = unpaid
    /\ Now.due = due
    /\ Now.doomed = doomed
BY DEF Now

LEMMA StateFields ==
  ASSUME NEW S \in States
  PROVE  /\ S.roster \in [Ids -> Roster \cup {None}] /\ S.chest \in [Ids -> Nat]
         /\ S.nextId \in 1..(MaxId + 1) /\ S.alive \subseteq Players
         /\ S.ally \in [Players -> Ids \cup {None}]
         /\ S.rank \in [Players -> Ranks \cup {None}]
         /\ S.purse \in [Players -> Nat] /\ S.gone \in Nat \cup {None}
         /\ S.unpaid \subseteq Players /\ S.due \subseteq Ids
         /\ S.doomed \in Players \cup {None}
BY DEF States

(* The state with other rosters and pointers. *)
Turned(S, R, A, K) == [S EXCEPT !.roster = R, !.ally = A, !.rank = K]

LEMMA TurnedFields ==
  ASSUME NEW S \in States, NEW R, NEW A, NEW K
  PROVE  LET T == Turned(S, R, A, K)
         IN /\ T.roster = R /\ T.ally = A /\ T.rank = K
            /\ T.chest = S.chest /\ T.nextId = S.nextId /\ T.alive = S.alive
            /\ T.purse = S.purse /\ T.gone = S.gone /\ T.unpaid = S.unpaid
            /\ T.due = S.due /\ T.doomed = S.doomed
BY DEF Turned, States

LEMMA TurnedTyped ==
  ASSUME NEW S \in States, NEW R \in [Ids -> Roster \cup {None}],
         NEW A \in [Players -> Ids \cup {None}], NEW K \in [Players -> Ranks \cup {None}]
  PROVE  Turned(S, R, A, K) \in States
BY DEF Turned, States

LEMMA TurnedSame ==
  ASSUME NEW S \in States
  PROVE  Turned(S, S.roster, S.ally, S.rank) = S
BY DEF Turned, States

LEMMA TurnedTwice ==
  ASSUME NEW S \in States, NEW R, NEW A, NEW K, NEW R2, NEW A2, NEW K2
  PROVE  Turned(Turned(S, R, A, K), R2, A2, K2) = Turned(S, R2, A2, K2)
BY DEF Turned, States

-----------------------------------------------------------------------------
(* A step that neither moves resources nor waits for a reconcile.          *)
LEMMA Plain ==
  ASSUME NEW S, Sound(S), Balanced(S), NEW s \in Seq(WriteStep), s # <<>>,
         Head(s).op \notin Moving, Head(s).op # "reform",
         Leads(Tail(s), After(Head(s), S))
  PROVE  Leads(s, S)
<1>1. Ready(s, S)
  BY DEF Ready
<1> QED BY <1>1, LeadsFrom

Numbered(S, R) == \A b \in Ids : R[b] # None => b < S.nextId

Typed(R, A, K) ==
    /\ R \in [Ids -> Roster \cup {None}]
    /\ A \in [Players -> Ids \cup {None}]
    /\ K \in [Players -> Ranks \cup {None}]

LEMMA TurnedSound ==
  ASSUME NEW S, Sound(S), Balanced(S), NEW R, NEW A, NEW K, Typed(R, A, K), Numbered(S, R)
  PROVE  Sound(Turned(S, R, A, K)) /\ Balanced(Turned(S, R, A, K))
<1>1. S \in States
  BY DEF Sound
<1>2. Turned(S, R, A, K) \in States
  BY <1>1, TurnedTyped DEF Typed
<1>3. PICK T : T = Turned(S, R, A, K)
  OBVIOUS
<1>4. /\ T.roster = R /\ T.nextId = S.nextId /\ T.purse = S.purse
      /\ T.chest = S.chest /\ T.gone = S.gone
  BY <1>1, <1>3, TurnedFields
<1>5. Sound(T)
  BY <1>2, <1>3, <1>4 DEF Sound, Numbered
<1>6. Balanced(T)
  BY <1>4 DEF Balanced
<1> QED BY <1>3, <1>5, <1>6

LEMMA PlainRoll ==
  ASSUME NEW S, Sound(S), Balanced(S), NEW R, NEW A, NEW K, Typed(R, A, K), Numbered(S, R),
         NEW s \in Seq(WriteStep), s # <<>>,
         NEW a \in Ids, NEW r \in Roster, Head(s) = RollTo(a, r),
         Leads(Tail(s), Turned(S, [R EXCEPT ![a] = r], A, K))
  PROVE  Leads(s, Turned(S, R, A, K))
<1>1. S \in States
  BY DEF Sound
<1>2. PICK T : T = Turned(S, R, A, K)
  OBVIOUS
<1>3. T \in States /\ T.roster = R /\ T.ally = A /\ T.rank = K
  BY <1>1, <1>2, TurnedFields, TurnedTyped DEF Typed
<1>4. After(RollTo(a, r), T) = [T EXCEPT !.roster = [T.roster EXCEPT ![a] = r]]
  BY Pointers
<1>5. [T EXCEPT !.roster = [T.roster EXCEPT ![a] = r]]
        = Turned(T, [R EXCEPT ![a] = r], A, K)
  BY <1>3 DEF Turned, States
<1>6. After(RollTo(a, r), T) = Turned(S, [R EXCEPT ![a] = r], A, K)
  BY <1>1, <1>2, <1>4, <1>5, TurnedTwice
<1>7. Sound(T) /\ Balanced(T)
  BY <1>2, TurnedSound
<1>8. Head(s).op = "roll"
  BY Ops
<1> QED BY <1>2, <1>6, <1>7, <1>8, Plain DEF Moving

LEMMA PlainAlly ==
  ASSUME NEW S, Sound(S), Balanced(S), NEW R, NEW A, NEW K, Typed(R, A, K), Numbered(S, R),
         NEW s \in Seq(WriteStep), s # <<>>,
         NEW p \in Players, NEW to, Head(s) = AllyTo(p, to),
         Leads(Tail(s), Turned(S, R, [A EXCEPT ![p] = to], K))
  PROVE  Leads(s, Turned(S, R, A, K))
<1>1. S \in States
  BY DEF Sound
<1>2. PICK T : T = Turned(S, R, A, K)
  OBVIOUS
<1>3. T \in States /\ T.roster = R /\ T.ally = A /\ T.rank = K
  BY <1>1, <1>2, TurnedFields, TurnedTyped DEF Typed
<1>4. After(AllyTo(p, to), T) = [T EXCEPT !.ally = [T.ally EXCEPT ![p] = to]]
  BY Pointers
<1>5. [T EXCEPT !.ally = [T.ally EXCEPT ![p] = to]]
        = Turned(T, R, [A EXCEPT ![p] = to], K)
  BY <1>3 DEF Turned, States
<1>6. After(AllyTo(p, to), T) = Turned(S, R, [A EXCEPT ![p] = to], K)
  BY <1>1, <1>2, <1>4, <1>5, TurnedTwice
<1>7. Sound(T) /\ Balanced(T)
  BY <1>2, TurnedSound
<1>8. Head(s).op = "ally"
  BY Ops
<1> QED BY <1>2, <1>6, <1>7, <1>8, Plain DEF Moving

LEMMA PlainRank ==
  ASSUME NEW S, Sound(S), Balanced(S), NEW R, NEW A, NEW K, Typed(R, A, K), Numbered(S, R),
         NEW s \in Seq(WriteStep), s # <<>>,
         NEW p \in Players, NEW to, Head(s) = RankTo(p, to),
         Leads(Tail(s), Turned(S, R, A, [K EXCEPT ![p] = to]))
  PROVE  Leads(s, Turned(S, R, A, K))
<1>1. S \in States
  BY DEF Sound
<1>2. PICK T : T = Turned(S, R, A, K)
  OBVIOUS
<1>3. T \in States /\ T.roster = R /\ T.ally = A /\ T.rank = K
  BY <1>1, <1>2, TurnedFields, TurnedTyped DEF Typed
<1>4. After(RankTo(p, to), T) = [T EXCEPT !.rank = [T.rank EXCEPT ![p] = to]]
  BY Pointers
<1>5. [T EXCEPT !.rank = [T.rank EXCEPT ![p] = to]]
        = Turned(T, R, A, [K EXCEPT ![p] = to])
  BY <1>3 DEF Turned, States
<1>6. After(RankTo(p, to), T) = Turned(S, R, A, [K EXCEPT ![p] = to])
  BY <1>1, <1>2, <1>4, <1>5, TurnedTwice
<1>7. Sound(T) /\ Balanced(T)
  BY <1>2, TurnedSound
<1>8. Head(s).op = "rank"
  BY Ops
<1> QED BY <1>2, <1>6, <1>7, <1>8, Plain DEF Moving

LEMMA RollTyped ==
  ASSUME NEW S, NEW R, NEW A, NEW K, Typed(R, A, K), Numbered(S, R),
         NEW a \in Ids, a < S.nextId, NEW r \in Roster
  PROVE  Typed([R EXCEPT ![a] = r], A, K) /\ Numbered(S, [R EXCEPT ![a] = r])
BY DEF Typed, Numbered

LEMMA PointerTyped ==
  ASSUME NEW R, NEW A, NEW K, Typed(R, A, K), NEW p \in Players,
         NEW to \in Ids \cup {None}, NEW k \in Ranks \cup {None}
  PROVE  /\ Typed(R, [A EXCEPT ![p] = to], K)
         /\ Typed(R, [A EXCEPT ![p] = to], [K EXCEPT ![p] = k])
BY DEF Typed

(* Both halves of a pointer, and then the rest. *)
LEMMA Pointing ==
  ASSUME NEW S, Sound(S), Balanced(S), NEW R, NEW A, NEW K, Typed(R, A, K), Numbered(S, R),
         NEW s \in Seq(WriteStep), NEW p \in Players,
         NEW to \in Ids \cup {None}, NEW k \in Ranks \cup {None},
         s # <<>>, Head(s) = AllyTo(p, to),
         Tail(s) # <<>>, Head(Tail(s)) = RankTo(p, k),
         Leads(Tail(Tail(s)), Turned(S, R, [A EXCEPT ![p] = to], [K EXCEPT ![p] = k]))
  PROVE  Leads(s, Turned(S, R, A, K))
<1>1. Tail(s) \in Seq(WriteStep)
  BY TailOfSteps
<1>2. Typed(R, [A EXCEPT ![p] = to], K)
  BY PointerTyped
<1>3. Leads(Tail(s), Turned(S, R, [A EXCEPT ![p] = to], K))
  BY <1>1, <1>2, PlainRank
<1> QED BY <1>3, PlainAlly

LEMMA Triple ==
  ASSUME NEW S, Sound(S), Balanced(S), NEW R, NEW A, NEW K, Typed(R, A, K), Numbered(S, R),
         NEW a \in Ids, a < S.nextId, NEW r \in Roster, NEW p \in Players,
         NEW to \in Ids \cup {None}, NEW k \in Ranks \cup {None},
         Good(Turned(S, [R EXCEPT ![a] = r], [A EXCEPT ![p] = to], [K EXCEPT ![p] = k]))
  PROVE  Leads(<<RollTo(a, r), AllyTo(p, to), RankTo(p, k)>>, Turned(S, R, A, K))
<1>1. PICK R2 : R2 = [R EXCEPT ![a] = r]
  OBVIOUS
<1>2. PICK A2 : A2 = [A EXCEPT ![p] = to]
  OBVIOUS
<1>3. PICK K2 : K2 = [K EXCEPT ![p] = k]
  OBVIOUS
<1>4. Typed(R2, A, K) /\ Numbered(S, R2)
  BY <1>1, RollTyped
<1>5. Typed(R2, A2, K2)
  BY <1>2, <1>3, <1>4, PointerTyped
<1>6. Leads(<<>>, Turned(S, R2, A2, K2))
  <2>1. Sound(Turned(S, R2, A2, K2)) /\ Balanced(Turned(S, R2, A2, K2))
    BY <1>4, <1>5, TurnedSound
  <2>2. Good(Turned(S, R2, A2, K2))
    BY <1>1, <1>2, <1>3
  <2> QED BY <2>1, <2>2, LeadsEnd DEF Ready
<1>7. /\ RollTo(a, r) \in WriteStep /\ AllyTo(p, to) \in WriteStep
      /\ RankTo(p, k) \in WriteStep
  BY StepsTyped
<1>8. Leads(<<AllyTo(p, to), RankTo(p, k)>>, Turned(S, R2, A, K))
  <2>1. PICK s : s = <<AllyTo(p, to), RankTo(p, k)>>
    OBVIOUS
  <2>2. /\ s \in Seq(WriteStep) /\ s # <<>> /\ Head(s) = AllyTo(p, to)
        /\ Tail(s) = <<RankTo(p, k)>>
    BY <1>7, <2>1, Tuples
  <2>3. Tail(s) # <<>> /\ Head(Tail(s)) = RankTo(p, k) /\ Tail(Tail(s)) = <<>>
    BY <2>2, Tuples
  <2>4. Leads(Tail(Tail(s)), Turned(S, R2, [A EXCEPT ![p] = to], [K EXCEPT ![p] = k]))
    BY <1>2, <1>3, <1>6, <2>3
  <2> QED BY <1>4, <2>1, <2>2, <2>3, <2>4, Pointing
<1>9. PICK s : s = <<RollTo(a, r), AllyTo(p, to), RankTo(p, k)>>
  OBVIOUS
<1>10. /\ s \in Seq(WriteStep) /\ s # <<>> /\ Head(s) = RollTo(a, r)
       /\ Tail(s) = <<AllyTo(p, to), RankTo(p, k)>>
  BY <1>7, <1>9, Tuples
<1>11. Leads(Tail(s), Turned(S, [R EXCEPT ![a] = r], A, K))
  BY <1>1, <1>8, <1>10
<1> QED BY <1>9, <1>10, <1>11, PlainRoll

LEMMA Quadruple ==
  ASSUME NEW S, Sound(S), Balanced(S), NEW R, NEW A, NEW K, Typed(R, A, K), Numbered(S, R),
         NEW a \in Ids, a < S.nextId, NEW r0 \in Roster, NEW r \in Roster,
         NEW p \in Players, NEW to \in Ids \cup {None}, NEW k \in Ranks \cup {None},
         Good(Turned(S, [R EXCEPT ![a] = r], [A EXCEPT ![p] = to], [K EXCEPT ![p] = k]))
  PROVE  Leads(<<RollTo(a, r0), RollTo(a, r), AllyTo(p, to), RankTo(p, k)>>,
               Turned(S, R, A, K))
<1>1. PICK R2 : R2 = [R EXCEPT ![a] = r0]
  OBVIOUS
<1>2. Typed(R2, A, K) /\ Numbered(S, R2)
  BY <1>1, RollTyped
<1>3. [R2 EXCEPT ![a] = r] = [R EXCEPT ![a] = r]
  BY <1>1
<1>4. Leads(<<RollTo(a, r), AllyTo(p, to), RankTo(p, k)>>, Turned(S, R2, A, K))
  BY <1>2, <1>3, Triple
<1>5. /\ RollTo(a, r0) \in WriteStep /\ RollTo(a, r) \in WriteStep
      /\ AllyTo(p, to) \in WriteStep /\ RankTo(p, k) \in WriteStep
  BY StepsTyped
<1>6. PICK s : s = <<RollTo(a, r0), RollTo(a, r), AllyTo(p, to), RankTo(p, k)>>
  OBVIOUS
<1>7. /\ s \in Seq(WriteStep) /\ s # <<>> /\ Head(s) = RollTo(a, r0)
      /\ Tail(s) = <<RollTo(a, r), AllyTo(p, to), RankTo(p, k)>>
  BY <1>5, <1>6, Tuples
<1>8. Leads(Tail(s), Turned(S, [R EXCEPT ![a] = r0], A, K))
  BY <1>1, <1>4, <1>7
<1> QED BY <1>6, <1>7, <1>8, PlainRoll

(* A leader becomes an officer, another a leader.                          *)
LEMMA Septuple ==
  ASSUME NEW S, Sound(S), Balanced(S), NEW R, NEW A, NEW K, Typed(R, A, K), Numbered(S, R),
         NEW a \in Ids, a < S.nextId,
         NEW r0 \in Roster, NEW r1 \in Roster, NEW r \in Roster,
         NEW q \in Players, NEW p \in Players,
         Good(Turned(S, [R EXCEPT ![a] = r], [[A EXCEPT ![q] = a] EXCEPT ![p] = a],
                     [[K EXCEPT ![q] = "officer"] EXCEPT ![p] = "leader"]))
  PROVE  Leads(<<RollTo(a, r0), RollTo(a, r1), AllyTo(q, a), RankTo(q, "officer"),
                 RollTo(a, r), AllyTo(p, a), RankTo(p, "leader")>>, Turned(S, R, A, K))
<1>1. PICK R0 : R0 = [R EXCEPT ![a] = r0]
  OBVIOUS
<1>2. PICK R1 : R1 = [R0 EXCEPT ![a] = r1]
  OBVIOUS
<1>3. PICK A1 : A1 = [A EXCEPT ![q] = a]
  OBVIOUS
<1>4. PICK K1 : K1 = [K EXCEPT ![q] = "officer"]
  OBVIOUS
<1>5. Typed(R0, A, K) /\ Numbered(S, R0)
  BY <1>1, RollTyped
<1>6. Typed(R1, A, K) /\ Numbered(S, R1)
  BY <1>2, <1>5, RollTyped
<1>7. "leader" \in Ranks /\ "officer" \in Ranks
  BY DEF Ranks
<1>8. Typed(R1, A1, K1)
  BY <1>3, <1>4, <1>6, <1>7, PointerTyped
<1>9. [R1 EXCEPT ![a] = r] = [R EXCEPT ![a] = r]
  BY <1>1, <1>2
<1>10. Leads(<<RollTo(a, r), AllyTo(p, a), RankTo(p, "leader")>>, Turned(S, R1, A1, K1))
  <2>1. Good(Turned(S, [R1 EXCEPT ![a] = r], [A1 EXCEPT ![p] = a],
                    [K1 EXCEPT ![p] = "leader"]))
    BY <1>3, <1>4, <1>9
  <2> QED BY <1>6, <1>7, <1>8, <2>1, Triple
<1>11. /\ RollTo(a, r0) \in WriteStep /\ RollTo(a, r1) \in WriteStep
       /\ RollTo(a, r) \in WriteStep
       /\ AllyTo(q, a) \in WriteStep /\ RankTo(q, "officer") \in WriteStep
       /\ AllyTo(p, a) \in WriteStep /\ RankTo(p, "leader") \in WriteStep
  BY <1>7, StepsTyped
<1>12. PICK s : s = <<AllyTo(q, a), RankTo(q, "officer"),
                      RollTo(a, r), AllyTo(p, a), RankTo(p, "leader")>>
  OBVIOUS
<1>13. /\ s \in Seq(WriteStep) /\ s # <<>> /\ Head(s) = AllyTo(q, a)
       /\ Tail(s) = <<RankTo(q, "officer"), RollTo(a, r), AllyTo(p, a),
                      RankTo(p, "leader")>>
  BY <1>11, <1>12, Tuples
<1>14. /\ Tail(s) # <<>> /\ Head(Tail(s)) = RankTo(q, "officer")
       /\ Tail(Tail(s)) = <<RollTo(a, r), AllyTo(p, a), RankTo(p, "leader")>>
  <2>1. PICK t : t = <<RankTo(q, "officer"), RollTo(a, r), AllyTo(p, a),
                      RankTo(p, "leader")>>
    OBVIOUS
  <2>2. t # <<>> /\ Head(t) = RankTo(q, "officer")
    BY <2>1, Tuples
  <2>3. Tail(t) = <<RollTo(a, r), AllyTo(p, a), RankTo(p, "leader")>>
    BY <2>1, Tuples
  <2> QED BY <1>13, <2>1, <2>2, <2>3
<1>15. Leads(s, Turned(S, R1, A, K))
  <2>1. Leads(Tail(Tail(s)), Turned(S, R1, [A EXCEPT ![q] = a], [K EXCEPT ![q] = "officer"]))
    BY <1>3, <1>4, <1>10, <1>14
  <2> QED BY <1>6, <1>7, <1>13, <1>14, <2>1, Pointing
<1>16. PICK s1 : s1 = <<RollTo(a, r1), AllyTo(q, a), RankTo(q, "officer"),
                        RollTo(a, r), AllyTo(p, a), RankTo(p, "leader")>>
  OBVIOUS
<1>17. s1 \in Seq(WriteStep) /\ s1 # <<>> /\ Head(s1) = RollTo(a, r1) /\ Tail(s1) = s
  BY <1>11, <1>12, <1>16, Tuples
<1>18. Leads(s1, Turned(S, R0, A, K))
  <2>1. Leads(Tail(s1), Turned(S, [R0 EXCEPT ![a] = r1], A, K))
    BY <1>2, <1>15, <1>17
  <2> QED BY <1>5, <1>17, <2>1, PlainRoll
<1>19. PICK s0 : s0 = <<RollTo(a, r0), RollTo(a, r1), AllyTo(q, a), RankTo(q, "officer"),
                        RollTo(a, r), AllyTo(p, a), RankTo(p, "leader")>>
  OBVIOUS
<1>20. s0 \in Seq(WriteStep) /\ s0 # <<>> /\ Head(s0) = RollTo(a, r0) /\ Tail(s0) = s1
  BY <1>11, <1>16, <1>19, Tuples
<1>21. Leads(Tail(s0), Turned(S, [R EXCEPT ![a] = r0], A, K))
  BY <1>1, <1>18, <1>20
<1> QED BY <1>19, <1>20, <1>21, PlainRoll

-----------------------------------------------------------------------------
(* One record and the pointers of its people change: the others still fit. *)
LEMMA GoodAgain ==
  ASSUME NEW S \in States, S.unpaid = {}, NEW a \in Ids,
         \A b \in Ids : b # a /\ S.roster[b] # None /\ b \notin S.due => Fits(S, b),
         NEW R, NEW A, NEW K,
         \A b \in Ids : b # a => R[b] = S.roster[b],
         \A p \in Players : S.ally[p] \notin {a, None} =>
                               A[p] = S.ally[p] /\ K[p] = S.rank[p],
         R[a] # None /\ a \notin S.due => Fits(Turned(S, R, A, K), a),
         S.doomed # None /\ A[S.doomed] # None => R[A[S.doomed]] = None
  PROVE  Good(Turned(S, R, A, K))
<1>1. PICK T : T = Turned(S, R, A, K)
  OBVIOUS
<1>2. /\ T.roster = R /\ T.ally = A /\ T.rank = K /\ T.alive = S.alive
      /\ T.unpaid = S.unpaid /\ T.due = S.due /\ T.doomed = S.doomed
  BY <1>1, TurnedFields
<1>3. ASSUME NEW b \in Ids, b # a, R[b] # None, b \notin S.due
      PROVE  Fits(T, b)
  <2>1. Fits(S, b) /\ T.roster[b] = S.roster[b]
    BY <1>2, <1>3
  <2>2. PICK r : r = S.roster[b]
    OBVIOUS
  <2>3. OnRoll(r) \subseteq S.alive /\ S.alive \subseteq Players
    BY <2>1, <2>2, StateFields DEF Fits
  <2>4. ASSUME NEW p \in OnRoll(r) PROVE T.ally[p] = S.ally[p] /\ T.rank[p] = S.rank[p]
    <3>1. p \in Players /\ S.ally[p] = b
      BY <2>1, <2>2, <2>3 DEF Fits
    <3>2. b # None
      BY Assumed
    <3> QED BY <1>2, <1>3, <3>1, <3>2
  <2> QED BY <1>2, <2>1, <2>2, <2>4 DEF Fits
<1>4. \A b \in Ids : T.roster[b] # None /\ b \notin T.due => Fits(T, b)
  BY <1>1, <1>2, <1>3
<1>5. T.doomed # None /\ T.ally[T.doomed] # None => T.roster[T.ally[T.doomed]] = None
  BY <1>2
<1>6. T.unpaid = {}
  BY <1>2
<1> QED BY <1>1, <1>4, <1>5, <1>6 DEF Good

(* Between commands. *)
Still(S) == Sound(S) /\ Balanced(S) /\ Good(S) /\ S.due = {} /\ S.doomed = None

LEMMA StillFits ==
  ASSUME NEW S, Still(S)
  PROVE  /\ S \in States /\ S.unpaid = {} /\ S.due = {}
         /\ \A b \in Ids : S.roster[b] # None => Fits(S, b)
         /\ S.roster \in [Ids -> Roster \cup {None}]
         /\ S.ally \in [Players -> Ids \cup {None}]
         /\ S.rank \in [Players -> Ranks \cup {None}]
         /\ S.alive \subseteq Players
BY StateFields DEF Still, Sound, Good

LEMMA RosterFields ==
  ASSUME NEW r \in Roster
  PROVE  /\ r.leader \in Players \cup {None}
         /\ r.officers \subseteq Players /\ r.members \subseteq Players
         /\ OnRoll(r) = ({r.leader} \ {None}) \cup r.officers \cup r.members
BY DEF Roster, OnRoll

(* Those on the roll of a record that fits. *)
LEMMA FitsOn ==
  ASSUME NEW S, NEW a, Fits(S, a)
  PROVE  LET r == S.roster[a]
         IN /\ r.leader # None
            /\ OnRoll(r) \subseteq S.alive
            /\ \A p \in OnRoll(r) :
                 /\ S.ally[p] = a
                 /\ S.rank[p] = "leader"  <=> p = r.leader
                 /\ S.rank[p] = "officer" <=> p \in r.officers
                 /\ S.rank[p] = "member"  <=> p \in r.members
BY DEF Fits

(* To show that a changed record fits. *)
LEMMA FitsTurned ==
  ASSUME NEW S \in States, NEW a \in Ids, NEW R, NEW A, NEW K, NEW r, r = R[a],
         r.leader # None, OnRoll(r) \subseteq S.alive,
         \A p \in OnRoll(r) :
             /\ A[p] = a
             /\ K[p] = "leader"  <=> p = r.leader
             /\ K[p] = "officer" <=> p \in r.officers
             /\ K[p] = "member"  <=> p \in r.members
  PROVE  Fits(Turned(S, R, A, K), a)
<1>1. PICK T : T = Turned(S, R, A, K)
  OBVIOUS
<1>2. T.roster = R /\ T.ally = A /\ T.rank = K /\ T.alive = S.alive
  BY <1>1, TurnedFields
<1> QED BY <1>1, <1>2 DEF Fits

LEMMA FoundGood ==
  ASSUME NEW S, Still(S), NEW a \in Ids, NEW p \in S.alive, S.ally[p] = None
  PROVE  Good(Turned(S, [S.roster EXCEPT ![a] =
                             [leader |-> p, officers |-> {}, members |-> {}]],
                     [S.ally EXCEPT ![p] = a], [S.rank EXCEPT ![p] = "leader"]))
<1>1. PICK r : r = [leader |-> p, officers |-> {}, members |-> {}]
  OBVIOUS
<1>2. PICK R : R = [S.roster EXCEPT ![a] = r]
  OBVIOUS
<1>3. PICK A : A = [S.ally EXCEPT ![p] = a]
  OBVIOUS
<1>4. PICK K : K = [S.rank EXCEPT ![p] = "leader"]
  OBVIOUS
<1>5. R[a] = r /\ A[p] = a /\ K[p] = "leader"
  BY <1>2, <1>3, <1>4, StillFits
<1>6. r.leader = p /\ r.officers = {} /\ r.members = {} /\ p # None /\ OnRoll(r) = {p}
  BY <1>1, StillFits, Assumed DEF OnRoll
<1>7. Fits(Turned(S, R, A, K), a)
  BY <1>5, <1>6, FitsTurned, StillFits
<1>8. Good(Turned(S, R, A, K))
  <2>1. \A b \in Ids : b # a => R[b] = S.roster[b]
    BY <1>2, StillFits
  <2>2. \A q \in Players : S.ally[q] \notin {a, None} =>
                            A[q] = S.ally[q] /\ K[q] = S.rank[q]
    BY <1>3, <1>4, StillFits
  <2> QED BY <1>7, <2>1, <2>2, StillFits, GoodAgain DEF Still
<1> QED BY <1>1, <1>2, <1>3, <1>4, <1>8

(* A record with its people told otherwise: those of C are put where the   *)
(* new roll has them, the others of the new roll stay where they are.      *)
Reseats(S, a, n, C, A, K) ==
    /\ C \subseteq Players /\ \A q \in C : S.ally[q] \in {a, None}
    /\ \A q \in Players : q \notin C => A[q] = S.ally[q] /\ K[q] = S.rank[q]
    /\ n.leader # None /\ OnRoll(n) \subseteq S.alive
    /\ \A q \in OnRoll(n) : q \in C =>
          /\ A[q] = a
          /\ K[q] = "leader"  <=> q = n.leader
          /\ K[q] = "officer" <=> q \in n.officers
          /\ K[q] = "member"  <=> q \in n.members
    /\ \A q \in OnRoll(n) : q \notin C =>
          /\ q \in OnRoll(S.roster[a])
          /\ q = S.roster[a].leader <=> q = n.leader
          /\ q \in S.roster[a].officers <=> q \in n.officers
          /\ q \in S.roster[a].members <=> q \in n.members
    /\ S.doomed # None => A[S.doomed] = None

LEMMA Reseat ==
  ASSUME NEW S \in States, S.unpaid = {}, NEW a \in Ids, S.roster[a] # None,
         \A b \in Ids : S.roster[b] # None => Fits(S, b),
         NEW n, NEW C, NEW A, NEW K, Reseats(S, a, n, C, A, K)
  PROVE  Good(Turned(S, [S.roster EXCEPT ![a] = n], A, K))
<1>0. PICK r : r = S.roster[a]
  OBVIOUS
<1>1. PICK R : R = [S.roster EXCEPT ![a] = n]
  OBVIOUS
<1>2. R[a] = n /\ \A b \in Ids : b # a => R[b] = S.roster[b]
  BY <1>1, StateFields
<1>3. Fits(S, a)
  OBVIOUS
<1>4. ASSUME NEW q \in OnRoll(n), q \notin C
      PROVE  /\ A[q] = a
             /\ K[q] = "leader"  <=> q = n.leader
             /\ K[q] = "officer" <=> q \in n.officers
             /\ K[q] = "member"  <=> q \in n.members
  <2>1. q \in Players
    BY StateFields DEF Reseats
  <2>2. q \in OnRoll(r)
    BY <1>0, <1>4 DEF Reseats
  <2>3. /\ S.ally[q] = a /\ (S.rank[q] = "leader"  <=> q = r.leader)
        /\ (S.rank[q] = "officer" <=> q \in r.officers)
        /\ (S.rank[q] = "member"  <=> q \in r.members)
    BY <1>0, <1>3, <2>2, FitsOn
  <2>4. A[q] = S.ally[q] /\ K[q] = S.rank[q]
    BY <1>4, <2>1 DEF Reseats
  <2>5. /\ q = r.leader <=> q = n.leader
        /\ q \in r.officers <=> q \in n.officers
        /\ q \in r.members <=> q \in n.members
    BY <1>0, <1>4 DEF Reseats
  <2> QED BY <2>3, <2>4, <2>5
<1>5. Fits(Turned(S, R, A, K), a)
  <2>1. \A q \in OnRoll(n) :
            /\ A[q] = a
            /\ K[q] = "leader"  <=> q = n.leader
            /\ K[q] = "officer" <=> q \in n.officers
            /\ K[q] = "member"  <=> q \in n.members
    BY <1>4 DEF Reseats
  <2>2. n.leader # None /\ OnRoll(n) \subseteq S.alive
    BY DEF Reseats
  <2> QED BY <1>2, <2>1, <2>2, FitsTurned
<1>6. \A q \in Players : S.ally[q] \notin {a, None} =>
                          A[q] = S.ally[q] /\ K[q] = S.rank[q]
  BY DEF Reseats
<1>7. S.doomed # None => A[S.doomed] = None
  BY DEF Reseats
<1>8. Good(Turned(S, R, A, K))
  BY <1>2, <1>5, <1>6, <1>7, GoodAgain
<1> QED BY <1>1, <1>8

LEMMA JoinGood ==
  ASSUME NEW S, Still(S), NEW a \in Ids, S.roster[a] # None,
         NEW p \in S.alive, S.ally[p] = None
  PROVE  Good(Turned(S, [S.roster EXCEPT ![a] =
                             [S.roster[a] EXCEPT !.members = S.roster[a].members \cup {p}]],
                     [S.ally EXCEPT ![p] = a], [S.rank EXCEPT ![p] = "member"]))
<1>1. PICK r : r = S.roster[a]
  OBVIOUS
<1>2. PICK n : n = [r EXCEPT !.members = r.members \cup {p}]
  OBVIOUS
<1>3. PICK A : A = [S.ally EXCEPT ![p] = a]
  OBVIOUS
<1>4. PICK K : K = [S.rank EXCEPT ![p] = "member"]
  OBVIOUS
<1>5. r \in Roster /\ p \in Players
  BY <1>1, StillFits
<1>6. n.leader = r.leader /\ n.officers = r.officers /\ n.members = r.members \cup {p}
  BY <1>2, <1>5 DEF Roster
<1>7. OnRoll(n) = OnRoll(r) \cup {p}
  BY <1>6 DEF OnRoll
<1>8. /\ A[p] = a /\ K[p] = "member"
      /\ \A q \in Players : q \notin {p} => A[q] = S.ally[q] /\ K[q] = S.rank[q]
  BY <1>3, <1>4, <1>5, StillFits
<1>9. Fits(S, a)
  BY StillFits
<1>10. p \notin OnRoll(r)
  BY <1>1, <1>9, FitsOn, Assumed
<1>11. p # r.leader /\ p \notin r.officers /\ r.leader # None
  BY <1>1, <1>5, <1>9, <1>10, FitsOn, Assumed DEF OnRoll
<1>12. OnRoll(n) \subseteq S.alive
  BY <1>1, <1>7, <1>9, FitsOn
<1>13. ASSUME NEW q \in OnRoll(n), q \in {p}
       PROVE  /\ A[q] = a
              /\ K[q] = "leader"  <=> q = n.leader
              /\ K[q] = "officer" <=> q \in n.officers
              /\ K[q] = "member"  <=> q \in n.members
  BY <1>6, <1>8, <1>11, <1>13
<1>14. ASSUME NEW q \in OnRoll(n), q \notin {p}
       PROVE  /\ q \in OnRoll(r)
              /\ q = r.leader <=> q = n.leader
              /\ q \in r.officers <=> q \in n.officers
              /\ q \in r.members <=> q \in n.members
  BY <1>6, <1>7, <1>14
<1>15. Good(Turned(S, [S.roster EXCEPT ![a] = n], A, K))
  <2>1. {p} \subseteq Players /\ \A q \in {p} : S.ally[q] \in {a, None}
    BY <1>5
  <2>2. S.doomed = None /\ n.leader # None
    BY <1>6, <1>11 DEF Still
  <2>3. Reseats(S, a, n, {p}, A, K)
    BY <1>1, <1>8, <1>12, <1>13, <1>14, <2>1, <2>2 DEF Reseats
  <2> QED BY <2>3, StillFits, Reseat
<1> QED BY <1>1, <1>2, <1>3, <1>4, <1>15

(* Off the roll, of which p is not the leader.                             *)
LEMMA RemovedGood ==
  ASSUME NEW S \in States, S.unpaid = {}, NEW a \in Ids, S.roster[a] # None,
         \A b \in Ids : S.roster[b] # None => Fits(S, b),
         NEW p \in Players, S.ally[p] = a, p # S.roster[a].leader,
         S.doomed \in {p, None}
  PROVE  Good(Turned(S, [S.roster EXCEPT ![a] = Strip(S.roster[a], p)],
                     [S.ally EXCEPT ![p] = None], [S.rank EXCEPT ![p] = None]))
<1>1. PICK r : r = S.roster[a]
  OBVIOUS
<1>2. PICK n : n = Strip(r, p)
  OBVIOUS
<1>3. PICK A : A = [S.ally EXCEPT ![p] = None]
  OBVIOUS
<1>4. PICK K : K = [S.rank EXCEPT ![p] = None]
  OBVIOUS
<1>5. r \in Roster
  BY <1>1, StateFields
<1>6. n.leader = r.leader /\ n.officers = r.officers \ {p} /\ n.members = r.members \ {p}
  BY <1>2, <1>5 DEF Strip, Roster
<1>7. Fits(S, a)
  OBVIOUS
<1>8. r.leader # None /\ OnRoll(r) \subseteq S.alive
  BY <1>1, <1>7, FitsOn
<1>9. OnRoll(n) \subseteq OnRoll(r) /\ p \notin OnRoll(n)
  BY <1>1, <1>6, <1>8 DEF OnRoll
<1>10. /\ A[p] = None
       /\ \A q \in Players : q \notin {p} => A[q] = S.ally[q] /\ K[q] = S.rank[q]
  BY <1>3, <1>4, StateFields
<1>11. ASSUME NEW q \in OnRoll(n), q \notin {p}
       PROVE  /\ q \in OnRoll(r)
              /\ q = r.leader <=> q = n.leader
              /\ q \in r.officers <=> q \in n.officers
              /\ q \in r.members <=> q \in n.members
  BY <1>6, <1>9, <1>11
<1>12. Good(Turned(S, [S.roster EXCEPT ![a] = n], A, K))
  <2>1. {p} \subseteq Players /\ \A q \in {p} : S.ally[q] \in {a, None}
    OBVIOUS
  <2>2. n.leader # None /\ OnRoll(n) \subseteq S.alive
    BY <1>6, <1>8, <1>9
  <2>3. S.doomed # None => A[S.doomed] = None
    BY <1>10
  <2>4. \A q \in OnRoll(n) : q \notin {p}
    BY <1>9
  <2>5. Reseats(S, a, n, {p}, A, K)
    BY <1>1, <1>10, <1>11, <2>1, <2>2, <2>3, <2>4 DEF Reseats
  <2> QED BY <2>5, Reseat
<1> QED BY <1>1, <1>2, <1>3, <1>4, <1>12

LEMMA PromotedGood ==
  ASSUME NEW S, Still(S), NEW a \in Ids, S.roster[a] # None,
         NEW p \in S.alive, S.ally[p] = a, S.rank[p] = "member",
         NEW out, out = [S.roster[a] EXCEPT !.members = S.roster[a].members \ {p}]
  PROVE  /\ out \in Roster /\ [out EXCEPT !.officers = out.officers \cup {p}] \in Roster
         /\ Good(Turned(S, [S.roster EXCEPT ![a] =
                               [out EXCEPT !.officers = out.officers \cup {p}]],
                        [S.ally EXCEPT ![p] = a], [S.rank EXCEPT ![p] = "officer"]))
<1>1. PICK r : r = S.roster[a]
  OBVIOUS
<1>2. PICK n : n = [out EXCEPT !.officers = out.officers \cup {p}]
  OBVIOUS
<1>3. PICK A : A = [S.ally EXCEPT ![p] = a]
  OBVIOUS
<1>4. PICK K : K = [S.rank EXCEPT ![p] = "officer"]
  OBVIOUS
<1>5. r \in Roster /\ p \in Players
  BY <1>1, StillFits
<1>6. /\ out \in Roster /\ out.leader = r.leader
      /\ out.members = r.members \ {p} /\ out.officers = r.officers
  BY <1>1, <1>5 DEF Roster
<1>7. /\ n \in Roster /\ n.leader = r.leader
      /\ n.members = r.members \ {p} /\ n.officers = r.officers \cup {p}
  BY <1>2, <1>5, <1>6 DEF Roster
<1>8. OnRoll(n) \subseteq OnRoll(r) \cup {p}
  BY <1>7 DEF OnRoll
<1>9. /\ A[p] = a /\ K[p] = "officer"
      /\ \A q \in Players : q \notin {p} => A[q] = S.ally[q] /\ K[q] = S.rank[q]
  BY <1>3, <1>4, <1>5, StillFits
<1>10. Fits(S, a)
  BY StillFits
<1>11. r.leader # None /\ OnRoll(r) \subseteq S.alive
  BY <1>1, <1>10, FitsOn
<1>12. p # r.leader
  <2>1. SUFFICES ASSUME p = r.leader PROVE FALSE
    OBVIOUS
  <2>2. p \in OnRoll(r)
    BY <1>11, <2>1 DEF OnRoll
  <2> QED BY <1>1, <1>10, <2>1, <2>2, FitsOn
<1>13. ASSUME NEW q \in OnRoll(n), q \in {p}
       PROVE  /\ A[q] = a
              /\ K[q] = "leader"  <=> q = n.leader
              /\ K[q] = "officer" <=> q \in n.officers
              /\ K[q] = "member"  <=> q \in n.members
  BY <1>7, <1>9, <1>12, <1>13
<1>14. ASSUME NEW q \in OnRoll(n), q \notin {p}
       PROVE  /\ q \in OnRoll(r)
              /\ q = r.leader <=> q = n.leader
              /\ q \in r.officers <=> q \in n.officers
              /\ q \in r.members <=> q \in n.members
  BY <1>7, <1>8, <1>14
<1>15. Good(Turned(S, [S.roster EXCEPT ![a] = n], A, K))
  <2>1. {p} \subseteq Players /\ \A q \in {p} : S.ally[q] \in {a, None}
    BY <1>5
  <2>2. S.doomed = None /\ n.leader # None /\ OnRoll(n) \subseteq S.alive
    BY <1>7, <1>8, <1>11 DEF Still
  <2>3. Reseats(S, a, n, {p}, A, K)
    BY <1>1, <1>9, <1>13, <1>14, <2>1, <2>2 DEF Reseats
  <2> QED BY <2>3, StillFits, Reseat
<1> QED BY <1>2, <1>3, <1>4, <1>6, <1>7, <1>15

LEMMA DemotedGood ==
  ASSUME NEW S, Still(S), NEW a \in Ids, S.roster[a] # None,
         NEW p \in S.alive, S.ally[p] = a, S.rank[p] = "officer",
         NEW out, out = [S.roster[a] EXCEPT !.officers = S.roster[a].officers \ {p}]
  PROVE  /\ out \in Roster /\ [out EXCEPT !.members = out.members \cup {p}] \in Roster
         /\ Good(Turned(S, [S.roster EXCEPT ![a] =
                               [out EXCEPT !.members = out.members \cup {p}]],
                        [S.ally EXCEPT ![p] = a], [S.rank EXCEPT ![p] = "member"]))
<1>1. PICK r : r = S.roster[a]
  OBVIOUS
<1>2. PICK n : n = [out EXCEPT !.members = out.members \cup {p}]
  OBVIOUS
<1>3. PICK A : A = [S.ally EXCEPT ![p] = a]
  OBVIOUS
<1>4. PICK K : K = [S.rank EXCEPT ![p] = "member"]
  OBVIOUS
<1>5. r \in Roster /\ p \in Players
  BY <1>1, StillFits
<1>6. /\ out \in Roster /\ out.leader = r.leader
      /\ out.officers = r.officers \ {p} /\ out.members = r.members
  BY <1>1, <1>5 DEF Roster
<1>7. /\ n \in Roster /\ n.leader = r.leader
      /\ n.officers = r.officers \ {p} /\ n.members = r.members \cup {p}
  BY <1>2, <1>5, <1>6 DEF Roster
<1>8. OnRoll(n) \subseteq OnRoll(r) \cup {p}
  BY <1>7 DEF OnRoll
<1>9. /\ A[p] = a /\ K[p] = "member"
      /\ \A q \in Players : q \notin {p} => A[q] = S.ally[q] /\ K[q] = S.rank[q]
  BY <1>3, <1>4, <1>5, StillFits
<1>10. Fits(S, a)
  BY StillFits
<1>11. r.leader # None /\ OnRoll(r) \subseteq S.alive
  BY <1>1, <1>10, FitsOn
<1>12. p # r.leader
  <2>1. SUFFICES ASSUME p = r.leader PROVE FALSE
    OBVIOUS
  <2>2. p \in OnRoll(r)
    BY <1>11, <2>1 DEF OnRoll
  <2> QED BY <1>1, <1>10, <2>1, <2>2, FitsOn
<1>13. ASSUME NEW q \in OnRoll(n), q \in {p}
       PROVE  /\ A[q] = a
              /\ K[q] = "leader"  <=> q = n.leader
              /\ K[q] = "officer" <=> q \in n.officers
              /\ K[q] = "member"  <=> q \in n.members
  BY <1>7, <1>9, <1>12, <1>13
<1>14. ASSUME NEW q \in OnRoll(n), q \notin {p}
       PROVE  /\ q \in OnRoll(r)
              /\ q = r.leader <=> q = n.leader
              /\ q \in r.officers <=> q \in n.officers
              /\ q \in r.members <=> q \in n.members
  BY <1>7, <1>8, <1>14
<1>15. Good(Turned(S, [S.roster EXCEPT ![a] = n], A, K))
  <2>1. {p} \subseteq Players /\ \A q \in {p} : S.ally[q] \in {a, None}
    BY <1>5
  <2>2. S.doomed = None /\ n.leader # None /\ OnRoll(n) \subseteq S.alive
    BY <1>7, <1>8, <1>11 DEF Still
  <2>3. Reseats(S, a, n, {p}, A, K)
    BY <1>1, <1>9, <1>13, <1>14, <2>1, <2>2 DEF Reseats
  <2> QED BY <2>3, StillFits, Reseat
<1> QED BY <1>2, <1>3, <1>4, <1>6, <1>7, <1>15

LEMMA StripFields ==
  ASSUME NEW r \in Roster, NEW p \in Players
  PROVE  /\ Strip(r, p) \in Roster /\ Strip(r, p).leader = r.leader
         /\ Strip(r, p).officers = r.officers \ {p}
         /\ Strip(r, p).members = r.members \ {p}
         /\ [Strip(r, p) EXCEPT !.leader = p] \in Roster
         /\ [Strip(r, p) EXCEPT !.leader = p].leader = p
         /\ [Strip(r, p) EXCEPT !.leader = p].officers = r.officers \ {p}
         /\ [Strip(r, p) EXCEPT !.leader = p].members = r.members \ {p}
BY DEF Strip, Roster

(* claim, and a transfer when the leader is no longer there. *)
LEMMA ClaimedGood ==
  ASSUME NEW S, Still(S), NEW a \in Ids, S.roster[a] # None,
         NEW p \in S.alive, S.ally[p] = a
  PROVE  Good(Turned(S, [S.roster EXCEPT ![a] =
                             [Strip(S.roster[a], p) EXCEPT !.leader = p]],
                     [S.ally EXCEPT ![p] = a], [S.rank EXCEPT ![p] = "leader"]))
<1>1. PICK r : r = S.roster[a]
  OBVIOUS
<1>2. PICK n : n = [Strip(r, p) EXCEPT !.leader = p]
  OBVIOUS
<1>3. PICK A : A = [S.ally EXCEPT ![p] = a]
  OBVIOUS
<1>4. PICK K : K = [S.rank EXCEPT ![p] = "leader"]
  OBVIOUS
<1>5. r \in Roster /\ p \in Players /\ p # None
  BY <1>1, StillFits, Assumed
<1>6. n.leader = p /\ n.officers = r.officers \ {p} /\ n.members = r.members \ {p}
  BY <1>2, <1>5, StripFields
<1>7. OnRoll(n) = {p} \cup (r.officers \ {p}) \cup (r.members \ {p})
  BY <1>5, <1>6 DEF OnRoll
<1>8. /\ A[p] = a /\ K[p] = "leader"
      /\ \A q \in Players : q \notin {p} => A[q] = S.ally[q] /\ K[q] = S.rank[q]
  BY <1>3, <1>4, <1>5, StillFits
<1>9. Fits(S, a)
  BY StillFits
<1>10. OnRoll(r) \subseteq S.alive
  BY <1>1, <1>9, FitsOn
<1>11. ASSUME NEW q \in OnRoll(n), q \in {p}
       PROVE  /\ A[q] = a
              /\ K[q] = "leader"  <=> q = n.leader
              /\ K[q] = "officer" <=> q \in n.officers
              /\ K[q] = "member"  <=> q \in n.members
  BY <1>6, <1>8, <1>11
<1>12. ASSUME NEW q \in OnRoll(n), q \notin {p}
       PROVE  /\ q \in OnRoll(r)
              /\ q = r.leader <=> q = n.leader
              /\ q \in r.officers <=> q \in n.officers
              /\ q \in r.members <=> q \in n.members
  <2>1. q \in r.officers \cup r.members
    BY <1>7, <1>12
  <2>2. q \in OnRoll(r)
    BY <2>1 DEF OnRoll
  <2>3. q # r.leader
    BY <1>1, <1>9, <2>1, <2>2, FitsOn
  <2> QED BY <1>6, <1>12, <2>2, <2>3
<1>13. Good(Turned(S, [S.roster EXCEPT ![a] = n], A, K))
  <2>1. {p} \subseteq Players /\ \A q \in {p} : S.ally[q] \in {a, None}
    BY <1>5
  <2>2. r.officers \subseteq S.alive /\ r.members \subseteq S.alive
    BY <1>10 DEF OnRoll
  <2>3. S.doomed = None /\ n.leader # None /\ OnRoll(n) \subseteq S.alive
    BY <1>5, <1>6, <1>7, <2>2 DEF Still
  <2>4. Reseats(S, a, n, {p}, A, K)
    BY <1>1, <1>8, <1>11, <1>12, <2>1, <2>3 DEF Reseats
  <2> QED BY <2>4, StillFits, Reseat
<1> QED BY <1>1, <1>2, <1>3, <1>4, <1>13

LEMMA HandedGood ==
  ASSUME NEW S, Still(S), NEW a \in Ids, S.roster[a] # None,
         NEW p \in S.alive, S.ally[p] = a,
         NEW o \in S.alive, S.ally[o] = a, S.rank[o] = "leader", o # p,
         NEW back, back = [Strip(S.roster[a], p) EXCEPT !.officers =
                             Strip(S.roster[a], p).officers \cup {o}]
  PROVE  /\ back \in Roster /\ [back EXCEPT !.leader = p] \in Roster
         /\ Good(Turned(S, [S.roster EXCEPT ![a] = [back EXCEPT !.leader = p]],
                        [[S.ally EXCEPT ![o] = a] EXCEPT ![p] = a],
                        [[S.rank EXCEPT ![o] = "officer"] EXCEPT ![p] = "leader"]))
<1>1. PICK r : r = S.roster[a]
  OBVIOUS
<1>2. PICK n : n = [back EXCEPT !.leader = p]
  OBVIOUS
<1>3. PICK A : A = [[S.ally EXCEPT ![o] = a] EXCEPT ![p] = a]
  OBVIOUS
<1>4. PICK K : K = [[S.rank EXCEPT ![o] = "officer"] EXCEPT ![p] = "leader"]
  OBVIOUS
<1>5. r \in Roster /\ p \in Players /\ o \in Players /\ p # None
  BY <1>1, StillFits, Assumed
<1>6. /\ back \in Roster /\ back.officers = (r.officers \ {p}) \cup {o}
      /\ back.members = r.members \ {p}
  <2>1. PICK t : t = Strip(r, p)
    OBVIOUS
  <2>2. t \in Roster /\ t.officers = r.officers \ {p} /\ t.members = r.members \ {p}
    BY <1>5, <2>1, StripFields
  <2>3. back = [t EXCEPT !.officers = t.officers \cup {o}]
    BY <1>1, <2>1
  <2> QED BY <1>5, <2>2, <2>3 DEF Roster
<1>7. /\ n \in Roster /\ n.leader = p /\ n.officers = (r.officers \ {p}) \cup {o}
      /\ n.members = r.members \ {p}
  BY <1>2, <1>5, <1>6 DEF Roster
<1>8. OnRoll(n) = {p, o} \cup (r.officers \ {p}) \cup (r.members \ {p})
  BY <1>5, <1>7 DEF OnRoll
<1>9. /\ A[p] = a /\ K[p] = "leader" /\ A[o] = a /\ K[o] = "officer"
      /\ \A q \in Players : q \notin {p, o} => A[q] = S.ally[q] /\ K[q] = S.rank[q]
  BY <1>3, <1>4, <1>5, StillFits
<1>10. Fits(S, a)
  BY StillFits
<1>11. OnRoll(r) \subseteq S.alive
  BY <1>1, <1>10, FitsOn
<1>12. o \notin r.members
  <2>1. SUFFICES ASSUME o \in r.members PROVE FALSE
    OBVIOUS
  <2>2. o \in OnRoll(r)
    BY <2>1 DEF OnRoll
  <2> QED BY <1>1, <1>10, <2>1, <2>2, FitsOn
<1>13. ASSUME NEW q \in OnRoll(n), q \in {p, o}
       PROVE  /\ A[q] = a
              /\ K[q] = "leader"  <=> q = n.leader
              /\ K[q] = "officer" <=> q \in n.officers
              /\ K[q] = "member"  <=> q \in n.members
  BY <1>7, <1>9, <1>12, <1>13
<1>14. ASSUME NEW q \in OnRoll(n), q \notin {p, o}
       PROVE  /\ q \in OnRoll(r)
              /\ q = r.leader <=> q = n.leader
              /\ q \in r.officers <=> q \in n.officers
              /\ q \in r.members <=> q \in n.members
  <2>1. q \in r.officers \cup r.members
    BY <1>8, <1>14
  <2>2. q \in OnRoll(r)
    BY <2>1 DEF OnRoll
  <2>3. q # r.leader
    BY <1>1, <1>10, <2>1, <2>2, FitsOn
  <2> QED BY <1>7, <1>14, <2>2, <2>3
<1>15. Good(Turned(S, [S.roster EXCEPT ![a] = n], A, K))
  <2>1. {p, o} \subseteq Players /\ \A q \in {p, o} : S.ally[q] \in {a, None}
    BY <1>5
  <2>2. r.officers \subseteq S.alive /\ r.members \subseteq S.alive
    BY <1>11 DEF OnRoll
  <2>3. S.doomed = None /\ n.leader # None /\ OnRoll(n) \subseteq S.alive
    BY <1>5, <1>7, <1>8, <2>2 DEF Still
  <2>4. Reseats(S, a, n, {p, o}, A, K)
    BY <1>1, <1>9, <1>13, <1>14, <2>1, <2>3 DEF Reseats
  <2> QED BY <2>4, StillFits, Reseat
<1> QED BY <1>2, <1>3, <1>4, <1>6, <1>7, <1>15

-----------------------------------------------------------------------------
(* Between two commands. *)
LEMMA Resting ==
  ASSUME IInv, Quiet
  PROVE  /\ up /\ todo = <<>> /\ due = {} /\ doomed = None
         /\ Still(Now) /\ Now \in States /\ Now.unpaid = {}
<1>1. up /\ todo = <<>> /\ due = {} /\ doomed = None
  BY DEF Quiet
<1>2. Leads(<<>>, Now)
  BY <1>1 DEF IInv
<1>3. Ready(<<>>, Now) /\ Now \in States
  BY <1>2, LeadsReady
<1>4. Sound(Now) /\ Balanced(Now) /\ Good(Now)
  BY <1>3 DEF Ready
<1>5. Now.due = {} /\ Now.doomed = None
  BY <1>1, NowFields
<1> QED BY <1>1, <1>3, <1>4, <1>5 DEF Still, Good

(* Nothing but the list of steps changes. *)
LEMMA NowSame ==
  ASSUME UNCHANGED <<records, characters, unpaid, due, doomed, gone>>
  PROVE  Now' = Now
BY DEF Now, records, characters

LEMMA Keeps ==
  ASSUME IInv, up' = up, up, Leads(todo', Now')
  PROVE  IInv'
BY DEF IInv

LEMMA Ordered ==
  ASSUME IInv, NEW w, Command(w), Leads(w, Now)
  PROVE  IInv'
<1>1. up /\ up' = up /\ todo' = w
  BY DEF Command, Begin, Quiet
<1>2. Now' = Now
  BY NowSame DEF Command, Begin, characters, records
<1> QED BY <1>1, <1>2, Keeps

(* The number of a record there is was given out. *)
LEMMA Given ==
  ASSUME IInv, Quiet, NEW a \in Ids, Live(a)
  PROVE  /\ a < Now.nextId /\ Now.roster[a] # None
         /\ roster[a] \in Roster /\ Now.roster[a] = roster[a]
BY Resting, NowFields, StillFits DEF Still, Sound, Live

LEMMA NowTurned ==
  ASSUME IInv, Quiet
  PROVE  /\ Now = Turned(Now, Now.roster, Now.ally, Now.rank)
         /\ Sound(Now) /\ Balanced(Now) /\ Typed(Now.roster, Now.ally, Now.rank)
         /\ Numbered(Now, Now.roster)
BY Resting, TurnedSame, StateFields DEF Still, Sound, Typed, Numbered

LEMMA JoinKeeps ==
  ASSUME IInv, NEW p \in Players, NEW a \in Ids, Join(p, a)
  PROVE  IInv'
<1>1. PICK S : S = Now
  OBVIOUS
<1>2. Quiet /\ p \in alive /\ ally[p] = None /\ Live(a)
  BY DEF Join, Command, Begin
<1>3. PICK n : n = [roster[a] EXCEPT !.members = roster[a].members \cup {p}]
  OBVIOUS
<1>4. Command(<<RollTo(a, n), AllyTo(p, a), RankTo(p, "member")>>)
  BY <1>3 DEF Join
<1>5. n \in Roster
  BY <1>2, <1>3, Given, Resting DEF Roster
<1>6. Good(Turned(S, [S.roster EXCEPT ![a] = n], [S.ally EXCEPT ![p] = a],
                  [S.rank EXCEPT ![p] = "member"]))
  BY <1>1, <1>2, <1>3, JoinGood, Given, Resting, NowFields
<1>7. Leads(<<RollTo(a, n), AllyTo(p, a), RankTo(p, "member")>>,
            Turned(S, S.roster, S.ally, S.rank))
  BY <1>1, <1>2, <1>5, <1>6, Triple, NowTurned, Given DEF Ranks
<1> QED BY <1>1, <1>2, <1>4, <1>7, NowTurned, Ordered

LEMMA RemovingKeeps ==
  ASSUME IInv, NEW p \in Players, NEW a \in Ids, Live(a),
         ally[p] = a, p # roster[a].leader, Command(Removing(p, a))
  PROVE  IInv'
<1>1. PICK S : S = Now
  OBVIOUS
<1>2. Quiet
  BY DEF Command, Begin
<1>3. PICK n : n = Strip(roster[a], p)
  OBVIOUS
<1>4. Command(<<RollTo(a, n), AllyTo(p, None), RankTo(p, None)>>)
  BY <1>3 DEF Removing
<1>5. n \in Roster
  BY <1>2, <1>3, Given, StripFields
<1>6. Good(Turned(S, [S.roster EXCEPT ![a] = n], [S.ally EXCEPT ![p] = None],
                  [S.rank EXCEPT ![p] = None]))
  <2>1. S.ally[p] = a /\ S.roster[a] = roster[a] /\ S.roster[a] # None
    BY <1>1, <1>2, Given, NowFields
  <2>2. S.doomed = None
    BY <1>1, <1>2, Resting DEF Still
  <2> QED BY <1>1, <1>2, <1>3, <2>1, <2>2, RemovedGood, Resting, StillFits
<1>7. Leads(<<RollTo(a, n), AllyTo(p, None), RankTo(p, None)>>,
            Turned(S, S.roster, S.ally, S.rank))
  BY <1>1, <1>2, <1>5, <1>6, Triple, NowTurned, Given
<1> QED BY <1>1, <1>2, <1>4, <1>7, NowTurned, Ordered

LEMMA LeaderLeads ==
  ASSUME IInv, Quiet, NEW a \in Ids, Live(a)
  PROVE  LET l == roster[a].leader
         IN l \in alive /\ l \in Players /\ l # None /\ ally[l] = a /\ rank[l] = "leader"
<1>1. PICK S : S = Now
  OBVIOUS
<1>2. Fits(S, a) /\ S.roster[a] = roster[a] /\ S.alive = alive /\ S.ally = ally
      /\ S.rank = rank /\ S.alive \subseteq Players
  BY <1>1, Resting, StillFits, Given, NowFields
<1>3. PICK l : l = roster[a].leader
  OBVIOUS
<1>4. l # None /\ l \in OnRoll(roster[a])
  BY <1>2, <1>3, FitsOn DEF OnRoll
<1> QED BY <1>2, <1>3, <1>4, FitsOn

LEMMA BelongsTo ==
  ASSUME IInv, Quiet, NEW p \in Players, Belongs(p)
  PROVE  p \in alive /\ ally[p] \in Ids /\ Live(ally[p])
<1>1. ally[p] \in Ids \cup {None}
  BY Resting, StillFits, NowFields
<1> QED BY <1>1 DEF Belongs

LEMMA LeaveKeeps ==
  ASSUME IInv, NEW p \in Players, Quiet, Belongs(p), rank[p] # "leader",
         Command(Removing(p, ally[p]))
  PROVE  IInv'
<1>1. PICK a : a = ally[p]
  OBVIOUS
<1>2. a \in Ids /\ Live(a)
  BY <1>1, BelongsTo
<1>3. p # roster[a].leader
  BY <1>2, LeaderLeads
<1> QED BY <1>1, <1>2, <1>3, RemovingKeeps

LEMMA KickKeeps ==
  ASSUME IInv, NEW p \in Players, NEW t \in Players, Kick(p, t)
  PROVE  IInv'
<1>1. PICK a : a = ally[p]
  OBVIOUS
<1>2. /\ Quiet /\ Belongs(p) /\ rank[p] \in {"leader", "officer"}
      /\ ally[t] = a /\ Weight(rank[t]) < Weight(rank[p])
      /\ Command(Removing(t, a))
  BY <1>1 DEF Kick, Command, Begin, Holds
<1>3. a \in Ids /\ Live(a)
  BY <1>1, <1>2, BelongsTo
<1>4. rank[t] # "leader"
  BY <1>2 DEF Weight
<1>5. t # roster[a].leader
  BY <1>2, <1>3, <1>4, LeaderLeads
<1> QED BY <1>2, <1>3, <1>5, RemovingKeeps

LEMMA AdminKickKeeps ==
  ASSUME IInv, NEW t \in Players, NEW a \in Ids, AdminKick(a, t)
  PROVE  IInv'
BY RemovingKeeps DEF AdminKick

LEMMA PromoteKeeps ==
  ASSUME IInv, NEW p \in Players, NEW t \in Players, Promote(p, t)
  PROVE  IInv'
<1>1. PICK a : a = ally[p]
  OBVIOUS
<1>2. Quiet /\ Belongs(p) /\ t \in alive /\ ally[t] = a /\ rank[t] = "member"
  BY <1>1 DEF Promote, Command, Begin, Holds
<1>3. a \in Ids /\ Live(a)
  BY <1>1, <1>2, BelongsTo
<1>4. PICK S : S = Now
  OBVIOUS
<1>5. /\ S.roster[a] = roster[a] /\ S.roster[a] # None
      /\ S.alive = alive /\ S.ally = ally /\ S.rank = rank
  BY <1>2, <1>3, <1>4, Given, NowFields
<1>6. PICK out : out = [roster[a] EXCEPT !.members = roster[a].members \ {t}]
  OBVIOUS
<1>7. PICK n : n = [out EXCEPT !.officers = out.officers \cup {t}]
  OBVIOUS
<1>8. Command(<<RollTo(a, out), RollTo(a, n), AllyTo(t, a), RankTo(t, "officer")>>)
  BY <1>1, <1>6, <1>7 DEF Promote
<1>9. /\ out \in Roster /\ n \in Roster
      /\ Good(Turned(S, [S.roster EXCEPT ![a] = n], [S.ally EXCEPT ![t] = a],
                     [S.rank EXCEPT ![t] = "officer"]))
  <2>1. out = [S.roster[a] EXCEPT !.members = S.roster[a].members \ {t}]
    BY <1>5, <1>6
  <2>2. Still(S)
    BY <1>2, <1>4, Resting
  <2> QED BY <1>2, <1>3, <1>5, <1>7, <2>1, <2>2, PromotedGood
<1>10. Leads(<<RollTo(a, out), RollTo(a, n), AllyTo(t, a), RankTo(t, "officer")>>,
             Turned(S, S.roster, S.ally, S.rank))
  BY <1>2, <1>3, <1>4, <1>9, Quadruple, NowTurned, Given DEF Ranks
<1> QED BY <1>2, <1>4, <1>8, <1>10, NowTurned, Ordered

LEMMA DemoteKeeps ==
  ASSUME IInv, NEW p \in Players, NEW t \in Players, Demote(p, t)
  PROVE  IInv'
<1>1. PICK a : a = ally[p]
  OBVIOUS
<1>2. Quiet /\ Belongs(p) /\ t \in alive /\ ally[t] = a /\ rank[t] = "officer"
  BY <1>1 DEF Demote, Command, Begin, Holds
<1>3. a \in Ids /\ Live(a)
  BY <1>1, <1>2, BelongsTo
<1>4. PICK S : S = Now
  OBVIOUS
<1>5. /\ S.roster[a] = roster[a] /\ S.roster[a] # None
      /\ S.alive = alive /\ S.ally = ally /\ S.rank = rank
  BY <1>2, <1>3, <1>4, Given, NowFields
<1>6. PICK out : out = [roster[a] EXCEPT !.officers = roster[a].officers \ {t}]
  OBVIOUS
<1>7. PICK n : n = [out EXCEPT !.members = out.members \cup {t}]
  OBVIOUS
<1>8. Command(<<RollTo(a, out), RollTo(a, n), AllyTo(t, a), RankTo(t, "member")>>)
  BY <1>1, <1>6, <1>7 DEF Demote
<1>9. /\ out \in Roster /\ n \in Roster
      /\ Good(Turned(S, [S.roster EXCEPT ![a] = n], [S.ally EXCEPT ![t] = a],
                     [S.rank EXCEPT ![t] = "member"]))
  <2>1. out = [S.roster[a] EXCEPT !.officers = S.roster[a].officers \ {t}]
    BY <1>5, <1>6
  <2>2. Still(S)
    BY <1>2, <1>4, Resting
  <2> QED BY <1>2, <1>3, <1>5, <1>7, <2>1, <2>2, DemotedGood
<1>10. Leads(<<RollTo(a, out), RollTo(a, n), AllyTo(t, a), RankTo(t, "member")>>,
             Turned(S, S.roster, S.ally, S.rank))
  BY <1>2, <1>3, <1>4, <1>9, Quadruple, NowTurned, Given DEF Ranks
<1> QED BY <1>2, <1>4, <1>8, <1>10, NowTurned, Ordered

(* _install_leader, without an old leader and with one. *)
LEMMA InstallingKeeps ==
  ASSUME IInv, NEW a \in Ids, Live(a), NEW p \in alive, ally[p] = a,
         Command(Installing(a, None, p))
  PROVE  IInv'
<1>1. PICK S : S = Now
  OBVIOUS
<1>2. Quiet
  BY DEF Command, Begin
<1>3. /\ S.roster[a] = roster[a] /\ S.roster[a] # None /\ roster[a] \in Roster
      /\ S.alive = alive /\ S.ally = ally /\ S.rank = rank /\ p \in Players
  BY <1>1, <1>2, Given, NowFields, Resting, StillFits
<1>4. PICK out : out = Strip(roster[a], p)
  OBVIOUS
<1>5. PICK n : n = [out EXCEPT !.leader = p]
  OBVIOUS
<1>6. Command(<<RollTo(a, out), RollTo(a, n), AllyTo(p, a), RankTo(p, "leader")>>)
  BY <1>4, <1>5 DEF Installing
<1>7. out \in Roster /\ n \in Roster
  BY <1>3, <1>4, <1>5, StripFields
<1>8. Good(Turned(S, [S.roster EXCEPT ![a] = n], [S.ally EXCEPT ![p] = a],
                  [S.rank EXCEPT ![p] = "leader"]))
  <2>1. n = [Strip(S.roster[a], p) EXCEPT !.leader = p]
    BY <1>3, <1>4, <1>5
  <2>2. Still(S)
    BY <1>1, <1>2, Resting
  <2> QED BY <1>3, <2>1, <2>2, ClaimedGood
<1>9. Leads(<<RollTo(a, out), RollTo(a, n), AllyTo(p, a), RankTo(p, "leader")>>,
            Turned(S, S.roster, S.ally, S.rank))
  BY <1>1, <1>2, <1>3, <1>7, <1>8, Quadruple, NowTurned, Given DEF Ranks
<1> QED BY <1>1, <1>2, <1>6, <1>9, NowTurned, Ordered

LEMMA HandingKeeps ==
  ASSUME IInv, NEW a \in Ids, Live(a), NEW p \in alive, ally[p] = a,
         NEW o \in alive, ally[o] = a, rank[o] = "leader", o # p,
         Command(Installing(a, o, p))
  PROVE  IInv'
<1>1. PICK S : S = Now
  OBVIOUS
<1>2. Quiet
  BY DEF Command, Begin
<1>3. /\ S.roster[a] = roster[a] /\ S.roster[a] # None /\ roster[a] \in Roster
      /\ S.alive = alive /\ S.ally = ally /\ S.rank = rank
      /\ p \in Players /\ o \in Players /\ o # None
  BY <1>1, <1>2, Given, NowFields, Resting, StillFits, Assumed
<1>4. PICK out : out = Strip(roster[a], p)
  OBVIOUS
<1>5. PICK back : back = [out EXCEPT !.officers = out.officers \cup {o}]
  OBVIOUS
<1>6. PICK n : n = [back EXCEPT !.leader = p]
  OBVIOUS
<1>7. Command(<<RollTo(a, out), RollTo(a, back), AllyTo(o, a), RankTo(o, "officer"),
                RollTo(a, n), AllyTo(p, a), RankTo(p, "leader")>>)
  BY <1>3, <1>4, <1>5, <1>6 DEF Installing
<1>8. /\ back \in Roster /\ n \in Roster
      /\ Good(Turned(S, [S.roster EXCEPT ![a] = n],
                     [[S.ally EXCEPT ![o] = a] EXCEPT ![p] = a],
                     [[S.rank EXCEPT ![o] = "officer"] EXCEPT ![p] = "leader"]))
  <2>1. back = [Strip(S.roster[a], p) EXCEPT !.officers =
                             Strip(S.roster[a], p).officers \cup {o}]
    BY <1>3, <1>4, <1>5
  <2>2. Still(S)
    BY <1>1, <1>2, Resting
  <2> QED BY <1>3, <1>6, <2>1, <2>2, HandedGood
<1>9. out \in Roster
  BY <1>3, <1>4, StripFields
<1>10. Leads(<<RollTo(a, out), RollTo(a, back), AllyTo(o, a), RankTo(o, "officer"),
               RollTo(a, n), AllyTo(p, a), RankTo(p, "leader")>>,
             Turned(S, S.roster, S.ally, S.rank))
  BY <1>1, <1>2, <1>3, <1>8, <1>9, Septuple, NowTurned, Given
<1> QED BY <1>1, <1>2, <1>7, <1>10, NowTurned, Ordered

LEMMA TransferKeeps ==
  ASSUME IInv, NEW p \in Players, NEW t \in Players, Transfer(p, t)
  PROVE  IInv'
<1>1. PICK a : a = ally[p]
  OBVIOUS
<1>2. /\ Quiet /\ Belongs(p) /\ rank[p] = "leader"
      /\ t \in alive /\ t # p /\ ally[t] = a /\ Command(Installing(a, p, t))
  BY <1>1 DEF Transfer, Command, Begin, Holds
<1>3. a \in Ids /\ Live(a) /\ p \in alive
  BY <1>1, <1>2, BelongsTo
<1> QED BY <1>1, <1>2, <1>3, HandingKeeps

LEMMA ClaimKeeps ==
  ASSUME IInv, NEW p \in Players, Claim(p)
  PROVE  IInv'
<1>1. PICK a : a = ally[p]
  OBVIOUS
<1>2. Quiet /\ Belongs(p) /\ Command(Installing(a, None, p))
  BY <1>1 DEF Claim, Command, Begin, Holds
<1>3. a \in Ids /\ Live(a) /\ p \in alive
  BY <1>1, <1>2, BelongsTo
<1> QED BY <1>1, <1>2, <1>3, InstallingKeeps

LEMMA AdminTransferKeeps ==
  ASSUME IInv, NEW t \in Players, NEW a \in Ids, AdminTransfer(a, t)
  PROVE  IInv'
<1>1. PICK o : o = roster[a].leader
  OBVIOUS
<1>2. /\ Live(a) /\ t \in alive /\ ally[t] = a /\ t # o
      /\ Command(Installing(a, IF o \in alive THEN o ELSE None, t))
  BY <1>1 DEF AdminTransfer
<1>3. Quiet
  BY <1>2 DEF Command, Begin
<1>4. o \in alive /\ ally[o] = a /\ rank[o] = "leader"
  BY <1>1, <1>2, <1>3, LeaderLeads
<1>5. Command(Installing(a, o, t))
  BY <1>2, <1>4
<1> QED BY <1>2, <1>4, <1>5, HandingKeeps

-----------------------------------------------------------------------------
LEMMA NextFields ==
    /\ Now'.roster = roster'
    /\ Now'.chest = chest'
    /\ Now'.nextId = nextId'
    /\ Now'.alive = alive'
    /\ Now'.ally = ally'
    /\ Now'.rank = rank'
    /\ Now'.purse = purse'
    /\ Now'.gone = gone'
    /\ Now'.unpaid = unpaid'
    /\ Now'.due = due'
    /\ Now'.doomed = doomed'
BY DEF Now

LEMMA VarsTyped ==
  ASSUME Now \in States
  PROVE  /\ roster \in [Ids -> Roster \cup {None}] /\ chest \in [Ids -> Nat]
         /\ nextId \in 1..(MaxId + 1) /\ alive \subseteq Players
         /\ ally \in [Players -> Ids \cup {None}]
         /\ rank \in [Players -> Ranks \cup {None}]
         /\ purse \in [Players -> Nat] /\ gone \in Nat \cup {None}
         /\ unpaid \subseteq Players /\ due \subseteq Ids
         /\ doomed \in Players \cup {None}
BY NowFields, StateFields

(* A step that leaves the records, the characters and the books alone. *)
LEMMA Bookkeeping ==
  ASSUME Sound(Now), UNCHANGED <<roster, chest, characters, gone>>,
         nextId' \in nextId..(MaxId + 1), unpaid' \subseteq Players, due' \subseteq Ids,
         doomed' \in Players \cup {None}
  PROVE  /\ Now' \in States /\ Sound(Now') /\ (Balanced(Now) => Balanced(Now'))
         /\ Now'.roster = Now.roster /\ Now'.ally = Now.ally /\ Now'.rank = Now.rank
         /\ Now'.alive = Now.alive /\ Now'.purse = Now.purse /\ Now'.chest = Now.chest
         /\ Now'.gone = Now.gone
<1>1. /\ roster' = roster /\ chest' = chest /\ alive' = alive /\ ally' = ally
      /\ rank' = rank /\ purse' = purse /\ gone' = gone
  BY DEF characters
<1>2. /\ Now'.roster = Now.roster /\ Now'.ally = Now.ally /\ Now'.rank = Now.rank
      /\ Now'.alive = Now.alive /\ Now'.purse = Now.purse /\ Now'.chest = Now.chest
      /\ Now'.gone = Now.gone
  BY <1>1, NowFields, NextFields
<1>3. Now \in States
  BY DEF Sound
<1>4. nextId \in 1..(MaxId + 1) /\ nextId' \in 1..(MaxId + 1) /\ nextId <= nextId'
  BY <1>3, VarsTyped, Assumed
<1>5. Now' \in States
  BY <1>1, <1>3, <1>4, VarsTyped DEF Now, States
<1>6. Sound(Now')
  <2>1. Now.nextId = nextId /\ Now'.nextId = nextId'
    BY NowFields, NextFields
  <2>2. ASSUME NEW b \in Ids, Now'.roster[b] # None PROVE b < Now'.nextId
    <3>1. b < nextId /\ b \in Int
      BY <1>2, <2>1, <2>2, Assumed DEF Sound, Ids
    <3> QED BY <1>4, <2>1, <3>1, Assumed
  <2> QED BY <1>5, <2>2 DEF Sound
<1>7. Balanced(Now) => Balanced(Now')
  BY <1>2 DEF Balanced
<1> QED BY <1>2, <1>5, <1>6, <1>7

LEMMA FoundKeeps ==
  ASSUME IInv, NEW p \in Players, Found(p)
  PROVE  IInv'
<1>1. /\ Quiet /\ p \in alive /\ ally[p] = None /\ nextId \in Ids /\ nextId' = nextId + 1
      /\ UNCHANGED <<roster, chest, characters, up, unpaid, due, doomed, gone>>
  BY DEF Found, Begin
<1>2. PICK a : a = nextId
  OBVIOUS
<1>3. PICK n : n = [leader |-> p, officers |-> {}, members |-> {}]
  OBVIOUS
<1>4. todo' = <<RollTo(a, n), AllyTo(p, a), RankTo(p, "leader")>>
  BY <1>2, <1>3 DEF Found, Begin
<1>5. a \in Ids /\ a \in Int /\ n \in Roster
  BY <1>1, <1>2, <1>3, Assumed DEF Ids, Roster
<1>6. /\ Still(Now) /\ Now \in States /\ up /\ unpaid = {} /\ due = {} /\ doomed = None
  BY <1>1, Resting, NowFields
<1>7. nextId' \in nextId..(MaxId + 1)
  BY <1>1, <1>2, <1>5, Assumed DEF Ids
<1>8. /\ Now' \in States /\ Sound(Now') /\ Balanced(Now')
      /\ Now'.roster = Now.roster /\ Now'.ally = Now.ally /\ Now'.rank = Now.rank
      /\ Now'.alive = Now.alive
  <2>1. unpaid' \subseteq Players /\ due' \subseteq Ids /\ doomed' \in Players \cup {None}
    BY <1>1, <1>6
  <2>2. UNCHANGED <<roster, chest, characters, gone>>
    BY <1>1
  <2>3. Sound(Now) /\ Balanced(Now)
    BY <1>6 DEF Still
  <2> QED BY <1>7, <2>1, <2>2, <2>3, Bookkeeping
<1>9. PICK S : S = Now'
  OBVIOUS
<1>10. /\ S.unpaid = {} /\ S.due = {} /\ S.doomed = None /\ S.nextId = a + 1
       /\ S.alive = alive /\ S.ally = ally
  BY <1>1, <1>2, <1>6, <1>8, <1>9, NextFields, NowFields
<1>11. Still(S)
  <2>1. ASSUME NEW b \in Ids, S.roster[b] # None PROVE Fits(S, b)
    <3>1. Fits(Now, b)
      BY <1>6, <1>8, <1>9, <2>1, StillFits
    <3> QED BY <1>8, <1>9, <3>1 DEF Fits
  <2> QED BY <1>8, <1>9, <1>10, <2>1 DEF Still, Good
<1>12. Good(Turned(S, [S.roster EXCEPT ![a] = n], [S.ally EXCEPT ![p] = a],
                   [S.rank EXCEPT ![p] = "leader"]))
  BY <1>1, <1>3, <1>5, <1>10, <1>11, FoundGood
<1>13. Typed(S.roster, S.ally, S.rank) /\ Numbered(S, S.roster)
  BY <1>8, <1>9, StateFields DEF Typed, Numbered, Sound
<1>14. a < S.nextId
  BY <1>5, <1>10
<1>15. Leads(<<RollTo(a, n), AllyTo(p, a), RankTo(p, "leader")>>,
             Turned(S, S.roster, S.ally, S.rank))
  BY <1>5, <1>8, <1>9, <1>12, <1>13, <1>14, Triple DEF Ranks
<1>16. Leads(todo', Now')
  BY <1>4, <1>8, <1>9, <1>15, TurnedSame
<1> QED BY <1>1, <1>6, <1>16, Keeps

(* A leader off the record that a reconcile will visit. *)
LEMMA BeheadedGood ==
  ASSUME NEW S \in States, S.unpaid = {}, NEW a \in Ids, a \in S.due,
         \A b \in Ids : S.roster[b] # None => Fits(S, b),
         NEW p \in Players, S.ally[p] = a, S.doomed = p, NEW n
  PROVE  Good(Turned(S, [S.roster EXCEPT ![a] = n],
                     [S.ally EXCEPT ![p] = None], [S.rank EXCEPT ![p] = None]))
<1>1. PICK R : R = [S.roster EXCEPT ![a] = n]
  OBVIOUS
<1>2. PICK A : A = [S.ally EXCEPT ![p] = None]
  OBVIOUS
<1>3. PICK K : K = [S.rank EXCEPT ![p] = None]
  OBVIOUS
<1>4. \A b \in Ids : b # a => R[b] = S.roster[b]
  BY <1>1, StateFields
<1>5. A[p] = None /\ \A q \in Players : q # p => A[q] = S.ally[q] /\ K[q] = S.rank[q]
  BY <1>2, <1>3, StateFields
<1>6. \A q \in Players : S.ally[q] \notin {a, None} =>
                          A[q] = S.ally[q] /\ K[q] = S.rank[q]
  BY <1>5
<1>7. Good(Turned(S, R, A, K))
  BY <1>4, <1>5, <1>6, GoodAgain
<1> QED BY <1>1, <1>2, <1>3, <1>7

LEMMA DeletedKeeps ==
  ASSUME IInv, NEW p \in Players, Deleted(p)
  PROVE  IInv'
<1>1. PICK a : a = ally[p]
  OBVIOUS
<1>2. PICK out : out = Strip(roster[a], p)
  OBVIOUS
<1>3. /\ Quiet /\ p \in alive /\ doomed' = p /\ nextId' = nextId
      /\ UNCHANGED <<roster, chest, characters, up, unpaid, gone>>
      /\ \/ ~Belongs(p) /\ todo' = <<>> /\ due' = due
         \/ Belongs(p) /\ rank[p] # "leader" /\ todo' = Removing(p, a) /\ due' = due
         \/ /\ Belongs(p) /\ rank[p] = "leader" /\ due' = {a}
            /\ todo' = <<RollTo(a, out), RollTo(a, [out EXCEPT !.leader = None]),
                         AllyTo(p, None), RankTo(p, None)>>
  BY <1>1, <1>2 DEF Deleted, Begin, Holds
<1>4. /\ Still(Now) /\ Now \in States /\ up /\ unpaid = {} /\ due = {} /\ doomed = None
      /\ Sound(Now) /\ Balanced(Now)
  BY <1>3, Resting, NowFields DEF Still
<1>5. Belongs(p) => a \in Ids /\ Live(a)
  BY <1>1, <1>3, BelongsTo
<1>6. due' \subseteq Ids /\ nextId' \in nextId..(MaxId + 1)
  BY <1>3, <1>4, <1>5, VarsTyped, Assumed
<1>7. /\ Now' \in States /\ Sound(Now') /\ Balanced(Now')
      /\ Now'.roster = Now.roster /\ Now'.ally = Now.ally /\ Now'.rank = Now.rank
      /\ Now'.alive = Now.alive
  <2>1. unpaid' \subseteq Players /\ doomed' \in Players \cup {None}
    BY <1>3, <1>4
  <2>2. UNCHANGED <<roster, chest, characters, gone>>
    BY <1>3
  <2> QED BY <1>4, <1>6, <2>1, <2>2, Bookkeeping
<1>8. PICK S : S = Now'
  OBVIOUS
<1>9. /\ S.unpaid = {} /\ S.doomed = p /\ S.due = due' /\ S.nextId = Now.nextId
      /\ S.ally = ally /\ S.roster = roster /\ S \in States
  BY <1>3, <1>4, <1>7, <1>8, NextFields, NowFields
<1>10. ASSUME NEW b \in Ids, S.roster[b] # None PROVE Fits(S, b)
  <2>1. Fits(Now, b)
    BY <1>4, <1>7, <1>8, <1>10, StillFits
  <2> QED BY <1>7, <1>8, <2>1 DEF Fits
<1>11. Typed(S.roster, S.ally, S.rank) /\ Numbered(S, S.roster)
  BY <1>7, <1>8, StateFields DEF Typed, Numbered, Sound
<1>12. S = Turned(S, S.roster, S.ally, S.rank)
  BY <1>9, TurnedSame
<1>13. CASE ~Belongs(p) /\ todo' = <<>>
  <2>1. S.ally[p] # None => S.roster[S.ally[p]] = None
    BY <1>3, <1>9, <1>13 DEF Belongs, Live
  <2>2. Good(S)
    BY <1>9, <1>10, <2>1 DEF Good
  <2>3. Leads(<<>>, S)
    BY <1>7, <1>8, <2>2, LeadsEnd DEF Ready
  <2> QED BY <1>3, <1>4, <1>8, <1>13, <2>3, Keeps
<1>14. CASE Belongs(p) /\ rank[p] # "leader" /\ todo' = Removing(p, a)
  <2>1. a \in Ids /\ Live(a) /\ a < S.nextId /\ S.roster[a] # None /\ roster[a] \in Roster
    BY <1>3, <1>5, <1>9, <1>14, Given DEF Live
  <2>2. p # roster[a].leader
    BY <1>3, <1>14, <2>1, LeaderLeads
  <2>3. out \in Roster
    BY <1>2, <2>1, StripFields
  <2>4. Good(Turned(S, [S.roster EXCEPT ![a] = out], [S.ally EXCEPT ![p] = None],
                    [S.rank EXCEPT ![p] = None]))
    BY <1>1, <1>2, <1>9, <1>10, <2>1, <2>2, RemovedGood
  <2>5. Leads(<<RollTo(a, out), AllyTo(p, None), RankTo(p, None)>>,
              Turned(S, S.roster, S.ally, S.rank))
    BY <1>7, <1>8, <1>11, <2>1, <2>3, <2>4, Triple
  <2>6. todo' = <<RollTo(a, out), AllyTo(p, None), RankTo(p, None)>>
    BY <1>2, <1>14 DEF Removing
  <2> QED BY <1>3, <1>4, <1>8, <1>12, <2>5, <2>6, Keeps
<1>15. CASE /\ Belongs(p) /\ rank[p] = "leader" /\ due' = {a}
            /\ todo' = <<RollTo(a, out), RollTo(a, [out EXCEPT !.leader = None]),
                         AllyTo(p, None), RankTo(p, None)>>
  <2>1. a \in Ids /\ Live(a) /\ a < S.nextId /\ S.roster[a] # None /\ roster[a] \in Roster
    BY <1>3, <1>5, <1>9, <1>15, Given DEF Live
  <2>2. PICK n : n = [out EXCEPT !.leader = None]
    OBVIOUS
  <2>3. out \in Roster
    BY <1>2, <2>1, StripFields
  <2>4. n \in Roster
    BY <2>2, <2>3 DEF Roster
  <2>5. Good(Turned(S, [S.roster EXCEPT ![a] = n], [S.ally EXCEPT ![p] = None],
                    [S.rank EXCEPT ![p] = None]))
    BY <1>1, <1>9, <1>10, <1>15, <2>1, BeheadedGood
  <2>6. Leads(<<RollTo(a, out), RollTo(a, n), AllyTo(p, None), RankTo(p, None)>>,
              Turned(S, S.roster, S.ally, S.rank))
    BY <1>7, <1>8, <1>11, <2>1, <2>3, <2>4, <2>5, Quadruple
  <2> QED BY <1>3, <1>4, <1>8, <1>12, <1>15, <2>2, <2>6, Keeps
<1> QED BY <1>3, <1>13, <1>14, <1>15
-----------------------------------------------------------------------------
LEMMA CountedTo ==
  ASSUME NEW k \in Nat
  PROVE  IsFiniteSet(1..k) /\ Cardinality(1..k) = k
<1>1. PICK i \in Int : i = 1
  OBVIOUS
<1>2. IsFiniteSet(i..k) /\ Cardinality(i..k) = IF i > k THEN 0 ELSE k - i + 1
  BY FS_Interval
<1>3. (IF i > k THEN 0 ELSE k - i + 1) = k
  BY <1>1
<1> QED BY <1>1, <1>2, <1>3

(* A tally counts one pair for every unit of every entry.                  *)
LEMMA UnitsOf ==
  ASSUME NEW f, NEW S
  PROVE  /\ \A u \in Units(f, S) : \E x \in S : \E k \in 1..f[x] : u = <<x, k>>
         /\ \A x \in S : \A k \in 1..f[x] : <<x, k>> \in Units(f, S)
BY DEF Units

LEMMA UnitsFinite ==
  ASSUME NEW f, NEW S, IsFiniteSet(S), \A x \in S : f[x] \in Nat
  PROVE  IsFiniteSet(Units(f, S)) /\ Tally(f, S) \in Nat
<1>1. PICK g : g = [x \in S |-> {x} \X (1..f[x])]
  OBVIOUS
<1>2. PICK R : R = {{x} \X (1..f[x]) : x \in S}
  OBVIOUS
<1>3. g \in Surjection(S, R)
  <2>1. g \in [S -> R]
    BY <1>1, <1>2
  <2>2. \A t \in R : \E s \in S : g[s] = t
    BY <1>1, <1>2
  <2> QED BY <2>1, <2>2 DEF Surjection
<1>4. IsFiniteSet(R)
  BY <1>3, FS_Surjection
<1>5. ASSUME NEW x \in S PROVE IsFiniteSet({x} \X (1..f[x]))
  <2>1. IsFiniteSet({x})
    BY FS_Singleton
  <2>2. IsFiniteSet(1..f[x])
    BY CountedTo
  <2> QED BY <2>1, <2>2, FS_Product
<1>6. IsFiniteSet(UNION R)
  BY <1>2, <1>4, <1>5, FS_UNION
<1> QED BY <1>2, <1>6, FS_CardinalityType DEF Units, Tally

LEMMA TallySame ==
  ASSUME NEW f, NEW g, NEW S, \A y \in S : f[y] = g[y]
  PROVE  Tally(f, S) = Tally(g, S)
BY DEF Tally, Units

(* An entry and the others. *)
LEMMA TallySplit ==
  ASSUME NEW f, NEW S, IsFiniteSet(S), \A y \in S : f[y] \in Nat, NEW x \in S
  PROVE  /\ Tally(f, S \ {x}) \in Nat
         /\ Tally(f, S) = Tally(f, S \ {x}) + f[x]
<1>1. IsFiniteSet(S \ {x})
  BY FS_RemoveElement
<1>2. IsFiniteSet(Units(f, S \ {x})) /\ Tally(f, S \ {x}) \in Nat
  BY <1>1, UnitsFinite
<1>3. PICK E : E = {x} \X (1..f[x])
  OBVIOUS
<1>4. IsFiniteSet(E) /\ Cardinality(E) = f[x]
  <2>1. IsFiniteSet({x}) /\ Cardinality({x}) = 1
    BY FS_Singleton
  <2>2. PICK k \in Nat : k = f[x]
    OBVIOUS
  <2>3. IsFiniteSet(1..f[x]) /\ Cardinality(1..f[x]) = f[x]
    BY <2>2, CountedTo
  <2>4. IsFiniteSet(E) /\ Cardinality(E) = Cardinality({x}) * Cardinality(1..f[x])
    BY <1>3, <2>1, <2>3, FS_Product
  <2>5. Cardinality(E) = 1 * k /\ 1 * k = k
    BY <2>1, <2>2, <2>3, <2>4
  <2> QED BY <2>2, <2>4, <2>5
<1>5. Units(f, S) = Units(f, S \ {x}) \cup E
  BY <1>3 DEF Units
<1>6. Units(f, S \ {x}) \cap E = {}
  <2>1. ASSUME NEW u \in Units(f, S \ {x}), u \in E PROVE FALSE
    <3>1. PICK y \in S \ {x} : \E k \in 1..f[y] : u = <<y, k>>
      BY <2>1, UnitsOf
    <3>2. u[1] = y /\ u[1] = x
      BY <1>3, <2>1, <3>1
    <3> QED BY <3>1, <3>2
  <2> QED BY <2>1
<1>7. Cardinality(Units(f, S)) = Cardinality(Units(f, S \ {x})) + f[x]
  <2>1. PICK V : V = Units(f, S \ {x})
    OBVIOUS
  <2>2. Cardinality(V \cup E) = Cardinality(V) + Cardinality(E) - Cardinality(V \cap E)
    BY <1>2, <1>4, <2>1, FS_Union
  <2>3. Cardinality(V \cap E) = 0
    BY <1>6, <2>1, FS_EmptySet
  <2>4. Cardinality(V) \in Nat /\ Cardinality(E) \in Nat
    BY <1>2, <1>4, <2>1, FS_CardinalityType
  <2> QED BY <1>4, <1>5, <2>1, <2>2, <2>3, <2>4
<1> QED BY <1>2, <1>7 DEF Tally

LEMMA TallyOne ==
  ASSUME NEW S, IsFiniteSet(S), NEW f \in [S -> Nat], NEW x \in S, NEW n \in Nat
  PROVE  /\ Tally(f, S) \in Nat /\ f[x] <= Tally(f, S)
         /\ Tally([f EXCEPT ![x] = n], S) = Tally(f, S) - f[x] + n
<1>1. PICK g : g = [f EXCEPT ![x] = n]
  OBVIOUS
<1>2. \A y \in S : f[y] \in Nat
  OBVIOUS
<1>3. \A y \in S : g[y] \in Nat
  BY <1>1
<1>4. /\ g[x] = n
      /\ \A y \in S \ {x} : g[y] = f[y]
  BY <1>1
<1>5. PICK m : m = Tally(f, S \ {x})
  OBVIOUS
<1>6. m \in Nat /\ Tally(f, S) = m + f[x]
  BY <1>2, <1>5, TallySplit
<1>7. Tally(g, S) = m + n
  <2>1. Tally(g, S \ {x}) = m
    BY <1>4, <1>5, TallySame
  <2>2. Tally(g, S) = Tally(g, S \ {x}) + g[x]
    BY <1>3, TallySplit
  <2> QED BY <1>4, <2>1, <2>2
<1> QED BY <1>1, <1>2, <1>6, <1>7

(* As much more for each of some. *)
LEMMA TallyGive ==
  ASSUME NEW S, IsFiniteSet(S), NEW f, NEW g, \A y \in S : f[y] \in Nat,
         NEW U, U \subseteq S, NEW k \in Nat,
         \A y \in S : g[y] = IF y \in U THEN f[y] + k ELSE f[y]
  PROVE  /\ Cardinality(U) \in Nat
         /\ Tally(g, S) = Tally(f, S) + Cardinality(U) * k
<1>1. IsFiniteSet(U) /\ Cardinality(U) \in Nat
  BY FS_Subset, FS_CardinalityType
<1>2. IsFiniteSet(Units(f, S)) /\ Tally(f, S) \in Nat
  BY UnitsFinite
<1>3. PICK B : B = U \X (1..k)
  OBVIOUS
<1>4. IsFiniteSet(B) /\ Cardinality(B) = Cardinality(U) * k
  <2>1. IsFiniteSet(1..k) /\ Cardinality(1..k) = k
    BY CountedTo
  <2> QED BY <1>1, <1>3, <2>1, FS_Product
<1>5. PICK m : m = [b \in B |-> <<b[1], f[b[1]] + b[2]>>]
  OBVIOUS
<1>6. PICK E : E = {m[b] : b \in B}
  OBVIOUS
<1>7. ASSUME NEW b \in B
      PROVE  /\ b[1] \in U /\ b[2] \in 1..k /\ b = <<b[1], b[2]>>
             /\ f[b[1]] \in Nat /\ m[b] = <<b[1], f[b[1]] + b[2]>>
  BY <1>3, <1>5
<1>8. ASSUME NEW b \in B, NEW c \in B, m[b] = m[c] PROVE b = c
  <2>1. b[1] = c[1] /\ f[b[1]] + b[2] = f[c[1]] + c[2]
    BY <1>7, <1>8
  <2>2. b[2] = c[2]
    BY <1>7, <2>1
  <2> QED BY <1>7, <2>1, <2>2
<1>9. m \in Bijection(B, E)
  <2>1. m \in [B -> E]
    BY <1>5, <1>6
  <2>2. m \in Injection(B, E)
    BY <1>8, <2>1 DEF Injection, IsInjective
  <2>3. m \in Surjection(B, E)
    BY <1>6, <2>1 DEF Surjection
  <2> QED BY <2>2, <2>3 DEF Bijection
<1>10. IsFiniteSet(E) /\ Cardinality(E) = Cardinality(U) * k
  BY <1>4, <1>9, FS_Bijection DEF ExistsBijection
<1>11. Units(g, S) = Units(f, S) \cup E
  <2>1. ASSUME NEW u \in Units(g, S) PROVE u \in Units(f, S) \cup E
    <3>1. PICK y \in S : \E i \in 1..g[y] : u = <<y, i>>
      BY UnitsOf
    <3>2. PICK i \in 1..g[y] : u = <<y, i>>
      BY <3>1
    <3>3. CASE i <= f[y]
      BY <3>2, <3>3, UnitsOf
    <3>4. CASE ~(i <= f[y])
      <4>1. y \in U /\ g[y] = f[y] + k /\ f[y] \in Nat
        BY <3>4
      <4>2. i - f[y] \in 1..k /\ f[y] + (i - f[y]) = i
        BY <3>4, <4>1
      <4>3. PICK b : b = <<y, i - f[y]>>
        OBVIOUS
      <4>4. b \in B /\ b[1] = y /\ b[2] = i - f[y]
        BY <1>3, <4>1, <4>2, <4>3
      <4>5. m[b] = u
        BY <1>7, <3>2, <4>2, <4>4
      <4> QED BY <1>6, <4>4, <4>5
    <3> QED BY <3>3, <3>4
  <2>2. ASSUME NEW u \in Units(f, S) PROVE u \in Units(g, S)
    <3>1. PICK y \in S : \E i \in 1..f[y] : u = <<y, i>>
      BY UnitsOf
    <3>2. PICK i \in 1..f[y] : u = <<y, i>>
      BY <3>1
    <3>3. f[y] \in Nat /\ i \in 1..g[y]
      OBVIOUS
    <3> QED BY <3>2, <3>3, UnitsOf
  <2>3. ASSUME NEW b \in B PROVE m[b] \in Units(g, S)
    <3>1. b[1] \in S /\ g[b[1]] = f[b[1]] + k /\ f[b[1]] + b[2] \in 1..g[b[1]]
      BY <1>7
    <3> QED BY <1>7, <3>1, UnitsOf
  <2> QED BY <1>6, <2>1, <2>2, <2>3
<1>12. Units(f, S) \cap E = {}
  <2>1. ASSUME NEW b \in B, m[b] \in Units(f, S) PROVE FALSE
    <3>1. PICK y \in S : \E i \in 1..f[y] : m[b] = <<y, i>>
      BY <2>1, UnitsOf
    <3>2. PICK i \in 1..f[y] : m[b] = <<y, i>>
      BY <3>1
    <3>3. y = b[1] /\ i = f[b[1]] + b[2]
      BY <1>7, <3>2
    <3>4. i <= f[b[1]] /\ i \in Int
      BY <1>7, <3>2, <3>3
    <3> QED BY <1>7, <3>3, <3>4
  <2> QED BY <1>6, <2>1
<1>13. Cardinality(Units(g, S)) = Cardinality(Units(f, S)) + Cardinality(E) - 0
  BY <1>2, <1>10, <1>11, <1>12, FS_Union, FS_EmptySet
<1>14. PICK c : c = Cardinality(U) * k
  OBVIOUS
<1>15. Cardinality(U) \in Nat => c \in Nat
  <2>1. Cardinality(B) \in Nat
    BY <1>4, FS_CardinalityType
  <2> QED BY <1>4, <1>14, <2>1
<1> QED BY <1>1, <1>2, <1>10, <1>13, <1>14, <1>15 DEF Tally

LEMMA TallyNothing ==
  ASSUME NEW f, NEW S, \A y \in S : f[y] = 0
  PROVE  Tally(f, S) = 0
<1>1. ASSUME NEW u \in Units(f, S) PROVE FALSE
  <2>1. PICK y \in S : \E k \in 1..f[y] : u = <<y, k>>
    BY UnitsOf
  <2> QED BY <2>1
<1>2. Units(f, S) = {}
  BY <1>1
<1> QED BY <1>2, FS_EmptySet DEF Tally
-----------------------------------------------------------------------------
(* The state with other accounts. *)
Booked(S, P, C, g) == [S EXCEPT !.purse = P, !.chest = C, !.gone = g]

(* The books show d too much. *)
Over(S, d) ==
    S.gone # None => Tally(S.purse, Players) + Tally(S.chest, Ids) + S.gone = Wealth + d

LEMMA Even ==
  ASSUME NEW S
  PROVE  (S.gone # None => Tally(S.purse, Players) + Tally(S.chest, Ids) + S.gone \in Int)
            => (Over(S, 0) <=> Balanced(S))
BY Assumed DEF Over, Balanced

LEMMA Tallied ==
  ASSUME NEW S \in States
  PROVE  /\ Tally(S.purse, Players) \in Nat /\ Tally(S.chest, Ids) \in Nat
         /\ S.gone # None => S.gone \in Nat
         /\ Over(S, 0) <=> Balanced(S)
<1>1. S.purse \in [Players -> Nat] /\ S.chest \in [Ids -> Nat] /\ S.gone \in Nat \cup {None}
  BY StateFields
<1>2. Tally(S.purse, Players) \in Nat
  BY <1>1, Assumed, UnitsFinite
<1>3. Tally(S.chest, Ids) \in Nat
  BY <1>1, Assumed, UnitsFinite
<1> QED BY <1>1, <1>2, <1>3, Even

LEMMA BookedFields ==
  ASSUME NEW S \in States, NEW P, NEW C, NEW g
  PROVE  LET T == Booked(S, P, C, g)
         IN /\ T.purse = P /\ T.chest = C /\ T.gone = g
            /\ T.roster = S.roster /\ T.ally = S.ally /\ T.rank = S.rank
            /\ T.nextId = S.nextId /\ T.alive = S.alive /\ T.unpaid = S.unpaid
            /\ T.due = S.due /\ T.doomed = S.doomed
BY DEF Booked, States

LEMMA BookedGood ==
  ASSUME NEW S, Sound(S), NEW P \in [Players -> Nat], NEW C \in [Ids -> Nat],
         NEW g \in Nat \cup {None}
  PROVE  /\ Sound(Booked(S, P, C, g))
         /\ Good(S) => Good(Booked(S, P, C, g))
<1>1. S \in States
  BY DEF Sound
<1>2. PICK T : T = Booked(S, P, C, g)
  OBVIOUS
<1>3. T \in States
  BY <1>1, <1>2 DEF Booked, States
<1>4. /\ T.roster = S.roster /\ T.ally = S.ally /\ T.rank = S.rank
      /\ T.nextId = S.nextId /\ T.alive = S.alive /\ T.unpaid = S.unpaid
      /\ T.due = S.due /\ T.doomed = S.doomed
  BY <1>1, <1>2, BookedFields
<1>5. Sound(T)
  BY <1>3, <1>4 DEF Sound
<1>6. ASSUME NEW a, Fits(S, a) PROVE Fits(T, a)
  BY <1>4, <1>6 DEF Fits
<1>7. Good(S) => Good(T)
  BY <1>4, <1>6 DEF Good
<1> QED BY <1>2, <1>5, <1>7

LEMMA Accounts ==
  ASSUME NEW S \in States
  PROVE  /\ \A p, n : After(PurseBy(p, n), S)
              = Booked(S, [S.purse EXCEPT ![p] = S.purse[p] + n], S.chest, S.gone)
         /\ \A a, n : After(ChestBy(a, n), S)
              = Booked(S, S.purse, [S.chest EXCEPT ![a] = S.chest[a] + n], S.gone)
         /\ \A a, n : After(SpendOf(a, n), S)
              = Booked(S, S.purse, [S.chest EXCEPT ![a] = S.chest[a] - n], Lost(S, n))
<1>1. ASSUME NEW p, NEW n, NEW P, P = [S.purse EXCEPT ![p] = S.purse[p] + n]
      PROVE  After(PurseBy(p, n), S) = Booked(S, P, S.chest, S.gone)
  <2>1. After(PurseBy(p, n), S) = [S EXCEPT !.purse = P]
    BY <1>1, Ops DEF After
  <2> QED BY <2>1 DEF Booked, States
<1>2. ASSUME NEW a, NEW n, NEW C, C = [S.chest EXCEPT ![a] = S.chest[a] + n]
      PROVE  After(ChestBy(a, n), S) = Booked(S, S.purse, C, S.gone)
  <2>1. After(ChestBy(a, n), S) = [S EXCEPT !.chest = C]
    BY <1>2, Ops DEF After
  <2> QED BY <2>1 DEF Booked, States
<1>3. ASSUME NEW a, NEW n, NEW C, C = [S.chest EXCEPT ![a] = S.chest[a] - n]
      PROVE  After(SpendOf(a, n), S) = Booked(S, S.purse, C, Lost(S, n))
  <2>0. PICK w : w = SpendOf(a, n) /\ w.op = "spend" /\ w.id = a /\ w.by = n
    BY Ops
  <2>1. After(w, S) = [S EXCEPT !.chest = C, !.gone = Lost(S, n)]
    BY <1>3, <2>0 DEF After
  <2> QED BY <2>0, <2>1 DEF Booked, States
<1> QED BY <1>1, <1>2, <1>3

(* What a payment does to the books. *)
LEMMA PursePaid ==
  ASSUME NEW S, Sound(S), NEW p \in Players, NEW n \in Int, S.purse[p] + n \in Nat,
         NEW d \in Int, Over(S, d)
  PROVE  LET T == After(PurseBy(p, n), S)
         IN /\ Sound(T) /\ (Good(S) => Good(T)) /\ Over(T, d + n)
            /\ T.chest = S.chest
<1>1. S \in States
  BY DEF Sound
<1>2. PICK P : P = [S.purse EXCEPT ![p] = S.purse[p] + n]
  OBVIOUS
<1>3. PICK T : T = Booked(S, P, S.chest, S.gone)
  OBVIOUS
<1>4. After(PurseBy(p, n), S) = T
  BY <1>1, <1>2, <1>3, Accounts
<1>5. /\ S.purse \in [Players -> Nat] /\ S.chest \in [Ids -> Nat]
      /\ S.gone \in Nat \cup {None}
  BY <1>1, StateFields
<1>6. P \in [Players -> Nat]
  BY <1>2, <1>5
<1>7. Sound(T) /\ (Good(S) => Good(T))
  BY <1>3, <1>5, <1>6, BookedGood
<1>8. T.purse = P /\ T.chest = S.chest /\ T.gone = S.gone
  BY <1>1, <1>3, BookedFields
<1>9. Tally(P, Players) = Tally(S.purse, Players) + n
  <2>1. PICK m \in Nat : m = S.purse[p] + n
    OBVIOUS
  <2>2. Tally(P, Players) = Tally(S.purse, Players) - S.purse[p] + m
    BY <1>2, <1>5, <2>1, Assumed, TallyOne
  <2>3. S.purse[p] \in Nat /\ Tally(S.purse, Players) \in Nat
    BY <1>1, <1>5, Tallied
  <2> QED BY <2>1, <2>2, <2>3
<1>10. Over(T, d + n)
  <2>1. SUFFICES ASSUME S.gone # None
                 PROVE  Tally(P, Players) + Tally(S.chest, Ids) + S.gone = Wealth + (d + n)
    BY <1>8 DEF Over
  <2>2. Tally(S.purse, Players) + Tally(S.chest, Ids) + S.gone = Wealth + d
    BY <2>1 DEF Over
  <2>3. /\ Tally(S.purse, Players) \in Nat /\ Tally(S.chest, Ids) \in Nat
        /\ S.gone \in Nat /\ Wealth \in Nat
    BY <1>1, <2>1, Tallied, Assumed
  <2>4. PICK x \in Nat, y \in Nat, z \in Nat :
          /\ x = Tally(S.purse, Players) /\ y = Tally(S.chest, Ids) /\ z = S.gone
    BY <2>3
  <2>5. x + y + z = Wealth + d /\ Wealth \in Int
    BY <2>2, <2>3, <2>4
  <2>6. (x + n) + y + z = Wealth + (d + n)
    BY <2>5
  <2> QED BY <1>9, <2>4, <2>6
<1> QED BY <1>4, <1>7, <1>8, <1>10

LEMMA ChestPaid ==
  ASSUME NEW S, Sound(S), NEW a \in Ids, NEW n \in Int, S.chest[a] + n \in Nat,
         NEW d \in Int, Over(S, d)
  PROVE  LET T == After(ChestBy(a, n), S)
         IN /\ Sound(T) /\ (Good(S) => Good(T)) /\ Over(T, d + n)
            /\ T.purse = S.purse
<1>1. S \in States
  BY DEF Sound
<1>2. PICK C : C = [S.chest EXCEPT ![a] = S.chest[a] + n]
  OBVIOUS
<1>3. PICK T : T = Booked(S, S.purse, C, S.gone)
  OBVIOUS
<1>4. After(ChestBy(a, n), S) = T
  BY <1>1, <1>2, <1>3, Accounts
<1>5. /\ S.purse \in [Players -> Nat] /\ S.chest \in [Ids -> Nat]
      /\ S.gone \in Nat \cup {None}
  BY <1>1, StateFields
<1>6. C \in [Ids -> Nat]
  BY <1>2, <1>5
<1>7. Sound(T) /\ (Good(S) => Good(T))
  BY <1>3, <1>5, <1>6, BookedGood
<1>8. T.purse = S.purse /\ T.chest = C /\ T.gone = S.gone
  BY <1>1, <1>3, BookedFields
<1>9. Tally(C, Ids) = Tally(S.chest, Ids) + n
  <2>1. PICK m \in Nat : m = S.chest[a] + n
    OBVIOUS
  <2>2. Tally(C, Ids) = Tally(S.chest, Ids) - S.chest[a] + m
    BY <1>2, <1>5, <2>1, Assumed, TallyOne
  <2>3. S.chest[a] \in Nat /\ Tally(S.chest, Ids) \in Nat
    BY <1>1, <1>5, Tallied
  <2> QED BY <2>1, <2>2, <2>3
<1>10. Over(T, d + n)
  <2>1. SUFFICES ASSUME S.gone # None
                 PROVE  Tally(S.purse, Players) + Tally(C, Ids) + S.gone = Wealth + (d + n)
    BY <1>8 DEF Over
  <2>2. Tally(S.purse, Players) + Tally(S.chest, Ids) + S.gone = Wealth + d
    BY <2>1 DEF Over
  <2>3. /\ Tally(S.purse, Players) \in Nat /\ Tally(S.chest, Ids) \in Nat
        /\ S.gone \in Nat /\ Wealth \in Nat
    BY <1>1, <2>1, Tallied, Assumed
  <2>4. PICK x \in Nat, y \in Nat, z \in Nat :
          /\ x = Tally(S.purse, Players) /\ y = Tally(S.chest, Ids) /\ z = S.gone
    BY <2>3
  <2>5. x + y + z = Wealth + d /\ Wealth \in Int
    BY <2>2, <2>3, <2>4
  <2>6. x + (y + n) + z = Wealth + (d + n)
    BY <2>5
  <2> QED BY <1>9, <2>4, <2>6
<1> QED BY <1>4, <1>7, <1>8, <1>10

LEMMA Spent ==
  ASSUME NEW S, Sound(S), NEW a \in Ids, NEW n \in Nat, n <= S.chest[a], Balanced(S)
  PROVE  LET T == After(SpendOf(a, n), S)
         IN Sound(T) /\ (Good(S) => Good(T)) /\ Balanced(T)
<1>1. S \in States
  BY DEF Sound
<1>2. PICK C : C = [S.chest EXCEPT ![a] = S.chest[a] - n]
  OBVIOUS
<1>3. PICK T : T = Booked(S, S.purse, C, Lost(S, n))
  OBVIOUS
<1>4. After(SpendOf(a, n), S) = T
  BY <1>1, <1>2, <1>3, Accounts
<1>5. /\ S.purse \in [Players -> Nat] /\ S.chest \in [Ids -> Nat]
      /\ S.gone \in Nat \cup {None}
  BY <1>1, StateFields
<1>6. PICK m \in Nat : m = S.chest[a] - n
  BY <1>5
<1>7. C \in [Ids -> Nat] /\ Lost(S, n) \in Nat \cup {None}
  BY <1>2, <1>5, <1>6 DEF Lost
<1>8. Sound(T) /\ (Good(S) => Good(T))
  BY <1>3, <1>5, <1>7, BookedGood
<1>9. T.purse = S.purse /\ T.chest = C /\ T.gone = Lost(S, n)
  BY <1>1, <1>3, BookedFields
<1>10. Tally(C, Ids) = Tally(S.chest, Ids) - n
  <2>1. Tally(C, Ids) = Tally(S.chest, Ids) - S.chest[a] + m
    BY <1>2, <1>5, <1>6, Assumed, TallyOne
  <2>2. S.chest[a] \in Nat /\ Tally(S.chest, Ids) \in Nat
    BY <1>1, <1>5, Tallied
  <2> QED BY <1>6, <2>1, <2>2
<1>11. Balanced(T)
  <2>1. CASE S.gone = None
    BY <1>9, <2>1 DEF Balanced, Lost
  <2>2. CASE S.gone # None
    <3>1. T.gone = S.gone + n
      BY <1>9, <2>2 DEF Lost
    <3>2. Tally(S.purse, Players) + Tally(S.chest, Ids) + S.gone = Wealth
      BY <2>2 DEF Balanced
    <3>3. /\ Tally(S.purse, Players) \in Nat /\ Tally(S.chest, Ids) \in Nat
          /\ S.gone \in Nat /\ Wealth \in Nat
      BY <1>1, <2>2, Tallied, Assumed
    <3>4. Tally(S.purse, Players) + Tally(C, Ids) + T.gone = Wealth
      BY <1>10, <3>1, <3>2, <3>3
    <3> QED BY <1>9, <3>4 DEF Balanced
  <2> QED BY <2>1, <2>2
<1> QED BY <1>4, <1>8, <1>11

-----------------------------------------------------------------------------
(* A move of resources. *)
LEMMA Moves ==
  ASSUME NEW S, Sound(S), NEW s \in Seq(WriteStep), s # <<>>, Head(s).op \in Moving,
         Leads(Tail(s), After(Head(s), S))
  PROVE  Leads(s, S)
<1>1. Head(s).op # "reform"
  BY DEF Moving
<1>2. Ready(s, S)
  BY <1>1 DEF Ready
<1> QED BY <1>2, LeadsFrom

LEMMA Done ==
  ASSUME NEW S, Sound(S), Good(S), Balanced(S)
  PROVE  Leads(<<>>, S)
BY LeadsEnd DEF Ready

(* From a treasury to a purse, or back. *)
LEMMA Exchange ==
  ASSUME NEW S, Still(S), NEW a \in Ids, NEW p \in Players, NEW d \in Int, NEW e \in Int,
         d + e = 0, S.chest[a] + d \in Nat, S.purse[p] + e \in Nat
  PROVE  Leads(<<ChestBy(a, d), PurseBy(p, e)>>, S)
<1>1. Sound(S) /\ Good(S) /\ Over(S, 0)
  BY Tallied DEF Still, Sound
<1>2. PICK T : T = After(ChestBy(a, d), S)
  OBVIOUS
<1>3. Sound(T) /\ Good(T) /\ Over(T, d) /\ T.purse = S.purse
  BY <1>1, <1>2, ChestPaid
<1>4. PICK U : U = After(PurseBy(p, e), T)
  OBVIOUS
<1>5. Sound(U) /\ Good(U) /\ Over(U, 0)
  BY <1>3, <1>4, PursePaid
<1>6. Leads(<<>>, U)
  BY <1>5, Tallied, Done DEF Sound
<1>7. /\ ChestBy(a, d) \in WriteStep /\ PurseBy(p, e) \in WriteStep
      /\ ChestBy(a, d).op \in Moving /\ PurseBy(p, e).op \in Moving
  BY StepsTyped, Ops DEF Moving
<1>8. PICK t : t = <<PurseBy(p, e)>>
  OBVIOUS
<1>9. t \in Seq(WriteStep) /\ t # <<>> /\ Head(t) = PurseBy(p, e) /\ Tail(t) = <<>>
  BY <1>7, <1>8, Tuples
<1>10. Leads(t, T)
  BY <1>3, <1>4, <1>6, <1>7, <1>9, Moves
<1>11. PICK s : s = <<ChestBy(a, d), PurseBy(p, e)>>
  OBVIOUS
<1>12. s \in Seq(WriteStep) /\ s # <<>> /\ Head(s) = ChestBy(a, d) /\ Tail(s) = t
  BY <1>7, <1>8, <1>11, Tuples
<1>13. Leads(s, S)
  BY <1>1, <1>2, <1>7, <1>10, <1>12, Moves
<1> QED BY <1>11, <1>13

LEMMA DepositKeeps ==
  ASSUME IInv, NEW p \in Players, Deposit(p)
  PROVE  IInv'
<1>1. PICK a : a = ally[p]
  OBVIOUS
<1>2. /\ Quiet /\ Belongs(p) /\ purse[p] > 0
      /\ Command(<<ChestBy(a, 1), PurseBy(p, -1)>>)
  BY <1>1 DEF Deposit, Command, Begin
<1>3. a \in Ids
  BY <1>1, <1>2, BelongsTo
<1>4. Still(Now) /\ Now \in States
  BY <1>2, Resting
<1>5. Now.chest[a] + 1 \in Nat /\ Now.purse[p] + (-1) \in Nat
  BY <1>2, <1>3, <1>4, NowFields, StateFields
<1>6. Leads(<<ChestBy(a, 1), PurseBy(p, -1)>>, Now)
  BY <1>3, <1>4, <1>5, Exchange
<1> QED BY <1>2, <1>6, Ordered

LEMMA WithdrawKeeps ==
  ASSUME IInv, NEW p \in Players, Withdraw(p)
  PROVE  IInv'
<1>1. PICK a : a = ally[p]
  OBVIOUS
<1>2. /\ Quiet /\ Belongs(p) /\ chest[a] > 0
      /\ Command(<<ChestBy(a, -1), PurseBy(p, 1)>>)
  BY <1>1 DEF Withdraw, Holds, Command, Begin
<1>3. a \in Ids
  BY <1>1, <1>2, BelongsTo
<1>4. Still(Now) /\ Now \in States
  BY <1>2, Resting
<1>5. Now.chest[a] + (-1) \in Nat /\ Now.purse[p] + 1 \in Nat
  BY <1>2, <1>3, <1>4, NowFields, StateFields
<1>6. Leads(<<ChestBy(a, -1), PurseBy(p, 1)>>, Now)
  BY <1>3, <1>4, <1>5, Exchange
<1> QED BY <1>2, <1>6, Ordered

LEMMA PerkKeeps ==
  ASSUME IInv, NEW p \in Players, ActivatePerk(p)
  PROVE  IInv'
<1>1. PICK a : a = ally[p]
  OBVIOUS
<1>2. Quiet /\ Belongs(p) /\ chest[a] > 0 /\ Command(<<SpendOf(a, 1)>>)
  BY <1>1 DEF ActivatePerk, Holds, Command, Begin
<1>3. a \in Ids
  BY <1>1, <1>2, BelongsTo
<1>4. Sound(Now) /\ Good(Now) /\ Balanced(Now) /\ Now \in States
  BY <1>2, Resting DEF Still
<1>5. 1 <= Now.chest[a]
  BY <1>2, <1>3, <1>4, NowFields, StateFields
<1>6. PICK T : T = After(SpendOf(a, 1), Now)
  OBVIOUS
<1>7. Leads(<<>>, T)
  BY <1>3, <1>4, <1>5, <1>6, Spent, Done
<1>8. PICK s : s = <<SpendOf(a, 1)>>
  OBVIOUS
<1>9. /\ s \in Seq(WriteStep) /\ s # <<>> /\ Head(s) = SpendOf(a, 1) /\ Tail(s) = <<>>
      /\ Head(s).op = "spend"
  BY <1>3, <1>8, StepsTyped, Tuples, Ops
<1>10. Leads(s, Now)
  BY <1>4, <1>6, <1>7, <1>9, Plain DEF Moving
<1> QED BY <1>2, <1>8, <1>10, Ordered
-----------------------------------------------------------------------------
(* Those on the roll of a let go, and then the record: the rest is as good *)
(* as before.                                                              *)
LEMMA Emptied ==
  ASSUME NEW S \in States, NEW A, NEW K, NEW a \in Ids,
         A = [p \in Players |-> IF p \in Flock(S, a) THEN None ELSE S.ally[p]],
         K = [p \in Players |-> IF p \in Flock(S, a) THEN None ELSE S.rank[p]]
  PROVE  /\ After(ReleaseOf(a), S) = Turned(S, S.roster, A, K)
         /\ Typed(S.roster, A, K)
         /\ \A p \in Players : \/ A[p] = S.ally[p] /\ K[p] = S.rank[p]
                               \/ S.ally[p] = a /\ A[p] = None
<1>1. After(ReleaseOf(a), S) = Turned(S, S.roster, A, K)
  <2>1. PICK w : w = ReleaseOf(a) /\ w.op = "release" /\ w.id = a
    BY Ops
  <2>2. After(w, S) = [S EXCEPT !.ally = A, !.rank = K]
    BY <2>1 DEF After
  <2>3. [S EXCEPT !.ally = A, !.rank = K] = Turned(S, S.roster, A, K)
    BY DEF Turned, States
  <2> QED BY <2>1, <2>2, <2>3
<1>2. \A p \in Flock(S, a) : S.ally[p] = a
  BY DEF Flock
<1>3. \A p \in Players : \/ A[p] = S.ally[p] /\ K[p] = S.rank[p]
                         \/ S.ally[p] = a /\ A[p] = None
  BY <1>2
<1>4. Typed(S.roster, A, K)
  BY StateFields DEF Typed
<1> QED BY <1>1, <1>3, <1>4

LEMMA Removed ==
  ASSUME NEW T, Sound(T), Balanced(T), NEW a \in Ids
  PROVE  LET U == After(DeleteOf(a), T)
         IN /\ Sound(U) /\ Balanced(U) /\ U.roster = [T.roster EXCEPT ![a] = None]
            /\ U.due = T.due \ {a} /\ U.ally = T.ally /\ U.rank = T.rank
            /\ U.alive = T.alive /\ U.unpaid = T.unpaid /\ U.doomed = T.doomed
<1>1. T \in States
  BY DEF Sound
<1>2. PICK R : R = [T.roster EXCEPT ![a] = None]
  OBVIOUS
<1>3. PICK D : D = T.due \ {a}
  OBVIOUS
<1>4. PICK U : U = [T EXCEPT !.roster = R, !.due = D]
  OBVIOUS
<1>5. After(DeleteOf(a), T) = U
  <2>1. PICK w : w = DeleteOf(a) /\ w.op = "delete" /\ w.id = a
    BY Ops
  <2>2. After(w, T) = U
    BY <1>2, <1>3, <1>4, <2>1 DEF After
  <2> QED BY <2>1, <2>2
<1>6. /\ U.roster = R /\ U.due = D /\ U.ally = T.ally /\ U.rank = T.rank
      /\ U.alive = T.alive /\ U.unpaid = T.unpaid /\ U.doomed = T.doomed
      /\ U.purse = T.purse /\ U.chest = T.chest /\ U.gone = T.gone
      /\ U.nextId = T.nextId
  BY <1>1, <1>4 DEF States
<1>7. R \in [Ids -> Roster \cup {None}] /\ D \subseteq Ids
  BY <1>1, <1>2, <1>3, StateFields
<1>8. U \in States
  BY <1>1, <1>4, <1>7 DEF States
<1>9. Sound(U)
  <2>1. \A b \in Ids : R[b] # None => T.roster[b] # None
    BY <1>1, <1>2, StateFields
  <2> QED BY <1>6, <1>8, <2>1 DEF Sound
<1>10. Balanced(U)
  BY <1>6 DEF Balanced
<1> QED BY <1>2, <1>3, <1>5, <1>6, <1>9, <1>10

LEMMA Closing ==
  ASSUME NEW S, Sound(S), Good(S), Balanced(S), NEW a \in Ids
  PROVE  Leads(<<ReleaseOf(a), DeleteOf(a)>>, S)
<1>1. S \in States
  BY DEF Sound
<1>2. PICK A : A = [p \in Players |-> IF p \in Flock(S, a) THEN None ELSE S.ally[p]]
  OBVIOUS
<1>3. PICK K : K = [p \in Players |-> IF p \in Flock(S, a) THEN None ELSE S.rank[p]]
  OBVIOUS
<1>4. PICK T : T = Turned(S, S.roster, A, K)
  OBVIOUS
<1>5. /\ After(ReleaseOf(a), S) = T
      /\ Typed(S.roster, A, K)
      /\ \A p \in Players : \/ A[p] = S.ally[p] /\ K[p] = S.rank[p]
                            \/ S.ally[p] = a /\ A[p] = None
  BY <1>1, <1>2, <1>3, <1>4, Emptied
<1>6. Sound(T) /\ Balanced(T)
  <2>1. Numbered(S, S.roster)
    BY DEF Sound, Numbered
  <2> QED BY <1>4, <1>5, <2>1, TurnedSound
<1>7. /\ T.roster = S.roster /\ T.ally = A /\ T.rank = K /\ T.alive = S.alive
      /\ T.unpaid = S.unpaid /\ T.due = S.due /\ T.doomed = S.doomed
  BY <1>1, <1>4, TurnedFields
<1>8. PICK U : U = After(DeleteOf(a), T)
  OBVIOUS
<1>9. /\ Sound(U) /\ Balanced(U) /\ U.roster = [S.roster EXCEPT ![a] = None]
      /\ U.due = S.due \ {a} /\ U.ally = A /\ U.rank = K
      /\ U.alive = S.alive /\ U.unpaid = S.unpaid /\ U.doomed = S.doomed
  BY <1>6, <1>7, <1>8, Removed
<1>10. U.roster[a] = None /\ \A b \in Ids : b # a => U.roster[b] = S.roster[b]
  BY <1>1, <1>9, StateFields
<1>11. ASSUME NEW b \in Ids, U.roster[b] # None, b \notin U.due
       PROVE  Fits(U, b)
  <2>1. b # a /\ U.roster[b] = S.roster[b] /\ b \notin S.due
    BY <1>9, <1>10, <1>11
  <2>2. Fits(S, b)
    BY <1>11, <2>1 DEF Good
  <2>3. PICK r : r = S.roster[b]
    OBVIOUS
  <2>4. OnRoll(r) \subseteq S.alive /\ S.alive \subseteq Players
    BY <1>1, <2>2, <2>3, FitsOn, StateFields
  <2>5. ASSUME NEW p \in OnRoll(r) PROVE A[p] = S.ally[p] /\ K[p] = S.rank[p]
    BY <1>5, <2>1, <2>2, <2>3, <2>4, FitsOn
  <2> QED BY <1>9, <2>1, <2>2, <2>3, <2>5 DEF Fits
<1>12. ASSUME U.doomed # None, U.ally[U.doomed] # None
       PROVE  U.roster[U.ally[U.doomed]] = None
  <2>1. PICK d \in Players : d = S.doomed /\ U.doomed = d
    BY <1>1, <1>9, <1>12, StateFields
  <2>2. A[d] # None /\ A[d] = S.ally[d] /\ U.ally[d] = S.ally[d]
    BY <1>5, <1>9, <1>12, <2>1
  <2>3. S.roster[S.ally[d]] = None /\ S.ally[d] \in Ids
    <3>1. S.ally[d] \in Ids \cup {None} /\ d # None
      BY <1>1, Assumed, StateFields
    <3> QED BY <2>1, <2>2, <3>1 DEF Good
  <2>4. U.roster[S.ally[d]] = None
    BY <1>10, <2>3
  <2> QED BY <2>1, <2>2, <2>4
<1>13. Good(U)
  BY <1>9, <1>11, <1>12 DEF Good
<1>14. Leads(<<>>, U)
  BY <1>9, <1>13, Done
<1>15. /\ ReleaseOf(a) \in WriteStep /\ DeleteOf(a) \in WriteStep
       /\ ReleaseOf(a).op = "release" /\ DeleteOf(a).op = "delete"
  BY StepsTyped, Ops
<1>16. PICK t : t = <<DeleteOf(a)>>
  OBVIOUS
<1>17. t \in Seq(WriteStep) /\ t # <<>> /\ Head(t) = DeleteOf(a) /\ Tail(t) = <<>>
  BY <1>15, <1>16, Tuples
<1>18. Leads(t, T)
  BY <1>6, <1>8, <1>14, <1>15, <1>17, Plain DEF Moving
<1>19. PICK s : s = <<ReleaseOf(a), DeleteOf(a)>>
  OBVIOUS
<1>20. s \in Seq(WriteStep) /\ s # <<>> /\ Head(s) = ReleaseOf(a) /\ Tail(s) = t
  BY <1>15, <1>16, <1>19, Tuples
<1>21. Leads(s, S)
  BY <1>5, <1>15, <1>18, <1>20, Plain DEF Moving
<1> QED BY <1>19, <1>21

(* The treasury written off, and then the rest. *)
LEMMA Emptying ==
  ASSUME NEW S, Sound(S), Good(S), NEW a \in Ids, Over(S, S.chest[a])
  PROVE  /\ <<ChestBy(a, -S.chest[a])>> \o <<ReleaseOf(a), DeleteOf(a)>> \in Seq(WriteStep)
         /\ Leads(<<ChestBy(a, -S.chest[a])>> \o <<ReleaseOf(a), DeleteOf(a)>>, S)
<1>1. S.chest[a] \in Nat
  BY StateFields DEF Sound
<1>2. PICK n \in Int : n = -S.chest[a] /\ S.chest[a] + n = 0
  BY <1>1
<1>3. PICK T : T = After(ChestBy(a, n), S)
  OBVIOUS
<1>4. Sound(T) /\ Good(T) /\ Over(T, 0)
  <2>1. PICK c \in Int : c = S.chest[a] /\ c + n = 0
    BY <1>1, <1>2
  <2>2. S.chest[a] + n \in Nat /\ Over(S, c)
    BY <1>2, <2>1
  <2>3. Sound(T) /\ Good(T) /\ Over(T, c + n)
    BY <1>3, <2>2, ChestPaid
  <2> QED BY <2>1, <2>3
<1>5. PICK t : t = <<ReleaseOf(a), DeleteOf(a)>>
  OBVIOUS
<1>6. Leads(t, T)
  BY <1>4, <1>5, Tallied, Closing DEF Sound
<1>7. t \in Seq(WriteStep)
  BY <1>5, StepsTyped
<1>8. ChestBy(a, n) \in WriteStep /\ ChestBy(a, n).op \in Moving
  BY StepsTyped, Ops DEF Moving
<1>9. PICK s : s = <<ChestBy(a, n)>> \o t
  OBVIOUS
<1>10. s \in Seq(WriteStep) /\ s # <<>> /\ Head(s) = ChestBy(a, n) /\ Tail(s) = t
  BY <1>7, <1>8, <1>9, Before
<1>11. Leads(s, S)
  BY <1>3, <1>6, <1>8, <1>10, Moves
<1> QED BY <1>2, <1>5, <1>9, <1>10, <1>11

(* A treasury nobody is left to share. *)
LEMMA WrittenOff ==
  ASSUME NEW S, Sound(S), Good(S), Balanced(S), NEW a \in Ids
  PROVE  Leads(<<SpendOf(a, S.chest[a])>> \o <<ReleaseOf(a), DeleteOf(a)>>, S)
<1>1. PICK n \in Nat : n = S.chest[a] /\ n <= S.chest[a]
  <2>1. S.chest[a] \in Nat
    BY StateFields DEF Sound
  <2> QED BY <2>1
<1>2. PICK T : T = After(SpendOf(a, n), S)
  OBVIOUS
<1>3. Sound(T) /\ Good(T) /\ Balanced(T)
  BY <1>1, <1>2, Spent
<1>4. PICK t : t = <<ReleaseOf(a), DeleteOf(a)>>
  OBVIOUS
<1>5. Leads(t, T) /\ t \in Seq(WriteStep)
  BY <1>3, <1>4, Closing, StepsTyped
<1>6. SpendOf(a, n) \in WriteStep /\ SpendOf(a, n).op = "spend"
  BY StepsTyped, Ops
<1>7. PICK s : s = <<SpendOf(a, n)>> \o t
  OBVIOUS
<1>8. s \in Seq(WriteStep) /\ s # <<>> /\ Head(s) = SpendOf(a, n) /\ Tail(s) = t
  BY <1>5, <1>6, <1>7, Before
<1>9. Leads(s, S)
  BY <1>2, <1>5, <1>6, <1>8, Plain DEF Moving
<1> QED BY <1>1, <1>4, <1>7, <1>9
(* The remainder of a split, for the first on the roll. *)
LEMMA Topping ==
  ASSUME NEW S, Sound(S), Good(S), NEW a \in Ids, NEW p \in Players, NEW n \in Nat,
         NEW d \in Int, Over(S, d), d + n = S.chest[a],
         NEW e, e = <<ChestBy(a, -S.chest[a])>> \o <<ReleaseOf(a), DeleteOf(a)>>,
         NEW s, s = IF n = 0 THEN e ELSE <<PurseBy(p, n)>> \o e
  PROVE  s \in Seq(WriteStep) /\ Leads(s, S)
<1>1. CASE n = 0
  <2>1. Over(S, S.chest[a])
    BY <1>1
  <2> QED BY <1>1, <2>1, Emptying
<1>2. CASE n # 0
  <2>1. PICK T : T = After(PurseBy(p, n), S)
    OBVIOUS
  <2>2. S.purse[p] + n \in Nat
    BY StateFields DEF Sound
  <2>3. Sound(T) /\ Good(T) /\ Over(T, d + n) /\ T.chest = S.chest
    BY <2>1, <2>2, PursePaid
  <2>4. e \in Seq(WriteStep) /\ Leads(e, T)
    BY <2>3, Emptying
  <2>5. PurseBy(p, n) \in WriteStep /\ PurseBy(p, n).op \in Moving
    BY StepsTyped, Ops DEF Moving
  <2>6. s \in Seq(WriteStep) /\ s # <<>> /\ Head(s) = PurseBy(p, n) /\ Tail(s) = e
    BY <1>2, <2>4, <2>5, Before
  <2> QED BY <2>1, <2>4, <2>5, <2>6, Moves
<1> QED BY <1>1, <1>2

(* The shares, when none is paid yet. *)
LEMMA Shared ==
  ASSUME NEW S, Sound(S), Good(S), Balanced(S), NEW U, U \subseteq Players, NEW k \in Nat
  PROVE  LET V == [S EXCEPT !.unpaid = U]
             T == After(ShareOf(k), V)
         IN /\ Sound(V)
            /\ Sound(T) /\ Good(T) /\ Over(T, Cardinality(U) * k) /\ T.chest = S.chest
<1>1. S \in States /\ S.unpaid = {}
  BY DEF Sound, Good
<1>2. PICK V : V = [S EXCEPT !.unpaid = U]
  OBVIOUS
<1>3. /\ V.unpaid = U /\ V.roster = S.roster /\ V.nextId = S.nextId /\ V.purse = S.purse
      /\ V \in States
  BY <1>1, <1>2 DEF States
<1>4. Sound(V)
  BY <1>3 DEF Sound
<1>5. PICK P : P = [p \in Players |-> IF p \in U THEN S.purse[p] + k ELSE S.purse[p]]
  OBVIOUS
<1>6. PICK T : T = Booked(S, P, S.chest, S.gone)
  OBVIOUS
<1>7. After(ShareOf(k), V) = T
  <2>1. PICK w : w = ShareOf(k) /\ w.op = "share" /\ w.each = k
    BY Ops
  <2>2. After(w, V) = [V EXCEPT !.purse = P, !.unpaid = {}]
    BY <1>3, <1>5, <2>1 DEF After
  <2>3. [V EXCEPT !.purse = P, !.unpaid = {}] = T
    BY <1>1, <1>2, <1>6 DEF Booked, States
  <2> QED BY <2>1, <2>2, <2>3
<1>8. /\ S.purse \in [Players -> Nat] /\ S.chest \in [Ids -> Nat]
      /\ S.gone \in Nat \cup {None}
  BY <1>1, StateFields
<1>9. P \in [Players -> Nat]
  BY <1>5, <1>8
<1>10. Sound(T) /\ Good(T)
  BY <1>6, <1>8, <1>9, BookedGood
<1>11. T.purse = P /\ T.chest = S.chest /\ T.gone = S.gone
  BY <1>1, <1>6, BookedFields
<1>12. PICK m : m = Cardinality(U) * k
  OBVIOUS
<1>13. Tally(P, Players) = Tally(S.purse, Players) + m /\ m \in Int
  <2>1. \A y \in Players : S.purse[y] \in Nat
    BY <1>8
  <2>2. \A y \in Players : P[y] = IF y \in U THEN S.purse[y] + k ELSE S.purse[y]
    BY <1>5
  <2>3. Cardinality(U) \in Nat /\ Tally(P, Players) = Tally(S.purse, Players) + Cardinality(U) * k
    BY <2>1, <2>2, Assumed, TallyGive
  <2>4. Cardinality(U) * k \in Int
    BY <2>3
  <2> QED BY <1>12, <2>3, <2>4
<1>14. Over(T, m)
  <2>1. SUFFICES ASSUME S.gone # None
                 PROVE  Tally(P, Players) + Tally(S.chest, Ids) + S.gone = Wealth + m
    BY <1>11 DEF Over
  <2>2. Tally(S.purse, Players) + Tally(S.chest, Ids) + S.gone = Wealth
    BY <2>1 DEF Balanced
  <2>3. PICK x \in Nat, y \in Nat, z \in Nat :
          /\ x = Tally(S.purse, Players) /\ y = Tally(S.chest, Ids) /\ z = S.gone
    BY <1>1, <2>1, Tallied
  <2>4. x + y + z = Wealth /\ Wealth \in Int
    BY <2>2, <2>3, Assumed
  <2>5. (x + m) + y + z = Wealth + m
    BY <1>13, <2>4
  <2> QED BY <1>13, <2>3, <2>5
<1> QED BY <1>2, <1>4, <1>7, <1>10, <1>11, <1>12, <1>14

LEMMA Division ==
  ASSUME NEW c \in Nat, NEW n \in Nat, n # 0
  PROVE  /\ c \div n \in Nat /\ c % n \in Nat
         /\ n * (c \div n) + (c % n) = c
<1>1. n > 0
  OBVIOUS
<1>2. c % n \in 0..(n - 1)
  BY <1>1
<1>3. c = n * (c \div n) + (c % n)
  BY <1>1
<1>4. c \div n \in Nat
  OBVIOUS
<1> QED BY <1>2, <1>3, <1>4

LEMMA DisbandingLeads ==
  ASSUME Sound(Now), Good(Now), Balanced(Now), NEW a \in Ids, Disbanding(a),
         UNCHANGED <<records, characters, due, doomed, gone>>
  PROVE  Leads(todo', Now')
<1>1. PICK S : S = Now
  OBVIOUS
<1>2. PICK c : c = chest[a]
  OBVIOUS
<1>3. /\ S \in States /\ S.unpaid = {} /\ unpaid = {} /\ c \in Nat /\ S.chest[a] = c
      /\ S.chest[a] = chest[a] /\ alive \subseteq Players /\ Over(S, 0)
  BY <1>1, <1>2, NowFields, StateFields, Tallied DEF Sound, Good
<1>4. PICK heads : heads = alive \cap OnRoll(roster[a])
  OBVIOUS
<1>5. heads \subseteq Players /\ IsFiniteSet(heads) /\ Cardinality(heads) \in Nat
  BY <1>3, <1>4, Assumed, FS_Subset, FS_CardinalityType
<1>6. PICK k : k = c \div Cardinality(heads)
  OBVIOUS
<1>7. PICK n : n = c % Cardinality(heads)
  OBVIOUS
<1>8. PICK closing : closing = <<ReleaseOf(a), DeleteOf(a)>>
  OBVIOUS
<1>9. PICK e : e = <<ChestBy(a, -S.chest[a])>> \o closing
  OBVIOUS
<1>10. Now' = [S EXCEPT !.unpaid = unpaid']
  BY <1>1 DEF Now, records, characters
<1>11. unpaid' = {} => Now' = S
  BY <1>3, <1>10 DEF States
<1>12. \/ todo' = closing /\ unpaid' = unpaid
       \/ todo' = <<SpendOf(a, S.chest[a])>> \o closing /\ unpaid' = unpaid
       \/ /\ heads # {}
          /\ \E first \in Foremost(a, heads) :
               LET topped == IF n = 0 THEN e ELSE <<PurseBy(first, n)>> \o e
               IN todo' = IF k = 0 THEN topped ELSE <<ShareOf(k)>> \o topped
          /\ unpaid' = IF k = 0 THEN {} ELSE heads
  BY <1>2, <1>3, <1>4, <1>6, <1>7, <1>8, <1>9 DEF Disbanding, Split
<1>13. CASE todo' = closing /\ unpaid' = unpaid
  BY <1>1, <1>3, <1>8, <1>11, <1>13, Closing
<1>14. CASE todo' = <<SpendOf(a, S.chest[a])>> \o closing /\ unpaid' = unpaid
  BY <1>1, <1>3, <1>8, <1>11, <1>14, WrittenOff
<1>15. CASE /\ heads # {}
            /\ \E first \in Foremost(a, heads) :
                 LET topped == IF n = 0 THEN e ELSE <<PurseBy(first, n)>> \o e
                 IN todo' = IF k = 0 THEN topped ELSE <<ShareOf(k)>> \o topped
            /\ unpaid' = IF k = 0 THEN {} ELSE heads
  <2>1. PICK first \in Foremost(a, heads) :
          LET topped == IF n = 0 THEN e ELSE <<PurseBy(first, n)>> \o e
          IN todo' = IF k = 0 THEN topped ELSE <<ShareOf(k)>> \o topped
    BY <1>15
  <2>2. first \in Players
    BY <1>5 DEF Foremost
  <2>3. PICK topped : topped = IF n = 0 THEN e ELSE <<PurseBy(first, n)>> \o e
    OBVIOUS
  <2>4. todo' = IF k = 0 THEN topped ELSE <<ShareOf(k)>> \o topped
    BY <2>1, <2>3
  <2>5. Cardinality(heads) # 0
    BY <1>5, <1>15, FS_EmptySet
  <2>6. k \in Nat /\ n \in Nat /\ Cardinality(heads) * k + n = c
    BY <1>3, <1>5, <1>6, <1>7, <2>5, Division
  <2>7. PICK d \in Int : d = Cardinality(heads) * k /\ d + n = c
    BY <1>5, <2>6
  <2>8. CASE k = 0
    <3>1. d = 0
      BY <1>5, <2>7, <2>8
    <3>2. Over(S, d) /\ d + n = S.chest[a]
      BY <1>3, <2>7, <3>1
    <3>3. Leads(topped, S)
      BY <1>1, <1>8, <1>9, <2>2, <2>3, <2>6, <3>2, Topping
    <3>4. todo' = topped /\ Now' = S
      BY <1>11, <1>15, <2>4, <2>8
    <3> QED BY <3>3, <3>4
  <2>9. CASE k # 0
    <3>1. Now' = [S EXCEPT !.unpaid = heads]
      BY <1>10, <1>15, <2>9
    <3>2. PICK T : T = After(ShareOf(k), Now')
      OBVIOUS
    <3>3. Sound(Now') /\ Sound(T) /\ Good(T) /\ Over(T, d) /\ T.chest = S.chest
      BY <1>1, <1>5, <2>6, <2>7, <3>1, <3>2, Shared
    <3>4. d + n = T.chest[a] /\ e = <<ChestBy(a, -T.chest[a])>> \o closing
      BY <1>3, <1>9, <2>7, <3>3
    <3>5. topped \in Seq(WriteStep) /\ Leads(topped, T)
      BY <1>8, <2>2, <2>3, <2>6, <3>3, <3>4, Topping
    <3>6. ShareOf(k) \in WriteStep /\ ShareOf(k).op \in Moving
      BY <2>6, StepsTyped, Ops DEF Moving
    <3>7. PICK s : s = <<ShareOf(k)>> \o topped
      OBVIOUS
    <3>8. s \in Seq(WriteStep) /\ s # <<>> /\ Head(s) = ShareOf(k) /\ Tail(s) = topped
      BY <3>5, <3>6, <3>7, Before
    <3>9. Leads(s, Now')
      BY <3>2, <3>3, <3>5, <3>6, <3>8, Moves
    <3> QED BY <2>4, <2>9, <3>7, <3>9
  <2> QED BY <2>8, <2>9
<1> QED BY <1>12, <1>13, <1>14, <1>15

LEMMA DisbandsKeeps ==
  ASSUME IInv, NEW a \in Ids, Disbands(a)
  PROVE  IInv'
<1>1. /\ Quiet /\ Disbanding(a) /\ up' = up
      /\ UNCHANGED <<records, characters, due, doomed, gone>>
  BY DEF Disbands
<1>2. Sound(Now) /\ Good(Now) /\ Balanced(Now) /\ up
  BY <1>1, Resting DEF Still
<1>3. Leads(todo', Now')
  BY <1>1, <1>2, DisbandingLeads
<1> QED BY <1>1, <1>2, <1>3, Keeps

LEMMA LeavingKeeps ==
  ASSUME IInv, NEW p \in Players, Leave(p)
  PROVE  IInv'
<1>1. CASE rank[p] = "leader" /\ Disbands(ally[p])
  <2>1. Quiet /\ Belongs(p)
    BY <1>1 DEF Leave, Disbands
  <2> QED BY <1>1, <2>1, BelongsTo, DisbandsKeeps
<1>2. CASE rank[p] # "leader" /\ Command(Removing(p, ally[p]))
  <2>1. Quiet /\ Belongs(p)
    BY <1>2 DEF Leave, Command, Begin
  <2> QED BY <1>2, <2>1, LeaveKeeps
<1> QED BY <1>1, <1>2 DEF Leave

LEMMA DisbandKeeps ==
  ASSUME IInv, NEW p \in Players, Disband(p)
  PROVE  IInv'
<1>1. Quiet /\ Belongs(p) /\ Disbands(ally[p])
  BY DEF Disband, Disbands, Holds
<1> QED BY <1>1, BelongsTo, DisbandsKeeps

LEMMA AdminDisbandKeeps ==
  ASSUME IInv, NEW a \in Ids, AdminDisband(a)
  PROVE  IInv'
BY DisbandsKeeps DEF AdminDisband

-----------------------------------------------------------------------------
(* A command under way. *)
LEMMA Underway ==
  ASSUME IInv, todo # <<>>
  PROVE  /\ up /\ Leads(todo, Now) /\ todo \in Seq(WriteStep)
         /\ Head(todo) \in WriteStep /\ Tail(todo) \in Seq(WriteStep)
         /\ Now \in States /\ Sound(Now) /\ Ready(todo, Now)
<1>1. up /\ Leads(todo, Now)
  BY DEF IInv
<1>2. todo \in Seq(WriteStep) /\ Now \in States /\ Ready(todo, Now)
  BY <1>1, LeadsReady
<1>3. Head(todo) \in WriteStep /\ Tail(todo) \in Seq(WriteStep)
  BY <1>2, TailOfSteps
<1> QED BY <1>1, <1>2, <1>3 DEF Ready

LEMMA StepDone ==
  ASSUME IInv, todo # <<>>, todo' = Tail(todo), up' = up,
         Now' = After(Head(todo), Now)
  PROVE  IInv'
<1>1. up /\ Leads(todo, Now)
  BY Underway
<1>2. Leads(todo', Now')
  BY <1>1, LeadsOn
<1> QED BY <1>1, <1>2, Keeps

LEMMA WriteRosterKeeps ==
  ASSUME IInv, WriteRoster
  PROVE  IInv'
<1>1. PICK w : w = Head(todo)
  OBVIOUS
<1>2. /\ todo # <<>> /\ w.op = "roll" /\ todo' = Tail(todo)
      /\ roster' = [roster EXCEPT ![w.id] = w.to]
      /\ UNCHANGED <<chest, nextId, alive, ally, rank, purse, gone, up, unpaid, due, doomed>>
  BY <1>1 DEF WriteRoster, Doing, Written, characters
<1>3. After(w, Now) = [Now EXCEPT !.roster = [Now.roster EXCEPT ![w.id] = w.to]]
  BY <1>2 DEF After
<1>4. Now' = After(w, Now)
  BY <1>2, <1>3 DEF Now
<1> QED BY <1>1, <1>2, <1>4, StepDone

LEMMA WriteAllyKeeps ==
  ASSUME IInv, WriteAlly
  PROVE  IInv'
<1>1. PICK w : w = Head(todo)
  OBVIOUS
<1>2. /\ todo # <<>> /\ w.op = "ally" /\ todo' = Tail(todo)
      /\ ally' = [ally EXCEPT ![w.who] = w.to]
      /\ UNCHANGED <<roster, chest, nextId, alive, rank, purse, gone, up, unpaid, due, doomed>>
  BY <1>1 DEF WriteAlly, Doing, Written, records
<1>3. After(w, Now) = [Now EXCEPT !.ally = [Now.ally EXCEPT ![w.who] = w.to]]
  BY <1>2 DEF After
<1>4. Now' = After(w, Now)
  BY <1>2, <1>3 DEF Now
<1> QED BY <1>1, <1>2, <1>4, StepDone

LEMMA WriteRankKeeps ==
  ASSUME IInv, WriteRank
  PROVE  IInv'
<1>1. PICK w : w = Head(todo)
  OBVIOUS
<1>2. /\ todo # <<>> /\ w.op = "rank" /\ todo' = Tail(todo)
      /\ rank' = [rank EXCEPT ![w.who] = w.to]
      /\ UNCHANGED <<roster, chest, nextId, alive, ally, purse, gone, up, unpaid, due, doomed>>
  BY <1>1 DEF WriteRank, Doing, Written, records
<1>3. After(w, Now) = [Now EXCEPT !.rank = [Now.rank EXCEPT ![w.who] = w.to]]
  BY <1>2 DEF After
<1>4. Now' = After(w, Now)
  BY <1>2, <1>3 DEF Now
<1> QED BY <1>1, <1>2, <1>4, StepDone

LEMMA WritePurseKeeps ==
  ASSUME IInv, WritePurse
  PROVE  IInv'
<1>1. PICK w : w = Head(todo)
  OBVIOUS
<1>2. /\ todo # <<>> /\ w.op = "purse" /\ todo' = Tail(todo)
      /\ purse' = [purse EXCEPT ![w.who] = purse[w.who] + w.by]
      /\ UNCHANGED <<roster, chest, nextId, alive, ally, rank, gone, up, unpaid, due, doomed>>
  BY <1>1 DEF WritePurse, Doing, Written, records
<1>3. After(w, Now)
        = [Now EXCEPT !.purse = [Now.purse EXCEPT ![w.who] = Now.purse[w.who] + w.by]]
  BY <1>2 DEF After
<1>4. After(w, Now) = [Now EXCEPT !.purse = purse']
  BY <1>2, <1>3, NowFields
<1>5. Now' = [Now EXCEPT !.purse = purse']
  BY <1>2 DEF Now
<1> QED BY <1>1, <1>2, <1>4, <1>5, StepDone

LEMMA WriteChestKeeps ==
  ASSUME IInv, WriteChest
  PROVE  IInv'
<1>1. PICK w : w = Head(todo)
  OBVIOUS
<1>2. /\ todo # <<>> /\ w.op = "chest" /\ todo' = Tail(todo)
      /\ chest' = [chest EXCEPT ![w.id] = chest[w.id] + w.by]
      /\ UNCHANGED <<roster, nextId, alive, ally, rank, purse, gone, up, unpaid, due, doomed>>
  BY <1>1 DEF WriteChest, Doing, Written, characters
<1>3. After(w, Now)
        = [Now EXCEPT !.chest = [Now.chest EXCEPT ![w.id] = Now.chest[w.id] + w.by]]
  BY <1>2 DEF After
<1>4. After(w, Now) = [Now EXCEPT !.chest = chest']
  BY <1>2, <1>3, NowFields
<1>5. Now' = [Now EXCEPT !.chest = chest']
  BY <1>2 DEF Now
<1> QED BY <1>1, <1>2, <1>4, <1>5, StepDone

LEMMA SpendKeeps ==
  ASSUME IInv, Spend
  PROVE  IInv'
<1>1. PICK w : w = Head(todo)
  OBVIOUS
<1>2. /\ todo # <<>> /\ w.op = "spend" /\ todo' = Tail(todo)
      /\ chest' = [chest EXCEPT ![w.id] = chest[w.id] - w.by]
      /\ gone' = IF gone = None THEN None ELSE gone + w.by
      /\ UNCHANGED <<roster, nextId, alive, ally, rank, purse, up, unpaid, due, doomed>>
  BY <1>1 DEF Spend, Doing, Written, Lose, characters
<1>3. After(w, Now)
        = [Now EXCEPT !.chest = [Now.chest EXCEPT ![w.id] = Now.chest[w.id] - w.by],
                      !.gone = Lost(Now, w.by)]
  BY <1>2 DEF After
<1>4. PICK S : S = Now
  OBVIOUS
<1>5. S = [roster |-> roster, chest |-> chest, nextId |-> nextId, alive |-> alive,
            ally |-> ally, rank |-> rank, purse |-> purse, gone |-> gone,
            unpaid |-> unpaid, due |-> due, doomed |-> doomed]
  BY <1>4 DEF Now
<1>6. PICK T : T = After(w, S)
  OBVIOUS
<1>7. T = [S EXCEPT !.chest = chest', !.gone = gone']
  <2>1. Lost(Now, w.by) = gone' /\ Now.chest = chest
    BY <1>2, NowFields DEF Lost
  <2> QED BY <1>2, <1>3, <1>4, <1>6, <2>1
<1>8. T = [roster |-> roster, chest |-> chest', nextId |-> nextId, alive |-> alive,
            ally |-> ally, rank |-> rank, purse |-> purse, gone |-> gone',
            unpaid |-> unpaid, due |-> due, doomed |-> doomed]
  BY <1>5, <1>7
<1>9. Now' = T
  BY <1>2, <1>8 DEF Now
<1> QED BY <1>1, <1>2, <1>4, <1>6, <1>9, StepDone

LEMMA DeleteRecordKeeps ==
  ASSUME IInv, DeleteRecord
  PROVE  IInv'
<1>1. PICK w : w = Head(todo)
  OBVIOUS
<1>2. /\ todo # <<>> /\ w.op = "delete" /\ todo' = Tail(todo)
      /\ roster' = [roster EXCEPT ![w.id] = None] /\ due' = due \ {w.id}
      /\ UNCHANGED <<chest, nextId, alive, ally, rank, purse, gone, up, unpaid, doomed>>
  BY <1>1 DEF DeleteRecord, Doing, Written, characters
<1>3. After(w, Now)
        = [Now EXCEPT !.roster = [Now.roster EXCEPT ![w.id] = None],
                      !.due = Now.due \ {w.id}]
  BY <1>2 DEF After
<1>4. PICK S : S = Now
  OBVIOUS
<1>5. S = [roster |-> roster, chest |-> chest, nextId |-> nextId, alive |-> alive,
            ally |-> ally, rank |-> rank, purse |-> purse, gone |-> gone,
            unpaid |-> unpaid, due |-> due, doomed |-> doomed]
  BY <1>4 DEF Now
<1>6. PICK T : T = After(w, S)
  OBVIOUS
<1>7. T = [S EXCEPT !.roster = roster', !.due = due']
  BY <1>2, <1>3, <1>4, <1>6, NowFields
<1>8. T = [roster |-> roster', chest |-> chest, nextId |-> nextId, alive |-> alive,
            ally |-> ally, rank |-> rank, purse |-> purse, gone |-> gone,
            unpaid |-> unpaid, due |-> due', doomed |-> doomed]
  BY <1>5, <1>7
<1>9. Now' = T
  BY <1>2, <1>8 DEF Now
<1> QED BY <1>1, <1>2, <1>4, <1>6, <1>9, StepDone

LEMMA FlockNow ==
  ASSUME NEW a
  PROVE  Flock(Now, a) = LiveMembers(a)
BY NowFields DEF Flock, LiveMembers

LEMMA ReleasedKeeps ==
  ASSUME IInv, Released
  PROVE  IInv'
<1>1. PICK w : w = Head(todo)
  OBVIOUS
<1>2. /\ todo # <<>> /\ w.op = "release" /\ todo' = Tail(todo) /\ LiveMembers(w.id) = {}
      /\ UNCHANGED <<roster, chest, nextId, alive, ally, rank, purse, gone, up, unpaid,
                     due, doomed>>
  BY <1>1 DEF Released, Doing, Written, records, characters
<1>3. Now \in States
  BY <1>2, Underway
<1>4. Flock(Now, w.id) = {}
  BY <1>2, FlockNow
<1>5. After(w, Now)
        = [Now EXCEPT !.ally = [p \in Players |-> IF p \in Flock(Now, w.id)
                                                  THEN None ELSE Now.ally[p]],
                      !.rank = [p \in Players |-> IF p \in Flock(Now, w.id)
                                                  THEN None ELSE Now.rank[p]]]
  BY <1>2 DEF After
<1>6. ally = [p \in Players |-> ally[p]] /\ rank = [p \in Players |-> rank[p]]
  BY <1>3, VarsTyped
<1>7. After(w, Now) = [Now EXCEPT !.ally = ally, !.rank = rank]
  BY <1>4, <1>5, <1>6, NowFields
<1>8. PICK S : S = Now
  OBVIOUS
<1>9. S = [roster |-> roster, chest |-> chest, nextId |-> nextId, alive |-> alive,
            ally |-> ally, rank |-> rank, purse |-> purse, gone |-> gone,
            unpaid |-> unpaid, due |-> due, doomed |-> doomed]
  BY <1>8 DEF Now
<1>10. PICK T : T = After(w, S)
  OBVIOUS
<1>11. T = [S EXCEPT !.ally = ally, !.rank = rank]
  BY <1>7, <1>8, <1>10
<1>12. T = [roster |-> roster, chest |-> chest, nextId |-> nextId, alive |-> alive,
            ally |-> ally, rank |-> rank, purse |-> purse, gone |-> gone,
            unpaid |-> unpaid, due |-> due, doomed |-> doomed]
  BY <1>9, <1>11
<1>13. Now' = T
  BY <1>2, <1>12 DEF Now
<1> QED BY <1>1, <1>2, <1>8, <1>10, <1>13, StepDone

-----------------------------------------------------------------------------
(* Rounds of a loop. *)
LEMMA PayShareKeeps ==
  ASSUME IInv, NEW p \in Players, PayShare(p)
  PROVE  IInv'
<1>1. PICK w : w = Head(todo)
  OBVIOUS
<1>2. /\ todo # <<>> /\ w.op = "share" /\ p \in unpaid
      /\ purse' = [purse EXCEPT ![p] = purse[p] + w.each]
      /\ unpaid' = unpaid \ {p} /\ todo' = IF unpaid = {p} THEN Tail(todo) ELSE todo
      /\ UNCHANGED <<roster, chest, nextId, alive, ally, rank, gone, up, due, doomed>>
  BY <1>1 DEF PayShare, Doing, records
<1>3. /\ up /\ Leads(todo, Now) /\ todo \in Seq(WriteStep) /\ Now \in States /\ Sound(Now)
      /\ w \in WriteStep
  BY <1>1, <1>2, Underway
<1>4. purse \in [Players -> Nat] /\ w.each \in Nat
  BY <1>2, <1>3, VarsTyped, StepFields
<1>5. purse' \in [Players -> Nat]
  BY <1>2, <1>4
<1>6. PICK T : T = After(w, Now)
  OBVIOUS
<1>7. PICK P : P = [q \in Players |-> IF q \in unpaid THEN purse[q] + w.each ELSE purse[q]]
  OBVIOUS
<1>8. T = [Now EXCEPT !.purse = P, !.unpaid = {}]
  BY <1>2, <1>6, <1>7, NowFields DEF After
<1>9. P = [q \in Players |-> IF q \in unpaid' THEN purse'[q] + w.each ELSE purse'[q]]
  <2>1. ASSUME NEW q \in Players
        PROVE  (IF q \in unpaid THEN purse[q] + w.each ELSE purse[q])
                 = IF q \in unpaid' THEN purse'[q] + w.each ELSE purse'[q]
    BY <1>2, <1>4
  <2> QED BY <1>7, <2>1
<1>10. CASE unpaid = {p}
  <2>1. unpaid' = {} /\ todo' = Tail(todo)
    BY <1>2, <1>10
  <2>2. P = purse'
    BY <1>5, <1>9, <2>1
  <2>3. Now' = T
    BY <1>2, <1>8, <2>1, <2>2 DEF Now
  <2> QED BY <1>1, <1>2, <1>6, <2>1, <2>3, StepDone
<1>11. CASE unpaid # {p}
  <2>1. todo' = todo
    BY <1>2, <1>11
  <2>2. After(w, Now') = [Now' EXCEPT !.purse = P, !.unpaid = {}]
    <3>1. PICK V : V = Now'
      OBVIOUS
    <3>2. V.purse = purse' /\ V.unpaid = unpaid'
      BY <3>1, NextFields
    <3>3. P = [q \in Players |-> IF q \in V.unpaid THEN V.purse[q] + w.each ELSE V.purse[q]]
      BY <1>9, <3>2
    <3>4. After(w, V) = [V EXCEPT !.purse = P, !.unpaid = {}]
      BY <1>2, <3>3 DEF After
    <3> QED BY <3>1, <3>4
  <2>3. Sound(Now') /\ Now' \in States
    <3>1. unpaid' \subseteq Players
      BY <1>2, <1>3, VarsTyped
    <3>2. Now' \in States
      BY <1>2, <1>3, <1>5, <3>1, VarsTyped DEF Now, States
    <3> QED BY <1>2, <1>3, <3>2, NowFields, NextFields DEF Sound
  <2>4. After(w, Now') = T
    <3>1. PICK V : V = Now'
      OBVIOUS
    <3>2. PICK D : D = [Now EXCEPT !.purse = purse']
      OBVIOUS
    <3>3. V = [D EXCEPT !.unpaid = unpaid'] /\ D \in States
      <4>1. D \in States
        BY <1>3, <1>5, <3>2 DEF States
      <4>2. D = [roster |-> roster, chest |-> chest, nextId |-> nextId, alive |-> alive,
                 ally |-> ally, rank |-> rank, purse |-> purse', gone |-> gone,
                 unpaid |-> unpaid, due |-> due, doomed |-> doomed]
        BY <3>2 DEF Now
      <4>3. [D EXCEPT !.unpaid = unpaid']
              = [roster |-> roster, chest |-> chest, nextId |-> nextId, alive |-> alive,
                 ally |-> ally, rank |-> rank, purse |-> purse', gone |-> gone,
                 unpaid |-> unpaid', due |-> due, doomed |-> doomed]
        BY <4>2
      <4>4. V = [D EXCEPT !.unpaid = unpaid']
        BY <1>2, <3>1, <4>3 DEF Now
      <4> QED BY <4>1, <4>4
    <3>4. [V EXCEPT !.purse = P, !.unpaid = {}] = [Now EXCEPT !.purse = P, !.unpaid = {}]
      BY <1>3, <3>2, <3>3 DEF States
    <3> QED BY <1>8, <2>2, <3>1, <3>4
  <2>5. Leads(Tail(todo), T)
    BY <1>1, <1>2, <1>3, <1>6, LeadsOn
  <2>6. Leads(todo, Now')
    BY <1>1, <1>2, <1>3, <2>3, <2>4, <2>5, Moves DEF Moving
  <2> QED BY <1>2, <1>3, <2>1, <2>6, Keeps
<1> QED BY <1>10, <1>11

LEMMA BeforeTwo ==
  ASSUME NEW u \in WriteStep, NEW v \in WriteStep, NEW s \in Seq(WriteStep),
         NEW t, t = <<u, v>> \o s
  PROVE  /\ t \in Seq(WriteStep) /\ t # <<>> /\ Head(t) = u
         /\ Tail(t) = <<v>> \o s
<1>1. PICK r : r = <<v>> \o s
  OBVIOUS
<1>2. r \in Seq(WriteStep) /\ r # <<>> /\ Head(r) = v /\ Tail(r) = s
  BY <1>1, Before
<1>3. PICK q : q = <<u>> \o r
  OBVIOUS
<1>4. q \in Seq(WriteStep) /\ q # <<>> /\ Head(q) = u /\ Tail(q) = r
  BY <1>2, <1>3, Before
<1>5. t = q
  <2>1. Len(r) = 1 + Len(s) /\ r[1] = v /\ \A i \in 1..Len(s) : r[i + 1] = s[i]
    BY <1>1
  <2>2. Len(q) = 1 + Len(r) /\ q[1] = u /\ \A i \in 1..Len(r) : q[i + 1] = r[i]
    BY <1>2, <1>3
  <2>4. /\ t \in Seq(WriteStep) /\ Len(t) = 2 + Len(s) /\ t[1] = u /\ t[2] = v
        /\ \A i \in 1..Len(s) : t[i + 2] = s[i]
    OBVIOUS
  <2>5. Len(t) = Len(q) /\ Len(s) \in Nat
    BY <2>1, <2>2, <2>4
  <2>6. ASSUME NEW i \in 1..Len(t) PROVE t[i] = q[i]
    <3>1. CASE i = 1
      BY <2>2, <2>4, <3>1
    <3>2. CASE i = 2
      <4>1. 1 \in 1..Len(r) /\ q[1 + 1] = r[1]
        BY <2>1, <2>2, <2>5
      <4> QED BY <2>1, <2>4, <3>2, <4>1
    <3>3. CASE i \notin {1, 2}
      <4>1. PICK j \in 1..Len(s) : i = j + 2
        BY <2>4, <2>5, <3>3
      <4>2. j + 1 \in 1..Len(r) /\ q[(j + 1) + 1] = r[j + 1] /\ r[j + 1] = s[j]
        BY <2>1, <2>2, <2>5
      <4>3. (j + 1) + 1 = i
        BY <4>1
      <4> QED BY <2>4, <4>1, <4>2, <4>3
    <3> QED BY <3>1, <3>2, <3>3
  <2> QED BY <1>4, <2>4, <2>5, <2>6
<1> QED BY <1>1, <1>4, <1>5

(* A pointer changed before the rest is done. *)
LEMMA Turning ==
  ASSUME NEW S, Sound(S), Balanced(S), NEW r \in Seq(WriteStep), NEW p \in Players,
         NEW to \in Ids \cup {None}, NEW k \in Ranks \cup {None},
         Leads(r, Turned(S, S.roster, [S.ally EXCEPT ![p] = to], [S.rank EXCEPT ![p] = k]))
  PROVE  Leads(<<AllyTo(p, to), RankTo(p, k)>> \o r, S)
<1>1. PICK s : s = <<AllyTo(p, to), RankTo(p, k)>> \o r
  OBVIOUS
<1>2. PICK u \in WriteStep, v \in WriteStep : u = AllyTo(p, to) /\ v = RankTo(p, k)
  BY StepsTyped
<1>3. s = <<u, v>> \o r /\ u \in WriteStep /\ v \in WriteStep
  BY <1>1, <1>2
<1>4. s \in Seq(WriteStep) /\ s # <<>> /\ Head(s) = u /\ Tail(s) = <<v>> \o r
  BY <1>3, BeforeTwo
<1>5. PICK q : q = <<v>> \o r
  OBVIOUS
<1>6. q # <<>> /\ Head(q) = v /\ Tail(q) = r
  BY <1>3, <1>5, Before
<1>7. /\ Head(s) = AllyTo(p, to) /\ Tail(s) # <<>> /\ Head(Tail(s)) = RankTo(p, k)
      /\ Tail(Tail(s)) = r
  BY <1>2, <1>4, <1>5, <1>6
<1>8. Typed(S.roster, S.ally, S.rank) /\ Numbered(S, S.roster)
  BY StateFields DEF Typed, Numbered, Sound
<1>9. Leads(s, Turned(S, S.roster, S.ally, S.rank))
  BY <1>4, <1>7, <1>8, Pointing
<1> QED BY <1>1, <1>9, TurnedSame DEF Sound

LEMMA ReleaseKeeps ==
  ASSUME IInv, NEW p \in Players, Release(p)
  PROVE  IInv'
<1>1. PICK S : S = Now
  OBVIOUS
<1>2. PICK a : a = Head(todo).id
  OBVIOUS
<1>3. /\ todo # <<>> /\ Head(todo).op = "release" /\ p \in LiveMembers(a)
      /\ todo' = <<AllyTo(p, None), RankTo(p, None)>> \o todo
      /\ up' = up /\ UNCHANGED <<records, characters, unpaid, due, doomed, gone>>
  BY <1>2 DEF Release, Doing
<1>4. /\ up /\ Leads(todo, S) /\ todo \in Seq(WriteStep) /\ S \in States /\ Sound(S)
      /\ Head(todo) \in WriteStep /\ Ready(todo, S)
  BY <1>1, <1>3, Underway
<1>5. Balanced(S)
  BY <1>3, <1>4 DEF Ready, Moving
<1>6. a \in Ids
  BY <1>2, <1>3, <1>4, StepFields
<1>7. PICK A : A = [S.ally EXCEPT ![p] = None]
  OBVIOUS
<1>8. PICK K : K = [S.rank EXCEPT ![p] = None]
  OBVIOUS
<1>9. PICK T : T = Turned(S, S.roster, A, K)
  OBVIOUS
<1>10. Typed(S.roster, S.ally, S.rank) /\ Numbered(S, S.roster)
  BY <1>4, StateFields DEF Typed, Numbered, Sound
<1>11. Typed(S.roster, A, K)
  BY <1>7, <1>8, <1>10, PointerTyped
<1>12. Sound(T) /\ Balanced(T)
  BY <1>4, <1>5, <1>9, <1>10, <1>11, TurnedSound
<1>13. T \in States /\ T.roster = S.roster /\ T.alive = S.alive /\ T.ally = A /\ T.rank = K
  BY <1>4, <1>9, <1>12, TurnedFields DEF Sound
<1>14. /\ S.ally \in [Players -> Ids \cup {None}] /\ S.rank \in [Players -> Ranks \cup {None}]
       /\ S.alive \subseteq Players
  BY <1>4, StateFields
<1>15. After(Head(todo), T) = After(Head(todo), S)
  <2>1. PICK A2 : A2 = [q \in Players |-> IF q \in Flock(T, a) THEN None ELSE T.ally[q]]
    OBVIOUS
  <2>2. PICK K2 : K2 = [q \in Players |-> IF q \in Flock(T, a) THEN None ELSE T.rank[q]]
    OBVIOUS
  <2>3. After(ReleaseOf(a), T) = Turned(T, T.roster, A2, K2)
    BY <1>6, <1>13, <2>1, <2>2, Emptied
  <2>4. PICK A1 : A1 = [q \in Players |-> IF q \in Flock(S, a) THEN None ELSE S.ally[q]]
    OBVIOUS
  <2>5. PICK K1 : K1 = [q \in Players |-> IF q \in Flock(S, a) THEN None ELSE S.rank[q]]
    OBVIOUS
  <2>6. After(ReleaseOf(a), S) = Turned(S, S.roster, A1, K1)
    BY <1>4, <1>6, <2>4, <2>5, Emptied
  <2>7. A[p] = None /\ K[p] = None
        /\ \A q \in Players : q # p => A[q] = S.ally[q] /\ K[q] = S.rank[q]
    BY <1>7, <1>8, <1>14
  <2>8. p \in Flock(S, a)
    BY <1>1, <1>3, FlockNow
  <2>9. \A q \in Players : q # p => (q \in Flock(T, a) <=> q \in Flock(S, a))
    BY <1>13, <2>7 DEF Flock
  <2>10. ASSUME NEW q \in Players
        PROVE  /\ (IF q \in Flock(T, a) THEN None ELSE T.ally[q])
                    = IF q \in Flock(S, a) THEN None ELSE S.ally[q]
               /\ (IF q \in Flock(T, a) THEN None ELSE T.rank[q])
                    = IF q \in Flock(S, a) THEN None ELSE S.rank[q]
    BY <1>13, <2>7, <2>8, <2>9
  <2>11. A2 = A1 /\ K2 = K1
    BY <2>1, <2>2, <2>4, <2>5, <2>10
  <2>12. After(ReleaseOf(a), T) = After(ReleaseOf(a), S)
    BY <1>4, <1>9, <1>13, <2>3, <2>6, <2>11, TurnedTwice
  <2>13. Head(todo) = ReleaseOf(a)
    BY <1>2, <1>3, <1>4 DEF WriteStep, ReleaseOf
  <2> QED BY <2>12, <2>13
<1>16. Leads(todo, T)
  <2>1. Leads(Tail(todo), After(Head(todo), T))
    BY <1>3, <1>4, <1>15, LeadsOn
  <2> QED BY <1>3, <1>4, <1>12, <2>1, Plain DEF Moving
<1>17. Now' = S
  BY <1>1, <1>3, NowSame
<1>18. Leads(todo', S)
  BY <1>3, <1>4, <1>5, <1>7, <1>8, <1>9, <1>16, Turning
<1> QED BY <1>3, <1>4, <1>17, <1>18, Keeps

LEMMA LastStep ==
  ASSUME NEW s \in Seq(WriteStep), s # <<>>, Tail(s) = <<>>
  PROVE  s = <<Head(s)>>
<1>1. Len(Tail(s)) = Len(s) - 1 /\ Len(s) \in Nat
  OBVIOUS
<1>2. Len(Tail(s)) = Len(<<>>)
  BY Zenon
<1>3. Len(<<>>) = 0
  OBVIOUS
<1>4. Len(s) = 1
  BY <1>1, <1>2, <1>3
<1>5. s[1] = Head(s)
  OBVIOUS
<1> QED BY <1>4, <1>5

(* The rank of one who points at a record that a reconcile is to visit.    *)
LEMMA RerankedGood ==
  ASSUME NEW S \in States, Good(S), NEW a \in S.due, S.roster[a] # None,
         NEW p \in Players, S.ally[p] = a, NEW k
  PROVE  Good(Turned(S, S.roster, [S.ally EXCEPT ![p] = a], [S.rank EXCEPT ![p] = k]))
<1>1. PICK A : A = [S.ally EXCEPT ![p] = a]
  OBVIOUS
<1>2. PICK K : K = [S.rank EXCEPT ![p] = k]
  OBVIOUS
<1>3. a \in Ids /\ a # None
  BY StateFields, Assumed
<1>4. \A q \in Players : A[q] = S.ally[q] /\ (q # p => K[q] = S.rank[q])
  BY <1>1, <1>2, StateFields
<1>5. \A q \in Players : S.ally[q] \notin {a, None} =>
                          A[q] = S.ally[q] /\ K[q] = S.rank[q]
  BY <1>4
<1>6. \A b \in Ids : b # a /\ S.roster[b] # None /\ b \notin S.due => Fits(S, b)
  BY DEF Good
<1>7. S.doomed # None /\ A[S.doomed] # None => S.roster[A[S.doomed]] = None
  <2>1. S.doomed # None => S.doomed \in Players
    BY StateFields
  <2> QED BY <1>4, <2>1 DEF Good
<1>8. S.unpaid = {}
  BY DEF Good
<1>9. Good(Turned(S, S.roster, A, K))
  BY <1>3, <1>5, <1>6, <1>7, <1>8, GoodAgain
<1> QED BY <1>1, <1>2, <1>9

LEMMA Reforming ==
  ASSUME NEW S, Sound(S), Good(S), Balanced(S), NEW a \in Ids, NEW k \in Players,
         Reformable(S, a, k)
  PROVE  /\ <<ReformOf(a, k)>> \in Seq(WriteStep)
         /\ Leads(<<ReformOf(a, k)>>, S)
<1>1. PICK s : s = <<ReformOf(a, k)>>
  OBVIOUS
<1>2. /\ s \in Seq(WriteStep) /\ s # <<>> /\ Head(s) = ReformOf(a, k) /\ Tail(s) = <<>>
  BY <1>1, StepsTyped, Tuples
<1>3. Head(s).op = "reform" /\ Head(s).id = a /\ Head(s).keep = k
  BY <1>2, Ops
<1>4. After(Head(s), S) = S
  BY <1>3 DEF After
<1>5. Ready(s, S)
  BY <1>2, <1>3 DEF Ready
<1>6. Leads(Tail(s), After(Head(s), S))
  BY <1>2, <1>4, Done
<1>7. Leads(s, S)
  BY <1>2, <1>5, <1>6, LeadsFrom
<1> QED BY <1>1, <1>2, <1>7

(* A reconcile about to write a record. *)
LEMMA Reformed ==
  ASSUME IInv, Doing("reform")
  PROVE  LET a == Head(todo).id
             k == Head(todo).keep
         IN /\ up /\ todo = <<ReformOf(a, k)>> /\ a \in Ids /\ k \in Players
            /\ Sound(Now) /\ Balanced(Now) /\ Good(Now) /\ Now \in States
            /\ a \in due /\ roster[a] # None /\ k \in alive /\ ally[k] = a
            /\ rank[k] = "leader"
<1>1. PICK w : w = Head(todo)
  OBVIOUS
<1>2. todo # <<>> /\ w.op = "reform"
  BY <1>1 DEF Doing
<1>3. /\ up /\ Leads(todo, Now) /\ todo \in Seq(WriteStep) /\ Now \in States /\ Sound(Now)
      /\ w \in WriteStep /\ Ready(todo, Now)
  BY <1>1, <1>2, Underway
<1>4. Tail(todo) = <<>> /\ Reformable(Now, w.id, w.keep) /\ Balanced(Now)
  BY <1>1, <1>2, <1>3 DEF Ready, Moving
<1>5. w.id \in Ids /\ w.keep \in Players /\ w = ReformOf(w.id, w.keep)
  BY <1>2, <1>3 DEF WriteStep, ReformOf
<1>6. todo = <<w>>
  BY <1>1, <1>2, <1>3, <1>4, LastStep
<1>7. Good(Now)
  <2>1. Leads(<<>>, After(w, Now))
    BY <1>1, <1>2, <1>3, <1>4, LeadsOn
  <2>2. After(w, Now) = Now
    BY <1>2 DEF After
  <2>3. Ready(<<>>, Now)
    BY <2>1, <2>2, LeadsReady
  <2> QED BY <2>3 DEF Ready
<1> QED BY <1>1, <1>3, <1>4, <1>5, <1>6, <1>7, NowFields DEF Reformable

LEMMA DemoteRivalKeeps ==
  ASSUME IInv, NEW p \in Players, DemoteRival(p)
  PROVE  IInv'
<1>1. PICK S : S = Now
  OBVIOUS
<1>2. PICK a : a = Head(todo).id
  OBVIOUS
<1>3. PICK k : k = Head(todo).keep
  OBVIOUS
<1>4. /\ Doing("reform") /\ p \in Ranked(a, "leader") /\ p # k
      /\ todo' = <<AllyTo(p, a), RankTo(p, "officer")>> \o todo
      /\ up' = up /\ UNCHANGED <<records, characters, unpaid, due, doomed, gone>>
  BY <1>2, <1>3 DEF DemoteRival
<1>5. /\ up /\ todo = <<ReformOf(a, k)>> /\ a \in Ids /\ k \in Players
      /\ Sound(S) /\ Balanced(S) /\ Good(S) /\ S \in States
      /\ a \in due /\ roster[a] # None /\ k \in alive /\ ally[k] = a /\ rank[k] = "leader"
  BY <1>1, <1>2, <1>3, <1>4, Reformed
<1>6. /\ S.ally[p] = a /\ a \in S.due /\ S.roster[a] # None /\ k \in S.alive
      /\ S.ally[k] = a /\ S.rank[k] = "leader"
  BY <1>1, <1>4, <1>5, NowFields DEF Ranked, LiveMembers
<1>7. PICK A : A = [S.ally EXCEPT ![p] = a]
  OBVIOUS
<1>8. PICK K : K = [S.rank EXCEPT ![p] = "officer"]
  OBVIOUS
<1>9. PICK T : T = Turned(S, S.roster, A, K)
  OBVIOUS
<1>10. Good(T)
  BY <1>5, <1>6, <1>7, <1>8, <1>9, RerankedGood
<1>11. "officer" \in Ranks
  BY DEF Ranks
<1>12. Sound(T) /\ Balanced(T)
  <2>1. Typed(S.roster, S.ally, S.rank) /\ Numbered(S, S.roster)
    BY <1>5, StateFields DEF Typed, Numbered, Sound
  <2>2. Typed(S.roster, A, K)
    BY <1>5, <1>7, <1>8, <1>11, <2>1, PointerTyped
  <2> QED BY <1>5, <1>9, <2>1, <2>2, TurnedSound
<1>13. Reformable(T, a, k)
  <2>1. A[k] = a /\ K[k] = "leader"
    BY <1>4, <1>5, <1>6, <1>7, <1>8, StateFields
  <2>2. /\ T.roster = S.roster /\ T.ally = A /\ T.rank = K /\ T.alive = S.alive
        /\ T.due = S.due
    BY <1>5, <1>9, TurnedFields
  <2> QED BY <1>6, <2>1, <2>2 DEF Reformable
<1>14. todo \in Seq(WriteStep) /\ Leads(todo, T)
  BY <1>5, <1>10, <1>12, <1>13, Reforming
<1>15. Leads(todo', S)
  BY <1>4, <1>5, <1>7, <1>8, <1>9, <1>11, <1>14, Turning
<1>16. Now' = S
  BY <1>1, <1>4, NowSame
<1> QED BY <1>4, <1>5, <1>15, <1>16, Keeps

(* A record written list by list. *)
LEMMA ThreeRolls ==
  ASSUME NEW S, Sound(S), Balanced(S), NEW R, NEW A, NEW K, Typed(R, A, K), Numbered(S, R),
         NEW a \in Ids, a < S.nextId,
         NEW r0 \in Roster, NEW r1 \in Roster, NEW r \in Roster,
         Good(Turned(S, [R EXCEPT ![a] = r], A, K))
  PROVE  Leads(<<RollTo(a, r0), RollTo(a, r1), RollTo(a, r)>>, Turned(S, R, A, K))
<1>1. PICK R0 : R0 = [R EXCEPT ![a] = r0]
  OBVIOUS
<1>2. PICK R1 : R1 = [R0 EXCEPT ![a] = r1]
  OBVIOUS
<1>3. PICK R2 : R2 = [R1 EXCEPT ![a] = r]
  OBVIOUS
<1>4. Typed(R0, A, K) /\ Numbered(S, R0)
  BY <1>1, RollTyped
<1>5. Typed(R1, A, K) /\ Numbered(S, R1)
  BY <1>2, <1>4, RollTyped
<1>6. Typed(R2, A, K) /\ Numbered(S, R2)
  BY <1>3, <1>5, RollTyped
<1>7. R2 = [R EXCEPT ![a] = r]
  BY <1>1, <1>2, <1>3
<1>8. Leads(<<>>, Turned(S, R2, A, K))
  <2>1. Sound(Turned(S, R2, A, K)) /\ Balanced(Turned(S, R2, A, K))
    BY <1>6, TurnedSound
  <2> QED BY <1>7, <2>1, Done
<1>9. /\ RollTo(a, r0) \in WriteStep /\ RollTo(a, r1) \in WriteStep
      /\ RollTo(a, r) \in WriteStep
  BY StepsTyped
<1>10. PICK s2 : s2 = <<RollTo(a, r)>>
  OBVIOUS
<1>11. s2 \in Seq(WriteStep) /\ s2 # <<>> /\ Head(s2) = RollTo(a, r) /\ Tail(s2) = <<>>
  BY <1>9, <1>10, Tuples
<1>12. Leads(s2, Turned(S, R1, A, K))
  <2>1. Leads(Tail(s2), Turned(S, [R1 EXCEPT ![a] = r], A, K))
    BY <1>3, <1>8, <1>11
  <2> QED BY <1>5, <1>11, <2>1, PlainRoll
<1>13. PICK s1 : s1 = <<RollTo(a, r1), RollTo(a, r)>>
  OBVIOUS
<1>14. s1 \in Seq(WriteStep) /\ s1 # <<>> /\ Head(s1) = RollTo(a, r1) /\ Tail(s1) = s2
  BY <1>9, <1>10, <1>13, Tuples
<1>15. Leads(s1, Turned(S, R0, A, K))
  <2>1. Leads(Tail(s1), Turned(S, [R0 EXCEPT ![a] = r1], A, K))
    BY <1>2, <1>12, <1>14
  <2> QED BY <1>4, <1>14, <2>1, PlainRoll
<1>16. PICK s0 : s0 = <<RollTo(a, r0), RollTo(a, r1), RollTo(a, r)>>
  OBVIOUS
<1>17. s0 \in Seq(WriteStep) /\ s0 # <<>> /\ Head(s0) = RollTo(a, r0) /\ Tail(s0) = s1
  BY <1>9, <1>13, <1>16, Tuples
<1>18. Leads(Tail(s0), Turned(S, [R EXCEPT ![a] = r0], A, K))
  BY <1>1, <1>15, <1>17
<1> QED BY <1>16, <1>17, <1>18, PlainRoll

(* The record that a reconcile writes fits. *)
LEMMA EnrolledGood ==
  ASSUME NEW S \in States, S.unpaid = {}, NEW a \in Ids,
         \A b \in Ids : b # a /\ S.roster[b] # None /\ b \notin S.due => Fits(S, b),
         S.doomed # None /\ S.ally[S.doomed] # None => S.roster[S.ally[S.doomed]] = None,
         S.roster[a] # None,
         NEW k \in S.alive, S.ally[k] = a, S.rank[k] = "leader",
         NEW n, n.leader = k,
         n.officers = {p \in S.alive : p # k /\ p \in n.officers},
         n.members = {p \in S.alive : p # k /\ p \in n.members},
         \A p \in n.officers : S.ally[p] = a /\ S.rank[p] = "officer",
         \A p \in n.members : S.ally[p] = a /\ S.rank[p] = "member"
  PROVE  Good(Turned(S, [S.roster EXCEPT ![a] = n], S.ally, S.rank))
<1>1. PICK R : R = [S.roster EXCEPT ![a] = n]
  OBVIOUS
<1>2. R[a] = n /\ \A b \in Ids : b # a => R[b] = S.roster[b]
  BY <1>1, StateFields
<1>3. k # None /\ a # None /\ S.alive \subseteq Players
  BY Assumed, StateFields
<1>4. OnRoll(n) = {k} \cup n.officers \cup n.members
  BY <1>3 DEF OnRoll
<1>5. OnRoll(n) \subseteq S.alive
  <2>1. n.officers \subseteq S.alive
    OBVIOUS
  <2>2. n.members \subseteq S.alive
    OBVIOUS
  <2> QED BY <1>4, <2>1, <2>2
<1>6. ASSUME NEW p \in OnRoll(n)
      PROVE  /\ S.ally[p] = a
             /\ S.rank[p] = "leader"  <=> p = n.leader
             /\ S.rank[p] = "officer" <=> p \in n.officers
             /\ S.rank[p] = "member"  <=> p \in n.members
  <2>1. k \notin n.officers /\ k \notin n.members
    OBVIOUS
  <2>2. CASE p = k
    BY <2>1, <2>2
  <2>3. CASE p \in n.officers
    BY <2>1, <2>3
  <2>4. CASE p \in n.members
    BY <2>1, <2>4
  <2> QED BY <1>4, <2>2, <2>3, <2>4
<1>7. Fits(Turned(S, R, S.ally, S.rank), a)
  <2>1. n.leader # None
    BY <1>3
  <2> QED BY <1>2, <1>5, <1>6, <2>1, FitsTurned
<1>8. S.doomed # None /\ S.ally[S.doomed] # None => R[S.ally[S.doomed]] = None
  <2>1. SUFFICES ASSUME S.doomed # None, S.ally[S.doomed] # None
                 PROVE  R[S.ally[S.doomed]] = None
    OBVIOUS
  <2>2. S.ally[S.doomed] \in Ids /\ S.roster[S.ally[S.doomed]] = None
    BY <2>1, StateFields
  <2> QED BY <1>2, <2>2
<1>9. Good(Turned(S, R, S.ally, S.rank))
  BY <1>2, <1>7, <1>8, GoodAgain
<1> QED BY <1>1, <1>9

LEMMA EnrollKeeps ==
  ASSUME IInv, Enroll
  PROVE  IInv'
<1>1. PICK a : a = Head(todo).id
  OBVIOUS
<1>2. PICK k : k = Head(todo).keep
  OBVIOUS
<1>3. PICK led : led = [roster[a] EXCEPT !.leader = k]
  OBVIOUS
<1>4. PICK staffed : staffed = [led EXCEPT !.officers = Ranked(a, "officer") \ {k}]
  OBVIOUS
<1>5. PICK n : n = [staffed EXCEPT !.members = Ranked(a, "member") \ {k}]
  OBVIOUS
<1>6. /\ Doing("reform") /\ due' = due \ {a}
      /\ todo' = <<RollTo(a, led), RollTo(a, staffed), RollTo(a, n)>>
      /\ up' = up /\ UNCHANGED <<records, characters, unpaid, doomed, gone>>
  BY <1>1, <1>2, <1>3, <1>4, <1>5 DEF Enroll
<1>7. /\ up /\ a \in Ids /\ k \in Players
      /\ Sound(Now) /\ Balanced(Now) /\ Good(Now) /\ Now \in States
      /\ a \in due /\ roster[a] # None /\ k \in alive /\ ally[k] = a /\ rank[k] = "leader"
  BY <1>1, <1>2, <1>6, Reformed
<1>8. /\ Now' \in States /\ Sound(Now') /\ Balanced(Now')
      /\ Now'.roster = Now.roster /\ Now'.ally = Now.ally /\ Now'.rank = Now.rank
      /\ Now'.alive = Now.alive
  <2>1. /\ unpaid' \subseteq Players /\ due' \subseteq Ids /\ doomed' \in Players \cup {None}
        /\ nextId' \in nextId..(MaxId + 1)
    <3>1. nextId \in 1..(MaxId + 1) /\ MaxId \in Nat /\ nextId' = nextId
      BY <1>6, <1>7, VarsTyped, Assumed DEF records
    <3>2. nextId' \in nextId..(MaxId + 1)
      BY <3>1
    <3> QED BY <1>6, <1>7, <3>2, VarsTyped
  <2>2. UNCHANGED <<roster, chest, characters, gone>>
    BY <1>6 DEF records
  <2> QED BY <1>7, <2>1, <2>2, Bookkeeping
<1>9. PICK S : S = Now'
  OBVIOUS
<1>10. /\ S.roster = roster /\ S.ally = ally /\ S.rank = rank /\ S.alive = alive
       /\ S.unpaid = unpaid /\ S.doomed = doomed /\ S.due = due \ {a} /\ S.nextId = nextId
       /\ S \in States
  BY <1>6, <1>8, <1>9, NextFields, NowFields DEF records
<1>11. /\ S.unpaid = {}
       /\ \A b \in Ids : b # a /\ S.roster[b] # None /\ b \notin S.due => Fits(S, b)
       /\ S.doomed # None /\ S.ally[S.doomed] # None => S.roster[S.ally[S.doomed]] = None
  <2>1. ASSUME NEW b \in Ids, b # a, S.roster[b] # None, b \notin S.due PROVE Fits(S, b)
    <3>1. Fits(Now, b)
      BY <1>7, <1>10, <2>1, NowFields DEF Good
    <3> QED BY <1>8, <1>9, <3>1 DEF Fits
  <2> QED BY <1>7, <1>10, <2>1, NowFields DEF Good
<1>12. roster[a] \in Roster /\ alive \subseteq Players
  BY <1>7, VarsTyped
<1>13. Ranked(a, "officer") \subseteq alive /\ Ranked(a, "member") \subseteq alive
  BY DEF Ranked, LiveMembers
<1>14. led \in Roster /\ led.leader = k
  BY <1>3, <1>7, <1>12 DEF Roster
<1>15. /\ staffed \in Roster /\ staffed.leader = k
       /\ staffed.officers = Ranked(a, "officer") \ {k}
  BY <1>4, <1>12, <1>13, <1>14 DEF Roster
<1>16. /\ n \in Roster /\ n.leader = k
       /\ n.officers = Ranked(a, "officer") \ {k} /\ n.members = Ranked(a, "member") \ {k}
  BY <1>5, <1>12, <1>13, <1>15 DEF Roster
<1>17. Good(Turned(S, [S.roster EXCEPT ![a] = n], S.ally, S.rank))
  <2>1. n.officers = {p \in S.alive : p # k /\ p \in n.officers}
    BY <1>10, <1>13, <1>16
  <2>2. n.members = {p \in S.alive : p # k /\ p \in n.members}
    BY <1>10, <1>13, <1>16
  <2>3. \A p \in n.officers : S.ally[p] = a /\ S.rank[p] = "officer"
    BY <1>10, <1>16 DEF Ranked, LiveMembers
  <2>4. \A p \in n.members : S.ally[p] = a /\ S.rank[p] = "member"
    BY <1>10, <1>16 DEF Ranked, LiveMembers
  <2>5. S.roster[a] # None /\ k \in S.alive /\ S.ally[k] = a /\ S.rank[k] = "leader"
    BY <1>7, <1>10
  <2> QED BY <1>7, <1>10, <1>11, <1>16, <2>1, <2>2, <2>3, <2>4, <2>5, EnrolledGood
<1>18. Leads(<<RollTo(a, led), RollTo(a, staffed), RollTo(a, n)>>,
             Turned(S, S.roster, S.ally, S.rank))
  <2>1. Typed(S.roster, S.ally, S.rank) /\ Numbered(S, S.roster)
    BY <1>8, <1>9, StateFields DEF Typed, Numbered, Sound
  <2>2. a < S.nextId
    BY <1>7, <1>8, <1>9, <1>10 DEF Sound
  <2> QED BY <1>7, <1>8, <1>9, <1>14, <1>15, <1>16, <1>17, <2>1, <2>2, ThreeRolls
<1>19. Leads(todo', Now')
  BY <1>6, <1>8, <1>9, <1>18, TurnedSame
<1> QED BY <1>6, <1>7, <1>19, Keeps

LEMMA HeirsLive ==
  ASSUME NEW a, NEW k \in Heirs(a)
  PROVE  /\ k \in LiveMembers(a)
         /\ Ranked(a, "leader") # {} => rank[k] = "leader"
<1>1. PICK S : S = IF Ranked(a, "leader") # {} THEN Ranked(a, "leader")
                   ELSE IF Ranked(a, "officer") # {} THEN Ranked(a, "officer")
                   ELSE IF Ranked(a, "member") # {} THEN Ranked(a, "member")
                   ELSE LiveMembers(a)
  OBVIOUS
<1>2. k \in Foremost(a, S)
  BY <1>1 DEF Heirs
<1>3. k \in S
  BY <1>2 DEF Foremost
<1>4. S \subseteq LiveMembers(a)
  BY <1>1 DEF Ranked
<1>5. Ranked(a, "leader") # {} => S = Ranked(a, "leader")
  BY <1>1
<1> QED BY <1>3, <1>4, <1>5 DEF Ranked

LEMMA ReconcileKeeps ==
  ASSUME IInv, NEW a \in Ids, Reconcile(a)
  PROVE  IInv'
<1>1. PICK S : S = Now
  OBVIOUS
<1>2. /\ todo = <<>> /\ a \in due /\ roster[a] # None /\ up' = up
      /\ UNCHANGED <<records, characters, due, doomed, gone>>
      /\ \/ Disbanding(a)
         \/ \E k \in Heirs(a) :
              /\ todo' = IF Ranked(a, "leader") # {} THEN <<ReformOf(a, k)>>
                         ELSE <<AllyTo(k, a), RankTo(k, "leader"), ReformOf(a, k)>>
              /\ unpaid' = unpaid
  BY DEF Reconcile, Live
<1>3. up /\ Leads(<<>>, S)
  BY <1>1, <1>2 DEF IInv
<1>4. Sound(S) /\ Good(S) /\ Balanced(S) /\ S \in States
  BY <1>3, LeadsReady DEF Ready
<1>5. CASE Disbanding(a)
  <2>1. Leads(todo', Now')
    BY <1>1, <1>2, <1>4, <1>5, DisbandingLeads
  <2> QED BY <1>2, <1>3, <2>1, Keeps
<1>6. CASE \E k \in Heirs(a) :
              /\ todo' = IF Ranked(a, "leader") # {} THEN <<ReformOf(a, k)>>
                         ELSE <<AllyTo(k, a), RankTo(k, "leader"), ReformOf(a, k)>>
              /\ unpaid' = unpaid
  <2>1. PICK k \in Heirs(a) :
          /\ todo' = IF Ranked(a, "leader") # {} THEN <<ReformOf(a, k)>>
                     ELSE <<AllyTo(k, a), RankTo(k, "leader"), ReformOf(a, k)>>
          /\ unpaid' = unpaid
    BY <1>6
  <2>2. /\ k \in alive /\ ally[k] = a
        /\ Ranked(a, "leader") # {} => rank[k] = "leader"
    BY <2>1, HeirsLive DEF LiveMembers
  <2>3. /\ k \in S.alive /\ k \in Players /\ S.ally[k] = a /\ a \in S.due
        /\ S.roster[a] # None /\ S.rank = rank
    BY <1>1, <1>2, <1>4, <2>2, NowFields, StateFields
  <2>4. Now' = S
    BY <1>1, <1>2, <2>1, NowSame
  <2>5. CASE Ranked(a, "leader") # {}
    <3>1. Reformable(S, a, k)
      BY <2>2, <2>3, <2>5 DEF Reformable
    <3>2. Leads(<<ReformOf(a, k)>>, S)
      BY <1>4, <2>3, <3>1, Reforming
    <3> QED BY <1>2, <1>3, <2>1, <2>4, <2>5, <3>2, Keeps
  <2>6. CASE Ranked(a, "leader") = {}
    <3>1. PICK A : A = [S.ally EXCEPT ![k] = a]
      OBVIOUS
    <3>2. PICK K : K = [S.rank EXCEPT ![k] = "leader"]
      OBVIOUS
    <3>3. PICK T : T = Turned(S, S.roster, A, K)
      OBVIOUS
    <3>4. Good(T)
      BY <1>4, <2>3, <3>1, <3>2, <3>3, RerankedGood
    <3>5. Typed(S.roster, S.ally, S.rank) /\ Numbered(S, S.roster)
      BY <1>4, StateFields DEF Typed, Numbered, Sound
    <3>6. "leader" \in Ranks
      BY DEF Ranks
    <3>7. Sound(T) /\ Balanced(T)
      <4>1. Typed(S.roster, A, K)
        BY <2>3, <3>1, <3>2, <3>5, <3>6, PointerTyped
      <4> QED BY <1>4, <3>3, <3>5, <4>1, TurnedSound
    <3>8. Reformable(T, a, k)
      <4>1. A[k] = a /\ K[k] = "leader"
        BY <1>4, <2>3, <3>1, <3>2, StateFields
      <4>2. /\ T.roster = S.roster /\ T.ally = A /\ T.rank = K /\ T.alive = S.alive
            /\ T.due = S.due
        BY <1>4, <3>3, TurnedFields
      <4> QED BY <2>3, <4>1, <4>2 DEF Reformable
    <3>9. Leads(<<ReformOf(a, k)>>, T)
      BY <2>3, <3>4, <3>7, <3>8, Reforming
    <3>10. PICK s : s = <<AllyTo(k, a), RankTo(k, "leader"), ReformOf(a, k)>>
      OBVIOUS
    <3>11. /\ s \in Seq(WriteStep) /\ s # <<>> /\ Head(s) = AllyTo(k, a)
           /\ Tail(s) = <<RankTo(k, "leader"), ReformOf(a, k)>>
      BY <2>3, <3>6, <3>10, StepsTyped, Tuples
    <3>12. PICK t : t = <<RankTo(k, "leader"), ReformOf(a, k)>>
      OBVIOUS
    <3>13. t # <<>> /\ Head(t) = RankTo(k, "leader") /\ Tail(t) = <<ReformOf(a, k)>>
      BY <3>12, Tuples
    <3>14. Tail(s) = t
      BY <3>11, <3>12
    <3>15. Leads(Tail(Tail(s)), Turned(S, S.roster, [S.ally EXCEPT ![k] = a],
                                       [S.rank EXCEPT ![k] = "leader"]))
      BY <3>1, <3>2, <3>3, <3>9, <3>13, <3>14
    <3>16. Leads(s, Turned(S, S.roster, S.ally, S.rank))
      BY <1>4, <2>3, <3>5, <3>6, <3>11, <3>13, <3>14, <3>15, Pointing
    <3>17. Leads(todo', Now')
      BY <1>4, <2>1, <2>4, <2>6, <3>10, <3>16, TurnedSame
    <3> QED BY <1>2, <1>3, <3>17, Keeps
  <2> QED BY <2>5, <2>6
<1> QED BY <1>2, <1>5, <1>6

-----------------------------------------------------------------------------
(* The row of a deleted character goes: it was on no roll.                 *)
LEMMA ErasedGood ==
  ASSUME NEW S, Sound(S), Good(S), S.due = {}, NEW d \in Players, S.doomed = d,
         NEW T \in States, T.roster = S.roster, T.alive = S.alive \ {d},
         T.ally = [S.ally EXCEPT ![d] = None], T.rank = [S.rank EXCEPT ![d] = None],
         T.unpaid = S.unpaid, T.due = S.due, T.doomed = None
  PROVE  Good(T)
<1>1. /\ S.ally \in [Players -> Ids \cup {None}] /\ S.rank \in [Players -> Ranks \cup {None}]
      /\ S.alive \subseteq Players /\ d # None
  BY StateFields, Assumed DEF Sound
<1>2. ASSUME NEW b \in Ids, T.roster[b] # None PROVE Fits(T, b)
  <2>1. Fits(S, b)
    BY <1>2 DEF Good
  <2>2. PICK r : r = S.roster[b]
    OBVIOUS
  <2>3. b # None
    BY Assumed
  <2>4. d \notin OnRoll(r)
    <3>1. SUFFICES ASSUME d \in OnRoll(r) PROVE FALSE
      OBVIOUS
    <3>2. S.ally[d] = b
      BY <2>1, <2>2, <3>1, FitsOn
    <3>3. S.roster[b] = None
      BY <1>1, <2>3, <3>2 DEF Good
    <3> QED BY <1>2, <3>3
  <2>5. OnRoll(r) \subseteq S.alive
    BY <2>1, <2>2, FitsOn
  <2>6. ASSUME NEW p \in OnRoll(r)
        PROVE  T.ally[p] = S.ally[p] /\ T.rank[p] = S.rank[p]
    <3>1. p # d /\ p \in Players
      BY <1>1, <2>4, <2>5, <2>6
    <3> QED BY <1>1, <3>1
  <2>7. OnRoll(r) \subseteq T.alive
    BY <2>4, <2>5
  <2> QED BY <2>1, <2>2, <2>6, <2>7 DEF Fits
<1>3. T.unpaid = {}
  BY DEF Good
<1> QED BY <1>2, <1>3 DEF Good

(* An entry written off. *)
LEMMA TallyCleared ==
  ASSUME NEW f, NEW g, NEW S, IsFiniteSet(S), \A y \in S : f[y] \in Nat,
         NEW d \in S, g[d] = 0, \A y \in S \ {d} : g[y] = f[y]
  PROVE  Tally(f, S) \in Nat /\ Tally(g, S) = Tally(f, S) - f[d]
<1>1. PICK m : m = Tally(f, S \ {d})
  OBVIOUS
<1>2. m \in Nat /\ Tally(f, S) = m + f[d]
  BY <1>1, TallySplit
<1>3. Tally(g, S \ {d}) = m
  BY <1>1, TallySame
<1>4. \A y \in S : g[y] \in Nat
  OBVIOUS
<1>5. Tally(g, S) = m + 0
  BY <1>3, <1>4, TallySplit
<1> QED BY <1>2, <1>5

LEMMA EraseKeeps ==
  ASSUME IInv, Erase
  PROVE  IInv'
<1>1. PICK S : S = Now
  OBVIOUS
<1>2. PICK d : d = doomed
  OBVIOUS
<1>3. /\ todo = <<>> /\ due = {} /\ d # None
      /\ alive' = alive \ {d} /\ purse' = [purse EXCEPT ![d] = 0]
      /\ ally' = [ally EXCEPT ![d] = None] /\ rank' = [rank EXCEPT ![d] = None]
      /\ gone' = IF gone = None THEN None ELSE gone + purse[d]
      /\ doomed' = None
      /\ UNCHANGED <<roster, chest, nextId, up, todo, unpaid, due>>
  BY <1>2 DEF Erase, Lose, records
<1>4. up
  BY <1>2, <1>3 DEF IInv
<1>5. Leads(<<>>, S)
  BY <1>1, <1>3, <1>4 DEF IInv
<1>6. Sound(S) /\ Good(S) /\ Balanced(S) /\ S \in States
  BY <1>5, LeadsReady DEF Ready
<1>7. /\ S.roster = roster /\ S.chest = chest /\ S.nextId = nextId /\ S.alive = alive
      /\ S.ally = ally /\ S.rank = rank /\ S.purse = purse /\ S.gone = gone
      /\ S.unpaid = unpaid /\ S.due = due /\ S.doomed = d
  BY <1>1, <1>2, NowFields
<1>8. /\ roster \in [Ids -> Roster \cup {None}] /\ chest \in [Ids -> Nat]
      /\ nextId \in 1..(MaxId + 1) /\ alive \subseteq Players
      /\ ally \in [Players -> Ids \cup {None}] /\ rank \in [Players -> Ranks \cup {None}]
      /\ purse \in [Players -> Nat] /\ gone \in Nat \cup {None}
      /\ unpaid \subseteq Players /\ due \subseteq Ids /\ d \in Players
  BY <1>1, <1>2, <1>3, <1>6, VarsTyped
<1>9. PICK T : T = Now'
  OBVIOUS
<1>10. /\ T.roster = roster /\ T.chest = chest /\ T.nextId = nextId
       /\ T.alive = alive \ {d} /\ T.ally = [ally EXCEPT ![d] = None]
       /\ T.rank = [rank EXCEPT ![d] = None] /\ T.purse = [purse EXCEPT ![d] = 0]
       /\ T.gone = gone' /\ T.unpaid = unpaid /\ T.due = due /\ T.doomed = None
  BY <1>3, <1>9, NextFields
<1>11. purse[d] \in Nat /\ gone' \in Nat \cup {None}
  <2>1. purse[d] \in Nat
    BY <1>8
  <2> QED BY <1>3, <1>8, <2>1
<1>12. T \in States
  <2>1. /\ alive' \subseteq Players /\ purse' \in [Players -> Nat]
        /\ ally' \in [Players -> Ids \cup {None}]
        /\ rank' \in [Players -> Ranks \cup {None}]
    BY <1>3, <1>8
  <2> QED BY <1>3, <1>8, <1>9, <1>11, <2>1 DEF Now, States
<1>13. Sound(T)
  BY <1>6, <1>7, <1>10, <1>12 DEF Sound
<1>14. Good(T)
  <2>1. S.due = {} /\ S.doomed = d /\ d \in Players
    BY <1>3, <1>7, <1>8
  <2>2. /\ T.roster = S.roster /\ T.alive = S.alive \ {d}
        /\ T.ally = [S.ally EXCEPT ![d] = None] /\ T.rank = [S.rank EXCEPT ![d] = None]
        /\ T.unpaid = S.unpaid /\ T.due = S.due /\ T.doomed = None
    BY <1>7, <1>10
  <2> QED BY <1>6, <1>12, <2>1, <2>2, ErasedGood
<1>15. Balanced(T)
  <2>1. SUFFICES ASSUME T.gone # None
                 PROVE  Tally(T.purse, Players) + Tally(T.chest, Ids) + T.gone = Wealth
    BY DEF Balanced
  <2>2. gone # None /\ gone \in Nat /\ T.gone = gone + purse[d]
    BY <1>3, <1>8, <1>10, <2>1
  <2>3. Tally(purse, Players) + Tally(chest, Ids) + gone = Wealth
    BY <1>6, <1>7, <2>2 DEF Balanced
  <2>4. /\ Tally(purse, Players) \in Nat
        /\ Tally([purse EXCEPT ![d] = 0], Players) = Tally(purse, Players) - purse[d]
    <3>1. PICK g : g = [purse EXCEPT ![d] = 0]
      OBVIOUS
    <3>2. \A y \in Players : purse[y] \in Nat
      BY <1>8
    <3>3. d \in Players /\ g[d] = 0 /\ \A y \in Players \ {d} : g[y] = purse[y]
      BY <1>8, <3>1
    <3>4. IsFiniteSet(Players)
      BY Assumed
    <3>5. Tally(purse, Players) \in Nat
      BY <3>2, <3>4, UnitsFinite
    <3>6. Tally(g, Players) = Tally(purse, Players) - purse[d]
      BY <3>2, <3>3, <3>4, TallyCleared
    <3> QED BY <3>1, <3>5, <3>6
  <2>5. Tally(chest, Ids) \in Nat
    BY <1>7, <1>6, Tallied
  <2>6. PICK m \in Nat : m = Tally(purse, Players)
    BY <2>4
  <2>7. PICK c \in Nat : c = Tally(chest, Ids)
    BY <2>5
  <2>8. PICK k \in Nat : k = purse[d]
    BY <1>11
  <2>9. Tally(T.purse, Players) = m - k /\ T.chest = chest /\ T.gone = gone + k
    BY <1>10, <2>2, <2>4, <2>6, <2>8
  <2>10. m + c + gone = Wealth
    BY <2>3, <2>6, <2>7
  <2> QED BY <2>2, <2>7, <2>9, <2>10
<1>16. Leads(todo', Now')
  BY <1>3, <1>9, <1>13, <1>14, <1>15, Done
<1> QED BY <1>3, <1>4, <1>16, Keeps

-----------------------------------------------------------------------------
(* A crash in the middle of a move is a crash that the books do not        *)
(* survive; in any other it finds them in order.                           *)
LEMMA CrashKeeps ==
  ASSUME IInv, Crash
  PROVE  IInv'
<1>1. /\ up /\ up' = FALSE /\ todo' = <<>> /\ unpaid' = {} /\ due' = {} /\ doomed' = None
      /\ UNCHANGED <<roster, chest, nextId, alive, ally, rank, purse>>
      /\ \/ gone' = None
         \/ (\A i \in DOMAIN todo : todo[i].op \notin Moving) /\ gone' = gone
  BY DEF Crash, records, characters
<1>2. Leads(todo, Now)
  BY <1>1 DEF IInv
<1>3. todo \in Seq(WriteStep) /\ Ready(todo, Now) /\ Sound(Now) /\ Now \in States
  BY <1>2, LeadsReady DEF Ready
<1>4. /\ roster \in [Ids -> Roster \cup {None}] /\ chest \in [Ids -> Nat]
      /\ nextId \in 1..(MaxId + 1) /\ alive \subseteq Players
      /\ ally \in [Players -> Ids \cup {None}] /\ rank \in [Players -> Ranks \cup {None}]
      /\ purse \in [Players -> Nat] /\ gone \in Nat \cup {None}
  BY <1>3, VarsTyped
<1>5. Now' \in States
  BY <1>1, <1>4 DEF Now, States
<1>6. Now'.roster = Now.roster /\ Now'.nextId = Now.nextId
  BY <1>1, NowFields, NextFields
<1>7. Sound(Now')
  BY <1>3, <1>5, <1>6 DEF Sound
<1>8. Balanced(Now')
  <2>1. CASE gone' = None
    BY <2>1, NextFields DEF Balanced
  <2>2. CASE (\A i \in DOMAIN todo : todo[i].op \notin Moving) /\ gone' = gone
    <3>1. Balanced(Now)
      <4>1. CASE todo = <<>>
        BY <1>3, <4>1 DEF Ready
      <4>2. CASE todo # <<>>
        <5>1. 1 \in DOMAIN todo /\ Head(todo) = todo[1]
          BY <1>3, <4>2
        <5>2. Head(todo).op \notin Moving
          BY <2>2, <5>1
        <5> QED BY <1>3, <4>2, <5>2 DEF Ready
      <4> QED BY <4>1, <4>2
    <3>2. Now'.purse = Now.purse /\ Now'.chest = Now.chest /\ Now'.gone = Now.gone
      BY <1>1, <2>2, NowFields, NextFields
    <3> QED BY <3>1, <3>2 DEF Balanced
  <2> QED BY <1>1, <2>1, <2>2
<1> QED BY <1>1, <1>7, <1>8 DEF IInv

(* A restart has every record to put in order.                             *)
LEMMA BootKeeps ==
  ASSUME IInv, Boot
  PROVE  IInv'
<1>1. /\ ~up /\ up' = TRUE /\ due' = {a \in Ids : roster[a] # None}
      /\ UNCHANGED <<roster, chest, nextId, alive, ally, rank, purse, gone, todo, unpaid,
                     doomed>>
  BY DEF Boot, Live, records, characters
<1>2. Sound(Now) /\ Balanced(Now) /\ todo = <<>> /\ unpaid = {} /\ doomed = None
  BY <1>1 DEF IInv
<1>3. /\ roster \in [Ids -> Roster \cup {None}] /\ chest \in [Ids -> Nat]
      /\ nextId \in 1..(MaxId + 1) /\ alive \subseteq Players
      /\ ally \in [Players -> Ids \cup {None}] /\ rank \in [Players -> Ranks \cup {None}]
      /\ purse \in [Players -> Nat] /\ gone \in Nat \cup {None}
  BY <1>2, VarsTyped DEF Sound
<1>4. due' \subseteq Ids /\ unpaid' \subseteq Players /\ doomed' \in Players \cup {None}
  BY <1>1, <1>2
<1>5. Now' \in States
  BY <1>1, <1>3, <1>4 DEF Now, States
<1>6. /\ Now'.roster = Now.roster /\ Now'.nextId = Now.nextId
      /\ Now'.purse = Now.purse /\ Now'.chest = Now.chest /\ Now'.gone = Now.gone
  BY <1>1, NowFields, NextFields
<1>7. Sound(Now') /\ Balanced(Now')
  BY <1>2, <1>5, <1>6 DEF Sound, Balanced
<1>8. Good(Now')
  <2>1. Now'.roster = roster /\ Now'.due = due' /\ Now'.unpaid = {} /\ Now'.doomed = None
    BY <1>1, <1>2, NextFields
  <2> QED BY <1>1, <2>1 DEF Good
<1>9. Leads(todo', Now')
  BY <1>1, <1>2, <1>7, <1>8, Done
<1> QED BY <1>1, <1>9 DEF IInv

-----------------------------------------------------------------------------
LEMMA InitKeeps ==
  ASSUME Init
  PROVE  IInv
<1>1. /\ roster = [a \in Ids |-> None] /\ chest = [a \in Ids |-> 0] /\ nextId = 1
      /\ alive = Players /\ ally = [p \in Players |-> None]
      /\ rank = [p \in Players |-> None]
      /\ purse \in [Players -> 0..Wealth] /\ Tally(purse, Players) = Wealth
      /\ up = TRUE /\ todo = <<>> /\ unpaid = {} /\ due = {} /\ doomed = None /\ gone = 0
  BY DEF Init
<1>2. /\ roster \in [Ids -> Roster \cup {None}] /\ chest \in [Ids -> Nat]
      /\ nextId \in 1..(MaxId + 1) /\ alive \subseteq Players
      /\ ally \in [Players -> Ids \cup {None}] /\ rank \in [Players -> Ranks \cup {None}]
      /\ purse \in [Players -> Nat] /\ gone \in Nat \cup {None}
      /\ unpaid \subseteq Players /\ due \subseteq Ids /\ doomed \in Players \cup {None}
  BY <1>1, Assumed
<1>3. Now \in States
  BY <1>2 DEF Now, States
<1>4. /\ \A a \in Ids : Now.roster[a] = None
      /\ Now.unpaid = {} /\ Now.doomed = None
  BY <1>1, NowFields
<1>5. Sound(Now) /\ Good(Now)
  BY <1>3, <1>4 DEF Sound, Good
<1>6. Balanced(Now)
  <2>1. \A a \in Ids : chest[a] = 0
    BY <1>1
  <2>2. Tally(chest, Ids) = 0
    BY <2>1, TallyNothing
  <2>3. Now.purse = purse /\ Now.chest = chest /\ Now.gone = 0
    BY <1>1, NowFields
  <2>4. Tally(Now.purse, Players) + Tally(Now.chest, Ids) + Now.gone = Wealth + 0 + 0
    BY <1>1, <2>2, <2>3
  <2> QED BY <2>4, Assumed DEF Balanced
<1>7. Leads(todo, Now)
  BY <1>1, <1>5, <1>6, Done
<1> QED BY <1>1, <1>7 DEF IInv

LEMMA CommandsKeep ==
  ASSUME IInv, Commands
  PROVE  IInv'
<1>1. \/ \E p \in Players :
            \/ Found(p) \/ Leave(p) \/ Disband(p) \/ Claim(p) \/ Deleted(p)
            \/ Deposit(p) \/ Withdraw(p) \/ ActivatePerk(p)
      \/ \E p, t \in Players : Kick(p, t) \/ Transfer(p, t) \/ Promote(p, t) \/ Demote(p, t)
      \/ \E p \in Players, a \in Ids : Join(p, a) \/ AdminKick(a, p) \/ AdminTransfer(a, p)
      \/ \E a \in Ids : AdminDisband(a)
  BY DEF Commands
<1>2. CASE \E p \in Players :
            \/ Found(p) \/ Leave(p) \/ Disband(p) \/ Claim(p) \/ Deleted(p)
            \/ Deposit(p) \/ Withdraw(p) \/ ActivatePerk(p)
  <2>1. PICK p \in Players :
            \/ Found(p) \/ Leave(p) \/ Disband(p) \/ Claim(p) \/ Deleted(p)
            \/ Deposit(p) \/ Withdraw(p) \/ ActivatePerk(p)
    BY <1>2
  <2>2. CASE Found(p)
    BY <2>2, FoundKeeps
  <2>3. CASE Leave(p)
    BY <2>3, LeavingKeeps
  <2>4. CASE Disband(p)
    BY <2>4, DisbandKeeps
  <2>5. CASE Claim(p)
    BY <2>5, ClaimKeeps
  <2>6. CASE Deleted(p)
    BY <2>6, DeletedKeeps
  <2>7. CASE Deposit(p)
    BY <2>7, DepositKeeps
  <2>8. CASE Withdraw(p)
    BY <2>8, WithdrawKeeps
  <2>9. CASE ActivatePerk(p)
    BY <2>9, PerkKeeps
  <2> QED BY <2>1, <2>2, <2>3, <2>4, <2>5, <2>6, <2>7, <2>8, <2>9
<1>3. CASE \E p, t \in Players :
             Kick(p, t) \/ Transfer(p, t) \/ Promote(p, t) \/ Demote(p, t)
  <2>1. PICK p \in Players, t \in Players :
             Kick(p, t) \/ Transfer(p, t) \/ Promote(p, t) \/ Demote(p, t)
    BY <1>3
  <2>2. CASE Kick(p, t)
    BY <2>2, KickKeeps
  <2>3. CASE Transfer(p, t)
    BY <2>3, TransferKeeps
  <2>4. CASE Promote(p, t)
    BY <2>4, PromoteKeeps
  <2>5. CASE Demote(p, t)
    BY <2>5, DemoteKeeps
  <2> QED BY <2>1, <2>2, <2>3, <2>4, <2>5
<1>4. CASE \E p \in Players, a \in Ids :
             Join(p, a) \/ AdminKick(a, p) \/ AdminTransfer(a, p)
  <2>1. PICK p \in Players, a \in Ids :
             Join(p, a) \/ AdminKick(a, p) \/ AdminTransfer(a, p)
    BY <1>4
  <2>2. CASE Join(p, a)
    BY <2>2, JoinKeeps
  <2>3. CASE AdminKick(a, p)
    BY <2>3, AdminKickKeeps
  <2>4. CASE AdminTransfer(a, p)
    BY <2>4, AdminTransferKeeps
  <2> QED BY <2>1, <2>2, <2>3, <2>4
<1>5. CASE \E a \in Ids : AdminDisband(a)
  BY <1>5, AdminDisbandKeeps
<1> QED BY <1>1, <1>2, <1>3, <1>4, <1>5

LEMMA WritesKeep ==
  ASSUME IInv, Write
  PROVE  IInv'
<1>1. \/ WriteRoster \/ WriteAlly \/ WriteRank \/ WritePurse \/ WriteChest
      \/ Spend \/ DeleteRecord \/ Released \/ Enroll \/ Erase
      \/ \E p \in Players : PayShare(p) \/ Release(p) \/ DemoteRival(p)
      \/ \E a \in Ids : Reconcile(a)
  BY DEF Write
<1>2. CASE WriteRoster
  BY <1>2, WriteRosterKeeps
<1>3. CASE WriteAlly
  BY <1>3, WriteAllyKeeps
<1>4. CASE WriteRank
  BY <1>4, WriteRankKeeps
<1>5. CASE WritePurse
  BY <1>5, WritePurseKeeps
<1>6. CASE WriteChest
  BY <1>6, WriteChestKeeps
<1>7. CASE Spend
  BY <1>7, SpendKeeps
<1>8. CASE DeleteRecord
  BY <1>8, DeleteRecordKeeps
<1>9. CASE Released
  BY <1>9, ReleasedKeeps
<1>10. CASE Enroll
  BY <1>10, EnrollKeeps
<1>11. CASE Erase
  BY <1>11, EraseKeeps
<1>12. CASE \E p \in Players : PayShare(p) \/ Release(p) \/ DemoteRival(p)
  <2>1. PICK p \in Players : PayShare(p) \/ Release(p) \/ DemoteRival(p)
    BY <1>12
  <2>2. CASE PayShare(p)
    BY <2>2, PayShareKeeps
  <2>3. CASE Release(p)
    BY <2>3, ReleaseKeeps
  <2>4. CASE DemoteRival(p)
    BY <2>4, DemoteRivalKeeps
  <2> QED BY <2>1, <2>2, <2>3, <2>4
<1>13. CASE \E a \in Ids : Reconcile(a)
  BY <1>13, ReconcileKeeps
<1> QED BY <1>1, <1>2, <1>3, <1>4, <1>5, <1>6, <1>7, <1>8, <1>9, <1>10, <1>11, <1>12, <1>13

LEMMA NextKeeps ==
  ASSUME IInv, [Next]_vars
  PROVE  IInv'
<1>1. CASE Commands
  BY <1>1, CommandsKeep
<1>2. CASE Write
  BY <1>2, WritesKeep
<1>3. CASE Crash
  BY <1>3, CrashKeeps
<1>4. CASE Boot
  BY <1>4, BootKeeps
<1>5. CASE UNCHANGED vars
  <2>1. Now' = Now
    BY <1>5, NowSame DEF vars, running
  <2>2. UNCHANGED <<up, todo, unpaid, due, doomed>>
    BY <1>5 DEF vars, running
  <2> QED BY <2>1, <2>2 DEF IInv
<1> QED BY <1>1, <1>2, <1>3, <1>4, <1>5 DEF Next, Running

LEMMA Invariant == Spec => []IInv
<1>1. Init => IInv
  BY InitKeeps
<1>2. IInv /\ [Next]_vars => IInv'
  BY NextKeeps
<1> QED BY <1>1, <1>2, PTL DEF Spec

-----------------------------------------------------------------------------
LEMMA InvariantTyped ==
  ASSUME IInv
  PROVE  TypeOK
<1>1. up \in BOOLEAN /\ Now \in States /\ todo \in Seq(WriteStep)
  <2>1. CASE up
    BY <2>1, LeadsReady DEF IInv
  <2>2. CASE ~up
    BY <2>2 DEF IInv, Sound
  <2> QED BY <2>1, <2>2 DEF IInv
<1> QED BY <1>1, VarsTyped DEF TypeOK

LEMMA InvariantAgrees ==
  ASSUME IInv
  PROVE  RosterTrue
<1>1. SUFFICES ASSUME Quiet, NEW a \in Ids, Live(a)
               PROVE  /\ roster[a].leader # None
                      /\ OnRoll(roster[a]) \subseteq alive
                      /\ \A p \in OnRoll(roster[a]) :
                          /\ ally[p] = a
                          /\ rank[p] = "leader"  <=> p = roster[a].leader
                          /\ rank[p] = "officer" <=> p \in roster[a].officers
                          /\ rank[p] = "member"  <=> p \in roster[a].members
  BY DEF RosterTrue
<1>2. Still(Now) /\ Now.roster = roster /\ Now.alive = alive /\ Now.ally = ally
      /\ Now.rank = rank
  BY <1>1, Resting, NowFields
<1>3. Fits(Now, a)
  BY <1>1, <1>2, StillFits DEF Live
<1> QED BY <1>2, <1>3, FitsOn

LEMMA InvariantConserves ==
  ASSUME IInv
  PROVE  Conserved
<1>1. SUFFICES ASSUME Quiet, gone # None
               PROVE  Tally(purse, Players) + Tally(chest, Ids) + gone = Wealth
  BY DEF Conserved
<1>2. Balanced(Now)
  BY <1>1, Resting DEF Still
<1> QED BY <1>1, <1>2, NowFields DEF Balanced

(* The records, the pointers and the accounts keep their types whatever     *)
(* commands run and wherever a crash cuts them: no treasury and no purse is *)
(* ever overdrawn, every step a command has left names an alliance and a    *)
(* player there can be.  (withdraw's "if amount > balance", the shares of   *)
(* _even_split_treasury, the prices of activate_perk)                       *)
THEOREM TypeCorrect == Spec => []TypeOK
<1>1. IInv => TypeOK
  BY InvariantTyped
<1> QED BY <1>1, Invariant, PTL

(* Between commands the roster of every alliance and the pointers of the    *)
(* players on it say the same, the leader is one of them and all are alive, *)
(* for any number of players, alliances, joins, successions, deletions and  *)
(* crashes between any two writes.  (reconcile at start_game_scripts and in *)
(* on_character_deleted against the writes of every command)                *)
THEOREM RosterAgrees == Spec => []RosterTrue
<1>1. IInv => RosterTrue
  BY InvariantAgrees
<1> QED BY <1>1, Invariant, PTL

(* Between commands the purses, the treasuries and what was spent, dissolved *)
(* or deleted with its owner add up to what there was in the beginning, until *)
(* a crash cuts a move in two: the even split of a treasury included, for any *)
(* amount and any number of members.  (deposit, withdraw, activate_perk,     *)
(* _even_split_treasury, and the deletion of a character)                    *)
THEOREM NothingMinted == Spec => []Conserved
<1>1. IInv => Conserved
  BY InvariantConserves
<1> QED BY <1>1, Invariant, PTL
=============================================================================
