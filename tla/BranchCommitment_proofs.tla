----------------------- MODULE BranchCommitment_proofs -----------------------
(***************************************************************************)
(* For every set of planets, sites, Branches, technologies and agents: one *)
(* doctrine per planet, debts that are neither forgotten nor invented, and *)
(* no research job for nothing, wherever the process dies.                 *)
(***************************************************************************)
EXTENDS BranchCommitment, SequenceTheorems, TLAPS

(* What the writes left of a handler are about.  A Branch is marked or     *)
(* seeded only after the player demolished a lab of it; its abandoned bit  *)
(* goes right after the pending set is written, which then covers the      *)
(* record; and what is about to be recorded is researched by no job.       *)
TodoOK ==
    \A i \in 1..Len(todo) :
        /\ todo[i].op \in {"mark", "seed"} => todo[i].branch \in quits
        /\ todo[i].op = "unmark" =>
            IF i = 1 THEN RecordOf(todo[1].branch) \subseteq pending[todo[1].branch]
            ELSE todo[i - 1].op = "seed" /\ todo[i - 1].branch = todo[i].branch
        /\ todo[i].op = "record" => \A j \in jobs : j.tech # todo[i].tech

(* No technology has two jobs; a Reinstatement job's technology is on      *)
(* record and owed, a first-time job's is not on record.                   *)
JobsOK ==
    \A j \in jobs :
        /\ \A k \in jobs : j.tech = k.tech => j = k
        /\ j.again => j.tech \in researched /\ j.tech \in pending[TreeOf[j.tech]]
        /\ ~j.again => j.tech \notin researched

IInv ==
    /\ TypeOK /\ TodoOK /\ JobsOK
    /\ OneBranchPerPlanet /\ DebtRemembered /\ HostileLossIsFree
    /\ debt \subseteq researched

-----------------------------------------------------------------------------
(* The writes a handler leaves behind. *)

LEMMA StepKinds ==
    /\ \A b \in Branches : \A o \in {"mark", "seed", "unmark"} :
          [op |-> o, branch |-> b] \in Step
    /\ \A b \in Branches, p \in Planets :
          [op |-> "lapse", branch |-> b, planet |-> p] \in Step
    /\ \A o \in {"clear", "refill"}, i \in Sites \cup {None} :
          [op |-> o, ignored |-> i] \in Step
    /\ \A s \in Sites : [op |-> "delete", site |-> s] \in Step
    /\ \A t \in Techs : [op |-> "record", tech |-> t] \in Step
BY DEF Step

(* Tuples as sequences. *)
LEMMA Pair ==
    ASSUME NEW S, NEW x \in S, NEW y \in S
    PROVE  /\ <<x, y>> \in Seq(S) /\ Len(<<x, y>>) = 2
           /\ <<x, y>>[1] = x /\ <<x, y>>[2] = y
OBVIOUS

LEMMA Concat22 ==
    ASSUME NEW S, NEW x \in S, NEW y \in S, NEW u \in S, NEW v \in S
    PROVE  LET w == <<x, y>> \o <<u, v>>
           IN /\ w \in Seq(S) /\ Len(w) = 4
              /\ w[1] = x /\ w[2] = y /\ w[3] = u /\ w[4] = v
<1> DEFINE l == <<x, y>>
           r == <<u, v>>
<1>1. l \in Seq(S) /\ Len(l) = 2 /\ l[1] = x /\ l[2] = y BY Pair
<1>2. r \in Seq(S) /\ Len(r) = 2 /\ r[1] = u /\ r[2] = v BY Pair
<1> HIDE DEF l, r
<1>3. /\ l \o r \in Seq(S) /\ Len(l \o r) = 4
      /\ \A i \in 1..4 : (l \o r)[i] = IF i <= 2 THEN l[i] ELSE r[i - 2]
  BY <1>1, <1>2, ConcatProperties
<1>4. /\ (l \o r)[1] = l[1] /\ (l \o r)[2] = l[2]
      /\ (l \o r)[3] = r[1] /\ (l \o r)[4] = r[2]
  BY <1>3
<1>5. QED BY <1>1, <1>2, <1>3, <1>4 DEF l, r

LEMMA Concat12 ==
    ASSUME NEW S, NEW x \in S, NEW u \in S, NEW v \in S
    PROVE  LET w == <<x>> \o <<u, v>>
           IN /\ w \in Seq(S) /\ Len(w) = 3
              /\ w[1] = x /\ w[2] = u /\ w[3] = v
<1> DEFINE l == <<x>>
           r == <<u, v>>
<1>1. l \in Seq(S) /\ Len(l) = 1 /\ l[1] = x OBVIOUS
<1>2. r \in Seq(S) /\ Len(r) = 2 /\ r[1] = u /\ r[2] = v BY Pair
<1> HIDE DEF l, r
<1>3. /\ l \o r \in Seq(S) /\ Len(l \o r) = Len(l) + Len(r)
      /\ \A i \in 1..Len(l) + Len(r) :
            (l \o r)[i] = IF i <= Len(l) THEN l[i] ELSE r[i - Len(l)]
  BY <1>1, <1>2, ConcatProperties
<1>4. (l \o r)[1] = l[1] /\ (l \o r)[2] = r[1] /\ (l \o r)[3] = r[2]
  BY <1>1, <1>2, <1>3
<1>5. QED BY <1>1, <1>2, <1>3, <1>4 DEF l, r

LEMMA RecomputeWrites ==
    ASSUME NEW i \in Sites \cup {None}
    PROVE  /\ Recompute(i) \in Seq(Step) /\ Len(Recompute(i)) = 2
           /\ Recompute(i)[1].op = "clear" /\ Recompute(i)[2].op = "refill"
           /\ <<>> \o Recompute(i) = Recompute(i)
<1> DEFINE c == [op |-> "clear", ignored |-> i]
           f == [op |-> "refill", ignored |-> i]
<1>1. c \in Step /\ f \in Step BY StepKinds
<1>2. c.op = "clear" /\ f.op = "refill" OBVIOUS
<1>3. Recompute(i) = <<c, f>> BY DEF Recompute
<1> HIDE DEF c, f
<1>4. /\ Recompute(i) \in Seq(Step) /\ Len(Recompute(i)) = 2
      /\ Recompute(i)[1] = c /\ Recompute(i)[2] = f
  BY <1>1, <1>3, Pair
<1>5. QED BY <1>2, <1>4, ConcatEmptySeq

(* The building on a site, as a record. *)
LEMMA BuiltRecord ==
    ASSUME TypeOK, NEW s \in Sites, Stands(s)
    PROVE  /\ built[s] \in Building
           /\ built[s].branch \in Branches /\ built[s].lab \in BOOLEAN
           /\ built[s].phase \in {"building", "upgrading", "ready"}
           /\ built[s].left \in Int /\ 0 <= built[s].left /\ built[s].left <= BuildTicks
BY BranchAssumption DEF TypeOK, Stands, Building

LEMMA CompletedWrites ==
    ASSUME TypeOK, NEW s \in Sites, Stands(s)
    PROVE  /\ Completed(s) \in Seq(Step)
           /\ \A i \in 1..Len(Completed(s)) :
                /\ Completed(s)[i].op \in {"seed", "unmark", "clear", "refill"}
                /\ Completed(s)[i].op = "seed" => Completed(s)[i].branch \in abandoned
                /\ Completed(s)[i].op = "unmark" =>
                    /\ i > 1 /\ Completed(s)[i - 1].op = "seed"
                    /\ Completed(s)[i - 1].branch = Completed(s)[i].branch
<1> DEFINE b == built[s].branch
           d == [op |-> "seed", branch |-> b]
           m == [op |-> "unmark", branch |-> b]
           c == [op |-> "clear", ignored |-> None]
           f == [op |-> "refill", ignored |-> None]
           w == Completed(s)
<1>1. d \in Step /\ m \in Step /\ c \in Step /\ f \in Step
  BY BuiltRecord, StepKinds
<1>2. /\ d.op = "seed" /\ d.branch = b /\ m.op = "unmark" /\ m.branch = b
      /\ c.op = "clear" /\ f.op = "refill"
  OBVIOUS
<1>3. CASE ~built[s].lab
  <2>1. w = <<>> BY <1>3 DEF Completed
  <2>2. QED BY <2>1
<1>4. CASE built[s].lab /\ b \in abandoned
  <2>1. w = <<d, m>> \o <<c, f>> BY <1>4 DEF Completed, Recompute
  <2> HIDE DEF w, d, m, c, f, b
  <2>2. /\ w \in Seq(Step) /\ Len(w) = 4
        /\ w[1] = d /\ w[2] = m /\ w[3] = c /\ w[4] = f
    BY <1>1, <2>1, Concat22
  <2>3. \A i \in 1..4 :
          /\ w[i].op \in {"seed", "unmark", "clear", "refill"}
          /\ w[i].op = "seed" => w[i].branch \in abandoned
          /\ w[i].op = "unmark" =>
              i > 1 /\ w[i - 1].op = "seed" /\ w[i - 1].branch = w[i].branch
    <3>1. \A i \in 1..4 : i = 1 \/ i = 2 \/ i = 3 \/ i = 4 OBVIOUS
    <3>2. QED BY <1>2, <1>4, <2>2, <3>1
  <2>4. QED BY <2>2, <2>3 DEF w
<1>5. CASE built[s].lab /\ b \notin abandoned
  <2>1. w = <<>> \o Recompute(None) BY <1>5 DEF Completed
  <2>2. QED BY <2>1, RecomputeWrites
<1>6. QED BY <1>3, <1>4, <1>5, BuiltRecord

LEMMA LeftWrites ==
    ASSUME TypeOK, NEW s \in Sites, Stands(s)
    PROVE  /\ Left(s) \in Seq(Step)
           /\ \A i \in 1..Len(Left(s)) :
                /\ Left(s)[i].op \in {"mark", "lapse", "clear", "refill"}
                /\ Left(s)[i].op = "mark" =>
                    built[s].lab /\ Left(s)[i].branch = built[s].branch
<1> DEFINE b == built[s].branch
           d == [op |-> "mark", branch |-> b]
           m == [op |-> "lapse", branch |-> b, planet |-> where]
           c == [op |-> "clear", ignored |-> None]
           f == [op |-> "refill", ignored |-> None]
           w == Left(s)
<1>1. d \in Step /\ m \in Step /\ c \in Step /\ f \in Step
  BY BuiltRecord, StepKinds DEF TypeOK
<1>2. /\ d.op = "mark" /\ d.branch = b /\ m.op = "lapse"
      /\ c.op = "clear" /\ f.op = "refill"
  OBVIOUS
<1>3. CASE ~built[s].lab
  <2>1. w = <<>> BY <1>3 DEF Left
  <2>2. QED BY <2>1
<1>4. CASE built[s].lab /\ ~Committed(where, b, s)
  <2>1. w = <<d, m>> \o <<c, f>> BY <1>4 DEF Left, Recompute
  <2> HIDE DEF w, d, m, c, f
  <2>2. /\ w \in Seq(Step) /\ Len(w) = 4
        /\ w[1] = d /\ w[2] = m /\ w[3] = c /\ w[4] = f
    BY <1>1, <2>1, Concat22
  <2>3. \A i \in 1..4 : /\ w[i].op \in {"mark", "lapse", "clear", "refill"}
                        /\ w[i].op = "mark" => w[i].branch = b
    <3>1. \A i \in 1..4 : i = 1 \/ i = 2 \/ i = 3 \/ i = 4 OBVIOUS
    <3>2. QED BY <1>2, <2>2, <3>1
  <2>4. QED BY <1>4, <2>2, <2>3 DEF w
<1>5. CASE built[s].lab /\ Committed(where, b, s)
  <2>1. w = <<>> \o Recompute(None) BY <1>5 DEF Left
  <2>2. QED BY <2>1, RecomputeWrites
<1>6. QED BY <1>3, <1>4, <1>5, BuiltRecord

(* What Destroy leaves to do, the delete included. *)
LEMMA LostWrites ==
    ASSUME TypeOK, NEW s \in Sites, Stands(s), NEW w,
           w = Append(Lost(s), [op |-> "delete", site |-> s])
    PROVE  /\ w \in Seq(Step)
           /\ \A i \in 1..Len(w) : w[i].op \in {"lapse", "clear", "refill", "delete"}
<1> DEFINE b == built[s].branch
           m == [op |-> "lapse", branch |-> b, planet |-> PlanetOf[s]]
           c == [op |-> "clear", ignored |-> s]
           f == [op |-> "refill", ignored |-> s]
           x == [op |-> "delete", site |-> s]
           l == Lost(s)
<1>1. m \in Step /\ c \in Step /\ f \in Step /\ x \in Step
  BY BuiltRecord, StepKinds, BranchAssumption
<1>2. m.op = "lapse" /\ c.op = "clear" /\ f.op = "refill" /\ x.op = "delete"
  OBVIOUS
<1>3. l \in Seq(Step) /\ \A i \in 1..Len(l) : l[i].op \in {"lapse", "clear", "refill"}
  <2>1. CASE ~built[s].lab \/ built[s].phase # "ready"
    <3>1. l = <<>> BY <2>1 DEF Lost
    <3>2. QED BY <3>1
  <2>2. CASE built[s].lab /\ built[s].phase = "ready" /\ ~Committed(PlanetOf[s], b, s)
    <3>1. l = <<m>> \o <<c, f>> BY <2>2 DEF Lost, Recompute
    <3> HIDE DEF l, m, c, f
    <3>2. l \in Seq(Step) /\ Len(l) = 3 /\ l[1] = m /\ l[2] = c /\ l[3] = f
      BY <1>1, <3>1, Concat12
    <3>3. \A i \in 1..3 : i = 1 \/ i = 2 \/ i = 3 OBVIOUS
    <3>4. QED BY <1>2, <3>2, <3>3
  <2>3. CASE built[s].lab /\ built[s].phase = "ready" /\ Committed(PlanetOf[s], b, s)
    <3>1. l = <<>> \o Recompute(s) BY <2>3 DEF Lost
    <3>2. QED BY <3>1, RecomputeWrites
  <2>4. QED BY <2>1, <2>2, <2>3, BuiltRecord
<1>4. w = Append(l, x) OBVIOUS
<1>9. l \in Seq(Step) /\ x \in Step BY <1>1, <1>3
<1> HIDE DEF l, x
<1>5. /\ w \in Seq(Step) /\ Len(w) = Len(l) + 1
      /\ \A i \in 1..Len(l) : w[i] = l[i]
      /\ w[Len(l) + 1] = x
  <2>1. /\ Append(l, x) \in Seq(Step) /\ Len(Append(l, x)) = Len(l) + 1
        /\ \A i \in 1..Len(l) : Append(l, x)[i] = l[i]
        /\ Append(l, x)[Len(l) + 1] = x
    BY <1>9, AppendProperties
  <2>2. QED BY <1>4, <2>1
<1>6. Len(l) \in Nat BY <1>3, LenProperties
<1>7. \A i \in 1..Len(w) : i \in 1..Len(l) \/ i = Len(l) + 1 BY <1>5, <1>6
<1>8. QED BY <1>2, <1>3, <1>5, <1>7

(* What each kind of write carries. *)
LEMMA OfKind ==
    ASSUME NEW x \in Step
    PROVE  /\ x.op \in {"mark", "seed", "unmark", "lapse"} => x.branch \in Branches
           /\ x.op = "delete" => x.site \in Sites
           /\ x.op = "record" => x.tech \in Techs
<1>1. CASE x \in [op: {"mark", "seed", "unmark"}, branch: Branches] BY <1>1
<1>2. CASE x \in [op: {"lapse"}, branch: Branches, planet: Planets] BY <1>2
<1>3. CASE x \in [op: {"clear", "refill"}, ignored: Sites \cup {None}] BY <1>3
<1>4. CASE x \in [op: {"delete"}, site: Sites] BY <1>4
<1>5. CASE x \in [op: {"record"}, tech: Techs] BY <1>5
<1>6. QED BY <1>1, <1>2, <1>3, <1>4, <1>5 DEF Step

(* One write is done, the others move up. *)
LEMMA Advance ==
    ASSUME TypeOK, todo # <<>>, todo' = Tail(todo)
    PROVE  /\ todo' \in Seq(Step) /\ Len(todo) \in Nat \ {0}
           /\ Head(todo) = todo[1] /\ Head(todo) \in Step
           /\ Len(todo') = Len(todo) - 1
           /\ \A i \in 1..Len(todo') : i + 1 \in 2..Len(todo) /\ todo'[i] = todo[i + 1]
<1>1. todo \in Seq(Step) BY DEF TypeOK
<1>2. QED BY <1>1, HeadTailProperties, LenProperties, EmptySeq

-----------------------------------------------------------------------------
(* Types. *)

LEMMA InitTypes == Init => TypeOK
<1> SUFFICES ASSUME Init PROVE TypeOK OBVIOUS
<1>1. todo \in Seq(Step) BY EmptySeq DEF Init
<1>2. QED BY <1>1 DEF Init, TypeOK

LEMMA StepTypes == TypeOK /\ [Next]_vars => TypeOK'
<1> SUFFICES ASSUME TypeOK, [Next]_vars PROVE TypeOK'
  OBVIOUS
<1> USE DEF TypeOK
<1>0. <<>> \in Seq(Step) BY EmptySeq
<1>1. ASSUME NEW s \in Sites, NEW b \in Branches, NEW lab \in BOOLEAN
      PROVE  Begin(s, b, lab) \in Building
  BY BranchAssumption DEF Begin, Building
<1>2. CASE \E s \in Sites, b \in Branches : StartLab(s, b) \/ StartBuilding(s, b)
  BY <1>1, <1>2 DEF StartLab, StartBuilding
<1>3. ASSUME NEW s \in Sites, StartUpgrade(s) \/ CancelUpgrade(s) PROVE TypeOK'
  <2>1. built[s] \in Building BY <1>3, BuiltRecord DEF StartUpgrade, CancelUpgrade
  <2>2. built' \in [Sites -> Building \cup {NoBuilding}]
    BY <1>3, <2>1, BranchAssumption DEF StartUpgrade, CancelUpgrade, Building
  <2>3. QED BY <1>3, <2>2 DEF StartUpgrade, CancelUpgrade
<1>4. ASSUME NEW s \in Sites, Work(s) PROVE TypeOK'
  <2>1. Stands(s) BY <1>4 DEF Work
  <2>2. /\ built[s] \in Building /\ built[s].left \in Int
        /\ 0 <= built[s].left /\ built[s].left <= BuildTicks
    BY <2>1, BuiltRecord
  <2>3. built' \in [Sites -> Building \cup {NoBuilding}]
    <3>1. \A n \in 0..BuildTicks : [built[s] EXCEPT !.left = n] \in Building
      BY <2>2 DEF Building
    <3>2. [built[s] EXCEPT !.left = 0, !.phase = "ready"] \in Building
      <4>1. 0 \in 0..BuildTicks BY BranchAssumption
      <4>2. QED BY <2>2, <4>1 DEF Building
    <3>3. BuildTicks \in Nat /\ (built[s].left > 1 => built[s].left - 1 \in 0..BuildTicks)
      BY <2>2, BranchAssumption
    <3>4. \/ built' = [built EXCEPT ![s] = [built[s] EXCEPT !.left = 0, !.phase = "ready"]]
          \/ /\ built[s].left > 1
             /\ built' = [built EXCEPT ![s] = [built[s] EXCEPT !.left = built[s].left - 1]]
      BY <1>4 DEF Work
    <3>5. QED BY <3>1, <3>2, <3>3, <3>4
  <2>4. todo' \in Seq(Step) BY <1>4, <2>1, CompletedWrites DEF Work
  <2>5. QED BY <1>4, <2>3, <2>4 DEF Work
<1>5. ASSUME NEW s \in Sites, Demolish(s) PROVE TypeOK'
  <2>1. Stands(s) BY <1>5 DEF Demolish
  <2>2. todo' \in Seq(Step) BY <1>5, <2>1, LeftWrites DEF Demolish
  <2>3. QED BY <1>5, <2>1, <2>2, BuiltRecord DEF Demolish
<1>6. ASSUME NEW s \in Sites, Destroy(s) PROVE TypeOK'
  <2>1. todo' \in Seq(Step) BY <1>6, LostWrites DEF Destroy
  <2>2. QED BY <1>6, <2>1 DEF Destroy
<1>7. ASSUME NEW p \in Planets, Travel(p) PROVE TypeOK'
  BY <1>0, <1>7, RecomputeWrites DEF Travel
<1>8. ASSUME NEW t \in Techs, StartResearch(t) PROVE TypeOK'
  <2>1. [tech |-> t, left |-> ResearchTicks, again |-> t \in researched] \in Job
    BY BranchAssumption DEF Job
  <2>2. jobs' \subseteq Job BY <1>8, <2>1 DEF StartResearch
  <2>3. QED BY <1>8, <2>2 DEF StartResearch
<1>9. CASE ResearchTick
  <2>1. ASSUME NEW j \in jobs PROVE [j EXCEPT !.left = @ - 1] \in Job
    <3>1. j \in Job /\ j.left # 0 BY <1>9 DEF ResearchTick, Idle, Due
    <3>2. j.left \in 0..ResearchTicks BY <3>1 DEF Job
    <3>3. j.left - 1 \in 0..ResearchTicks BY <3>1, <3>2, BranchAssumption
    <3>4. QED BY <3>1, <3>3 DEF Job
  <2>2. jobs' \subseteq Job BY <1>9, <2>1 DEF ResearchTick
  <2>3. QED BY <1>9, <2>2 DEF ResearchTick
<1>10. ASSUME NEW j \in jobs, Finish(j) PROVE TypeOK'
  <2>1. j.tech \in Techs /\ TreeOf[j.tech] \in Branches BY BranchAssumption DEF Job
  <2>2. <<[op |-> "record", tech |-> j.tech]>> \in Seq(Step)
    <3>1. [op |-> "record", tech |-> j.tech] \in Step BY <2>1, StepKinds
    <3>2. QED BY <3>1
  <2>3. todo' \in Seq(Step) BY <1>10, <2>2, RecomputeWrites DEF Finish
  <2>4. pending' \in [Branches -> SUBSET Techs] BY <1>10, <2>1 DEF Finish
  <2>5. QED BY <1>10, <2>1, <2>3, <2>4 DEF Finish
<1>11. CASE \E a \in Agents : Unassign(a) \/ \E b \in Branches : Assign(a, b)
  BY <1>11 DEF Unassign, Assign
<1>12. CASE Login BY <1>12, RecomputeWrites DEF Login
<1>13. CASE Write
  <2>1. todo # <<>> /\ todo' = Tail(todo)
    BY <1>13 DEF Write, Mark, Seed, Unmark, Lapse, Clear, Refill, Delete, Record, Doing
  <2>2. todo' \in Seq(Step) /\ Head(todo) \in Step BY <2>1, Advance
  <2>3. CASE Mark BY <2>2, <2>3, OfKind DEF Mark, Doing, RecordOf
  <2>4. CASE Seed BY <2>2, <2>4, OfKind DEF Seed, Doing, RecordOf
  <2>5. CASE Unmark BY <2>2, <2>5 DEF Unmark
  <2>6. CASE Lapse BY <2>2, <2>6 DEF Lapse
  <2>7. CASE Clear BY <2>2, <2>7 DEF Clear
  <2>8. CASE Refill BY <2>2, <2>8 DEF Refill, Applied
  <2>9. CASE Delete BY <2>2, <2>9 DEF Delete
  <2>10. CASE Record BY <2>2, <2>10, OfKind DEF Record, Doing
  <2>11. QED
    BY <1>13, <2>3, <2>4, <2>5, <2>6, <2>7, <2>8, <2>9, <2>10 DEF Write
<1>14. CASE Crash BY <1>0, <1>14 DEF Crash
<1>15. CASE UNCHANGED vars BY <1>15 DEF vars
<1>16. QED
  BY <1>2, <1>3, <1>4, <1>5, <1>6, <1>7, <1>8, <1>9, <1>10, <1>11, <1>12,
     <1>13, <1>14, <1>15 DEF Next, Running, SiteStep

-----------------------------------------------------------------------------
(* One doctrine per planet: only the construction actions touch it. *)

(* Buildings that vanish or keep their Branch and kind disturb nothing. *)
LEMMA EstateKept ==
    ASSUME OneBranchPerPlanet,
           \A s \in Sites : Stands(s)' =>
               Stands(s) /\ built'[s].branch = built[s].branch /\ built'[s].lab = built[s].lab
    PROVE  OneBranchPerPlanet'
BY DEF OneBranchPerPlanet

(* A building raised where every other one is of its Branch, and none a    *)
(* lab if it is one.                                                       *)
LEMMA EstateGrows ==
    ASSUME TypeOK, OneBranchPerPlanet, NEW s \in Sites, NEW b, NEW lab \in BOOLEAN,
           built' = [built EXCEPT ![s] = Begin(s, b, lab)],
           \A r \in On(PlanetOf[s]) : built[r].branch = b /\ ~(lab /\ built[r].lab)
    PROVE  OneBranchPerPlanet'
<1>1. built'[s].branch = b /\ built'[s].lab = lab BY DEF TypeOK, Begin
<1>2. \A r \in Sites \ {s} : built'[r] = built[r] BY DEF TypeOK
<1>3. SUFFICES ASSUME NEW r \in Sites, NEW q \in Sites, r # q,
                      PlanetOf[r] = PlanetOf[q], Stands(r)', Stands(q)'
               PROVE  built'[r].branch = built'[q].branch /\ ~(built'[r].lab /\ built'[q].lab)
  BY DEF OneBranchPerPlanet
<1>4. CASE r # s /\ q # s
  BY <1>2, <1>3, <1>4 DEF OneBranchPerPlanet, Stands
<1>5. CASE r = s
  <2>1. q \in On(PlanetOf[s]) BY <1>2, <1>3, <1>5 DEF On, Stands
  <2>2. QED BY <1>1, <1>2, <1>3, <1>5, <2>1
<1>6. CASE q = s
  <2>1. r \in On(PlanetOf[s]) BY <1>2, <1>3, <1>6 DEF On, Stands
  <2>2. QED BY <1>1, <1>2, <1>3, <1>6, <2>1
<1>7. QED BY <1>4, <1>5, <1>6

LEMMA StepOneBranch == TypeOK /\ OneBranchPerPlanet /\ [Next]_vars => OneBranchPerPlanet'
<1> SUFFICES ASSUME TypeOK, OneBranchPerPlanet, [Next]_vars PROVE OneBranchPerPlanet'
  OBVIOUS
<1>1. ASSUME NEW s \in Sites, NEW b \in Branches, StartLab(s, b) PROVE OneBranchPerPlanet'
  BY <1>1, EstateGrows DEF StartLab, AtSite
<1>2. ASSUME NEW s \in Sites, NEW b \in Branches, StartBuilding(s, b)
      PROVE  OneBranchPerPlanet'
  <2>1. PICK q \in On(where) : built[q].branch = b
    BY <1>2 DEF StartBuilding, Committed
  <2>2. \A r \in On(where) : built[r].branch = b
    BY <2>1 DEF On, OneBranchPerPlanet
  <2>3. QED BY <1>2, <2>2, EstateGrows DEF StartBuilding, AtSite
<1>3. ASSUME NEW s \in Sites, StartUpgrade(s) \/ CancelUpgrade(s) PROVE OneBranchPerPlanet'
  <2>1. Stands(s) /\ built[s] \in Building
    BY <1>3, BuiltRecord DEF StartUpgrade, CancelUpgrade
  <2>2. /\ built'[s].branch = built[s].branch /\ built'[s].lab = built[s].lab
        /\ \A r \in Sites \ {s} : built'[r] = built[r]
    BY <1>3, <2>1 DEF StartUpgrade, CancelUpgrade, TypeOK, Building
  <2>3. \A r \in Sites : Stands(r)' => /\ Stands(r) /\ built'[r].branch = built[r].branch
                                      /\ built'[r].lab = built[r].lab
    BY <2>1, <2>2 DEF Stands
  <2>4. QED BY <2>3, EstateKept
<1>4. ASSUME NEW s \in Sites, Work(s) PROVE OneBranchPerPlanet'
  <2>1. Stands(s) /\ built[s] \in Building BY <1>4, BuiltRecord DEF Work
  <2>2. /\ built'[s].branch = built[s].branch /\ built'[s].lab = built[s].lab
        /\ \A r \in Sites \ {s} : built'[r] = built[r]
    BY <1>4, <2>1 DEF Work, TypeOK, Building
  <2>3. \A r \in Sites : Stands(r)' => /\ Stands(r) /\ built'[r].branch = built[r].branch
                                      /\ built'[r].lab = built[r].lab
    BY <2>1, <2>2 DEF Stands
  <2>4. QED BY <2>3, EstateKept
<1>5. ASSUME NEW s \in Sites, Demolish(s) PROVE OneBranchPerPlanet'
  BY <1>5, EstateKept DEF Demolish, TypeOK, Stands
<1>6. CASE Delete
  BY <1>6, EstateKept DEF Delete, TypeOK, Stands
<1>7. CASE UNCHANGED built
  BY <1>7, EstateKept DEF Stands
<1>8. QED
  BY <1>1, <1>2, <1>3, <1>4, <1>5, <1>6, <1>7
  DEF Next, Running, SiteStep, Write, vars, Destroy, Travel, StartResearch,
      ResearchTick, Finish, Assign, Unassign, Login, Mark, Seed, Unmark, Lapse,
      Clear, Refill, Record, Crash

-----------------------------------------------------------------------------
(* The writes still to do. *)

(* A handler that marks, seeds, unmarks and records nothing.               *)
LEMMA PlainTodo ==
    ASSUME \A i \in 1..Len(todo') : todo'[i].op \in {"lapse", "clear", "refill", "delete"}
    PROVE  TodoOK'
BY DEF TodoOK

LEMMA RecomputePlain ==
    ASSUME NEW i \in Sites \cup {None}, todo' = Recompute(i)
    PROVE  TodoOK'
<1>1. \A k \in 1..2 : k = 1 \/ k = 2 OBVIOUS
<1>2. QED BY <1>1, RecomputeWrites, PlainTodo

LEMMA NothingTodo == ASSUME todo' = <<>> PROVE TodoOK'
BY PlainTodo

LEMMA StepTodo == IInv /\ [Next]_vars => TodoOK'
<1> SUFFICES ASSUME IInv, [Next]_vars PROVE TodoOK'
  OBVIOUS
<1>0. TypeOK /\ TodoOK /\ JobsOK /\ HostileLossIsFree BY DEF IInv
<1>1. ASSUME NEW s \in Sites, Work(s) PROVE TodoOK'
  <2>1. CASE todo' = todo BY <1>1, <2>1, NothingTodo DEF Work, Idle
  <2>2. CASE todo' = Completed(s)
    <3>1. Stands(s) /\ UNCHANGED quits BY <1>1 DEF Work
    <3>2. \A i \in 1..Len(todo') :
            /\ todo'[i].op \in {"seed", "unmark", "clear", "refill"}
            /\ todo'[i].op = "seed" => todo'[i].branch \in abandoned
            /\ todo'[i].op = "unmark" =>
                /\ i > 1 /\ todo'[i - 1].op = "seed"
                /\ todo'[i - 1].branch = todo'[i].branch
      BY <1>0, <2>2, <3>1, CompletedWrites
    <3>3. abandoned \subseteq quits BY <1>0 DEF HostileLossIsFree, TypeOK
    <3>4. QED BY <3>1, <3>2, <3>3 DEF TodoOK
  <2>3. QED BY <1>1, <2>1, <2>2 DEF Work
<1>2. ASSUME NEW s \in Sites, Demolish(s) PROVE TodoOK'
  <2>1. Stands(s) /\ todo' = Left(s) /\ (built[s].lab => built[s].branch \in quits')
    BY <1>2 DEF Demolish
  <2>2. \A i \in 1..Len(todo') :
          /\ todo'[i].op \in {"mark", "lapse", "clear", "refill"}
          /\ todo'[i].op = "mark" => built[s].lab /\ todo'[i].branch = built[s].branch
    BY <1>0, <2>1, LeftWrites
  <2>3. QED BY <2>1, <2>2 DEF TodoOK
<1>3. ASSUME NEW s \in Sites, Destroy(s) PROVE TodoOK'
  BY <1>0, <1>3, LostWrites, PlainTodo DEF Destroy
<1>4. ASSUME NEW p \in Planets, Travel(p) PROVE TodoOK'
  BY <1>4, RecomputePlain, NothingTodo DEF Travel
<1>5. CASE Login BY <1>5, RecomputePlain DEF Login
<1>6. ASSUME NEW j \in jobs, Finish(j) PROVE TodoOK'
  <2>1. CASE j.again BY <1>6, <2>1, RecomputePlain DEF Finish
  <2>2. CASE ~j.again
    <3> DEFINE x == [op |-> "record", tech |-> j.tech]
    <3>1. todo' = <<x>> /\ jobs' = jobs \ {j} BY <1>6, <2>2 DEF Finish
    <3>2. x.op = "record" /\ x.tech = j.tech OBVIOUS
    <3>3. \A k \in jobs' : k.tech # x.tech BY <1>0, <3>1, <3>2 DEF JobsOK
    <3> HIDE DEF x
    <3>4. Len(todo') = 1 /\ todo'[1] = x BY <3>1
    <3>5. QED BY <3>2, <3>3, <3>4 DEF TodoOK
  <2>3. QED BY <1>6, <2>1, <2>2
<1>7. CASE Write
  <2>1. todo # <<>> /\ todo' = Tail(todo) /\ UNCHANGED <<jobs, quits>>
    BY <1>7 DEF Write, Mark, Seed, Unmark, Lapse, Clear, Refill, Delete, Record, Doing
  <2>2. /\ Len(todo) \in Nat \ {0} /\ Head(todo) = todo[1] /\ Head(todo) \in Step
        /\ Len(todo') = Len(todo) - 1
        /\ \A i \in 1..Len(todo') : i + 1 \in 2..Len(todo) /\ todo'[i] = todo[i + 1]
    BY <1>0, <2>1, Advance
  <2>3. ASSUME NEW i \in 1..Len(todo'), todo'[i].op \in {"mark", "seed"}
        PROVE  todo'[i].branch \in quits'
    <3>1. todo'[i] = todo[i + 1] /\ i + 1 \in 1..Len(todo) BY <2>2
    <3>2. QED BY <1>0, <2>1, <2>3, <3>1 DEF TodoOK
  <2>4. ASSUME NEW i \in 1..Len(todo'), todo'[i].op = "record"
        PROVE  \A j \in jobs' : j.tech # todo'[i].tech
    <3>1. todo'[i] = todo[i + 1] /\ i + 1 \in 1..Len(todo) BY <2>2
    <3>2. QED BY <1>0, <2>1, <2>4, <3>1 DEF TodoOK
  <2>5. ASSUME NEW i \in 1..Len(todo'), todo'[i].op = "unmark"
        PROVE  IF i = 1 THEN RecordOf(todo[1].branch)' \subseteq pending'[todo'[1].branch]
               ELSE todo'[i - 1].op = "seed" /\ todo'[i - 1].branch = todo'[i].branch
    <3>0. todo'[i] = todo[i + 1] /\ i + 1 \in 1..Len(todo) /\ i + 1 # 1 /\ (i + 1) - 1 = i
      BY <2>2
    <3>1. todo[i].op = "seed" /\ todo[i].branch = todo'[i].branch
      BY <1>0, <2>5, <3>0 DEF TodoOK
    <3>2. CASE i = 1
      <4>1. Seed
        BY <1>7, <2>2, <3>1, <3>2
        DEF Write, Mark, Unmark, Lapse, Clear, Refill, Delete, Record, Doing
      <4>2. todo[1].branch \in Branches BY <2>2, <3>1, <3>2, OfKind
      <4>3. pending'[todo[1].branch] = RecordOf(todo[1].branch) /\ UNCHANGED researched
        BY <1>0, <2>2, <4>1, <4>2 DEF Seed, TypeOK
      <4>4. QED BY <3>1, <3>2, <4>3 DEF RecordOf
    <3>3. CASE i # 1
      <4>1. i - 1 \in 1..Len(todo') BY <2>2, <3>3
      <4>2. todo'[i - 1] = todo[i] BY <2>2, <4>1
      <4>3. QED BY <3>1, <3>3, <4>2
    <3>4. QED BY <3>2, <3>3
  <2>6. QED BY <2>3, <2>4, <2>5 DEF TodoOK
<1>8. CASE todo' = <<>> BY <1>8, NothingTodo
<1>9. CASE UNCHANGED vars
  BY <1>0, <1>9 DEF vars, TodoOK, RecordOf
<1>10. QED
  BY <1>1, <1>2, <1>3, <1>4, <1>5, <1>6, <1>7, <1>8, <1>9
  DEF Next, Running, SiteStep, Idle, AtSite, StartLab, StartBuilding, StartUpgrade,
      CancelUpgrade, StartResearch, ResearchTick, Assign, Unassign, Crash

-----------------------------------------------------------------------------
(* The research queue and the books of the Reinstatement. *)

LEMMA StepJobs == IInv /\ [Next]_vars => JobsOK'
<1> SUFFICES ASSUME IInv, [Next]_vars PROVE JobsOK'
  OBVIOUS
<1>0. TypeOK /\ TodoOK /\ JobsOK BY DEF IInv
<1>1. ASSUME NEW t \in Techs, StartResearch(t) PROVE JobsOK'
  <2> DEFINE n == [tech |-> t, left |-> ResearchTicks, again |-> t \in researched]
  <2>1. /\ jobs' = jobs \cup {n} /\ \A j \in jobs : j.tech # t
        /\ t \in researched => t \in pending[TreeOf[t]]
        /\ UNCHANGED <<researched, pending>>
    BY <1>1 DEF StartResearch
  <2>2. n.tech = t /\ (n.again <=> t \in researched) OBVIOUS
  <2> HIDE DEF n
  <2>3. QED BY <1>0, <2>1, <2>2 DEF JobsOK
<1>2. CASE ResearchTick
  <2>1. \A j \in jobs : /\ [j EXCEPT !.left = @ - 1].tech = j.tech
                        /\ [j EXCEPT !.left = @ - 1].again = j.again
    BY <1>0 DEF TypeOK, Job
  <2>2. jobs' = {[j EXCEPT !.left = @ - 1] : j \in jobs} /\ UNCHANGED <<researched, pending>>
    BY <1>2 DEF ResearchTick
  <2>3. ASSUME NEW j \in jobs', NEW k \in jobs', j.tech = k.tech PROVE j = k
    <3>1. PICK i \in jobs : j = [i EXCEPT !.left = @ - 1] BY <2>2
    <3>2. PICK h \in jobs : k = [h EXCEPT !.left = @ - 1] BY <2>2
    <3>3. i.tech = h.tech BY <2>1, <2>3, <3>1, <3>2
    <3>4. QED BY <1>0, <3>1, <3>2, <3>3 DEF JobsOK
  <2>4. ASSUME NEW j \in jobs'
        PROVE  /\ j.again => j.tech \in researched' /\ j.tech \in pending'[TreeOf[j.tech]]
               /\ ~j.again => j.tech \notin researched'
    <3>1. PICK i \in jobs : j = [i EXCEPT !.left = @ - 1] BY <2>2
    <3>2. QED BY <1>0, <2>1, <2>2, <3>1 DEF JobsOK
  <2>5. QED BY <2>3, <2>4 DEF JobsOK
<1>3. ASSUME NEW j \in jobs, Finish(j) PROVE JobsOK'
  <2>1. jobs' = jobs \ {j} /\ UNCHANGED researched BY <1>3 DEF Finish
  <2>2. \A k \in jobs' : k \in jobs /\ k.tech # j.tech BY <1>0, <2>1 DEF JobsOK
  <2>3. ASSUME NEW k \in jobs', k.again PROVE k.tech \in pending'[TreeOf[k.tech]]
    <3>1. k.tech \in pending[TreeOf[k.tech]] /\ TreeOf[k.tech] \in Branches
      BY <1>0, <2>2, <2>3, BranchAssumption DEF JobsOK, TypeOK, Job
    <3>2. QED BY <1>0, <1>3, <2>2, <3>1 DEF Finish, TypeOK
  <2>4. QED BY <1>0, <2>1, <2>2, <2>3 DEF JobsOK
<1>4. CASE Seed
  <2>1. todo # <<>> /\ Head(todo).op = "seed" /\ todo' = Tail(todo)
        /\ UNCHANGED <<jobs, researched>>
    BY <1>4 DEF Seed, Doing
  <2>2. ASSUME NEW j \in jobs, j.again PROVE j.tech \in pending'[TreeOf[j.tech]]
    <3>1. /\ j.tech \in researched /\ j.tech \in pending[TreeOf[j.tech]]
          /\ TreeOf[j.tech] \in Branches
      BY <1>0, <2>2, BranchAssumption DEF JobsOK, TypeOK, Job
    <3>2. QED BY <1>0, <1>4, <3>1 DEF Seed, TypeOK, RecordOf
  <2>3. QED BY <1>0, <2>1, <2>2 DEF JobsOK
<1>5. CASE Record
  <2>1. todo # <<>> /\ Head(todo).op = "record" /\ todo' = Tail(todo)
        /\ researched' = researched \cup {Head(todo).tech}
        /\ UNCHANGED <<jobs, pending>>
    BY <1>5 DEF Record, Doing
  <2>2. Head(todo) = todo[1] /\ 1 \in 1..Len(todo) BY <1>0, <2>1, Advance
  <2>3. \A j \in jobs : j.tech # Head(todo).tech BY <1>0, <2>1, <2>2 DEF TodoOK
  <2>4. QED BY <1>0, <2>1, <2>3 DEF JobsOK
<1>6. CASE jobs' = {} BY <1>6 DEF JobsOK
<1>7. CASE UNCHANGED <<jobs, researched, pending>> BY <1>0, <1>7 DEF JobsOK
<1>8. QED
  BY <1>1, <1>2, <1>3, <1>4, <1>5, <1>6, <1>7
  DEF Next, Running, SiteStep, Write, vars, StartLab, StartBuilding, StartUpgrade,
      CancelUpgrade, Work, Demolish, Destroy, Travel, Assign, Unassign, Login,
      Mark, Unmark, Lapse, Clear, Refill, Delete, Crash

LEMMA StepDebt ==
    IInv /\ [Next]_vars => DebtRemembered' /\ (debt \subseteq researched)'
<1> SUFFICES ASSUME IInv, [Next]_vars
             PROVE  DebtRemembered' /\ (debt \subseteq researched)'
  OBVIOUS
<1>0. TypeOK /\ TodoOK /\ DebtRemembered /\ debt \subseteq researched BY DEF IInv
<1>1. ASSUME NEW j \in jobs, Finish(j)
      PROVE  DebtRemembered' /\ (debt \subseteq researched)'
  <2>1. \A t \in debt : TreeOf[t] \in Branches BY <1>0, BranchAssumption DEF TypeOK
  <2>2. ASSUME NEW t \in debt' PROVE TreeOf[t] \in abandoned' \/ t \in pending'[TreeOf[t]]
    <3>1. t \in debt /\ (j.again => t # j.tech) BY <1>1 DEF Finish
    <3>2. QED BY <1>0, <1>1, <2>1, <3>1 DEF Finish, DebtRemembered, TypeOK
  <2>3. QED BY <1>0, <1>1, <2>2 DEF Finish, DebtRemembered
<1>2. CASE Mark
  <2>1. debt' = debt \cup RecordOf(Head(todo).branch)
        /\ abandoned' = abandoned \cup {Head(todo).branch}
        /\ UNCHANGED <<researched, pending>>
    BY <1>2 DEF Mark
  <2>2. QED BY <1>0, <2>1 DEF RecordOf, DebtRemembered
<1>3. CASE Seed
  <2>1. UNCHANGED <<debt, abandoned, researched>> BY <1>3 DEF Seed
  <2>2. ASSUME NEW t \in debt PROVE TreeOf[t] \in abandoned \/ t \in pending'[TreeOf[t]]
    <3>1. t \in researched /\ TreeOf[t] \in Branches
      BY <1>0, BranchAssumption DEF TypeOK
    <3>2. QED BY <1>0, <1>3, <3>1 DEF Seed, TypeOK, RecordOf, DebtRemembered
  <2>3. QED BY <1>0, <2>1, <2>2 DEF DebtRemembered
<1>4. CASE Unmark
  <2>1. /\ todo # <<>> /\ Head(todo).op = "unmark" /\ todo' = Tail(todo)
        /\ abandoned' = abandoned \ {Head(todo).branch}
        /\ UNCHANGED <<debt, researched, pending>>
    BY <1>4 DEF Unmark, Doing
  <2>2. Head(todo) = todo[1] /\ 1 \in 1..Len(todo) BY <1>0, <2>1, Advance
  <2>3. RecordOf(Head(todo).branch) \subseteq pending[Head(todo).branch]
    BY <1>0, <2>1, <2>2 DEF TodoOK
  <2>4. QED BY <1>0, <2>1, <2>3 DEF RecordOf, DebtRemembered
<1>5. CASE Record BY <1>0, <1>5 DEF Record, DebtRemembered
<1>6. CASE UNCHANGED <<debt, researched, abandoned, pending>>
  BY <1>0, <1>6 DEF DebtRemembered
<1>7. QED
  BY <1>1, <1>2, <1>3, <1>4, <1>5, <1>6
  DEF Next, Running, SiteStep, Write, vars, StartLab, StartBuilding, StartUpgrade,
      CancelUpgrade, Work, Demolish, Destroy, Travel, StartResearch, ResearchTick,
      Assign, Unassign, Login, Lapse, Clear, Refill, Delete, Crash

LEMMA StepHostile == IInv /\ [Next]_vars => HostileLossIsFree'
<1> SUFFICES ASSUME IInv, [Next]_vars PROVE HostileLossIsFree'
  OBVIOUS
<1>0. TypeOK /\ TodoOK /\ HostileLossIsFree BY DEF IInv
<1>1. ASSUME NEW s \in Sites, Demolish(s) PROVE HostileLossIsFree'
  BY <1>0, <1>1 DEF Demolish, HostileLossIsFree
<1>2. ASSUME NEW j \in jobs, Finish(j) PROVE HostileLossIsFree'
  BY <1>0, <1>2 DEF Finish, HostileLossIsFree, TypeOK
<1>3. CASE Mark \/ Seed
  <2>1. /\ todo # <<>> /\ Head(todo).op \in {"mark", "seed"} /\ todo' = Tail(todo)
        /\ UNCHANGED quits
    BY <1>3 DEF Mark, Seed, Doing
  <2>2. Head(todo) = todo[1] /\ 1 \in 1..Len(todo) BY <1>0, <2>1, Advance
  <2>3. Head(todo).branch \in quits BY <1>0, <2>1, <2>2 DEF TodoOK
  <2>4. QED BY <1>0, <1>3, <2>1, <2>3 DEF Mark, Seed, HostileLossIsFree, TypeOK
<1>4. CASE Unmark BY <1>0, <1>4 DEF Unmark, HostileLossIsFree
<1>5. CASE UNCHANGED <<abandoned, pending, quits>>
  BY <1>0, <1>5 DEF HostileLossIsFree
<1>6. QED
  BY <1>1, <1>2, <1>3, <1>4, <1>5
  DEF Next, Running, SiteStep, Write, vars, StartLab, StartBuilding, StartUpgrade,
      CancelUpgrade, Work, Destroy, Travel, StartResearch, ResearchTick,
      Assign, Unassign, Login, Lapse, Clear, Refill, Delete, Record, Crash

-----------------------------------------------------------------------------
LEMMA InitInv == Init => IInv
<1> SUFFICES ASSUME Init PROVE IInv OBVIOUS
<1>1. TypeOK BY InitTypes
<1>2. TodoOK
  <2>1. Len(todo) = 0 BY DEF Init
  <2>2. QED BY <2>1 DEF TodoOK
<1>3. JobsOK /\ DebtRemembered /\ debt \subseteq researched
  BY DEF Init, JobsOK, DebtRemembered
<1>4. OneBranchPerPlanet /\ HostileLossIsFree
  BY DEF Init, OneBranchPerPlanet, HostileLossIsFree, Stands
<1>5. QED BY <1>1, <1>2, <1>3, <1>4 DEF IInv

LEMMA StepInv == IInv /\ [Next]_vars => IInv'
BY StepTypes, StepTodo, StepJobs, StepOneBranch, StepDebt, StepHostile DEF IInv

LEMMA Inductive == Spec => []IInv
BY InitInv, StepInv, PTL DEF Spec

(* Every reachable state is well typed.                                    *)
THEOREM TypeCorrect == Spec => []TypeOK
<1>1. IInv => TypeOK BY DEF IInv
<1>2. QED BY <1>1, Inductive, PTL

(* A planet is committed to one doctrine, in whatever order labs and       *)
(* Branch buildings are started, upgraded, finished, demolished and lost.  *)
(* (start_construction, upgrade and demolition in building_system.py)      *)
THEOREM OneDoctrine == Spec => []OneBranchPerPlanet
<1>1. IInv => OneBranchPerPlanet BY DEF IInv
<1>2. QED BY <1>1, Inductive, PTL

(* What a demolition put in debt stays owed until its Reinstatement is     *)
(* done, wherever the process dies.  (_seed_reinstatement)                 *)
THEOREM NoDebtForgotten == Spec => []DebtRemembered
<1>1. IInv => DebtRemembered BY DEF IInv
<1>2. QED BY <1>1, Inductive, PTL

(* Only Branches the player demolished a lab of ever owe a Reinstatement.  *)
(* (on_building_destroyed)                                                 *)
THEOREM NoDebtInvented == Spec => []HostileLossIsFree
<1>1. IInv => HostileLossIsFree BY DEF IInv
<1>2. QED BY <1>1, Inductive, PTL

(* Between handlers, a first-time job researches what is not on record and *)
(* a Reinstatement job what is still owed.  (start_research)               *)
THEOREM JobsWorthTheirPrice == Spec => []NoJobForNothing
<1>1. IInv => NoJobForNothing BY DEF IInv, JobsOK, NoJobForNothing
<1>2. QED BY <1>1, Inductive, PTL
=============================================================================
