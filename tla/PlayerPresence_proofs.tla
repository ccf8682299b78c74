------------------------ MODULE PlayerPresence_proofs ------------------------
(***************************************************************************)
(* A player in the field is real, and leaves it only by dying, by asking   *)
(* out of combat or by the whole grace period, for any number of players,  *)
(* any board and any grace.  The invariant is about one player at a time:  *)
(* what the lifecycle state says of class, body and deadline.  A step of   *)
(* the world either leaves a player where they are, or kills them          *)
(* (Endures); only the hooks of the lifecycle do more, each on its own.    *)
(***************************************************************************)
EXTENDS PlayerPresence, TLAPS

LEMMA Limits ==
    /\ {MaxHp, Duration, Grace, BurnTicks} \subseteq Nat
    /\ MaxHp \in 0..MaxHp /\ 0 \in 0..BurnTicks /\ BurnTicks \in 0..BurnTicks
    /\ 0 \in 0..Duration /\ Duration \in 0..Duration
    /\ 0 \in 0..Grace /\ Grace \in 0..Grace /\ Grace > 0
BY PresenceAssumption

(* What the lifecycle state of a player says about the rest of the record: *)
(* a class from the lobby on, a body in the field, and, while linkdead, a  *)
(* session lost and a deadline that with the time served makes the grace.  *)
Sound(r) ==
    /\ r \in PlayerRecord
    /\ r.state \in {"LOBBY", "PLAYING", "LINKDEAD"} => r.class
    /\ InField(r) => r.located
    /\ r.state = "LINKDEAD" => ~r.puppeted /\ r.away + r.grace = Grace

IInv ==
    /\ \A p \in Players : Sound(pl[p])
    /\ pl \in [Players -> PlayerRecord]
    /\ pending \in Seq(Shot) /\ batch \in Seq(Shot)
    /\ stage \in Stages

(* The two rules of leaving the field, for one player.                     *)
Lawful(r, s) ==
    /\ InField(r) /\ InCombat(r) /\ ~InField(s) =>
          s.state = "SPAWNING" \/ (r.state = "LINKDEAD" /\ r.away = Grace)
    /\ r.state = "LINKDEAD" /\ s.state = "LOBBY" => r.away = Grace

(* A player who stays in the lifecycle state they are in, or dies.         *)
Endures(r, s) == Sound(s) /\ s.state \in {r.state, "SPAWNING"}

LEMMA EnduringIsLawful ==
    ASSUME NEW r, NEW s, Endures(r, s)
    PROVE  Lawful(r, s)
BY DEF Endures, Lawful, InField

LEMMA EndureTwice ==
    ASSUME NEW r, NEW s, NEW t, Endures(r, s), Endures(s, t)
    PROVE  Endures(r, t)
BY DEF Endures

LEMMA Inaction == ASSUME NEW r, Sound(r) PROVE Endures(r, r)
BY DEF Endures

-----------------------------------------------------------------------------
(* The operators of the world, each on one record. *)
LEMMA UnlockEndures == ASSUME NEW r, Sound(r) PROVE Endures(r, Unlock(r))
BY DEF Endures, Sound, Unlock, PlayerRecord, InField

LEMMA EngagedEndures == ASSUME NEW r, Sound(r) PROVE Endures(r, Engaged(r))
BY PresenceAssumption DEF Endures, Sound, Engaged, PlayerRecord, InField

LEMMA DefeatEndures ==
    ASSUME NEW r, Sound(r)
    PROVE  Endures(r, Defeat(r)) /\ Defeat(r).state = "SPAWNING"
<1> DEFINE a == [r EXCEPT !.hp = MaxHp, !.burn = 0]
           b == [a EXCEPT !.class = FALSE, !.choice = FALSE]
           c == Transition(b, "SPAWNING")
<1>0. a \in PlayerRecord /\ a.state = r.state
  BY Limits DEF Sound, PlayerRecord
<1> HIDE DEF a
<1>1. b \in PlayerRecord /\ b.state = r.state
  BY <1>0 DEF PlayerRecord
<1> HIDE DEF b
<1>2. c \in PlayerRecord /\ c.state = "SPAWNING"
  BY <1>1 DEF Transition, PlayerRecord, States, Edges
<1>3. Stow(c) \in PlayerRecord /\ Stow(c).state = "SPAWNING"
  BY <1>2 DEF Stow, PlayerRecord
<1>4. Defeat(r) = Stow(c) BY DEF Defeat, RecordDeath, a, b
<1> QED BY <1>3, <1>4 DEF Endures, Sound, InField

LEMMA HurtEndures ==
    ASSUME NEW r, Sound(r)
    PROVE  Endures(r, Hurt(r))
<1>1. CASE r.hp <= 1 BY <1>1, DefeatEndures DEF Hurt
<1>2. CASE ~(r.hp <= 1)
  <2>1. r.hp \in 0..MaxHp /\ r.hp - 1 \in 0..MaxHp
    BY <1>2, PresenceAssumption DEF Sound, PlayerRecord
  <2> QED BY <1>2, <2>1 DEF Hurt, Endures, Sound, PlayerRecord, InField
<1> QED BY <1>1, <1>2

LEMMA StruckEndures ==
    ASSUME NEW r, Sound(r), NEW fire \in BOOLEAN
    PROVE  Endures(r, Struck(r, fire))
<1> DEFINE a == [r EXCEPT !.fight = Duration, !.burn = IF fire THEN BurnTicks ELSE @]
<1>0. (IF fire THEN BurnTicks ELSE r.burn) \in 0..BurnTicks
  BY Limits DEF Sound, PlayerRecord
<1>1. Endures(r, a) BY <1>0, Limits DEF Endures, Sound, PlayerRecord, InField
<1>2. Endures(a, Hurt(a)) BY <1>1, HurtEndures DEF Endures
<1> HIDE DEF a
<1>3. Endures(r, Hurt(a)) BY <1>1, <1>2, EndureTwice
<1> QED BY <1>3 DEF Struck, a

LEMMA LessFacts ==
    ASSUME NEW m \in Nat, NEW n \in 0..m
    PROVE  Less(n) \in 0..m
BY DEF Less

LEMMA BurnedEndures ==
    ASSUME NEW r, Sound(r)
    PROVE  Endures(r, Burned(r))
<1>1. CASE ~(r.puppeted /\ r.burn > 0) BY <1>1, Inaction DEF Burned
<1>2. CASE r.puppeted /\ r.burn > 0
  <2> DEFINE h == Hurt(r)
  <2>1. Endures(r, h) BY HurtEndures
  <2> HIDE DEF h
  <2>2. Less(h.burn) \in 0..BurnTicks
    BY <2>1, PresenceAssumption, LessFacts DEF Endures, Sound, PlayerRecord
  <2>3. Endures(r, [h EXCEPT !.burn = Less(@)])
    BY <2>1, <2>2 DEF Endures, Sound, PlayerRecord, InField
  <2> QED BY <1>2, <2>3 DEF Burned, h
<1> QED BY <1>1, <1>2

LEMMA HealedEndures ==
    ASSUME NEW r, Sound(r)
    PROVE  Endures(r, Healed(r))
<1>1. CASE ~(r.puppeted /\ r.hp \in 1..(MaxHp - 1)) BY <1>1, Inaction DEF Healed
<1>2. CASE r.puppeted /\ r.hp \in 1..(MaxHp - 1)
  <2>1. r.hp + 1 \in 0..MaxHp BY <1>2, PresenceAssumption
  <2> QED BY <1>2, <2>1 DEF Healed, Endures, Sound, PlayerRecord, InField
<1> QED BY <1>1, <1>2

LEMMA AimEndures ==
    ASSUME NEW r, Sound(r)
    PROVE  Endures(r, Aim(r))
<1>1. Endures(r, [r EXCEPT !.ready = TRUE])
  BY DEF Endures, Sound, PlayerRecord, InField
<1> QED BY <1>1, Inaction, UnlockEndures DEF Aim

(* A tick serves as much of the grace as it takes from the deadline.       *)
LEMMA AgedEndures ==
    ASSUME NEW r, Sound(r)
    PROVE  Endures(r, Aged(r))
<1> DEFINE away == IF r.state = "LINKDEAD" /\ r.away < Grace THEN r.away + 1 ELSE r.away
<1>1. r.fight \in 0..Duration /\ r.grace \in 0..Grace /\ r.away \in 0..Grace
  BY DEF Sound, PlayerRecord
<1>2. Less(r.fight) \in 0..Duration /\ Less(r.grace) \in 0..Grace
  BY <1>1, PresenceAssumption, LessFacts
<1>3. away \in 0..Grace BY <1>1, PresenceAssumption
<1>4. r.state = "LINKDEAD" => away + Less(r.grace) = Grace
  BY <1>1, PresenceAssumption DEF Less, Sound
<1>5. Aged(r) = [r EXCEPT !.fight = Less(r.fight), !.grace = Less(r.grace), !.away = away]
  BY DEF Aged, Sound, PlayerRecord
<1> HIDE DEF away
<1> QED BY <1>2, <1>3, <1>4, <1>5 DEF Endures, Sound, PlayerRecord, InField

-----------------------------------------------------------------------------
LEMMA InitSound == Init => IInv
BY PresenceAssumption DEF Init, IInv, Sound, PlayerRecord, States, Stages, InField, Shot

-----------------------------------------------------------------------------
(* The hooks of the lifecycle, each on one record. *)
Good(r, s) == Sound(s) /\ Lawful(r, s)

LEMMA EnduringIsGood ==
    ASSUME NEW r, NEW s, Endures(r, s)
    PROVE  Good(r, s)
BY EnduringIsLawful DEF Good, Endures

LEMMA TransitionFacts ==
    ASSUME NEW r \in PlayerRecord, NEW s \in States
    PROVE  /\ Transition(r, s) \in PlayerRecord
           /\ Transition(r, s).state =
                 IF r.state = "none" \/ <<r.state, s>> \in Edges THEN s ELSE r.state
           /\ Transition(r, s).class = r.class
           /\ Transition(r, s).located = r.located
           /\ Transition(r, s).away = r.away /\ Transition(r, s).grace = r.grace
           /\ Transition(r, s).choice = r.choice
           /\ Transition(r, s).puppeted = r.puppeted
BY DEF Transition, PlayerRecord

LEMMA StowFacts ==
    ASSUME NEW r \in PlayerRecord
    PROVE  /\ Stow(r) \in PlayerRecord
           /\ Stow(r).state = r.state /\ Stow(r).class = r.class
           /\ Stow(r).choice = r.choice
           /\ Stow(r).away = r.away /\ Stow(r).grace = r.grace
BY DEF Stow, PlayerRecord

(* A login leads from every state into one whose claims hold.              *)
LEMMA LoginGood ==
    ASSUME NEW r, Sound(r)
    PROVE  Good(r, Routed([r EXCEPT !.puppeted = TRUE, !.located = TRUE]))
<1> DEFINE in == [r EXCEPT !.puppeted = TRUE, !.located = TRUE]
<1>1. /\ in \in PlayerRecord /\ in.state = r.state /\ in.class = r.class
      /\ in.located /\ in.away = r.away /\ in.grace = r.grace
  BY DEF Sound, PlayerRecord
<1> HIDE DEF in
<1>2. r.state \in States BY DEF Sound, PlayerRecord
<1>3. CASE r.state \in {"none", "SPAWNING"}
  <2> DEFINE a == Stow(Transition(in, "SPAWNING"))
  <2>0. /\ Transition(in, "SPAWNING") \in PlayerRecord
        /\ Transition(in, "SPAWNING").state = "SPAWNING"
        /\ Transition(in, "SPAWNING").class = r.class
    BY <1>1, <1>3, TransitionFacts DEF States, Edges
  <2>1. a \in PlayerRecord /\ a.state = "SPAWNING" /\ a.class = r.class
    BY <2>0, StowFacts
  <2> HIDE DEF a
  <2>2. /\ Transition(a, "LOBBY") \in PlayerRecord
        /\ Transition(a, "LOBBY").state = "LOBBY"
        /\ Transition(a, "LOBBY").class = a.class
    BY <2>1, TransitionFacts DEF States, Edges
  <2>3. Sound(Advance(a)) BY <2>1, <2>2 DEF Advance, Sound, InField
  <2>4. Routed(in) = Advance(a) BY <1>1, <1>3 DEF Routed, a
  <2> QED BY <1>3, <2>3, <2>4 DEF Good, Lawful, InField, in
<1>4. CASE r.state \in {"PLAYING", "LINKDEAD"}
  <2> DEFINE a == [in EXCEPT !.grace = 0]
  <2>1. a \in PlayerRecord /\ a.state = r.state /\ a.class = r.class /\ a.located
    BY <1>1, Limits DEF PlayerRecord
  <2> HIDE DEF a
  <2>2. /\ Transition(a, "PLAYING") \in PlayerRecord
        /\ Transition(a, "PLAYING").state = "PLAYING"
        /\ Transition(a, "PLAYING").class = r.class
        /\ Transition(a, "PLAYING").located
    BY <1>4, <2>1, TransitionFacts DEF States, Edges
  <2>3. Routed(in) = Transition(a, "PLAYING") BY <1>1, <1>4 DEF Routed, a
  <2> QED BY <1>4, <2>2, <2>3 DEF Good, Lawful, InField, Sound, in
<1>5. CASE r.state = "LOBBY"
  <2>1. Routed(in) = in BY <1>1, <1>5 DEF Routed
  <2> QED BY <1>1, <1>5, <2>1 DEF Good, Lawful, InField, Sound, in
<1> QED BY <1>2, <1>3, <1>4, <1>5 DEF States

LEMMA StandDown ==
    ASSUME NEW r, Sound(r), ~InField(r), NEW b \in BOOLEAN
    PROVE  Good(r, Stow([r EXCEPT !.puppeted = b]))
BY DEF Good, Sound, Lawful, Stow, InField, PlayerRecord

(* A drop in the field writes a deadline that nobody has served any of.    *)
LEMMA DropGood ==
    ASSUME NEW r, Sound(r), r.puppeted
    PROVE  Good(r, Unpuppeted(r, FALSE))
<1> DEFINE out == [r EXCEPT !.puppeted = FALSE]
           a == [out EXCEPT !.grace = Grace, !.away = 0]
<1>1. CASE r.state # "PLAYING"
  <2>1. Unpuppeted(r, FALSE) = Stow(out) BY <1>1 DEF Unpuppeted, Sound, PlayerRecord
  <2>2. ~InField(r) BY <1>1 DEF InField, Sound
  <2> QED BY <2>1, <2>2, StandDown
<1>2. CASE r.state = "PLAYING"
  <2>1. out \in PlayerRecord /\ out.state = r.state /\ out.class = r.class
          /\ out.located = r.located /\ ~out.puppeted
    BY DEF Sound, PlayerRecord
  <2> HIDE DEF out
  <2>2. a \in PlayerRecord /\ a.state = "PLAYING" /\ a.class = r.class
          /\ a.located = r.located /\ a.grace = Grace /\ a.away = 0 /\ ~a.puppeted
    BY <1>2, <2>1, Limits DEF PlayerRecord
  <2> HIDE DEF a
  <2>3. /\ Transition(a, "LINKDEAD") \in PlayerRecord
        /\ Transition(a, "LINKDEAD").state = "LINKDEAD"
        /\ Transition(a, "LINKDEAD").class = r.class
        /\ Transition(a, "LINKDEAD").located = r.located
        /\ Transition(a, "LINKDEAD").away = 0
        /\ Transition(a, "LINKDEAD").grace = Grace
        /\ ~Transition(a, "LINKDEAD").puppeted
    BY <2>2, TransitionFacts DEF States, Edges
  <2>4. Unpuppeted(r, FALSE) = Transition(a, "LINKDEAD")
    BY <1>2 DEF Unpuppeted, BeginLinkdead, a, out, Sound, PlayerRecord
  <2>5. r.class /\ r.located BY <1>2 DEF Sound, InField
  <2>6. 0 + Grace = Grace BY Limits
  <2> QED BY <1>2, <2>3, <2>4, <2>5, <2>6 DEF Good, Sound, Lawful, InField
<1> QED BY <1>1, <1>2

LEMMA QuitStagingGood ==
    ASSUME NEW r, Sound(r), r.state \in {"SPAWNING", "LOBBY"}
    PROVE  Good(r, Unpuppeted(r, TRUE))
<1>1. ~InField(r) BY DEF InField
<1>2. Unpuppeted(r, TRUE) = Stow([r EXCEPT !.puppeted = FALSE])
  BY DEF Unpuppeted, Sound, PlayerRecord
<1> QED BY <1>1, <1>2, StandDown

(* The one way out of the field alive and on one's feet: out of combat.    *)
LEMMA RetreatGood ==
    ASSUME NEW r, Sound(r), r.state = "PLAYING", ~InCombat(r)
    PROVE  Good(r, Stow(Transition(r, "LOBBY")))
<1> DEFINE a == Transition(r, "LOBBY")
<1>1. r \in PlayerRecord /\ r.class BY DEF Sound
<1>2. a \in PlayerRecord /\ a.state = "LOBBY" /\ a.class = r.class
  BY <1>1, TransitionFacts DEF States, Edges
<1> HIDE DEF a
<1>3. Stow(a) \in PlayerRecord /\ Stow(a).state = "LOBBY" /\ Stow(a).class = r.class
  BY <1>2, StowFacts
<1> QED BY <1>1, <1>3 DEF Good, Sound, Lawful, InField, a

(* Expiry: the deadline is over, so the whole grace has been served.       *)
LEMMA ExpiryGood ==
    ASSUME NEW r, Sound(r)
    PROVE  Good(r, ExpireLinkdead(r))
<1> DEFINE a == Transition(r, "LOBBY")
<1>1. CASE ~(r.state = "LINKDEAD" /\ r.grace = 0)
  BY <1>1, Inaction, EnduringIsGood DEF ExpireLinkdead
<1>2. CASE r.state = "LINKDEAD" /\ r.grace = 0
  <2>1. r \in PlayerRecord /\ r.class BY <1>2 DEF Sound
  <2>2. a \in PlayerRecord /\ a.state = "LOBBY" /\ a.class = r.class
    BY <1>2, <2>1, TransitionFacts DEF States, Edges
  <2> HIDE DEF a
  <2>3. Stow(a) \in PlayerRecord /\ Stow(a).state = "LOBBY" /\ Stow(a).class = r.class
    BY <2>2, StowFacts
  <2>4. r.away = Grace
    <3>1. r.away + r.grace = Grace /\ r.grace = 0 BY <1>2 DEF Sound
    <3>2. r.away \in 0..Grace BY DEF Sound, PlayerRecord
    <3> QED BY <3>1, <3>2, Limits
  <2>5. ExpireLinkdead(r) = Stow(a) BY <1>2 DEF ExpireLinkdead, a
  <2> QED BY <1>2, <2>1, <2>3, <2>4, <2>5 DEF Good, Sound, Lawful, InField
<1> QED BY <1>1, <1>2

(* Spawning goes to the lobby with a class, and to nowhere else.           *)
LEMMA ChoiceGood ==
    ASSUME NEW r, Sound(r), r.state = "SPAWNING"
    PROVE  /\ Good(r, Advance([r EXCEPT !.class = TRUE]))
           /\ Good(r, Advance([r EXCEPT !.choice = TRUE]))
<1>1. ASSUME NEW a \in PlayerRecord, a.state = "SPAWNING"
      PROVE  Good(r, Advance(a))
  <2>1. /\ Transition(a, "LOBBY") \in PlayerRecord
        /\ Transition(a, "LOBBY").state = "LOBBY"
        /\ Transition(a, "LOBBY").class = a.class
    BY <1>1, TransitionFacts DEF States, Edges
  <2>2. Sound(Advance(a)) BY <1>1, <2>1 DEF Advance, Sound, InField
  <2> QED BY <2>2 DEF Good, Lawful, InField
<1>2. /\ [r EXCEPT !.class = TRUE] \in PlayerRecord
      /\ [r EXCEPT !.class = TRUE].state = "SPAWNING"
      /\ [r EXCEPT !.choice = TRUE] \in PlayerRecord
      /\ [r EXCEPT !.choice = TRUE].state = "SPAWNING"
  BY DEF Sound, PlayerRecord
<1> QED BY <1>1, <1>2

LEMMA MoveToFacts ==
    ASSUME NEW r \in PlayerRecord, NEW x \in Tiles
    PROVE  /\ MoveTo(r, x) \in PlayerRecord
           /\ MoveTo(r, x).state = r.state /\ MoveTo(r, x).class = r.class
           /\ MoveTo(r, x).located /\ MoveTo(r, x).puppeted = r.puppeted
           /\ MoveTo(r, x).away = r.away /\ MoveTo(r, x).grace = r.grace
<1>1. /\ Unlock(r) \in PlayerRecord
      /\ Unlock(r).state = r.state /\ Unlock(r).class = r.class
      /\ Unlock(r).puppeted = r.puppeted
      /\ Unlock(r).away = r.away /\ Unlock(r).grace = r.grace
  BY DEF Unlock, PlayerRecord
<1> DEFINE u == Unlock(r)
<1>2. MoveTo(r, x) = [u EXCEPT !.tile = x, !.located = TRUE] BY DEF MoveTo
<1>3. u \in PlayerRecord BY <1>1
<1> HIDE DEF u
<1>4. /\ MoveTo(r, x) \in PlayerRecord /\ MoveTo(r, x).located
      /\ MoveTo(r, x).state = u.state /\ MoveTo(r, x).class = u.class
      /\ MoveTo(r, x).puppeted = u.puppeted
      /\ MoveTo(r, x).away = u.away /\ MoveTo(r, x).grace = u.grace
  BY <1>2, <1>3 DEF PlayerRecord
<1> QED BY <1>1, <1>4 DEF u

(* A deployment that succeeds ends with a body on the grid.                *)
LEMMA DeployGood ==
    ASSUME NEW r, Sound(r), r.state = "LOBBY", NEW s \in Placed(r)
    PROVE  Good(r, Transition([s EXCEPT !.choice = FALSE, !.fight = 0], "PLAYING"))
<1> DEFINE a == [s EXCEPT !.choice = FALSE, !.fight = 0]
<1>1. r \in PlayerRecord /\ r.class /\ r.tile \in Tiles BY DEF Sound, PlayerRecord
<1>2. /\ s \in PlayerRecord /\ s.state = "LOBBY" /\ s.class /\ s.located
  <2>1. CASE \E x \in Tiles : s = MoveTo(r, x) BY <1>1, <2>1, MoveToFacts
  <2>2. CASE s = r /\ r.located BY <1>1, <2>2
  <2> QED BY <1>1, <2>1, <2>2 DEF Placed
<1>3. a \in PlayerRecord /\ a.state = "LOBBY" /\ a.class /\ a.located
  BY <1>2, Limits DEF PlayerRecord
<1> HIDE DEF a
<1>4. /\ Transition(a, "PLAYING") \in PlayerRecord
      /\ Transition(a, "PLAYING").state = "PLAYING"
      /\ Transition(a, "PLAYING").class /\ Transition(a, "PLAYING").located
  BY <1>3, TransitionFacts DEF States, Edges
<1> QED BY <1>4 DEF Good, Sound, Lawful, InField, a

LEMMA DeployFailsGood ==
    ASSUME NEW r, Sound(r), r.state = "LOBBY"
    PROVE  Good(r, Transition([r EXCEPT !.choice = FALSE], "SPAWNING"))
<1> DEFINE a == [r EXCEPT !.choice = FALSE]
<1>1. a \in PlayerRecord /\ a.state = "LOBBY" BY DEF Sound, PlayerRecord
<1> HIDE DEF a
<1>2. /\ Transition(a, "SPAWNING") \in PlayerRecord
      /\ Transition(a, "SPAWNING").state = "SPAWNING"
  BY <1>1, TransitionFacts DEF States, Edges
<1> QED BY <1>2 DEF Good, Sound, Lawful, InField, a

-----------------------------------------------------------------------------
(* The steps.  All that is left to show of each is whose record it moves.  *)
Progress == IInv' /\ (\A q \in Players : Lawful(pl[q], pl'[q]))

LEMMA CommandProgress ==
    ASSUME IInv, NEW p \in Players, NEW r, Good(pl[p], r), Command(p, r)
    PROVE  Progress
<1>1. pl' = [pl EXCEPT ![p] = r] /\ r \in PlayerRecord
  BY DEF Command, Good, Sound
<1>2. ASSUME NEW q \in Players PROVE Good(pl[q], pl'[q])
  <2>1. Good(pl[q], pl[q]) BY Inaction, EnduringIsGood DEF IInv
  <2> QED BY <1>1, <2>1 DEF IInv
<1>3. pl' \in [Players -> PlayerRecord] BY <1>1 DEF IInv
<1>4. pending' \in Seq(Shot) /\ batch' \in Seq(Shot) /\ stage' \in Stages
  BY DEF Command, IInv
<1> QED BY <1>2, <1>3, <1>4 DEF Progress, IInv, Good, Sound, InField

LEMMA WorldProgress ==
    ASSUME pl' \in [Players -> PlayerRecord],
           \A q \in Players : Good(pl[q], pl'[q]),
           pending' \in Seq(Shot), batch' \in Seq(Shot), stage' \in Stages
    PROVE  Progress
BY DEF Progress, IInv, Good, Sound, InField

LEMMA StillnessProgress ==
    ASSUME IInv, pl' = pl,
           pending' \in Seq(Shot), batch' \in Seq(Shot), stage' \in Stages
    PROVE  Progress
<1>1. ASSUME NEW q \in Players PROVE Good(pl[q], pl'[q])
  BY Inaction, EnduringIsGood DEF IInv
<1>2. pl' \in [Players -> PlayerRecord] BY DEF IInv
<1> QED BY <1>1, <1>2, WorldProgress

(* A shot of a player: both sides endure it.                               *)
LEMMA FireProgress ==
    ASSUME IInv, NEW p \in Players, NEW t \in Players,
           NEW hit \in BOOLEAN, NEW fire \in BOOLEAN, Fire(p, t, hit, fire)
    PROVE  Progress
<1>1. ASSUME NEW q \in Players PROVE Endures(pl[q], pl'[q])
  <2>1. Sound(pl[q]) BY DEF IInv
  <2>2. pl'[q] \in {Struck(pl[q], fire), Engaged(pl[q]), pl[q]} BY DEF Fire
  <2> QED BY <2>1, <2>2, StruckEndures, EngagedEndures, Inaction
<1>2. pl' = [q \in Players |-> pl'[q]] BY DEF Fire
<1>3. \A q \in Players : pl'[q] \in PlayerRecord BY <1>1 DEF Endures, Sound
<1>4. pl' \in [Players -> PlayerRecord] BY <1>2, <1>3
<1>5. \A q \in Players : Good(pl[q], pl'[q]) BY <1>1, EnduringIsGood
<1>6. pending' \in Seq(Shot) /\ batch' \in Seq(Shot) /\ stage' \in Stages
  BY DEF Fire, IInv
<1> QED BY <1>4, <1>5, <1>6, WorldProgress

LEMMA PlayerProgress ==
    ASSUME IInv, NEW p \in Players, PlayerStep(p)
    PROVE  Progress
<1> DEFINE r == pl[p]
<1>0. Sound(r) /\ r \in PlayerRecord BY DEF IInv
<1>1. CASE Login(p) BY <1>0, <1>1, LoginGood, CommandProgress DEF Login
<1>2. CASE Disconnect(p) BY <1>0, <1>2, DropGood, CommandProgress DEF Disconnect
<1>3. CASE QuitField(p)
  BY <1>0, <1>3, RetreatGood, CommandProgress DEF QuitField, InGame
<1>4. CASE QuitStaging(p)
  BY <1>0, <1>4, QuitStagingGood, CommandProgress DEF QuitStaging
<1>5. CASE ChooseClass(p) BY <1>0, <1>5, ChoiceGood, CommandProgress DEF ChooseClass
<1>6. CASE ChooseSpawn(p) BY <1>0, <1>6, ChoiceGood, CommandProgress DEF ChooseSpawn
<1>7. CASE Deploy(p) BY <1>0, <1>7, DeployGood, CommandProgress DEF Deploy
<1>8. CASE DeployFails(p)
  BY <1>0, <1>8, DeployFailsGood, CommandProgress DEF DeployFails
<1>9. ASSUME NEW x \in Tiles, Walk(p, x) PROVE Progress
  <2>1. MoveTo(r, x).state = r.state /\ Sound(MoveTo(r, x))
    BY <1>0, MoveToFacts DEF Sound, InField
  <2>2. Good(r, MoveTo(r, x)) BY <2>1, EnduringIsGood DEF Endures
  <2> QED BY <1>9, <2>2, CommandProgress DEF Walk
<1>10. CASE ShootLocked(p)
  <2>1. r.lock \in Players BY <1>0, <1>10 DEF ShootLocked, PlayerRecord
  <2>2. PICK hit \in BOOLEAN, fire \in BOOLEAN : Fire(p, r.lock, hit, fire)
    BY <1>10 DEF ShootLocked
  <2> QED BY <2>1, <2>2, FireProgress
<1>11. CASE LoseAim(p)
  <2>1. Good(r, Unlock(r)) BY <1>0, UnlockEndures, EnduringIsGood
  <2> QED BY <1>11, <2>1, CommandProgress DEF LoseAim
<1>12. ASSUME NEW t \in Players, TakeAim(p, t) PROVE Progress
  <2>1. Endures(r, [r EXCEPT !.lock = t, !.ready = FALSE])
    BY <1>0 DEF Endures, Sound, PlayerRecord, InField
  <2>2. Command(p, [r EXCEPT !.lock = t, !.ready = FALSE]) BY <1>12 DEF TakeAim
  <2> QED BY <2>1, <2>2, EnduringIsGood, CommandProgress
<1>13. ASSUME NEW t \in Players, Attack(p, t) PROVE Progress
  <2>1. \E hit \in BOOLEAN, fire \in BOOLEAN : Fire(p, t, hit, fire)
    BY <1>13 DEF Attack
  <2> QED BY <2>1, FireProgress
<1> HIDE DEF r
<1> QED BY <1>1, <1>2, <1>3, <1>4, <1>5, <1>6, <1>7, <1>8, <1>9, <1>10, <1>11,
           <1>12, <1>13 DEF PlayerStep

(* A step that moves every record at once, and every player endures.       *)
LEMMA MassProgress ==
    ASSUME pl' = [q \in Players |-> pl'[q]],
           \A q \in Players : Endures(pl[q], pl'[q]),
           pending' \in Seq(Shot), batch' \in Seq(Shot), stage' \in Stages
    PROVE  Progress
<1>1. \A q \in Players : Good(pl[q], pl'[q]) BY EnduringIsGood
<1>2. \A q \in Players : pl'[q] \in PlayerRecord BY DEF Endures, Sound
<1>3. pl' \in [Players -> PlayerRecord] BY <1>2
<1> QED BY <1>1, <1>3, WorldProgress

LEMMA TickProgress ==
    ASSUME IInv, TickStep
    PROVE  Progress
<1>0. \A q \in Players : Sound(pl[q]) BY DEF IInv
<1>1. CASE BeginTick
  <2>1. ASSUME NEW q \in Players PROVE Endures(pl[q], pl'[q])
    <3>1. pl'[q] = Aged(Aim(pl[q])) BY <1>1 DEF BeginTick
    <3>2. Endures(pl[q], Aim(pl[q])) BY <1>0, AimEndures
    <3>3. Endures(Aim(pl[q]), Aged(Aim(pl[q]))) BY <3>2, AgedEndures DEF Endures
    <3> QED BY <3>1, <3>2, <3>3, EndureTwice
  <2>2. pl' = [q \in Players |-> pl'[q]] BY <1>1 DEF BeginTick
  <2>3. pending' \in Seq(Shot) /\ batch' \in Seq(Shot) /\ stage' \in Stages
    BY <1>1 DEF BeginTick, IInv, Stages
  <2> QED BY <2>1, <2>2, <2>3, MassProgress
<1>2. CASE GuardStep
  <2>1. batch' \in Seq(Shot)
    <3>1. CASE batch' = pending BY <3>1 DEF IInv
    <3>2. ASSUME NEW p \in Players, NEW x \in GuardTiles,
                 batch' = Append(pending,
                    [target |-> p, from |-> x, melee |-> pl[p].tile = x])
          PROVE  batch' \in Seq(Shot)
      <4>1. x \in Tiles BY PresenceAssumption
      <4>2. (pl[p].tile = x) \in BOOLEAN OBVIOUS
      <4>3. [target |-> p, from |-> x, melee |-> pl[p].tile = x] \in Shot
        BY <4>1, <4>2 DEF Shot
      <4> QED BY <3>2, <4>3 DEF IInv
    <3> QED BY <1>2, <3>1, <3>2 DEF GuardStep
  <2>2. pl' = pl /\ pending' \in Seq(Shot) /\ stage' \in Stages
    BY <1>2 DEF GuardStep, Stages
  <2> QED BY <2>1, <2>2, StillnessProgress
<1>3. CASE ResolveOne
  <2>1. Head(batch) \in Shot /\ Tail(batch) \in Seq(Shot)
    BY <1>3 DEF ResolveOne, IInv
  <2>2. Head(batch).target \in Players BY <2>1 DEF Shot
  <2>3. ASSUME NEW q \in Players PROVE Endures(pl[q], pl'[q])
    <3>1. pl'[q] \in {pl[q], Struck(pl[q], FALSE)}
      BY <1>3, <2>2 DEF ResolveOne, IInv
    <3> QED BY <1>0, <3>1, StruckEndures, Inaction
  <2>4. pl' = [q \in Players |-> pl'[q]] BY <1>3 DEF ResolveOne, IInv
  <2>5. pending' \in Seq(Shot) /\ batch' \in Seq(Shot) /\ stage' \in Stages
    BY <1>3, <2>1 DEF ResolveOne, IInv
  <2> QED BY <2>3, <2>4, <2>5, MassProgress
<1>4. CASE TurretStep
  <2>1. pending' \in Seq(Shot)
    <3>1. \A p \in Players :
             [target |-> p, from |-> TurretTile, melee |-> FALSE] \in Shot
      BY PresenceAssumption DEF Shot
    <3>2. CASE UNCHANGED pending BY <3>2 DEF IInv
    <3>3. ASSUME NEW p \in Players,
                 pending' = Append(pending,
                    [target |-> p, from |-> TurretTile, melee |-> FALSE])
          PROVE  pending' \in Seq(Shot)
      BY <3>1, <3>3 DEF IInv
    <3> QED BY <1>4, <3>2, <3>3 DEF TurretStep, InSight
  <2>2. pl' = pl /\ batch' \in Seq(Shot) /\ stage' \in Stages
    BY <1>4 DEF TurretStep, Stages, IInv
  <2> QED BY <2>1, <2>2, StillnessProgress
<1>5. CASE EffectStep
  <2>1. ASSUME NEW q \in Players PROVE Endures(pl[q], pl'[q])
    <3>1. pl'[q] \in {Burned(pl[q]), Healed(Burned(pl[q]))} BY <1>5 DEF EffectStep
    <3>2. Endures(pl[q], Burned(pl[q])) BY <1>0, BurnedEndures
    <3>3. Endures(Burned(pl[q]), Healed(Burned(pl[q])))
      BY <3>2, HealedEndures DEF Endures
    <3> QED BY <3>1, <3>2, <3>3, EndureTwice
  <2>2. pl' = [q \in Players |-> pl'[q]] BY <1>5 DEF EffectStep
  <2>3. pending' \in Seq(Shot) /\ batch' \in Seq(Shot) /\ stage' \in Stages
    BY <1>5 DEF EffectStep, IInv, Stages
  <2> QED BY <2>1, <2>2, <2>3, MassProgress
<1>6. CASE ExpiryStep
  <2>1. \A q \in Players : pl'[q] = ExpireLinkdead(pl[q]) BY <1>6 DEF ExpiryStep
  <2>2. \A q \in Players : Good(pl[q], pl'[q]) BY <1>0, <2>1, ExpiryGood
  <2>3. pl' = [q \in Players |-> pl'[q]] BY <1>6 DEF ExpiryStep
  <2>4. pl' \in [Players -> PlayerRecord] BY <2>2, <2>3 DEF Good, Sound
  <2>5. pending' \in Seq(Shot) /\ batch' \in Seq(Shot) /\ stage' \in Stages
    BY <1>6 DEF ExpiryStep, IInv, Stages
  <2> QED BY <2>2, <2>4, <2>5, WorldProgress
<1> QED BY <1>1, <1>2, <1>3, <1>4, <1>5, <1>6 DEF TickStep

(* A crash loses the sessions and nothing else of a record.                *)
LEMMA CrashProgress ==
    ASSUME IInv, Crash
    PROVE  Progress
<1>1. ASSUME NEW q \in Players PROVE Endures(pl[q], pl'[q])
  <2>1. Sound(pl[q]) BY DEF IInv
  <2>2. pl'[q] = [pl[q] EXCEPT !.puppeted = FALSE] BY DEF Crash
  <2> QED BY <2>1, <2>2 DEF Endures, Sound, PlayerRecord, InField
<1>2. pl' = [q \in Players |-> pl'[q]] BY DEF Crash
<1>3. pending' \in Seq(Shot) /\ batch' \in Seq(Shot) /\ stage' \in Stages
  BY DEF Crash, Stages
<1> QED BY <1>1, <1>2, <1>3, MassProgress

LEMMA Step == ASSUME IInv, [Next]_vars PROVE Progress
<1>1. CASE TickStep BY <1>1, TickProgress
<1>2. CASE Crash BY <1>2, CrashProgress
<1>3. CASE Reload BY <1>3, StillnessProgress DEF Reload, IInv
<1>4. ASSUME NEW p \in Players, PlayerStep(p) PROVE Progress
  BY <1>4, PlayerProgress
<1>5. CASE UNCHANGED vars BY <1>5, StillnessProgress DEF vars, IInv
<1> QED BY <1>1, <1>2, <1>3, <1>4, <1>5 DEF Next

LEMMA Inductive == Spec => []IInv
<1>1. IInv /\ [Next]_vars => IInv' BY Step DEF Progress
<1> QED BY InitSound, <1>1, PTL DEF Spec

-----------------------------------------------------------------------------
(* Every record stays a player record whatever hooks, hits and crashes     *)
(* came in whatever order.                                                 *)
THEOREM TypeCorrect == Spec => []TypeOK
<1>1. IInv => TypeOK BY DEF IInv, TypeOK
<1> QED BY Inductive, <1>1, PTL

(* A player in the field has a class and a body on the grid.               *)
(* (at_pre_puppet, stow_from_world, deploy_from_lobby, record_death)       *)
THEOREM FieldIsReal == Spec => []InFieldIsReal
<1>1. IInv => InFieldIsReal BY DEF IInv, InFieldIsReal, Sound, InField
<1> QED BY Inductive, <1>1, PTL

(* Nobody in combat leaves the field alive before the grace has run.       *)
(* (CmdQuit, at_post_unpuppet, _process_linkdead_expiry)                   *)
THEOREM NoCombatLog == Spec => AntiCombatLog
<1>1. IInv /\ [Next]_vars =>
        [\A p \in Players :
            InField(pl[p]) /\ InCombat(pl[p]) /\ ~InField(pl'[p]) =>
                \/ pl'[p].state = "SPAWNING"
                \/ pl[p].state = "LINKDEAD" /\ pl[p].away = Grace]_vars
  BY Step DEF Progress, Lawful
<1> QED BY Inductive, <1>1, PTL DEF Spec, AntiCombatLog

(* The deadline of an earlier drop is never used: every drop gets the      *)
(* whole grace.  (begin_linkdead, clear_linkdead, is_linkdead_expired)     *)
THEOREM WholeGrace == Spec => FullGrace
<1>1. IInv /\ [Next]_vars =>
        [\A p \in Players :
            pl[p].state = "LINKDEAD" /\ pl'[p].state = "LOBBY"
                => pl[p].away = Grace]_vars
  BY Step DEF Progress, Lawful
<1> QED BY Inductive, <1>1, PTL DEF Spec, FullGrace
=============================================================================
