----------------------------- MODULE Bombs_proofs -----------------------------
(***************************************************************************)
(* Countdowns, blasts and units, for any number of players, bombs, bodies  *)
(* and faults.  The invariant says which writes a handler can have left    *)
(* (Shape) and what each still has to be true of for the bomb it is about; *)
(* the promises are then about the bomb in hand and about all the others.  *)
(***************************************************************************)
EXTENDS Bombs, TLAPS

FuseOf(b, sec) == [op |-> "fuse", bomb |-> b, sec |-> sec]
CoordsOf(b, s) == [op |-> "coords", bomb |-> b, spot |-> s]
UnitOf(b, p) == [op |-> "unit", bomb |-> b, by |-> p]
ConsumeOf(b, p) == [op |-> "consume", bomb |-> b, by |-> p]
AttemptOf(b) == [op |-> "attempt", bomb |-> b]
BlastOf(b, left) == [op |-> "blast", bomb |-> b, left |-> left]
DeleteOf(b) == [op |-> "delete", bomb |-> b]

(* A bomb that is created and not yet laid.                                *)
Fresh(b) ==
    /\ b \in world /\ b \notin live /\ b \notin laid /\ b \notin paid
    /\ \A x \in Bodies : hits[b][x] = 0

(* What the four writes of a deployment wait for.                          *)
AtFuse(p, b, s, sec) ==
    /\ todo = <<FuseOf(b, sec), CoordsOf(b, s), UnitOf(b, p), ConsumeOf(b, p)>>
    /\ Fresh(b) /\ units[p] > 0 /\ pending[p].n > 0 /\ round = {}

AtCoords(p, b, s) ==
    /\ todo = <<CoordsOf(b, s), UnitOf(b, p), ConsumeOf(b, p)>>
    /\ Fresh(b) /\ units[p] > 0 /\ pending[p].n > 0 /\ round = {}

AtUnit(p, b) ==
    /\ todo = <<UnitOf(b, p), ConsumeOf(b, p)>>
    /\ b \in world /\ b \in laid /\ b \in live
    /\ units[p] > 0 /\ pending[p].n > 0 /\ round = {}

AtConsume(p, b) ==
    /\ todo = <<ConsumeOf(b, p)>>
    /\ b \in world /\ b \in live /\ pending[p].n > 0 /\ round = {}

(* A visit that survived the fuse, and what follows one that did not: a    *)
(* fuse at zero, except after a failed disarm.                             *)
AtAttempt(b) ==
    /\ todo = <<AttemptOf(b)>>
    /\ b \in world /\ b \in live /\ b \notin round

AtBlast(b, left) ==
    /\ todo = <<BlastOf(b, left), DeleteOf(b)>>
    /\ b \in world /\ b \notin live
    /\ b \notin botched => fuse[b] = 0 /\ (\A x \in left : hits[b][x] = 0)

AtDelete(b) ==
    /\ todo = <<DeleteOf(b)>>
    /\ b \in world /\ b \notin live

Shape ==
    \/ todo = <<>>
    \/ \E p \in Players, b \in Bombs, s \in Spots, sec \in Fuses : AtFuse(p, b, s, sec)
    \/ \E p \in Players, b \in Bombs, s \in Spots : AtCoords(p, b, s)
    \/ \E p \in Players, b \in Bombs : AtUnit(p, b)
    \/ \E p \in Players, b \in Bombs : AtConsume(p, b)
    \/ \E b \in Bombs : AtAttempt(b)
    \/ \E b \in Bombs, left \in SUBSET Bodies : AtBlast(b, left)
    \/ \E b \in Bombs : AtDelete(b)

(* Nothing is known of a bomb that is not placed.                          *)
Cleared ==
    \A b \in Bombs \ world :
        /\ fuse[b] = 0 /\ disarm[b] = 0
        /\ b \notin paid /\ b \notin laid
        /\ \A x \in Bodies : hits[b][x] = 0

(* Time left is counted down, but for the bomb in hand.                    *)
Counted ==
    \A b \in world :
        fuse[b] > 0 => b \in live \cup dropped \/ (todo # <<>> /\ It = b)

(* A bomb that has hit somebody is at zero and in nobody's list.           *)
HitOnce ==
    \A b \in Bombs \ botched, x \in Bodies :
        hits[b][x] <= 1 /\ (hits[b][x] = 1 => b \notin live /\ fuse[b] = 0)

(* Laid is paid, but for the bomb whose unit is the next write.            *)
Accounts ==
    /\ paid \subseteq laid
    /\ \A b \in laid : b \in paid \cup cut \/ (Doing("unit") /\ It = b)

IInv ==
    /\ TypeOK /\ Shape /\ Cleared /\ Counted /\ HitOnce /\ Accounts
    /\ round \subseteq live

-----------------------------------------------------------------------------
(* The write at hand tells which handler is running. *)
LEMMA HeadsOfShapes ==
    /\ \A p, b, s, sec : AtFuse(p, b, s, sec) =>
          todo # <<>> /\ Head(todo) = FuseOf(b, sec)
          /\ Tail(todo) = <<CoordsOf(b, s), UnitOf(b, p), ConsumeOf(b, p)>>
    /\ \A p, b, s : AtCoords(p, b, s) =>
          todo # <<>> /\ Head(todo) = CoordsOf(b, s)
          /\ Tail(todo) = <<UnitOf(b, p), ConsumeOf(b, p)>>
    /\ \A p, b : AtUnit(p, b) =>
          todo # <<>> /\ Head(todo) = UnitOf(b, p) /\ Tail(todo) = <<ConsumeOf(b, p)>>
    /\ \A p, b : AtConsume(p, b) =>
          todo # <<>> /\ Head(todo) = ConsumeOf(b, p) /\ Tail(todo) = <<>>
    /\ \A b : AtAttempt(b) =>
          todo # <<>> /\ Head(todo) = AttemptOf(b) /\ Tail(todo) = <<>>
    /\ \A b, left : AtBlast(b, left) =>
          todo # <<>> /\ Head(todo) = BlastOf(b, left) /\ Tail(todo) = <<DeleteOf(b)>>
    /\ \A b : AtDelete(b) =>
          todo # <<>> /\ Head(todo) = DeleteOf(b) /\ Tail(todo) = <<>>
<1>1. \A p, b, s, sec : AtFuse(p, b, s, sec) =>
          todo # <<>> /\ Head(todo) = FuseOf(b, sec)
          /\ Tail(todo) = <<CoordsOf(b, s), UnitOf(b, p), ConsumeOf(b, p)>>
  BY DEF AtFuse
<1>2. \A p, b, s : AtCoords(p, b, s) =>
          todo # <<>> /\ Head(todo) = CoordsOf(b, s)
          /\ Tail(todo) = <<UnitOf(b, p), ConsumeOf(b, p)>>
  BY DEF AtCoords
<1>3. \A p, b : AtUnit(p, b) =>
          todo # <<>> /\ Head(todo) = UnitOf(b, p) /\ Tail(todo) = <<ConsumeOf(b, p)>>
  BY DEF AtUnit
<1>4. \A p, b : AtConsume(p, b) =>
          todo # <<>> /\ Head(todo) = ConsumeOf(b, p) /\ Tail(todo) = <<>>
  BY DEF AtConsume
<1>5. \A b : AtAttempt(b) =>
          todo # <<>> /\ Head(todo) = AttemptOf(b) /\ Tail(todo) = <<>>
  BY DEF AtAttempt
<1>6. \A b, left : AtBlast(b, left) =>
          todo # <<>> /\ Head(todo) = BlastOf(b, left) /\ Tail(todo) = <<DeleteOf(b)>>
  BY DEF AtBlast
<1>7. \A b : AtDelete(b) =>
          todo # <<>> /\ Head(todo) = DeleteOf(b) /\ Tail(todo) = <<>>
  BY DEF AtDelete
<1> QED BY <1>1, <1>2, <1>3, <1>4, <1>5, <1>6, <1>7

LEMMA Ops ==
    \A b, p, s, sec, left :
        /\ FuseOf(b, sec).op = "fuse" /\ CoordsOf(b, s).op = "coords"
        /\ UnitOf(b, p).op = "unit" /\ ConsumeOf(b, p).op = "consume"
        /\ AttemptOf(b).op = "attempt" /\ BlastOf(b, left).op = "blast"
        /\ DeleteOf(b).op = "delete"
BY DEF FuseOf, CoordsOf, UnitOf, ConsumeOf, AttemptOf, BlastOf, DeleteOf

LEMMA WhichWrite ==
    ASSUME Shape
    PROVE  /\ Doing("fuse") => \E p \in Players, b \in Bombs, s \in Spots, sec \in Fuses :
                                   AtFuse(p, b, s, sec)
           /\ Doing("coords") => \E p \in Players, b \in Bombs, s \in Spots : AtCoords(p, b, s)
           /\ Doing("unit") => \E p \in Players, b \in Bombs : AtUnit(p, b)
           /\ Doing("consume") => \E p \in Players, b \in Bombs : AtConsume(p, b)
           /\ Doing("attempt") => \E b \in Bombs : AtAttempt(b)
           /\ Doing("blast") => \E b \in Bombs, left \in SUBSET Bodies : AtBlast(b, left)
           /\ Doing("delete") => \E b \in Bombs : AtDelete(b)
BY HeadsOfShapes, Ops DEF Shape, Doing

LEMMA StepTypes ==
    /\ \A b \in Bombs, sec \in Fuses : FuseOf(b, sec) \in Step
    /\ \A b \in Bombs, s \in Spots : CoordsOf(b, s) \in Step
    /\ \A b \in Bombs, p \in Players : UnitOf(b, p) \in Step /\ ConsumeOf(b, p) \in Step
    /\ \A b \in Bombs : AttemptOf(b) \in Step /\ DeleteOf(b) \in Step
    /\ \A b \in Bombs, left \in SUBSET Bodies : BlastOf(b, left) \in Step
BY DEF FuseOf, CoordsOf, UnitOf, ConsumeOf, AttemptOf, BlastOf, DeleteOf, Step

LEMMA InitIInv == Init => IInv
<1> SUFFICES ASSUME Init PROVE IInv OBVIOUS
<1>1. TypeOK BY BombAssumption DEF Init, TypeOK, NoFuse
<1>2. Shape BY DEF Init, Shape
<1> QED BY <1>1, <1>2 DEF Init, IInv, Cleared, Counted, HitOnce, Accounts

-----------------------------------------------------------------------------
(* Commands start between two calls and write nothing a bomb depends on,   *)
(* except for the deployment and the administrator's wipe.                 *)
LEMMA MoveStep ==
    ASSUME IInv, NEW p \in Players, NEW s \in Spots, Move(p, s)
    PROVE  IInv'
<1>1. TypeOK' BY BombAssumption DEF IInv, TypeOK, Move, placing, blasting
<1>2. Shape' BY DEF Move, Idle, Shape
<1>3. (Cleared /\ Counted /\ HitOnce /\ Accounts /\ round \subseteq live)'
  BY DEF IInv, Cleared, Counted, HitOnce, Accounts, Move, placing, blasting, Doing, It
<1> QED BY <1>1, <1>2, <1>3 DEF IInv

LEMMA SupplyStep ==
    ASSUME IInv, NEW p \in Players, NEW n \in 0..MaxUnits, Supply(p, n)
    PROVE  IInv'
<1>1. TypeOK' BY DEF IInv, TypeOK, Supply, blasting
<1>2. Shape' BY DEF Supply, Idle, Shape
<1>3. (Cleared /\ Counted /\ HitOnce /\ Accounts /\ round \subseteq live)'
  BY DEF IInv, Cleared, Counted, HitOnce, Accounts, Supply, blasting, Doing, It
<1> QED BY <1>1, <1>2, <1>3 DEF IInv

LEMMA SetFuseStep ==
    ASSUME IInv, NEW p \in Players, NEW sec \in Fuses, SetFuse(p, sec)
    PROVE  IInv'
<1>1. TypeOK'
  <2>1. units[p] \in 1..MaxUnits BY BombAssumption DEF IInv, TypeOK, SetFuse
  <2>2. [sec |-> sec, n |-> units[p]] \in [sec: Fuses, n: 1..MaxUnits] BY <2>1
  <2> QED BY <2>2 DEF IInv, TypeOK, SetFuse, blasting
<1>2. Shape' BY DEF SetFuse, Idle, Shape
<1>3. (Cleared /\ Counted /\ HitOnce /\ Accounts /\ round \subseteq live)'
  BY DEF IInv, Cleared, Counted, HitOnce, Accounts, SetFuse, blasting, Doing, It
<1> QED BY <1>1, <1>2, <1>3 DEF IInv

LEMMA DisarmStep ==
    ASSUME IInv, NEW p \in Players, NEW b \in Bombs, NEW n \in Rolls, Disarm(p, b, n)
    PROVE  IInv'
<1>1. TypeOK'
  BY BombAssumption DEF IInv, TypeOK, Disarm, placing, blasting
<1>2. Shape' BY DEF Disarm, Idle, Shape
<1>3. b \in world BY DEF Disarm, Here
<1>4. Cleared' BY <1>3 DEF IInv, TypeOK, Cleared, Disarm, placing, blasting
<1>5. (Counted /\ HitOnce /\ Accounts /\ round \subseteq live)'
  BY DEF IInv, Counted, HitOnce, Accounts, Disarm, placing, blasting, Doing, It
<1> QED BY <1>1, <1>2, <1>4, <1>5 DEF IInv

LEMMA BeginTickStep ==
    ASSUME IInv, BeginTick
    PROVE  IInv'
<1>1. TypeOK' BY DEF IInv, TypeOK, BeginTick, placing, blasting
<1>2. Shape' BY DEF BeginTick, Idle, Shape
<1>3. (Cleared /\ Counted /\ HitOnce /\ Accounts /\ round \subseteq live)'
  BY DEF IInv, Cleared, Counted, HitOnce, Accounts, BeginTick, placing, blasting, Doing, It
<1> QED BY <1>1, <1>2, <1>3 DEF IInv

(* A deployment starts with its four writes ahead of it and a bomb of      *)
(* which nothing is known.                                                 *)
LEMMA DeployStep ==
    ASSUME IInv, NEW p \in Players, NEW b \in Bombs, NEW s \in Spots, Deploy(p, b, s)
    PROVE  IInv'
<1>1. PICK sec \in Fuses : sec = pending[p].sec
  <2>1. pending[p] \in [sec: Fuses, n: 1..MaxUnits] \cup {NoFuse} BY DEF IInv, TypeOK
  <2>2. pending[p].n > 0 BY DEF Deploy
  <2>3. pending[p] # NoFuse BY <2>2 DEF NoFuse
  <2>4. pending[p].sec \in Fuses BY <2>1, <2>3
  <2> QED BY <2>4
<1>2. todo' = <<FuseOf(b, sec), CoordsOf(b, s), UnitOf(b, p), ConsumeOf(b, p)>>
  BY <1>1 DEF Deploy, Deploying, FuseOf, CoordsOf, UnitOf, ConsumeOf
<1>3. TypeOK'
  <2>1. todo' \in Seq(Step) BY <1>1, <1>2, StepTypes
  <2> QED BY <2>1 DEF IInv, TypeOK, Deploy, placing, blasting
<1>4. AtFuse(p, b, s, sec)'
  <2>1. Fresh(b)' BY DEF Fresh, Deploy, IInv, Cleared, placing, blasting
  <2>2. units'[p] > 0 /\ pending'[p].n > 0 /\ round' = {}
    BY DEF Deploy, Idle, placing
  <2> QED BY <1>2, <2>1, <2>2 DEF AtFuse
<1>5. Shape' BY <1>4 DEF Shape
<1>6. todo' # <<>> /\ It' = b
  <2>1. Head(todo') = FuseOf(b, sec) BY <1>2
  <2> QED BY <1>2, <2>1 DEF It, FuseOf
<1>7. (Cleared /\ HitOnce /\ round \subseteq live)'
  BY DEF IInv, Cleared, HitOnce, Deploy, placing, blasting
<1>8. Counted' BY <1>6 DEF IInv, Counted, Deploy, Idle
<1>9. Accounts' BY DEF IInv, Accounts, Deploy, Idle, Doing, placing
<1> QED BY <1>3, <1>5, <1>7, <1>8, <1>9 DEF IInv

LEMMA GoneFacts ==
    ASSUME TypeOK, Cleared, HitOnce, NEW b \in Bombs, Gone(b)
    PROVE  /\ Cleared' /\ world' = world \ {b}
           /\ \A c \in Bombs \ {b} :
                 /\ fuse'[c] = fuse[c] /\ hits'[c] = hits[c]
                 /\ c \in botched' <=> c \in botched
                 /\ c \in paid' <=> c \in paid
                 /\ c \in laid' <=> c \in laid
                 /\ c \in cut' <=> c \in cut
                 /\ c \in dropped' <=> c \in dropped
           /\ b \notin laid' /\ b \notin paid'
           /\ fuse'[b] = 0 /\ \A x \in Bodies : hits'[b][x] = 0
           /\ world' \subseteq Bombs /\ at' \in [Bombs -> Spots \cup {Nowhere}]
           /\ fuse' \in [Bombs -> Fuses \cup Nat] /\ disarm' \in [Bombs -> Nat]
           /\ hits' \in [Bombs -> [Bodies -> Nat]]
           /\ botched' \subseteq Bombs /\ paid' \subseteq Bombs /\ laid' \subseteq Bombs
           /\ cut' \subseteq Bombs /\ dropped' \subseteq Bombs
<1>1. world' = world \ {b} /\ world' \subseteq Bombs BY DEF Gone, TypeOK
<1>2. at' \in [Bombs -> Spots \cup {Nowhere}] BY DEF Gone, TypeOK
<1>3. /\ fuse' \in [Bombs -> Fuses \cup Nat] /\ fuse'[b] = 0
      /\ \A c \in Bombs \ {b} : fuse'[c] = fuse[c]
  BY DEF Gone, TypeOK
<1>4. /\ disarm' \in [Bombs -> Nat] /\ disarm'[b] = 0
      /\ \A c \in Bombs \ {b} : disarm'[c] = disarm[c]
  BY DEF Gone, TypeOK
<1>5. /\ hits' \in [Bombs -> [Bodies -> Nat]] /\ \A x \in Bodies : hits'[b][x] = 0
      /\ \A c \in Bombs \ {b} : hits'[c] = hits[c]
  BY DEF Gone, TypeOK
<1>6. /\ botched' \subseteq Bombs /\ paid' \subseteq Bombs /\ laid' \subseteq Bombs
      /\ cut' \subseteq Bombs /\ dropped' \subseteq Bombs
      /\ b \notin laid' /\ b \notin paid'
      /\ \A c \in Bombs \ {b} :
            /\ c \in botched' <=> c \in botched
            /\ c \in paid' <=> c \in paid
            /\ c \in laid' <=> c \in laid
            /\ c \in cut' <=> c \in cut
            /\ c \in dropped' <=> c \in dropped
  BY DEF Gone, TypeOK
<1>7. Cleared'
  <2>1. ASSUME NEW c \in Bombs \ world'
        PROVE  /\ fuse'[c] = 0 /\ disarm'[c] = 0 /\ c \notin paid' /\ c \notin laid'
               /\ \A x \in Bodies : hits'[c][x] = 0
    <3>1. CASE c = b BY <1>3, <1>4, <1>5, <1>6, <3>1
    <3>2. CASE c # b
      <4>1. c \in Bombs \ world BY <1>1, <3>2
      <4> QED BY <1>3, <1>4, <1>5, <1>6, <3>2, <4>1 DEF Cleared
    <3> QED BY <3>1, <3>2
  <2> QED BY <2>1 DEF Cleared
<1>8. \A c \in Bombs \ {b} :
        /\ fuse'[c] = fuse[c] /\ hits'[c] = hits[c]
        /\ c \in botched' <=> c \in botched
        /\ c \in paid' <=> c \in paid
        /\ c \in laid' <=> c \in laid
        /\ c \in cut' <=> c \in cut
        /\ c \in dropped' <=> c \in dropped
  BY <1>3, <1>5, <1>6
<1>9. disarm' \in [Bombs -> Nat] BY <1>4
<1> QED BY <1>1, <1>2, <1>3, <1>5, <1>6, <1>7, <1>8, <1>9, Zenon

(* An object that is deleted, by whomever, leaves nothing behind but its   *)
(* place in the list.                                                      *)
LEMMA GoneKeeps ==
    ASSUME IInv, NEW b \in Bombs, Gone(b), live' = live, todo' = <<>>,
           todo # <<>> => It = b,
           \A c \in laid \ {b} : c \in paid \cup cut
    PROVE  Cleared' /\ Counted' /\ HitOnce' /\ Accounts' /\ Shape'
<1>1. TypeOK /\ Cleared /\ HitOnce /\ Counted /\ Accounts BY DEF IInv
<1>2. Cleared' BY <1>1, GoneFacts
<1>3. Counted'
  <2>1. ASSUME NEW c \in world', fuse'[c] > 0 PROVE c \in live' \cup dropped'
    <3>1. c \in world /\ c # b /\ c \in Bombs BY <1>1, <2>1, GoneFacts DEF TypeOK
    <3>2. fuse[c] > 0 BY <1>1, <2>1, <3>1, GoneFacts
    <3>3. c \in live \cup dropped BY <1>1, <3>1, <3>2 DEF Counted
    <3> QED BY <1>1, <3>1, <3>3, GoneFacts
  <2> QED BY <2>1 DEF Counted
<1>4. HitOnce'
  <2>1. ASSUME NEW c \in Bombs \ botched', NEW x \in Bodies
        PROVE  hits'[c][x] <= 1 /\ (hits'[c][x] = 1 => c \notin live' /\ fuse'[c] = 0)
    <3>1. CASE c = b BY <1>1, <3>1, GoneFacts
    <3>2. CASE c # b
      <4>1. c \in Bombs \ botched /\ hits'[c] = hits[c] /\ fuse'[c] = fuse[c]
        BY <1>1, <2>1, <3>2, GoneFacts
      <4> QED BY <1>1, <4>1 DEF HitOnce
    <3> QED BY <3>1, <3>2
  <2> QED BY <2>1 DEF HitOnce
<1>5. Accounts'
  <2>1. laid' \subseteq Bombs /\ paid' \subseteq Bombs BY <1>1, GoneFacts
  <2>2. paid' \subseteq laid' BY <1>1, <2>1, GoneFacts DEF Accounts
  <2>3. laid' \subseteq paid' \cup cut'
    <3>1. \A c \in laid' : c \in Bombs /\ c # b /\ c \in laid
      BY <1>1, <2>1, GoneFacts
    <3> QED BY <1>1, <3>1, GoneFacts
  <2> QED BY <2>2, <2>3 DEF Accounts
<1>6. Shape' BY DEF Shape
<1> QED BY <1>2, <1>3, <1>4, <1>5, <1>6

LEMMA WipeStep ==
    ASSUME IInv, NEW b \in Bombs, Wipe(b)
    PROVE  IInv'
<1>1. Gone(b) /\ live' = live /\ todo = <<>> /\ todo' = <<>> /\ round' = {} /\ round = {}
  BY DEF Wipe, Idle
<1>2. \A c \in laid : c \in paid \cup cut BY <1>1 DEF IInv, Accounts, Doing
<1>3. Cleared' /\ Counted' /\ HitOnce' /\ Accounts' /\ Shape' BY <1>1, <1>2, GoneKeeps
<1>4. TypeOK'
  <2>1. TypeOK /\ Cleared /\ HitOnce BY DEF IInv
  <2>2. todo' \in Seq(Step) BY <1>1
  <2>3. pos' = pos /\ units' = units /\ pending' = pending /\ faults' = faults
    BY DEF Wipe
  <2> QED BY <1>1, <2>1, <2>2, <2>3, GoneFacts DEF TypeOK
<1> QED BY <1>1, <1>3, <1>4 DEF IInv

LEMMA DeleteStep ==
    ASSUME IInv, Delete
    PROVE  IInv'
<1>1. PICK b \in Bombs : AtDelete(b) BY WhichWrite DEF Delete, IInv
<1>2. todo # <<>> /\ It = b /\ todo' = <<>> /\ ~Doing("unit")
  BY <1>1, HeadsOfShapes, Ops DEF Delete, Doing, It, DeleteOf
<1>3. Gone(b) /\ live' = live /\ round' = round BY <1>2 DEF Delete
<1>4. \A c \in laid : c \in paid \cup cut BY <1>2 DEF IInv, Accounts
<1>5. Cleared' /\ Counted' /\ HitOnce' /\ Accounts' /\ Shape'
  BY <1>2, <1>3, <1>4, GoneKeeps
<1>6. TypeOK'
  <2>1. TypeOK /\ Cleared /\ HitOnce BY DEF IInv
  <2>2. todo' \in Seq(Step) BY <1>2
  <2>3. pos' = pos /\ units' = units /\ pending' = pending /\ faults' = faults
    BY DEF Delete
  <2> QED BY <1>3, <2>1, <2>2, <2>3, GoneFacts DEF TypeOK
<1> QED BY <1>3, <1>5, <1>6 DEF IInv

-----------------------------------------------------------------------------
(* The four writes of a deployment. *)
LEMMA WriteFuseStep ==
    ASSUME IInv, WriteFuse
    PROVE  IInv'
<1>1. PICK p \in Players, b \in Bombs, s \in Spots, sec \in Fuses : AtFuse(p, b, s, sec)
  BY WhichWrite DEF WriteFuse, IInv
<1>2. It = b /\ Head(todo).sec = sec
      /\ todo' = <<CoordsOf(b, s), UnitOf(b, p), ConsumeOf(b, p)>>
  BY <1>1, HeadsOfShapes DEF WriteFuse, It, FuseOf
<1>3. fuse' = [fuse EXCEPT ![b] = sec] BY <1>2 DEF WriteFuse
<1>4. TypeOK'
  <2>1. todo' \in Seq(Step) BY <1>2, StepTypes
  <2>2. fuse' \in [Bombs -> Fuses \cup Nat] BY <1>3 DEF IInv, TypeOK
  <2> QED BY <2>1, <2>2 DEF IInv, TypeOK, WriteFuse, placing, blasting
<1>5. AtCoords(p, b, s)'
  <2>1. Fresh(b)' BY <1>1 DEF AtFuse, Fresh, WriteFuse, placing, blasting
  <2>2. units'[p] > 0 /\ pending'[p].n > 0 /\ round' = {}
    BY <1>1 DEF AtFuse, WriteFuse, placing
  <2> QED BY <1>2, <2>1, <2>2 DEF AtCoords
<1>6. Shape' BY <1>5 DEF Shape
<1>7. todo' # <<>> /\ It' = b
  <2>1. Head(todo') = CoordsOf(b, s) BY <1>2
  <2> QED BY <1>2, <2>1 DEF It, CoordsOf
<1>8. Fresh(b) BY <1>1 DEF AtFuse
<1>9. Cleared' BY <1>3, <1>8 DEF IInv, TypeOK, Fresh, Cleared, WriteFuse, placing, blasting
<1>10. Counted' BY <1>2, <1>3, <1>7 DEF IInv, TypeOK, Counted, WriteFuse
<1>11. HitOnce' BY <1>3, <1>8 DEF IInv, TypeOK, Fresh, HitOnce, WriteFuse, blasting
<1>12. Accounts'
  <2>1. ~Doing("unit") BY <1>1, HeadsOfShapes, Ops DEF Doing
  <2> QED BY <2>1 DEF IInv, Accounts, WriteFuse, placing
<1> QED BY <1>4, <1>6, <1>9, <1>10, <1>11, <1>12 DEF IInv, WriteFuse

LEMMA WriteCoordsStep ==
    ASSUME IInv, WriteCoords
    PROVE  IInv'
<1>1. PICK p \in Players, b \in Bombs, s \in Spots : AtCoords(p, b, s)
  BY WhichWrite DEF WriteCoords, IInv
<1>2. It = b /\ Head(todo).spot = s /\ todo' = <<UnitOf(b, p), ConsumeOf(b, p)>>
  BY <1>1, HeadsOfShapes DEF WriteCoords, It, CoordsOf
<1>3. /\ at' = [at EXCEPT ![b] = s] /\ live' = live \cup {b} /\ laid' = laid \cup {b}
      /\ round = {} /\ round' = {}
  BY <1>1, <1>2 DEF AtCoords, WriteCoords
<1>4. TypeOK'
  <2>1. todo' \in Seq(Step) BY <1>2, StepTypes
  <2>2. at' \in [Bombs -> Spots \cup {Nowhere}] BY <1>3 DEF IInv, TypeOK
  <2>3. live' \subseteq Bombs /\ laid' \subseteq Bombs /\ round' \subseteq Bombs
    BY <1>3 DEF IInv, TypeOK
  <2> QED BY <2>1, <2>2, <2>3 DEF IInv, TypeOK, WriteCoords, blasting
<1>5. Fresh(b) BY <1>1 DEF AtCoords
<1>6. AtUnit(p, b)'
  <2>1. units'[p] > 0 /\ pending'[p].n > 0 BY <1>1 DEF AtCoords, WriteCoords
  <2>2. b \in world' BY <1>5 DEF Fresh, WriteCoords
  <2> QED BY <1>2, <1>3, <2>1, <2>2 DEF AtUnit
<1>7. Shape' BY <1>6 DEF Shape
<1>8. Doing("unit")' /\ It' = b
  <2>1. Head(todo') = UnitOf(b, p) /\ todo' # <<>> BY <1>2
  <2> QED BY <2>1 DEF It, Doing, UnitOf
<1>9. Cleared' BY <1>3, <1>5 DEF IInv, Fresh, Cleared, WriteCoords, blasting
<1>10. Counted' BY <1>2, <1>3 DEF IInv, Counted, WriteCoords
<1>11. HitOnce' BY <1>3, <1>5 DEF IInv, Fresh, HitOnce, WriteCoords, blasting
<1>12. Accounts'
  <2>1. ~Doing("unit") BY <1>1, HeadsOfShapes, Ops DEF Doing
  <2>2. \A c \in laid : c \in paid \cup cut BY <2>1 DEF IInv, Accounts
  <2>3. paid' = paid /\ cut' = cut BY DEF WriteCoords
  <2>4. paid' \subseteq laid' BY <1>3, <2>3 DEF IInv, Accounts
  <2> QED BY <1>3, <1>8, <2>2, <2>3, <2>4 DEF Accounts
<1> QED BY <1>3, <1>4, <1>7, <1>9, <1>10, <1>11, <1>12 DEF IInv

LEMMA TakeUnitStep ==
    ASSUME IInv, TakeUnit
    PROVE  IInv'
<1>1. PICK p \in Players, b \in Bombs : AtUnit(p, b) BY WhichWrite DEF TakeUnit, IInv
<1>2. It = b /\ Doer = p /\ todo' = <<ConsumeOf(b, p)>>
  BY <1>1, HeadsOfShapes DEF TakeUnit, It, Doer, UnitOf
<1>3. units' = [units EXCEPT ![p] = @ - 1] /\ paid' = paid \cup {b} BY <1>2 DEF TakeUnit
<1>4. b \in world /\ b \in laid /\ b \in live /\ units[p] > 0 /\ pending[p].n > 0 /\ round = {}
  BY <1>1 DEF AtUnit
<1>5. TypeOK'
  <2>1. todo' \in Seq(Step) BY <1>2, StepTypes
  <2>2. units[p] - 1 \in 0..MaxUnits BY <1>4, BombAssumption DEF IInv, TypeOK
  <2>3. units' \in [Players -> 0..MaxUnits] BY <1>3, <2>2 DEF IInv, TypeOK
  <2> QED BY <1>3, <2>1, <2>3 DEF IInv, TypeOK, TakeUnit, blasting
<1>6. AtConsume(p, b)' BY <1>2, <1>4 DEF AtConsume, TakeUnit
<1>7. Shape' BY <1>6 DEF Shape
<1>8. Cleared' BY <1>3, <1>4 DEF IInv, Cleared, TakeUnit, blasting
<1>9. Counted' BY <1>2, <1>4 DEF IInv, Counted, TakeUnit
<1>10. HitOnce' BY DEF IInv, HitOnce, TakeUnit, blasting
<1>11. Accounts'
  <2>1. laid' = laid /\ cut' = cut BY DEF TakeUnit
  <2>2. \A c \in laid : c \in paid \cup cut \/ c = b BY <1>2 DEF IInv, Accounts
  <2> QED BY <1>3, <1>4, <2>1, <2>2 DEF IInv, Accounts
<1> QED BY <1>5, <1>7, <1>8, <1>9, <1>10, <1>11 DEF IInv, TakeUnit

LEMMA ConsumeStep ==
    ASSUME IInv, ConsumeFuse
    PROVE  IInv'
<1>1. PICK p \in Players, b \in Bombs : AtConsume(p, b)
  BY WhichWrite DEF ConsumeFuse, IInv
<1>2. It = b /\ Doer = p /\ todo' = <<>> /\ ~Doing("unit")
  BY <1>1, HeadsOfShapes, Ops DEF ConsumeFuse, It, Doer, ConsumeOf, Doing
<1>3. pending' = [pending EXCEPT ![p] =
                     IF pending[p].n = 1 THEN NoFuse
                     ELSE [sec |-> pending[p].sec, n |-> pending[p].n - 1]]
  BY <1>2 DEF ConsumeFuse
<1>4. TypeOK'
  <2>1. pending[p] \in [sec: Fuses, n: 1..MaxUnits]
    <3>1. pending[p].n > 0 BY <1>1 DEF AtConsume
    <3>2. pending[p] # NoFuse BY <3>1 DEF NoFuse
    <3> QED BY <3>2 DEF IInv, TypeOK
  <2>2. [sec |-> pending[p].sec, n |-> pending[p].n - 1] \in [sec: Fuses, n: 1..MaxUnits]
           \/ pending[p].n = 1
    BY <2>1, BombAssumption
  <2>3. pending' \in [Players -> [sec: Fuses, n: 1..MaxUnits] \cup {NoFuse}]
    BY <1>3, <2>2 DEF IInv, TypeOK
  <2>4. todo' \in Seq(Step) BY <1>2
  <2> QED BY <2>3, <2>4 DEF IInv, TypeOK, ConsumeFuse, blasting
<1>5. Shape' BY <1>2 DEF Shape
<1>6. (Cleared /\ HitOnce)' BY DEF IInv, Cleared, HitOnce, ConsumeFuse, blasting
<1>7. Counted'
  <2>1. b \in live BY <1>1 DEF AtConsume
  <2> QED BY <1>2, <2>1 DEF IInv, Counted, ConsumeFuse
<1>8. Accounts' BY <1>2 DEF IInv, Accounts, ConsumeFuse
<1> QED BY <1>4, <1>5, <1>6, <1>7, <1>8 DEF IInv, ConsumeFuse

(* A placement that raises: the bomb at hand is not in the list, not paid  *)
(* for, and named by dropped from now on.                                  *)
LEMMA PlacingFailsStep ==
    ASSUME IInv, PlacingFails
    PROVE  IInv'
<1>1. PICK b \in Bombs : /\ It = b /\ Fresh(b) /\ ~Doing("unit")
                         /\ Doing("coords") => Head(todo).spot \in Spots
  <2>1. CASE Doing("fuse")
    <3>1. PICK p \in Players, b \in Bombs, s \in Spots, sec \in Fuses : AtFuse(p, b, s, sec)
      BY <2>1, WhichWrite DEF IInv
    <3>2. Head(todo) = FuseOf(b, sec) /\ Fresh(b) BY <3>1, HeadsOfShapes DEF AtFuse
    <3> QED BY <3>2, Ops DEF It, Doing, FuseOf
  <2>2. CASE Doing("coords")
    <3>1. PICK p \in Players, b \in Bombs, s \in Spots : AtCoords(p, b, s)
      BY <2>2, WhichWrite DEF IInv
    <3>2. Head(todo) = CoordsOf(b, s) /\ Fresh(b) BY <3>1, HeadsOfShapes DEF AtCoords
    <3> QED BY <3>2, Ops DEF It, Doing, CoordsOf
  <2> QED BY <2>1, <2>2 DEF PlacingFails
<1>2. /\ UNCHANGED <<pos, world, fuse, disarm, live, round, units, pending, paid, laid,
                     cut, hits, botched>>
      /\ todo' = <<>> /\ dropped' = dropped \cup {b} /\ TypeOK
  BY <1>1 DEF PlacingFails, placing, blasting, IInv
<1>3. at' \in [Bombs -> Spots \cup {Nowhere}] BY <1>1 DEF PlacingFails, IInv, TypeOK
<1>4. TypeOK'
  <2>1. faults' \in 0..MaxFaults BY BombAssumption DEF IInv, TypeOK, PlacingFails
  <2>2. todo' \in Seq(Step) /\ dropped' \subseteq Bombs BY <1>2 DEF TypeOK
  <2> QED BY <1>2, <1>3, <2>1, <2>2 DEF TypeOK
<1>5. Shape' BY <1>2 DEF Shape
<1>6. (Cleared /\ HitOnce /\ round \subseteq live)' BY <1>2 DEF IInv, Cleared, HitOnce
<1>7. Counted' BY <1>1, <1>2 DEF IInv, Counted
<1>8. Accounts' BY <1>1, <1>2 DEF IInv, Accounts
<1> QED BY <1>4, <1>5, <1>6, <1>7, <1>8 DEF IInv

-----------------------------------------------------------------------------
(* What a detonation leaves to be written: the victims and the object, or, *)
(* for a bomb without coordinates, the object.                             *)
LEMMA DetonationShape ==
    ASSUME TypeOK, NEW b \in Bombs
    PROVE  \/ Detonation(b) = <<DeleteOf(b)>>
           \/ \E left \in SUBSET Bodies : Detonation(b) = <<BlastOf(b, left), DeleteOf(b)>>
<1>1. Targets(b) \in SUBSET Bodies BY DEF Targets
<1>2. Detonation(b) = IF at[b] = Nowhere THEN <<DeleteOf(b)>>
                      ELSE <<BlastOf(b, Targets(b)), DeleteOf(b)>>
  BY DEF Detonation, BlastOf, DeleteOf
<1> QED BY <1>1, <1>2

(* The bomb at hand is gone from the list and is about to be deleted: all  *)
(* that is needed of the rest is that it stayed as it was.                 *)
LEMMA GoingOff ==
    ASSUME IInv, NEW b \in Bombs, b \in world, todo' = Detonation(b),
           live' = live \ {b}, world' = world,
           b \notin botched' => fuse'[b] = 0 /\ \A x \in Bodies : hits'[b][x] = 0
    PROVE  todo' \in Seq(Step) /\ Shape' /\ todo' # <<>> /\ It' = b /\ ~Doing("unit")'
<1>0. TypeOK BY DEF IInv
<1>1. CASE Detonation(b) = <<DeleteOf(b)>>
  <2>1. todo' = <<DeleteOf(b)>> /\ Head(todo') = DeleteOf(b) BY <1>1
  <2>2. AtDelete(b)' BY <2>1 DEF AtDelete
  <2>3. Shape' BY <2>2 DEF Shape
  <2>4. todo' \in Seq(Step) BY <2>1, StepTypes
  <2> QED BY <2>1, <2>3, <2>4 DEF It, Doing, DeleteOf
<1>2. CASE \E left \in SUBSET Bodies : Detonation(b) = <<BlastOf(b, left), DeleteOf(b)>>
  <2>0. PICK left \in SUBSET Bodies : Detonation(b) = <<BlastOf(b, left), DeleteOf(b)>>
    BY <1>2
  <2>1. todo' = <<BlastOf(b, left), DeleteOf(b)>> /\ Head(todo') = BlastOf(b, left)
    BY <2>0
  <2>2. AtBlast(b, left)' BY <2>1 DEF AtBlast
  <2>3. Shape' BY <2>2 DEF Shape
  <2>4. todo' \in Seq(Step) BY <2>1, StepTypes
  <2> QED BY <2>1, <2>3, <2>4 DEF It, Doing, BlastOf
<1> QED BY <1>0, <1>1, <1>2, DetonationShape

(* Of a bomb that is still counted down nobody has been hit.               *)
LEMMA LiveUnhit ==
    ASSUME TypeOK, HitOnce, NEW b \in live, b \notin botched
    PROVE  \A x \in Bodies : hits[b][x] = 0
<1>1. b \in Bombs BY DEF TypeOK
<1>2. ASSUME NEW x \in Bodies PROVE hits[b][x] = 0
  <2>1. hits[b][x] \in Nat BY <1>1 DEF TypeOK
  <2>2. hits[b][x] <= 1 /\ hits[b][x] # 1 BY <1>1 DEF HitOnce
  <2> QED BY <2>1, <2>2
<1> QED BY <1>2

(* The visit of the tick: the fuse is written before anything follows.     *)
LEMMA TickOneStep ==
    ASSUME IInv, NEW b \in Bombs, TickOne(b)
    PROVE  IInv'
<1>0. /\ todo = <<>> /\ b \in round /\ round' = round \ {b} /\ b \in live
      /\ TypeOK /\ HitOnce /\ ~Doing("unit")
  BY DEF IInv, TickOne, Doing
<1>1. /\ UNCHANGED <<pos, world, at, disarm, faults, dropped, units, pending, paid,
                     laid, cut, hits, botched>>
  BY DEF TickOne, placing, blasting
<1>2. \A c \in laid : c \in paid \cup cut BY <1>0 DEF IInv, Accounts
<1>3. Accounts' BY <1>1, <1>2 DEF Accounts, IInv
<1>4. CASE b \notin world
  <2>1. live' = live \ {b} /\ fuse' = fuse /\ todo' = <<>> BY <1>0, <1>4 DEF TickOne
  <2>2. TypeOK' BY <1>0, <1>1, <2>1 DEF TypeOK
  <2>3. Shape' BY <2>1 DEF Shape
  <2>4. Counted' BY <1>0, <1>1, <1>4, <2>1 DEF IInv, Counted
  <2>5. (Cleared /\ HitOnce)' BY <1>1, <2>1 DEF IInv, Cleared, HitOnce
  <2>6. round' \subseteq live' BY <1>0, <2>1 DEF IInv
  <2> QED BY <1>3, <2>2, <2>3, <2>4, <2>5, <2>6 DEF IInv
<1>5. CASE b \in world
  <2>1. fuse' = [fuse EXCEPT ![b] = IF @ = 0 THEN 0 ELSE @ - 1] BY <1>5 DEF TickOne
  <2>2. fuse[b] \in Nat /\ fuse'[b] \in Nat /\ (\A c \in Bombs \ {b} : fuse'[c] = fuse[c])
          /\ fuse' \in [Bombs -> Fuses \cup Nat] /\ (fuse[b] <= 1 => fuse'[b] = 0)
          /\ fuse'[b] <= fuse[b]
    <3>1. fuse[b] \in Nat BY <1>0, BombAssumption DEF TypeOK
    <3>2. fuse'[b] = IF fuse[b] = 0 THEN 0 ELSE fuse[b] - 1 BY <1>0, <2>1 DEF TypeOK
    <3>3. fuse'[b] \in Nat /\ fuse'[b] <= fuse[b] /\ (fuse[b] <= 1 => fuse'[b] = 0)
      BY <3>1, <3>2
    <3>4. \A c \in Bombs \ {b} : fuse'[c] = fuse[c] BY <1>0, <2>1 DEF TypeOK
    <3>5. fuse' \in [Bombs -> Fuses \cup Nat] BY <1>0, <2>1, <3>1 DEF TypeOK
    <3> QED BY <3>1, <3>3, <3>4, <3>5
  <2>3. Cleared' BY <1>1, <1>5, <2>2 DEF IInv, Cleared
  <2>4. CASE fuse[b] <= 1
    <3>1. todo' = Detonation(b) /\ live' = live \ {b} BY <1>5, <2>4 DEF TickOne
    <3>2. b \notin botched' => fuse'[b] = 0 /\ \A x \in Bodies : hits'[b][x] = 0
      BY <1>0, <1>1, <2>2, <2>4, LiveUnhit
    <3>3. todo' \in Seq(Step) /\ Shape' /\ todo' # <<>> /\ It' = b
      BY <1>1, <1>5, <3>1, <3>2, GoingOff
    <3>4. TypeOK' BY <1>0, <1>1, <2>2, <3>1, <3>3 DEF TypeOK
    <3>5. Counted'
      <4>1. ASSUME NEW c \in world, fuse'[c] > 0, c # b PROVE c \in live' \cup dropped'
        <5>1. c \in Bombs /\ fuse[c] > 0 BY <1>0, <2>2, <4>1 DEF TypeOK
        <5> QED BY <1>0, <1>1, <3>1, <4>1, <5>1 DEF IInv, Counted
      <4> QED BY <1>1, <3>3, <4>1 DEF Counted
    <3>6. HitOnce'
      <4>1. ASSUME NEW c \in Bombs \ botched, NEW x \in Bodies
            PROVE  hits[c][x] <= 1 /\ (hits[c][x] = 1 => c \notin live' /\ fuse'[c] = 0)
        BY <1>0, <2>2, <3>1, <4>1 DEF HitOnce
      <4> QED BY <1>1, <4>1 DEF HitOnce
    <3>7. round' \subseteq live' BY <1>0, <3>1 DEF IInv
    <3> QED BY <1>3, <2>3, <3>3, <3>4, <3>5, <3>6, <3>7 DEF IInv
  <2>5. CASE ~(fuse[b] <= 1)
    <3>1. live' = live /\ todo' \in {<<AttemptOf(b)>>, <<>>}
      BY <1>5, <2>5 DEF TickOne, AttemptOf
    <3>2. TypeOK'
      <4>1. CASE todo' = <<>> BY <1>0, <1>1, <2>2, <3>1, <4>1 DEF TypeOK
      <4>2. CASE todo' = <<AttemptOf(b)>>
        <5>1. todo' \in Seq(Step) BY <4>2, StepTypes
        <5> QED BY <1>0, <1>1, <2>2, <3>1, <5>1 DEF TypeOK
      <4> QED BY <3>1, <4>1, <4>2
    <3>3. Shape'
      <4>1. CASE todo' = <<>> BY <4>1 DEF Shape
      <4>2. CASE todo' = <<AttemptOf(b)>>
        <5>1. AtAttempt(b)' BY <1>0, <1>1, <1>5, <3>1, <4>2 DEF AtAttempt
        <5> QED BY <5>1 DEF Shape
      <4> QED BY <3>1, <4>1, <4>2
    <3>4. Counted'
      <4>1. ASSUME NEW c \in world, fuse'[c] > 0 PROVE c \in live \cup dropped
        <5>1. CASE c = b BY <1>0, <5>1
        <5>2. CASE c # b
          <6>1. c \in Bombs /\ fuse[c] > 0 BY <1>0, <2>2, <4>1, <5>2 DEF TypeOK
          <6> QED BY <1>0, <4>1, <6>1 DEF IInv, Counted
        <5> QED BY <5>1, <5>2
      <4> QED BY <1>1, <3>1, <4>1 DEF Counted
    <3>5. HitOnce'
      <4>1. ASSUME NEW c \in Bombs \ botched, NEW x \in Bodies
            PROVE  hits[c][x] <= 1 /\ (hits[c][x] = 1 => c \notin live /\ fuse'[c] = 0)
        BY <1>0, <2>2, <4>1 DEF HitOnce
      <4> QED BY <1>1, <3>1, <4>1 DEF HitOnce
    <3>6. round' \subseteq live' BY <1>0, <3>1 DEF IInv
    <3> QED BY <1>3, <2>3, <3>2, <3>3, <3>4, <3>5, <3>6 DEF IInv
  <2> QED BY <2>4, <2>5
<1> QED BY <1>4, <1>5

LEMMA TickRaisesStep ==
    ASSUME IInv, NEW b \in Bombs, TickRaises(b)
    PROVE  IInv'
<1>1. TypeOK'
  <2>1. faults' \in 0..MaxFaults BY BombAssumption DEF IInv, TypeOK, TickRaises
  <2> QED BY <2>1 DEF IInv, TypeOK, TickRaises, placing, blasting
<1>2. Shape' BY DEF TickRaises, Shape
<1>3. (Cleared /\ HitOnce /\ round \subseteq live)'
  BY DEF IInv, Cleared, HitOnce, TickRaises, placing, blasting
<1>4. Counted' BY DEF IInv, Counted, TickRaises
<1>5. Accounts' BY DEF IInv, Accounts, TickRaises, placing, Doing
<1> QED BY <1>1, <1>2, <1>3, <1>4, <1>5 DEF IInv

(* A tick of the disarm attempt; a failed one makes the bomb botched.      *)
LEMMA AttemptStep ==
    ASSUME IInv, Attempt
    PROVE  IInv'
<1>1. PICK b \in Bombs : AtAttempt(b) BY WhichWrite DEF Attempt, IInv
<1>2. It = b /\ Tail(todo) = <<>> /\ ~Doing("unit") /\ todo # <<>>
  BY <1>1, HeadsOfShapes, Ops DEF It, AttemptOf, Doing
<1>3. /\ UNCHANGED <<pos, world, at, fuse, round, faults, dropped, units, pending, paid,
                     laid, cut, hits>>
      /\ b \in world /\ b \in live /\ b \notin round /\ TypeOK /\ round \subseteq live
  BY <1>1 DEF AtAttempt, Attempt, placing, IInv
<1>4. disarm' = [disarm EXCEPT ![b] = @ - 1] /\ disarm[b] >= 1
  BY <1>2, <1>3 DEF Attempt, TypeOK
<1>5. disarm' \in [Bombs -> Nat] BY <1>3, <1>4 DEF TypeOK
<1>6. \A c \in laid : c \in paid \cup cut BY <1>2 DEF IInv, Accounts
<1>7. Accounts' BY <1>3, <1>6 DEF Accounts, IInv
<1>8. Cleared' BY <1>3, <1>4 DEF IInv, TypeOK, Cleared
<1>9. CASE todo' = Tail(todo) /\ UNCHANGED <<live, botched>>
  <2>1. todo' = <<>> BY <1>2, <1>9
  <2>2. TypeOK'
    <3>1. todo' \in Seq(Step) BY <2>1
    <3>2. live' = live /\ botched' = botched BY <1>9
    <3> QED BY <1>3, <1>5, <3>1, <3>2 DEF TypeOK
  <2>3. Shape' BY <2>1 DEF Shape
  <2>4. Counted' BY <1>2, <1>3, <1>9 DEF IInv, Counted
  <2>5. HitOnce' BY <1>3, <1>9 DEF IInv, HitOnce
  <2>6. round' \subseteq live' BY <1>3, <1>9
  <2> QED BY <1>7, <1>8, <2>2, <2>3, <2>4, <2>5, <2>6 DEF IInv
<1>10. CASE live' = live \ {b} /\ todo' = <<DeleteOf(b)>> /\ UNCHANGED botched
  <2>1. Head(todo') = DeleteOf(b) /\ todo' # <<>> BY <1>10
  <2>2. It' = b BY <2>1 DEF It, DeleteOf
  <2>3. TypeOK'
    <3>1. todo' \in Seq(Step) BY <1>10, StepTypes
    <3> QED BY <1>3, <1>5, <1>10, <3>1 DEF TypeOK
  <2>4. Shape'
    <3>1. AtDelete(b)' BY <1>3, <1>10 DEF AtDelete
    <3> QED BY <3>1 DEF Shape
  <2>5. Counted' BY <1>2, <1>3, <1>10, <2>1, <2>2 DEF IInv, Counted
  <2>6. HitOnce' BY <1>3, <1>10 DEF IInv, HitOnce
  <2>7. round' \subseteq live' BY <1>3, <1>10
  <2> QED BY <1>7, <1>8, <2>3, <2>4, <2>5, <2>6, <2>7 DEF IInv
<1>11. CASE live' = live \ {b} /\ todo' = Detonation(b) /\ botched' = botched \cup {b}
  <2>1. todo' \in Seq(Step) /\ Shape' /\ todo' # <<>> /\ It' = b
    BY <1>3, <1>11, GoingOff
  <2>2. TypeOK' BY <1>3, <1>5, <1>11, <2>1 DEF TypeOK
  <2>3. Counted' BY <1>2, <1>3, <1>11, <2>1 DEF IInv, Counted
  <2>4. HitOnce' BY <1>3, <1>11 DEF IInv, HitOnce
  <2>5. round' \subseteq live' BY <1>3, <1>11
  <2> QED BY <1>7, <1>8, <2>1, <2>2, <2>3, <2>4, <2>5 DEF IInv
<1> QED BY <1>2, <1>9, <1>10, <1>11 DEF Attempt, DeleteOf

(* One more victim: until now it had not been hit by this bomb.            *)
LEMMA HitStep ==
    ASSUME IInv, NEW x \in Bodies, Hit(x)
    PROVE  IInv'
<1>1. PICK b \in Bombs, left \in SUBSET Bodies : AtBlast(b, left)
  BY WhichWrite DEF Hit, IInv
<1>2. /\ It = b /\ ~Doing("unit") /\ todo # <<>> /\ Head(todo).left = left
      /\ todo = <<BlastOf(b, left), DeleteOf(b)>>
  BY <1>1, HeadsOfShapes, Ops DEF It, BlastOf, Doing, AtBlast
<1>3. todo' = <<BlastOf(b, left \ {x}), DeleteOf(b)>>
  <2>1. todo' = [todo EXCEPT ![1] = [todo[1] EXCEPT !.left = todo[1].left \ {x}]]
    BY DEF Hit
  <2>2. todo[1] = BlastOf(b, left) BY <1>2
  <2>3. [todo[1] EXCEPT !.left = todo[1].left \ {x}] = BlastOf(b, left \ {x})
    BY <2>2 DEF BlastOf
  <2> QED BY <1>2, <2>1, <2>3
<1>4. /\ UNCHANGED <<pos, world, at, fuse, disarm, live, round, faults, dropped, units,
                     pending, paid, laid, cut, botched>>
      /\ b \in world /\ b \notin live /\ x \in left /\ TypeOK /\ HitOnce
      /\ b \notin botched => fuse[b] = 0 /\ (\A y \in left : hits[b][y] = 0)
  BY <1>1, <1>2 DEF AtBlast, Hit, placing, IInv
<1>5. /\ hits' \in [Bombs -> [Bodies -> Nat]]
      /\ \A c \in Bombs, y \in Bodies :
            hits'[c][y] = hits[c][y] \/ (c = b /\ y = x /\ hits'[c][y] = hits[c][y] + 1)
  <2>1. CASE hits' = hits BY <1>4, <2>1 DEF TypeOK
  <2>2. CASE hits' = [hits EXCEPT ![b] = [hits[b] EXCEPT ![x] = hits[b][x] + 1]]
    <3>1. hits[b] \in [Bodies -> Nat] BY <1>4 DEF TypeOK
    <3>2. [hits[b] EXCEPT ![x] = hits[b][x] + 1] \in [Bodies -> Nat] BY <3>1
    <3> QED BY <1>4, <2>2, <3>1, <3>2 DEF TypeOK
  <2> QED BY <1>2, <2>1, <2>2 DEF Hit
<1>6. TypeOK'
  <2>1. left \ {x} \in SUBSET Bodies OBVIOUS
  <2>2. todo' \in Seq(Step) BY <1>3, <2>1, StepTypes
  <2> QED BY <1>4, <1>5, <2>2 DEF TypeOK
<1>7. Shape'
  <2>1. b \notin botched => \A y \in left \ {x} : hits'[b][y] = 0 BY <1>4, <1>5
  <2>2. AtBlast(b, left \ {x})' BY <1>3, <1>4, <2>1 DEF AtBlast
  <2>3. left \ {x} \in SUBSET Bodies OBVIOUS
  <2> QED BY <2>2, <2>3 DEF Shape
<1>8. todo' # <<>> /\ It' = b
  <2>1. Head(todo') = BlastOf(b, left \ {x}) /\ todo' # <<>> BY <1>3
  <2> QED BY <2>1 DEF It, BlastOf
<1>9. Cleared'
  <2>1. \A c \in Bombs \ world, y \in Bodies : hits'[c][y] = hits[c][y] BY <1>4, <1>5
  <2> QED BY <1>4, <2>1 DEF IInv, Cleared
<1>10. Counted' BY <1>2, <1>4, <1>8 DEF IInv, Counted
<1>11. HitOnce'
  <2>1. ASSUME NEW c \in Bombs \ botched, NEW y \in Bodies
        PROVE  hits'[c][y] <= 1 /\ (hits'[c][y] = 1 => c \notin live /\ fuse[c] = 0)
    <3>1. CASE hits'[c][y] = hits[c][y] BY <1>4, <2>1, <3>1 DEF HitOnce
    <3>2. CASE c = b /\ y = x /\ hits'[c][y] = hits[c][y] + 1
      BY <1>4, <2>1, <3>2
    <3> QED BY <1>5, <3>1, <3>2
  <2> QED BY <1>4, <2>1 DEF HitOnce
<1>12. Accounts' BY <1>2, <1>4 DEF IInv, Accounts
<1> QED BY <1>4, <1>6, <1>7, <1>9, <1>10, <1>11, <1>12 DEF IInv

LEMMA BlastOverStep ==
    ASSUME IInv, BlastOver
    PROVE  IInv'
<1>1. PICK b \in Bombs, left \in SUBSET Bodies : AtBlast(b, left)
  BY WhichWrite DEF BlastOver, IInv
<1>2. It = b /\ ~Doing("unit") /\ todo # <<>> /\ todo' = <<DeleteOf(b)>>
  BY <1>1, HeadsOfShapes, Ops DEF It, BlastOf, Doing, BlastOver
<1>3. /\ UNCHANGED <<pos, world, at, fuse, disarm, live, round, faults, dropped, units,
                     pending, paid, laid, cut, botched, hits>>
      /\ b \in world /\ b \notin live
  BY <1>1 DEF AtBlast, BlastOver, placing, blasting
<1>4. TypeOK'
  <2>1. todo' \in Seq(Step) BY <1>2, StepTypes
  <2> QED BY <1>3, <2>1 DEF IInv, TypeOK
<1>5. Shape'
  <2>1. AtDelete(b)' BY <1>2, <1>3 DEF AtDelete
  <2> QED BY <2>1 DEF Shape
<1>6. todo' # <<>> /\ It' = b
  <2>1. Head(todo') = DeleteOf(b) /\ todo' # <<>> BY <1>2
  <2> QED BY <2>1 DEF It, DeleteOf
<1>7. (Cleared /\ HitOnce /\ round \subseteq live)' BY <1>3 DEF IInv, Cleared, HitOnce
<1>8. Counted' BY <1>2, <1>3, <1>6 DEF IInv, Counted
<1>9. Accounts' BY <1>2, <1>3 DEF IInv, Accounts
<1> QED BY <1>4, <1>5, <1>7, <1>8, <1>9 DEF IInv

-----------------------------------------------------------------------------
(* A crash: what was in hand is left as it is on disk, and everything with *)
(* time left is counted down again.                                        *)
LEMMA CrashStep ==
    ASSUME IInv, Crash
    PROVE  IInv'
<1>1. /\ UNCHANGED <<pos, world, at, fuse, disarm, units, pending, paid, laid, hits, botched>>
      /\ todo' = <<>> /\ round' = {} /\ live' = Rebuild /\ TypeOK
  BY DEF Crash, blasting, IInv
<1>2. live' \subseteq Bombs BY <1>1 DEF Rebuild, TypeOK
<1>3. cut' \subseteq Bombs
  <2>1. ASSUME NEW i \in DOMAIN todo, todo[i].op = "unit" PROVE todo[i].bomb \in Bombs
    <3>1. todo[i] \in Step BY <1>1 DEF TypeOK
    <3> QED BY <3>1 DEF Step
  <2> QED BY <1>1, <2>1 DEF Crash, TypeOK
<1>4. TypeOK'
  <2>1. faults' \in 0..MaxFaults /\ dropped' = {}
    BY <1>1, BombAssumption DEF Crash, TypeOK
  <2>2. todo' \in Seq(Step) BY <1>1
  <2> QED BY <1>1, <1>2, <1>3, <2>1, <2>2 DEF TypeOK
<1>5. Shape' BY <1>1 DEF Shape
<1>6. Cleared' BY <1>1 DEF IInv, Cleared
<1>7. Counted' BY <1>1 DEF Counted, Rebuild
<1>8. HitOnce' BY <1>1 DEF IInv, HitOnce, Rebuild, TypeOK
<1>9. Accounts'
  <2>1. ASSUME NEW c \in laid PROVE c \in paid \cup cut'
    <3>1. CASE c \in paid \cup cut BY <3>1 DEF Crash
    <3>2. CASE Doing("unit") /\ It = c
      <4>1. PICK p \in Players, b \in Bombs : AtUnit(p, b) BY <3>2, WhichWrite DEF IInv
      <4>2. 1 \in DOMAIN todo /\ todo[1] = UnitOf(b, p) BY <4>1 DEF AtUnit
      <4>3. Head(todo) = UnitOf(b, p) BY <4>1, HeadsOfShapes
      <4>4. todo[1].op = "unit" /\ todo[1].bomb = c BY <3>2, <4>2, <4>3 DEF It, UnitOf
      <4> QED BY <4>2, <4>4 DEF Crash
    <3> QED BY <3>1, <3>2 DEF IInv, Accounts
  <2> QED BY <1>1, <2>1 DEF IInv, Accounts
<1> QED BY <1>1, <1>4, <1>5, <1>6, <1>7, <1>8, <1>9 DEF IInv

LEMMA StutterStep ==
    ASSUME IInv, UNCHANGED vars
    PROVE  IInv'
<1>1. UNCHANGED <<pos, world, at, fuse, disarm, live, round, todo, faults, dropped,
                  units, pending, paid, laid, cut, hits, botched>>
  BY DEF vars, placing, blasting
<1>2. TypeOK' BY <1>1 DEF IInv, TypeOK
<1>3. (Cleared /\ HitOnce /\ Counted /\ Accounts /\ round \subseteq live)'
  BY <1>1 DEF IInv, Cleared, HitOnce, Counted, Accounts, Doing, It
<1>4. Shape'
  <2>1. \A p \in Players, b \in Bombs, s \in Spots, sec \in Fuses :
          AtFuse(p, b, s, sec) => AtFuse(p, b, s, sec)'
    BY <1>1 DEF AtFuse, Fresh
  <2>2. \A p \in Players, b \in Bombs :
          /\ AtUnit(p, b) => AtUnit(p, b)'
          /\ AtConsume(p, b) => AtConsume(p, b)'
    BY <1>1 DEF AtUnit, AtConsume
  <2>3. \A b \in Bombs, left \in SUBSET Bodies : AtBlast(b, left) => AtBlast(b, left)'
    BY <1>1 DEF AtBlast
  <2>4. \A b \in Bombs : (AtAttempt(b) => AtAttempt(b)') /\ (AtDelete(b) => AtDelete(b)')
    BY <1>1 DEF AtAttempt, AtDelete
  <2>5. CASE todo = <<>> BY <1>1, <2>5 DEF Shape
  <2>6. CASE \E p \in Players, b \in Bombs, s \in Spots, sec \in Fuses :
                AtFuse(p, b, s, sec)
    BY <2>1, <2>6 DEF Shape
  <2>7. CASE \E p \in Players, b \in Bombs, s \in Spots : AtCoords(p, b, s)
    <3>1. PICK p \in Players, b \in Bombs, s \in Spots : AtCoords(p, b, s) BY <2>7
    <3>2. AtCoords(p, b, s)' BY <1>1, <3>1 DEF AtCoords, Fresh
    <3> QED BY <3>2 DEF Shape
  <2>8. CASE \E p \in Players, b \in Bombs : AtUnit(p, b) BY <2>2, <2>8 DEF Shape
  <2>9. CASE \E p \in Players, b \in Bombs : AtConsume(p, b) BY <2>2, <2>9 DEF Shape
  <2>10. CASE \E b \in Bombs : AtAttempt(b) BY <2>4, <2>10 DEF Shape
  <2>11. CASE \E b \in Bombs, left \in SUBSET Bodies : AtBlast(b, left)
    BY <2>3, <2>11 DEF Shape
  <2>12. CASE \E b \in Bombs : AtDelete(b) BY <2>4, <2>12 DEF Shape
  <2> QED BY <2>5, <2>6, <2>7, <2>8, <2>9, <2>10, <2>11, <2>12 DEF IInv, Shape
<1> QED BY <1>2, <1>3, <1>4 DEF IInv

LEMMA Inductive == Spec => []IInv
<1>1. ASSUME IInv, [Next]_vars PROVE IInv'
  <2>1. CASE Write
    BY <1>1, <2>1, WriteFuseStep, WriteCoordsStep, TakeUnitStep, ConsumeStep, AttemptStep,
       HitStep, BlastOverStep, DeleteStep DEF Write
  <2>2. CASE ~Write
    BY <1>1, <2>2, MoveStep, SupplyStep, SetFuseStep, DeployStep, DisarmStep, WipeStep,
       TickOneStep, TickRaisesStep, BeginTickStep, PlacingFailsStep, CrashStep,
       StutterStep DEF Next
  <2> QED BY <2>1, <2>2
<1> QED BY InitIInv, <1>1, PTL DEF Spec

-----------------------------------------------------------------------------
(* Bags, fuses, bombs and the list stay what they are meant to be.         *)
THEOREM TypeCorrect == Spec => []TypeOK
<1>1. IInv => TypeOK BY DEF IInv
<1> QED BY Inductive, <1>1, PTL

(* Every placed bomb with time left is counted down between two calls,     *)
(* wherever crashes came.  (rebuild_from_world, process_tick)              *)
THEOREM NoBombForgotten == Spec => []CountdownKept
<1>1. IInv => CountdownKept BY DEF IInv, Counted, CountdownKept, Idle
<1> QED BY Inductive, <1>1, PTL

(* No blast hits anybody twice, unless a failed disarm set it off.         *)
(* (_tick_one writes the fuse before it detonates)                         *)
THEOREM NoSecondBlast == Spec => []BlastOnce
<1>1. IInv => BlastOnce BY DEF IInv, HitOnce, BlastOnce
<1> QED BY Inductive, <1>1, PTL

(* A unit is taken only for a bomb that was placed, and a placed bomb is   *)
(* unpaid only where a crash cut its deployment.                           *)
THEOREM UnitBuysBomb == Spec => []UnitForBomb
<1>1. IInv => UnitForBomb BY DEF IInv, Accounts, UnitForBomb, Doing
<1> QED BY Inductive, <1>1, PTL
=============================================================================
