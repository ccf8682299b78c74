---------------------- MODULE SupplyAndDefinitions_proofs ----------------------
(***************************************************************************)
(* Two components that share nothing, proved in one module.                *)
(*                                                                         *)
(* SupplyChain: its books balance for any number of stores, units and      *)
(* crashes.  The invariant gives the list of writes of every handler its   *)
(* shapes, and to each shape what is still to be booked.                   *)
(*                                                                         *)
(* Definitions: its commands are atomic for any number of documents,       *)
(* contents, edits and crashes.  The invariant says what a load that has   *)
(* come so far knows: the overrides are in what it has read, the checks    *)
(* that were due have passed, and a write has changed one entry of the     *)
(* overlay.                                                                *)
(***************************************************************************)
EXTENDS SupplyChain, Definitions, TLAPS, FiniteSetTheorems, SequenceTheorems

-----------------------------------------------------------------------------
(* The writes a handler of SupplyChain leaves, by shape.                   *)
AddOf(n) == [op |-> "add", at |-> NoStore, n |-> n]
GroundOf(s, n) == [op |-> "ground", at |-> s, n |-> n]
HandOf(n) == [op |-> "hand", n |-> n]
PoolOf(v, n) == [op |-> "pool", at |-> v, n |-> n]
SpillOf(v, n) == [op |-> "spill", at |-> v, n |-> n]
PurseOf(n) == [op |-> "purse", n |-> n]
StashOf(n) == [op |-> "stash", n |-> n]
LoadOf(n) == [op |-> "load", n |-> n]

(* The writes that move nothing from one place to another.                 *)
QuietStep ==
    [op: {"state"}, to: DeliveryState \cup {"none"}]
        \cup [op: {"dest"}, to: Stores \cup {NoStore}]
        \cup [op: {"walking", "posted", "script"}, to: BOOLEAN]
        \cup [op: {"drop", "turn"}]

(* So many units are still to be booked, or counted twice if negative.     *)
Due(n) ==
    /\ Held + gone + n = made + slip
    /\ made + slip >= 0 /\ -n <= made + slip

Resting == todo \in Seq(QuietStep) /\ Due(0)

(* A drop is picked up: in the inventory, shared out, gone from it.        *)
Getting3(s, a, m, h) ==
    todo = <<AddOf(a), GroundOf(s, m), HandOf(h)>> /\ hand = h + a + m /\ Due(0)
Getting2(s, m, h) ==
    /\ todo = <<GroundOf(s, m), HandOf(h)>>
    /\ hand - h <= made + slip /\ Due(m + h - hand)
Getting1(h) == todo = <<HandOf(h)>> /\ Due(h - hand)

(* A deposit, or with n negative a withdrawal.                             *)
Moving2(v, n) ==
    /\ todo = <<PoolOf(v, n), AddOf(-n)>>
    /\ pool[v] + n \in 0..Capacity /\ n <= purse /\ Due(0)
Moving1(n) == todo = <<AddOf(n)>> /\ purse + n >= 0 /\ Due(n)

(* A death; the stash given back; the write of the stash that ends both.   *)
Dying(t) == todo = <<PurseOf(0), StashOf(t)>> /\ Due(t - stash - purse)
Collecting(a, t) == todo = <<AddOf(a), StashOf(t)>> /\ a + t = stash /\ Due(0)
Stashing(t) == todo = <<StashOf(t)>> /\ Due(t - stash)

(* The harvester takes a drop up, and hands its load over.                 *)
Picking(n, e) ==
    /\ todo = <<GroundOf(Field, -n), LoadOf(load + n), e>>
    /\ n <= ground[Field] /\ load + n <= Bag /\ Due(0)
Handing4(v, n, m, e) ==
    /\ todo = <<PoolOf(v, n), SpillOf(v, m), LoadOf(0), e>>
    /\ n + m = load /\ pool[v] + n <= Capacity /\ Due(0)
Handing3(v, m, e) ==
    /\ todo = <<SpillOf(v, m), LoadOf(0), e>>
    /\ load <= made + slip /\ Due(m - load)
Paying(e) == todo = <<AddOf(load), LoadOf(0), e>> /\ Due(0)
Filling(l, e) == todo = <<LoadOf(l), e>> /\ l <= Bag /\ Due(l - load)

Underway ==
    \/ Resting
    \/ \E s \in Spots, m, h \in Nat :
         (\E a \in Nat : Getting3(s, a, m, h)) \/ Getting2(s, m, h) \/ Getting1(h)
    \/ \E n \in Int : (\E v \in Stores : Moving2(v, n)) \/ Moving1(n)
    \/ \E t \in Nat : Dying(t) \/ Stashing(t) \/ \E a \in Nat : Collecting(a, t)
    \/ \E v \in Stores, n, m \in Nat, e \in QuietStep :
         Handing4(v, n, m, e) \/ Handing3(v, m, e)
    \/ \E n \in Nat, e \in QuietStep : Picking(n, e) \/ Paying(e) \/ Filling(n, e)

SupplyInv == SupplyTypeOK /\ Underway

-----------------------------------------------------------------------------
LEMMA CountedTo ==
  ASSUME NEW k \in Nat
  PROVE  IsFiniteSet(1..k) /\ Cardinality(1..k) = k
<1>1. PICK i \in Int : i = 1
  OBVIOUS
<1>2. IsFiniteSet(i..k) /\ Cardinality(i..k) = IF i > k THEN 0 ELSE k - i + 1
  BY FS_Interval
<1>3. (IF i > k THEN 0 ELSE k - i + 1) = k
  BY <1>1
<1> QED BY <1>1, <1>2, <1>3

(* A tally counts one pair for every unit of every entry.                  *)
LEMMA UnitsOf ==
  ASSUME NEW f, NEW S
  PROVE  /\ \A u \in Units(f, S) : \E x \in S : \E k \in 1..f[x] : u = <<x, k>>
         /\ \A x \in S : \A k \in 1..f[x] : <<x, k>> \in Units(f, S)
BY DEF Units

LEMMA UnitsFinite ==
  ASSUME NEW f, NEW S, IsFiniteSet(S), \A x \in S : f[x] \in Nat
  PROVE  IsFiniteSet(Units(f, S)) /\ Tally(f, S) \in Nat
<1>1. PICK g : g = [x \in S |-> {x} \X (1..f[x])]
  OBVIOUS
<1>2. PICK R : R = {{x} \X (1..f[x]) : x \in S}
  OBVIOUS
<1>3. g \in Surjection(S, R)
  <2>1. g \in [S -> R]
    BY <1>1, <1>2
  <2>2. \A t \in R : \E s \in S : g[s] = t
    BY <1>1, <1>2
  <2> QED BY <2>1, <2>2 DEF Surjection
<1>4. IsFiniteSet(R)
  BY <1>3, FS_Surjection
<1>5. ASSUME NEW x \in S PROVE IsFiniteSet({x} \X (1..f[x]))
  <2>1. IsFiniteSet({x})
    BY FS_Singleton
  <2>2. IsFiniteSet(1..f[x])
    BY CountedTo
  <2> QED BY <2>1, <2>2, FS_Product
<1>6. IsFiniteSet(UNION R)
  BY <1>2, <1>4, <1>5, FS_UNION
<1> QED BY <1>2, <1>6, FS_CardinalityType DEF Units, Tally

LEMMA TallySame ==
  ASSUME NEW f, NEW g, NEW S, \A y \in S : f[y] = g[y]
  PROVE  Tally(f, S) = Tally(g, S)
BY DEF Tally, Units

(* An entry and the others. *)
LEMMA TallySplit ==
  ASSUME NEW f, NEW S, IsFiniteSet(S), \A y \in S : f[y] \in Nat, NEW x \in S
  PROVE  /\ Tally(f, S \ {x}) \in Nat
         /\ Tally(f, S) = Tally(f, S \ {x}) + f[x]
<1>1. IsFiniteSet(S \ {x})
  BY FS_RemoveElement
<1>2. IsFiniteSet(Units(f, S \ {x})) /\ Tally(f, S \ {x}) \in Nat
  BY <1>1, UnitsFinite
<1>3. PICK E : E = {x} \X (1..f[x])
  OBVIOUS
<1>4. IsFiniteSet(E) /\ Cardinality(E) = f[x]
  <2>1. IsFiniteSet({x}) /\ Cardinality({x}) = 1
    BY FS_Singleton
  <2>2. PICK k \in Nat : k = f[x]
    OBVIOUS
  <2>3. IsFiniteSet(1..f[x]) /\ Cardinality(1..f[x]) = f[x]
    BY <2>2, CountedTo
  <2>4. IsFiniteSet(E) /\ Cardinality(E) = Cardinality({x}) * Cardinality(1..f[x])
    BY <1>3, <2>1, <2>3, FS_Product
  <2>5. Cardinality(E) = 1 * k /\ 1 * k = k
    BY <2>1, <2>2, <2>3, <2>4
  <2> QED BY <2>2, <2>4, <2>5
<1>5. Units(f, S) = Units(f, S \ {x}) \cup E
  BY <1>3 DEF Units
<1>6. Units(f, S \ {x}) \cap E = {}
  <2>1. ASSUME NEW u \in Units(f, S \ {x}), u \in E PROVE FALSE
    <3>1. PICK y \in S \ {x} : \E k \in 1..f[y] : u = <<y, k>>
      BY <2>1, UnitsOf
    <3>2. u[1] = y /\ u[1] = x
      BY <1>3, <2>1, <3>1
    <3> QED BY <3>1, <3>2
  <2> QED BY <2>1
<1>7. Cardinality(Units(f, S)) = Cardinality(Units(f, S \ {x})) + f[x]
  <2>1. PICK V : V = Units(f, S \ {x})
    OBVIOUS
  <2>2. Cardinality(V \cup E) = Cardinality(V) + Cardinality(E) - Cardinality(V \cap E)
    BY <1>2, <1>4, <2>1, FS_Union
  <2>3. Cardinality(V \cap E) = 0
    BY <1>6, <2>1, FS_EmptySet
  <2>4. Cardinality(V) \in Nat /\ Cardinality(E) \in Nat
    BY <1>2, <1>4, <2>1, FS_CardinalityType
  <2> QED BY <1>4, <1>5, <2>1, <2>2, <2>3, <2>4
<1> QED BY <1>2, <1>7 DEF Tally

(* One entry changes. *)
LEMMA TallyOne ==
  ASSUME NEW S, IsFiniteSet(S), NEW f, \A y \in S : f[y] \in Nat,
         NEW x \in S, NEW g, g[x] \in Nat, \A y \in S \ {x} : g[y] = f[y]
  PROVE  /\ Tally(f, S) \in Nat /\ f[x] <= Tally(f, S)
         /\ Tally(g, S) = Tally(f, S) - f[x] + g[x]
<1>1. \A y \in S : g[y] \in Nat
  OBVIOUS
<1>2. PICK m : m = Tally(f, S \ {x})
  OBVIOUS
<1>3. m \in Nat /\ Tally(f, S) = m + f[x]
  BY <1>2, TallySplit
<1>4. Tally(g, S \ {x}) = m
  BY <1>2, TallySame
<1>5. Tally(g, S) = m + g[x]
  BY <1>1, <1>4, TallySplit
<1> QED BY <1>3, <1>5

LEMMA TallyNothing ==
  ASSUME NEW f, NEW S, \A y \in S : f[y] = 0
  PROVE  Tally(f, S) = 0
<1>1. ASSUME NEW u \in Units(f, S) PROVE FALSE
  <2>1. PICK y \in S : \E k \in 1..f[y] : u = <<y, k>>
    BY UnitsOf
  <2> QED BY <2>1
<1>2. Units(f, S) = {}
  BY <1>1
<1> QED BY <1>2, FS_EmptySet DEF Tally
-----------------------------------------------------------------------------
LEMMA Places ==
    /\ IsFiniteSet(Stores) /\ IsFiniteSet(Spots)
    /\ Stores \subseteq Spots /\ Field \in Spots
    /\ Capacity \in Nat /\ Carry \in Nat /\ Bag \in Nat /\ MaxMade \in Nat
    /\ MaxFaults \in Nat
<1>1. IsFiniteSet({Field})
  BY FS_Singleton
<1>2. IsFiniteSet(Stores)
  BY SupplyAssumption DEF SupplyAssumption
<1>3. IsFiniteSet(Spots)
  BY <1>1, <1>2, FS_Union DEF Spots
<1> QED
  BY <1>2, <1>3, SupplyAssumption DEF SupplyAssumption, Spots

(* The sums are numbers, and nothing is more than everything.              *)
LEMMA HeldParts ==
  ASSUME SupplyTypeOK
  PROVE  /\ Tally(ground, Spots) \in Nat /\ Tally(pool, Stores) \in Nat /\ Held \in Nat
         /\ hand <= Held /\ purse <= Held /\ stash <= Held /\ load <= Held
<1>1. \A s \in Spots : ground[s] \in Nat
  BY DEF SupplyTypeOK
<1>2. \A v \in Stores : pool[v] \in Nat
  BY Places DEF SupplyTypeOK
<1>3. Tally(ground, Spots) \in Nat
  BY <1>1, Places, UnitsFinite
<1>4. Tally(pool, Stores) \in Nat
  BY <1>2, Places, UnitsFinite
<1>5. hand \in Nat /\ purse \in Nat /\ stash \in Nat /\ load \in Nat
  BY Places DEF SupplyTypeOK
<1> QED
  BY <1>3, <1>4, <1>5 DEF Held

(* What a step does to everything.                                         *)
LEMMA HeldTile ==
  ASSUME SupplyTypeOK, NEW s \in Spots, NEW n \in Int, ground[s] + n >= 0,
         ground' = [ground EXCEPT ![s] = @ + n],
         UNCHANGED <<hand, purse, pool, stash, load>>
  PROVE  ground' \in [Spots -> Nat] /\ Held' = Held + n
<1>1. ground[s] + n \in Nat /\ ground[s] \in Nat
  BY DEF SupplyTypeOK
<1>2. ground \in [Spots -> Nat] /\ ground' \in [Spots -> Nat]
  BY <1>1 DEF SupplyTypeOK
<1>3. Tally(ground', Spots) = Tally(ground, Spots) - ground[s] + (ground[s] + n)
  <2>1. PICK f, g : f = ground /\ g = ground'
    OBVIOUS
  <2>2. g[s] = f[s] + n /\ \A y \in Spots \ {s} : g[y] = f[y]
    BY <1>2, <2>1
  <2>3. /\ IsFiniteSet(Spots) /\ \A y \in Spots : f[y] \in Nat
        /\ g[s] \in Nat
    BY <1>1, <1>2, <2>1, <2>2, Places
  <2>4. Tally(g, Spots) = Tally(f, Spots) - f[s] + g[s]
    BY <2>2, <2>3, TallyOne
  <2> QED BY <2>1, <2>2, <2>4
<1>4. Tally(ground, Spots)' = Tally(ground, Spots) + n
  BY <1>1, <1>3, HeldParts
<1>5. Tally(pool, Stores)' = Tally(pool, Stores)
  OBVIOUS
<1>6. hand \in Nat /\ purse \in Nat /\ stash \in Nat /\ load \in Nat
  BY Places DEF SupplyTypeOK
<1>7. PICK x, y : x = Tally(ground, Spots) /\ y = Tally(pool, Stores)
  OBVIOUS
<1>8. x \in Nat /\ y \in Nat /\ Held = x + y + hand + purse + stash + load
  BY <1>7, HeldParts DEF Held
<1>9. Held' = (x + n) + y + hand + purse + stash + load
  BY <1>4, <1>5, <1>7 DEF Held
<1> QED
  BY <1>2, <1>6, <1>8, <1>9

LEMMA HeldPool ==
  ASSUME SupplyTypeOK, NEW v \in Stores, NEW n \in Int, pool[v] + n \in 0..Capacity,
         pool' = [pool EXCEPT ![v] = @ + n],
         UNCHANGED <<ground, hand, purse, stash, load>>
  PROVE  pool' \in [Stores -> 0..Capacity] /\ Held' = Held + n
<1>1. pool[v] \in Nat
  BY Places DEF SupplyTypeOK
<1>2. pool \in [Stores -> Nat] /\ pool' \in [Stores -> 0..Capacity] /\ pool[v] + n \in Nat
  BY Places DEF SupplyTypeOK
<1>3. Tally(pool', Stores) = Tally(pool, Stores) - pool[v] + (pool[v] + n)
  <2>1. PICK f, g : f = pool /\ g = pool'
    OBVIOUS
  <2>2. g[v] = f[v] + n /\ \A y \in Stores \ {v} : g[y] = f[y]
    BY <1>2, <2>1
  <2>3. /\ IsFiniteSet(Stores) /\ \A y \in Stores : f[y] \in Nat
        /\ g[v] \in Nat
    BY <1>1, <1>2, <2>1, <2>2, Places
  <2>4. Tally(g, Stores) = Tally(f, Stores) - f[v] + g[v]
    BY <2>2, <2>3, TallyOne
  <2> QED BY <2>1, <2>2, <2>4
<1>4. Tally(pool, Stores)' = Tally(pool, Stores) + n
  BY <1>1, <1>3, HeldParts
<1>5. Tally(ground, Spots)' = Tally(ground, Spots)
  OBVIOUS
<1>6. hand \in Nat /\ purse \in Nat /\ stash \in Nat /\ load \in Nat
  BY Places DEF SupplyTypeOK
<1>7. PICK x, y : x = Tally(ground, Spots) /\ y = Tally(pool, Stores)
  OBVIOUS
<1>8. x \in Nat /\ y \in Nat /\ Held = x + y + hand + purse + stash + load
  BY <1>7, HeldParts DEF Held
<1>9. Held' = x + (y + n) + hand + purse + stash + load
  BY <1>4, <1>5, <1>7 DEF Held
<1> QED
  BY <1>2, <1>6, <1>8, <1>9

LEMMA HeldNumber ==
  ASSUME SupplyTypeOK, UNCHANGED <<ground, pool>>,
         hand' \in Nat, purse' \in Nat, stash' \in Nat, load' \in Nat
  PROVE  Held' = Held + (hand' - hand) + (purse' - purse) + (stash' - stash) + (load' - load)
<1>1. /\ Tally(ground, Spots)' = Tally(ground, Spots)
      /\ Tally(pool, Stores)' = Tally(pool, Stores)
  OBVIOUS
<1>2. hand \in Nat /\ purse \in Nat /\ stash \in Nat /\ load \in Nat
  BY Places DEF SupplyTypeOK
<1> QED
  BY <1>1, <1>2, HeldParts DEF Held

-----------------------------------------------------------------------------
(* The writes of a handler, one after the other.                           *)
LEMMA ShortLists ==
    /\ \A u : <<u>> # <<>> /\ Head(<<u>>) = u /\ Tail(<<u>>) = <<>>
    /\ \A u, v : <<u, v>> # <<>> /\ Head(<<u, v>>) = u /\ Tail(<<u, v>>) = <<v>>
    /\ \A u, v, w : /\ <<u, v, w>> # <<>> /\ Head(<<u, v, w>>) = u
                    /\ Tail(<<u, v, w>>) = <<v, w>>
    /\ \A u, v, w, x : /\ <<u, v, w, x>> # <<>> /\ Head(<<u, v, w, x>>) = u
                       /\ Tail(<<u, v, w, x>>) = <<v, w, x>>
OBVIOUS

(* The head of the list says which write comes next.                       *)
LEMMA WhichWrite ==
  ASSUME Write
  PROVE  /\ It.op = "ground" => WriteGround
         /\ It.op = "spill" => Spill
         /\ It.op = "pool" => WritePool
         /\ It.op \in {"add", "purse"} => WritePurse
         /\ It.op = "hand" => WriteHand
         /\ It.op = "stash" => WriteStash
         /\ It.op = "load" => WriteLoad
BY DEF Write, Doing, It, WriteGround, Spill, WritePool, WritePurse, WriteHand, WriteStash,
       WriteLoad, DropLoad, WriteState, WriteDest, WriteWalking, WritePosted, WriteScript, Turn

LEMMA StepFields ==
    /\ \A n : AddOf(n).op = "add" /\ AddOf(n).n = n
    /\ \A s, n : GroundOf(s, n).op = "ground" /\ GroundOf(s, n).at = s /\ GroundOf(s, n).n = n
    /\ \A n : HandOf(n).op = "hand" /\ HandOf(n).n = n
    /\ \A v, n : PoolOf(v, n).op = "pool" /\ PoolOf(v, n).at = v /\ PoolOf(v, n).n = n
    /\ \A v, n : SpillOf(v, n).op = "spill" /\ SpillOf(v, n).at = v /\ SpillOf(v, n).n = n
    /\ \A n : PurseOf(n).op = "purse" /\ PurseOf(n).n = n
    /\ \A n : StashOf(n).op = "stash" /\ StashOf(n).n = n
    /\ \A n : LoadOf(n).op = "load" /\ LoadOf(n).n = n
BY DEF AddOf, GroundOf, HandOf, PoolOf, SpillOf, PurseOf, StashOf, LoadOf

LEMMA Numbers ==
  ASSUME SupplyTypeOK
  PROVE  /\ hand \in Nat /\ purse \in Nat /\ stash \in Nat /\ load \in Nat /\ load <= Bag
         /\ gone \in Nat /\ made \in Nat /\ slip \in Int
         /\ \A s \in Spots : ground[s] \in Nat
         /\ \A v \in Stores : pool[v] \in Nat /\ pool[v] <= Capacity
BY Places DEF SupplyTypeOK

LEMMA Counts ==
  ASSUME SupplyTypeOK
  PROVE  /\ Held \in Int /\ gone \in Int /\ made \in Int /\ slip \in Int
         /\ hand \in Int /\ purse \in Int /\ stash \in Int /\ load \in Int
         /\ 0 <= Held /\ 0 <= gone /\ 0 <= load /\ 0 <= purse
         /\ hand <= Held /\ purse <= Held /\ stash <= Held /\ load <= Held
BY Numbers, HeldParts

(* A write that touches goods leaves the rest as it is.                    *)
LEMMA TypesKept ==
  ASSUME SupplyTypeOK, todo # <<>>, todo' = Tail(todo), UNCHANGED <<fsm, faults, made, slip>>,
         ground' \in [Spots -> Nat], pool' \in [Stores -> 0..Capacity],
         hand' \in Nat, purse' \in Nat, stash' \in Nat, load' \in 0..Bag, gone' \in Nat
  PROVE  SupplyTypeOK'
<1>1. todo' \in Seq(Step)
  BY DEF SupplyTypeOK
<1> QED
  BY <1>1 DEF SupplyTypeOK, fsm

(* One number is written.                                                  *)
LEMMA PurseWritten ==
  ASSUME SupplyTypeOK, todo # <<>>, WritePurse, purse' \in Nat
  PROVE  /\ SupplyTypeOK' /\ Held' = Held + (purse' - purse)
         /\ todo' = Tail(todo) /\ UNCHANGED <<ground, hand, pool, stash, load, made, gone, slip>>
<1>1. /\ todo' = Tail(todo)
      /\ UNCHANGED <<ground, hand, pool, stash, load, fsm, faults, made, gone, slip>>
  BY DEF WritePurse
<1>2. hand' \in Nat /\ stash' \in Nat /\ load' \in 0..Bag /\ gone' \in Nat /\ load' \in Nat
      /\ ground' \in [Spots -> Nat] /\ pool' \in [Stores -> 0..Capacity]
  BY <1>1, Numbers DEF SupplyTypeOK
<1>3. Held' = Held + (hand' - hand) + (purse' - purse) + (stash' - stash) + (load' - load)
  BY <1>1, <1>2, HeldNumber
<1>4. Held' = Held + (purse' - purse)
  BY <1>1, <1>3, Counts
<1>5. SupplyTypeOK'
  BY <1>1, <1>2, TypesKept
<1> QED
  BY <1>1, <1>4, <1>5

LEMMA HandWritten ==
  ASSUME SupplyTypeOK, todo # <<>>, WriteHand, hand' \in Nat
  PROVE  /\ SupplyTypeOK' /\ Held' = Held + (hand' - hand)
         /\ todo' = Tail(todo) /\ UNCHANGED <<ground, purse, pool, stash, load, made, gone, slip>>
<1>1. /\ todo' = Tail(todo)
      /\ UNCHANGED <<ground, purse, pool, stash, load, fsm, faults, made, gone, slip>>
  BY DEF WriteHand
<1>2. purse' \in Nat /\ stash' \in Nat /\ load' \in 0..Bag /\ gone' \in Nat /\ load' \in Nat
      /\ ground' \in [Spots -> Nat] /\ pool' \in [Stores -> 0..Capacity]
  BY <1>1, Numbers DEF SupplyTypeOK
<1>3. Held' = Held + (hand' - hand) + (purse' - purse) + (stash' - stash) + (load' - load)
  BY <1>1, <1>2, HeldNumber
<1>4. Held' = Held + (hand' - hand)
  BY <1>1, <1>3, Counts
<1>5. SupplyTypeOK'
  BY <1>1, <1>2, TypesKept
<1> QED
  BY <1>1, <1>4, <1>5

LEMMA StashWritten ==
  ASSUME SupplyTypeOK, todo # <<>>, WriteStash, stash' \in Nat
  PROVE  /\ SupplyTypeOK' /\ Held' = Held + (stash' - stash)
         /\ todo' = Tail(todo) /\ UNCHANGED <<ground, hand, purse, pool, load, made, gone, slip>>
<1>1. /\ todo' = Tail(todo)
      /\ UNCHANGED <<ground, hand, purse, pool, load, fsm, faults, made, gone, slip>>
  BY DEF WriteStash
<1>2. hand' \in Nat /\ purse' \in Nat /\ load' \in 0..Bag /\ gone' \in Nat /\ load' \in Nat
      /\ ground' \in [Spots -> Nat] /\ pool' \in [Stores -> 0..Capacity]
  BY <1>1, Numbers DEF SupplyTypeOK
<1>3. Held' = Held + (hand' - hand) + (purse' - purse) + (stash' - stash) + (load' - load)
  BY <1>1, <1>2, HeldNumber
<1>4. Held' = Held + (stash' - stash)
  BY <1>1, <1>3, Counts
<1>5. SupplyTypeOK'
  BY <1>1, <1>2, TypesKept
<1> QED
  BY <1>1, <1>4, <1>5

LEMMA LoadWritten ==
  ASSUME SupplyTypeOK, todo # <<>>, WriteLoad, load' \in Nat, load' <= Bag
  PROVE  /\ SupplyTypeOK' /\ Held' = Held + (load' - load)
         /\ todo' = Tail(todo) /\ UNCHANGED <<ground, hand, purse, pool, stash, made, gone, slip>>
<1>1. /\ todo' = Tail(todo)
      /\ UNCHANGED <<ground, hand, purse, pool, stash, fsm, faults, made, gone, slip>>
  BY DEF WriteLoad
<1>2. hand' \in Nat /\ purse' \in Nat /\ stash' \in Nat /\ gone' \in Nat /\ load' \in 0..Bag
      /\ ground' \in [Spots -> Nat] /\ pool' \in [Stores -> 0..Capacity]
  BY <1>1, Places, Numbers DEF SupplyTypeOK
<1>3. Held' = Held + (hand' - hand) + (purse' - purse) + (stash' - stash) + (load' - load)
  BY <1>1, <1>2, HeldNumber
<1>4. Held' = Held + (load' - load)
  BY <1>1, <1>3, Counts
<1>5. SupplyTypeOK'
  BY <1>1, <1>2, TypesKept
<1> QED
  BY <1>1, <1>4, <1>5

LEMMA GroundWritten ==
  ASSUME SupplyTypeOK, todo # <<>>, WriteGround, It.at \in Spots, It.n \in Int,
         ground[It.at] + It.n >= 0
  PROVE  /\ SupplyTypeOK' /\ Held' = Held + It.n
         /\ todo' = Tail(todo) /\ UNCHANGED <<hand, purse, pool, stash, load, made, gone, slip>>
<1>1. /\ todo' = Tail(todo)
      /\ UNCHANGED <<hand, purse, pool, stash, load, fsm, faults, made, gone, slip>>
  BY DEF WriteGround
<1>2. PICK s, n : s = It.at /\ n = It.n
  OBVIOUS
<1>3. ground' = [ground EXCEPT ![s] = @ + n]
  BY <1>2 DEF WriteGround
<1>4. ground' \in [Spots -> Nat] /\ Held' = Held + n
  BY <1>1, <1>2, <1>3, HeldTile
<1>5. hand' \in Nat /\ purse' \in Nat /\ stash' \in Nat /\ load' \in 0..Bag /\ gone' \in Nat
      /\ pool' \in [Stores -> 0..Capacity]
  BY <1>1, Numbers DEF SupplyTypeOK
<1>6. SupplyTypeOK'
  BY <1>1, <1>4, <1>5, TypesKept
<1> QED
  BY <1>1, <1>2, <1>4, <1>6

LEMMA PoolWritten ==
  ASSUME SupplyTypeOK, todo # <<>>, WritePool, It.at \in Stores, It.n \in Int,
         pool[It.at] + It.n \in 0..Capacity
  PROVE  /\ SupplyTypeOK' /\ Held' = Held + It.n
         /\ todo' = Tail(todo) /\ UNCHANGED <<ground, hand, purse, stash, load, made, gone, slip>>
<1>1. /\ todo' = Tail(todo)
      /\ UNCHANGED <<ground, hand, purse, stash, load, fsm, faults, made, gone, slip>>
  BY DEF WritePool
<1>2. PICK v, n : v = It.at /\ n = It.n
  OBVIOUS
<1>3. pool' = [pool EXCEPT ![v] = @ + n]
  BY <1>2 DEF WritePool
<1>4. pool' \in [Stores -> 0..Capacity] /\ Held' = Held + n
  BY <1>1, <1>2, <1>3, HeldPool
<1>5. hand' \in Nat /\ purse' \in Nat /\ stash' \in Nat /\ load' \in 0..Bag /\ gone' \in Nat
      /\ ground' \in [Spots -> Nat]
  BY <1>1, Numbers DEF SupplyTypeOK
<1>6. SupplyTypeOK'
  BY <1>1, <1>4, <1>5, TypesKept
<1> QED
  BY <1>1, <1>2, <1>4, <1>6

(* A remainder lands on the tile or is given up: it is accounted for.      *)
LEMMA Spilled ==
  ASSUME SupplyTypeOK, todo # <<>>, Spill, It.at \in Spots, It.n \in Nat
  PROVE  /\ SupplyTypeOK' /\ Held' + gone' = Held + gone + It.n
         /\ todo' = Tail(todo) /\ UNCHANGED <<hand, purse, pool, stash, load, made, slip>>
<1>1. /\ todo' = Tail(todo)
      /\ UNCHANGED <<hand, purse, pool, stash, load, fsm, faults, made, slip>>
  BY DEF Spill
<1>2. PICK s, n : s = It.at /\ n = It.n
  OBVIOUS
<1>3. hand' \in Nat /\ purse' \in Nat /\ stash' \in Nat /\ load' \in 0..Bag
      /\ pool' \in [Stores -> 0..Capacity]
  BY <1>1, Numbers DEF SupplyTypeOK
<1>4. CASE ground' = [ground EXCEPT ![s] = @ + n] /\ gone' = gone
  <2>1. s \in Spots /\ n \in Int /\ ground[s] + n >= 0
    BY <1>2, Numbers
  <2>2. ground' = [ground EXCEPT ![s] = @ + n]
    BY <1>4
  <2>3. ground' \in [Spots -> Nat] /\ Held' = Held + n
    BY <1>1, <2>1, <2>2, HeldTile
  <2>4. gone' = gone /\ gone' \in Nat /\ gone \in Int /\ Held \in Int
    BY <1>4, Numbers, Counts
  <2>5. SupplyTypeOK'
    BY <1>1, <1>3, <2>3, <2>4, TypesKept
  <2>6. Held' + gone' = Held + gone + n
    BY <2>1, <2>3, <2>4
  <2> QED
    BY <1>1, <1>2, <2>5, <2>6
<1>5. CASE ground' = ground /\ gone' = gone + n
  <2>1. ground' \in [Spots -> Nat] /\ gone' \in Nat /\ load' \in Nat
    BY <1>1, <1>2, <1>5, Numbers DEF SupplyTypeOK
  <2>2. Held' = Held + (hand' - hand) + (purse' - purse) + (stash' - stash) + (load' - load)
    BY <1>1, <1>3, <1>5, <2>1, HeldNumber
  <2>3. Held' = Held
    BY <1>1, <2>2, Counts
  <2>4. SupplyTypeOK'
    BY <1>1, <1>3, <2>1, TypesKept
  <2>5. Held' + gone' = Held + gone + n
    BY <1>2, <1>5, <2>3, Counts
  <2> QED
    BY <1>1, <1>2, <2>4, <2>5
<1> QED
  BY <1>2, <1>4, <1>5 DEF Spill

-----------------------------------------------------------------------------
(* From one shape of the list to the next.                                 *)
LEMMA QuietLists ==
    /\ <<>> \in Seq(QuietStep) /\ QuietStep \subseteq Step
    /\ \A e \in QuietStep : <<e>> \in Seq(QuietStep)
    /\ \A e, f \in QuietStep : <<e, f>> \in Seq(QuietStep)
    /\ \A e, f, g \in QuietStep : <<e, f, g>> \in Seq(QuietStep)
<1>1. QuietStep \subseteq Step
  BY DEF QuietStep, Step
<1> QED
  BY <1>1

LEMMA AfterGetting3 ==
  ASSUME SupplyTypeOK, Write, NEW s \in Spots, NEW a \in Nat, NEW m \in Nat, NEW h \in Nat,
         Getting3(s, a, m, h)
  PROVE  SupplyInv'
<1>1. todo # <<>> /\ It = AddOf(a) /\ Tail(todo) = <<GroundOf(s, m), HandOf(h)>>
  BY ShortLists DEF Getting3, It
<1>2. WritePurse /\ purse' = purse + a
  BY <1>1, StepFields, WhichWrite DEF WritePurse
<1>3. /\ SupplyTypeOK' /\ Held' = Held + (purse' - purse) /\ todo' = Tail(todo)
      /\ UNCHANGED <<ground, hand, pool, stash, load, made, gone, slip>>
  <2>1. purse' \in Nat
    BY <1>2, Counts
  <2> QED
    BY <1>1, <1>2, <2>1, PurseWritten
<1>4. Held' = Held + a
  BY <1>2, <1>3, Counts
<1>5. Held + gone + 0 = made + slip /\ made + slip >= 0 /\ hand = h + a + m
  BY DEF Getting3, Due
<1>6. /\ hand' - h <= made' + slip' /\ made' + slip' >= 0
      /\ Held' + gone' + (m + h - hand') = made' + slip'
      /\ -(m + h - hand') <= made' + slip'
  <2>1. Held \in Int /\ gone \in Int /\ 0 <= gone /\ hand <= Held
    BY Counts
  <2> QED BY <1>3, <1>4, <1>5, <2>1
<1>7. Getting2(s, m, h)'
  BY <1>1, <1>3, <1>6 DEF Getting2, Due
<1> QED
  BY <1>3, <1>7 DEF SupplyInv, Underway

LEMMA AfterGetting2 ==
  ASSUME SupplyTypeOK, Write, NEW s \in Spots, NEW m \in Nat, NEW h \in Nat,
         Getting2(s, m, h)
  PROVE  SupplyInv'
<1>1. todo # <<>> /\ It = GroundOf(s, m) /\ Tail(todo) = <<HandOf(h)>>
  BY ShortLists DEF Getting2, It
<1>2. WriteGround /\ It.at = s /\ It.n = m
  BY <1>1, StepFields, WhichWrite
<1>3. ground[It.at] + It.n >= 0
  BY <1>2, Numbers
<1>4. /\ SupplyTypeOK' /\ Held' = Held + m /\ todo' = Tail(todo)
      /\ UNCHANGED <<hand, purse, pool, stash, load, made, gone, slip>>
  BY <1>1, <1>2, <1>3, GroundWritten
<1>5. Held + gone + (m + h - hand) = made + slip /\ made + slip >= 0
      /\ hand - h <= made + slip
  BY DEF Getting2, Due
<1>6. /\ Held' + gone' + (h - hand') = made' + slip' /\ made' + slip' >= 0
      /\ -(h - hand') <= made' + slip'
  <2>1. Held \in Int /\ gone \in Int /\ hand \in Int /\ made \in Int /\ slip \in Int
    BY Counts
  <2> QED BY <1>4, <1>5, <2>1
<1>7. Getting1(h)'
  BY <1>1, <1>4, <1>6 DEF Getting1, Due
<1> QED
  BY <1>4, <1>7 DEF SupplyInv, Underway

LEMMA AfterGetting1 ==
  ASSUME SupplyTypeOK, Write, NEW h \in Nat, Getting1(h)
  PROVE  SupplyInv'
<1>1. todo # <<>> /\ It = HandOf(h) /\ Tail(todo) = <<>>
  BY ShortLists DEF Getting1, It
<1>2. WriteHand /\ hand' = h
  BY <1>1, StepFields, WhichWrite DEF WriteHand
<1>3. /\ SupplyTypeOK' /\ Held' = Held + (hand' - hand) /\ todo' = Tail(todo)
      /\ UNCHANGED <<ground, purse, pool, stash, load, made, gone, slip>>
  BY <1>1, <1>2, HandWritten
<1>4. Held + gone + (h - hand) = made + slip /\ made + slip >= 0
  BY DEF Getting1, Due
<1>5. Held' + gone' + 0 = made' + slip' /\ made' + slip' >= 0 /\ -0 <= made' + slip'
  <2>1. Held \in Int /\ gone \in Int /\ hand \in Int
    BY Counts
  <2> QED BY <1>2, <1>3, <1>4, <2>1
<1>6. Resting'
  BY <1>1, <1>3, <1>5, QuietLists DEF Resting, Due
<1> QED
  BY <1>3, <1>6 DEF SupplyInv, Underway

LEMMA AfterMoving2 ==
  ASSUME SupplyTypeOK, Write, NEW v \in Stores, NEW n \in Int, Moving2(v, n)
  PROVE  SupplyInv'
<1>1. todo # <<>> /\ It = PoolOf(v, n) /\ Tail(todo) = <<AddOf(-n)>>
  BY ShortLists DEF Moving2, It
<1>2. WritePool /\ It.at = v /\ It.n = n
  BY <1>1, StepFields, WhichWrite
<1>3. pool[It.at] + It.n \in 0..Capacity
  BY <1>2 DEF Moving2
<1>4. /\ SupplyTypeOK' /\ Held' = Held + n /\ todo' = Tail(todo)
      /\ UNCHANGED <<ground, hand, purse, stash, load, made, gone, slip>>
  BY <1>1, <1>2, <1>3, PoolWritten
<1>5. Held + gone + 0 = made + slip /\ made + slip >= 0 /\ n <= purse
  BY DEF Moving2, Due
<1>6. /\ purse' + -n >= 0 /\ made' + slip' >= 0
      /\ Held' + gone' + -n = made' + slip' /\ -(-n) <= made' + slip'
  <2>1. /\ Held \in Int /\ gone \in Int /\ purse \in Int /\ made \in Int /\ slip \in Int
        /\ 0 <= gone /\ purse <= Held
    BY Counts
  <2> QED BY <1>4, <1>5, <2>1
<1>7. -n \in Int /\ Moving1(-n)'
  BY <1>1, <1>4, <1>6 DEF Moving1, Due
<1> QED
  BY <1>4, <1>7 DEF SupplyInv, Underway

LEMMA AfterMoving1 ==
  ASSUME SupplyTypeOK, Write, NEW n \in Int, Moving1(n)
  PROVE  SupplyInv'
<1>1. todo # <<>> /\ It = AddOf(n) /\ Tail(todo) = <<>>
  BY ShortLists DEF Moving1, It
<1>2. WritePurse /\ purse' = purse + n
  BY <1>1, StepFields, WhichWrite DEF WritePurse
<1>3. Held + gone + n = made + slip /\ made + slip >= 0 /\ purse + n >= 0
  BY DEF Moving1, Due
<1>4. /\ Held \in Int /\ gone \in Int /\ purse \in Int
  BY Counts
<1>5. purse' \in Nat
  BY <1>2, <1>3, <1>4
<1>6. /\ SupplyTypeOK' /\ Held' = Held + (purse' - purse) /\ todo' = Tail(todo)
      /\ UNCHANGED <<ground, hand, pool, stash, load, made, gone, slip>>
  BY <1>1, <1>2, <1>5, PurseWritten
<1>7. Held' + gone' + 0 = made' + slip' /\ made' + slip' >= 0 /\ -0 <= made' + slip'
  BY <1>2, <1>3, <1>4, <1>6
<1>8. Resting'
  BY <1>1, <1>6, <1>7, QuietLists DEF Resting, Due
<1> QED
  BY <1>6, <1>8 DEF SupplyInv, Underway

LEMMA AfterDying ==
  ASSUME SupplyTypeOK, Write, NEW t \in Nat, Dying(t)
  PROVE  SupplyInv'
<1>1. todo # <<>> /\ It = PurseOf(0) /\ Tail(todo) = <<StashOf(t)>>
  BY ShortLists DEF Dying, It
<1>2. WritePurse /\ purse' = 0
  BY <1>1, StepFields, WhichWrite DEF WritePurse
<1>3. /\ Held + gone + (t - stash - purse) = made + slip /\ made + slip >= 0
      /\ -(t - stash - purse) <= made + slip
  BY DEF Dying, Due
<1>4. /\ SupplyTypeOK' /\ Held' = Held + (purse' - purse) /\ todo' = Tail(todo)
      /\ UNCHANGED <<ground, hand, pool, stash, load, made, gone, slip>>
  BY <1>1, <1>2, PurseWritten
<1>5. /\ Held' + gone' + (t - stash') = made' + slip' /\ made' + slip' >= 0
      /\ -(t - stash') <= made' + slip'
  <2>1. Held \in Int /\ gone \in Int /\ purse \in Nat /\ stash \in Int
        /\ made \in Int /\ slip \in Int
    BY Counts, Numbers
  <2> QED BY <1>2, <1>3, <1>4, <2>1
<1>6. Stashing(t)'
  BY <1>1, <1>4, <1>5 DEF Stashing, Due
<1> QED
  BY <1>4, <1>6 DEF SupplyInv, Underway

LEMMA AfterCollecting ==
  ASSUME SupplyTypeOK, Write, NEW a \in Nat, NEW t \in Nat, Collecting(a, t)
  PROVE  SupplyInv'
<1>1. todo # <<>> /\ It = AddOf(a) /\ Tail(todo) = <<StashOf(t)>>
  BY ShortLists DEF Collecting, It
<1>2. WritePurse /\ purse' = purse + a
  BY <1>1, StepFields, WhichWrite DEF WritePurse
<1>3. Held + gone + 0 = made + slip /\ made + slip >= 0 /\ a + t = stash
  BY DEF Collecting, Due
<1>4. /\ SupplyTypeOK' /\ Held' = Held + (purse' - purse) /\ todo' = Tail(todo)
      /\ UNCHANGED <<ground, hand, pool, stash, load, made, gone, slip>>
  <2>1. purse' \in Nat
    BY <1>2, Counts
  <2> QED
    BY <1>1, <1>2, <2>1, PurseWritten
<1>5. /\ Held' + gone' + (t - stash') = made' + slip' /\ made' + slip' >= 0
      /\ -(t - stash') <= made' + slip'
  <2>1. /\ Held \in Int /\ gone \in Int /\ purse \in Int /\ made \in Int /\ slip \in Int
        /\ 0 <= gone /\ stash <= Held
    BY Counts
  <2> QED BY <1>2, <1>3, <1>4, <2>1
<1>6. Stashing(t)'
  BY <1>1, <1>4, <1>5 DEF Stashing, Due
<1> QED
  BY <1>4, <1>6 DEF SupplyInv, Underway

LEMMA AfterStashing ==
  ASSUME SupplyTypeOK, Write, NEW t \in Nat, Stashing(t)
  PROVE  SupplyInv'
<1>1. todo # <<>> /\ It = StashOf(t) /\ Tail(todo) = <<>>
  BY ShortLists DEF Stashing, It
<1>2. WriteStash /\ stash' = t
  BY <1>1, StepFields, WhichWrite DEF WriteStash
<1>3. Held + gone + (t - stash) = made + slip /\ made + slip >= 0
  BY DEF Stashing, Due
<1>4. /\ SupplyTypeOK' /\ Held' = Held + (stash' - stash) /\ todo' = Tail(todo)
      /\ UNCHANGED <<ground, hand, purse, pool, load, made, gone, slip>>
  BY <1>1, <1>2, StashWritten
<1>5. Held' + gone' + 0 = made' + slip' /\ made' + slip' >= 0 /\ -0 <= made' + slip'
  <2>1. Held \in Int /\ gone \in Int /\ stash \in Int
    BY Counts
  <2> QED BY <1>2, <1>3, <1>4, <2>1
<1>6. Resting'
  BY <1>1, <1>4, <1>5, QuietLists DEF Resting, Due
<1> QED
  BY <1>4, <1>6 DEF SupplyInv, Underway

LEMMA AfterPicking ==
  ASSUME SupplyTypeOK, Write, NEW n \in Nat, NEW e \in QuietStep, Picking(n, e)
  PROVE  SupplyInv'
<1>1. /\ todo # <<>> /\ It = GroundOf(Field, -n)
      /\ Tail(todo) = <<LoadOf(load + n), e>>
  BY ShortLists DEF Picking, It
<1>2. WriteGround /\ It.at = Field /\ It.n = -n
  BY <1>1, StepFields, WhichWrite
<1>3. /\ Held + gone + 0 = made + slip /\ made + slip >= 0
      /\ n <= ground[Field] /\ load + n <= Bag
  BY DEF Picking, Due
<1>4. It.at \in Spots /\ It.n \in Int /\ ground[It.at] + It.n >= 0
  BY <1>2, <1>3, Places, Numbers
<1>5. /\ SupplyTypeOK' /\ Held' = Held + -n /\ todo' = Tail(todo)
      /\ UNCHANGED <<hand, purse, pool, stash, load, made, gone, slip>>
  BY <1>1, <1>2, <1>4, GroundWritten
<1>6. PICK l : l = load + n
  OBVIOUS
<1>7. /\ l \in Nat /\ l <= Bag /\ made' + slip' >= 0
      /\ Held' + gone' + (l - load') = made' + slip'
      /\ -(l - load') <= made' + slip'
  <2>1. /\ Held \in Int /\ gone \in Int /\ load \in Nat /\ made \in Int /\ slip \in Int
        /\ Bag \in Nat
    BY Counts, Numbers, Places
  <2> QED BY <1>3, <1>5, <1>6, <2>1
<1>8. Filling(l, e)'
  BY <1>1, <1>5, <1>6, <1>7 DEF Filling, Due
<1> QED
  BY <1>5, <1>7, <1>8 DEF SupplyInv, Underway

LEMMA AfterHanding4 ==
  ASSUME SupplyTypeOK, Write, NEW v \in Stores, NEW n \in Nat, NEW m \in Nat,
         NEW e \in QuietStep, Handing4(v, n, m, e)
  PROVE  SupplyInv'
<1>1. /\ todo # <<>> /\ It = PoolOf(v, n)
      /\ Tail(todo) = <<SpillOf(v, m), LoadOf(0), e>>
  BY ShortLists DEF Handing4, It
<1>2. WritePool /\ It.at = v /\ It.n = n
  BY <1>1, StepFields, WhichWrite
<1>3. /\ Held + gone + 0 = made + slip /\ made + slip >= 0
      /\ n + m = load /\ pool[v] + n <= Capacity
  BY DEF Handing4, Due
<1>4. pool[It.at] + It.n \in 0..Capacity
  BY <1>2, <1>3, Places, Numbers
<1>5. /\ SupplyTypeOK' /\ Held' = Held + n /\ todo' = Tail(todo)
      /\ UNCHANGED <<ground, hand, purse, stash, load, made, gone, slip>>
  BY <1>1, <1>2, <1>4, PoolWritten
<1>6. /\ load' <= made' + slip' /\ made' + slip' >= 0
      /\ Held' + gone' + (m - load') = made' + slip'
      /\ -(m - load') <= made' + slip'
  <2>1. /\ Held \in Int /\ gone \in Int /\ load \in Int /\ made \in Int /\ slip \in Int
        /\ 0 <= gone /\ load <= Held
    BY Counts
  <2> QED BY <1>3, <1>5, <2>1
<1>7. Handing3(v, m, e)'
  BY <1>1, <1>5, <1>6 DEF Handing3, Due
<1> QED
  BY <1>5, <1>7 DEF SupplyInv, Underway

LEMMA AfterHanding3 ==
  ASSUME SupplyTypeOK, Write, NEW v \in Stores, NEW m \in Nat, NEW e \in QuietStep,
         Handing3(v, m, e)
  PROVE  SupplyInv'
<1>1. /\ todo # <<>> /\ It = SpillOf(v, m)
      /\ Tail(todo) = <<LoadOf(0), e>>
  BY ShortLists DEF Handing3, It
<1>2. Spill /\ It.at = v /\ It.n = m
  BY <1>1, StepFields, WhichWrite
<1>3. It.at \in Spots /\ It.n \in Nat
  BY <1>2, Places
<1>4. /\ SupplyTypeOK' /\ Held' + gone' = Held + gone + m /\ todo' = Tail(todo)
      /\ UNCHANGED <<hand, purse, pool, stash, load, made, slip>>
  BY <1>1, <1>2, <1>3, Spilled
<1>5. /\ Held + gone + (m - load) = made + slip /\ made + slip >= 0
      /\ load <= made + slip
  BY DEF Handing3, Due
<1>6. /\ Held' + gone' + (0 - load') = made' + slip' /\ made' + slip' >= 0
      /\ -(0 - load') <= made' + slip'
  <2>1. PICK x : x = Held' + gone'
    OBVIOUS
  <2>2. Held \in Int /\ gone \in Int /\ load \in Int /\ made \in Int /\ slip \in Int
    BY Counts
  <2>3. x + (0 - load') = made' + slip' /\ made' + slip' >= 0
        /\ -(0 - load') <= made' + slip'
    BY <1>4, <1>5, <2>1, <2>2
  <2> QED BY <2>1, <2>3
<1>7. Filling(0, e)'
  BY <1>1, <1>4, <1>6, Places DEF Filling, Due
<1> QED
  BY <1>4, <1>7 DEF SupplyInv, Underway

LEMMA AfterPaying ==
  ASSUME SupplyTypeOK, Write, NEW e \in QuietStep, Paying(e)
  PROVE  SupplyInv'
<1>1. /\ todo # <<>> /\ It = AddOf(load) /\ Tail(todo) = <<LoadOf(0), e>>
  BY ShortLists DEF Paying, It
<1>2. WritePurse /\ purse' = purse + load
  BY <1>1, StepFields, WhichWrite DEF WritePurse
<1>3. Held + gone + 0 = made + slip /\ made + slip >= 0
  BY DEF Paying, Due
<1>4. /\ SupplyTypeOK' /\ Held' = Held + (purse' - purse) /\ todo' = Tail(todo)
      /\ UNCHANGED <<ground, hand, pool, stash, load, made, gone, slip>>
  <2>1. purse' \in Nat
    BY <1>2, Counts
  <2> QED
    BY <1>1, <1>2, <2>1, PurseWritten
<1>5. /\ Held' + gone' + (0 - load') = made' + slip' /\ made' + slip' >= 0
      /\ -(0 - load') <= made' + slip'
  <2>1. /\ Held \in Int /\ gone \in Int /\ purse \in Int /\ made \in Int /\ slip \in Int
        /\ load \in Int /\ 0 <= gone /\ load <= Held
    BY Counts
  <2> QED BY <1>2, <1>3, <1>4, <2>1
<1>6. Filling(0, e)'
  BY <1>1, <1>4, <1>5, Places DEF Filling, Due
<1> QED
  BY <1>4, <1>6 DEF SupplyInv, Underway

LEMMA AfterFilling ==
  ASSUME SupplyTypeOK, Write, NEW l \in Nat, NEW e \in QuietStep, Filling(l, e)
  PROVE  SupplyInv'
<1>1. /\ todo # <<>> /\ It = LoadOf(l) /\ Tail(todo) = <<e>>
  BY ShortLists DEF Filling, It
<1>2. WriteLoad /\ load' = l
  BY <1>1, StepFields, WhichWrite DEF WriteLoad
<1>3. Held + gone + (l - load) = made + slip /\ made + slip >= 0 /\ l <= Bag
  BY DEF Filling, Due
<1>4. /\ SupplyTypeOK' /\ Held' = Held + (load' - load) /\ todo' = Tail(todo)
      /\ UNCHANGED <<ground, hand, purse, pool, stash, made, gone, slip>>
  BY <1>1, <1>2, <1>3, LoadWritten
<1>5. Held' + gone' + 0 = made' + slip' /\ made' + slip' >= 0 /\ -0 <= made' + slip'
  <2>1. Held \in Int /\ gone \in Int /\ load \in Int
    BY Counts
  <2> QED BY <1>2, <1>3, <1>4, <2>1
<1>6. Resting'
  BY <1>1, <1>4, <1>5, QuietLists DEF Resting, Due
<1> QED
  BY <1>4, <1>6 DEF SupplyInv, Underway

-----------------------------------------------------------------------------
(* The writes that move nothing.                                           *)
LEMMA QuietTypes ==
  ASSUME NEW e \in QuietStep
  PROVE  /\ e.op \in {"state", "dest", "walking", "posted", "script", "drop", "turn"}
         /\ e.op = "state" => e.to \in DeliveryState \cup {"none"}
         /\ e.op = "dest" => e.to \in Stores \cup {NoStore}
         /\ e.op \in {"walking", "posted", "script"} => e.to \in BOOLEAN
BY DEF QuietStep

LEMMA QuietWrite ==
  ASSUME Write
  PROVE  /\ It.op = "state" => WriteState
         /\ It.op = "dest" => WriteDest
         /\ It.op = "walking" => WriteWalking
         /\ It.op = "posted" => WritePosted
         /\ It.op = "script" => WriteScript
         /\ It.op = "drop" => DropLoad
         /\ It.op = "turn" => Turn
BY DEF Write, Doing, It, WriteGround, Spill, WritePool, WritePurse, WriteHand, WriteStash,
       WriteLoad, DropLoad, WriteState, WriteDest, WriteWalking, WritePosted, WriteScript, Turn

LEMMA HeldSame ==
  ASSUME SupplyTypeOK, UNCHANGED goods
  PROVE  Held' = Held
<1>1. UNCHANGED <<ground, hand, purse, pool, stash, load>>
  BY DEF goods
<1>2. /\ Tally(ground, Spots)' = Tally(ground, Spots)
      /\ Tally(pool, Stores)' = Tally(pool, Stores)
  BY <1>1
<1> QED
  BY <1>1, <1>2 DEF Held

FsmTyped ==
    /\ state \in DeliveryState \cup {"none"} /\ dest \in Stores \cup {NoStore}
    /\ walking \in BOOLEAN /\ posted \in BOOLEAN /\ script \in BOOLEAN /\ enabled \in BOOLEAN

LEMMA GoodsKept ==
  ASSUME SupplyTypeOK, UNCHANGED <<goods, faults, made, slip>>, gone' \in Nat,
         FsmTyped', todo' \in Seq(Step)
  PROVE  SupplyTypeOK' /\ Held' = Held
<1>1. UNCHANGED <<ground, hand, purse, pool, stash, load>>
  BY DEF goods
<1>2. Held' = Held
  BY HeldSame
<1> QED
  BY <1>1, <1>2 DEF SupplyTypeOK, FsmTyped

LEMMA FsmKept ==
  ASSUME SupplyTypeOK, UNCHANGED fsm
  PROVE  FsmTyped'
BY DEF SupplyTypeOK, FsmTyped, fsm

LEMMA QuietOn ==
  ASSUME SupplyTypeOK, Due(0), UNCHANGED <<goods, faults, made, gone, slip>>,
         FsmTyped', todo' \in Seq(QuietStep)
  PROVE  SupplyInv'
<1>1. todo' \in Seq(Step)
  BY QuietLists
<1>2. SupplyTypeOK' /\ Held' = Held
  BY <1>1, Numbers, GoodsKept
<1>3. Resting'
  BY <1>2 DEF Resting, Due
<1> QED
  BY <1>2, <1>3 DEF SupplyInv, Underway

LEMMA AfterResting ==
  ASSUME SupplyTypeOK, Write, Resting
  PROVE  SupplyInv'
<1>1. todo # <<>> /\ todo \in Seq(QuietStep) /\ Due(0)
  BY DEF Resting, Write, Doing, WriteGround, Spill, WritePool, WritePurse, WriteHand,
         WriteStash, WriteLoad, DropLoad, WriteState, WriteDest, WriteWalking, WritePosted,
         WriteScript, Turn
<1>2. It \in QuietStep /\ Tail(todo) \in Seq(QuietStep)
  BY <1>1 DEF It
<1>3. FsmTyped
  BY DEF SupplyTypeOK, FsmTyped
<1>4. CASE It.op = "state" /\ WriteState
  <2>1. FsmTyped'
    BY <1>2, <1>3, <1>4, QuietTypes DEF WriteState, FsmTyped
  <2> QED BY <1>1, <1>2, <1>4, <2>1, QuietOn DEF WriteState
<1>5. CASE It.op = "dest" /\ WriteDest
  <2>1. FsmTyped'
    BY <1>2, <1>3, <1>5, QuietTypes DEF WriteDest, FsmTyped
  <2> QED BY <1>1, <1>2, <1>5, <2>1, QuietOn DEF WriteDest
<1>6. CASE It.op = "walking" /\ WriteWalking
  <2>1. FsmTyped'
    BY <1>2, <1>3, <1>6, QuietTypes DEF WriteWalking, FsmTyped
  <2> QED BY <1>1, <1>2, <1>6, <2>1, QuietOn DEF WriteWalking
<1>7. CASE It.op = "posted" /\ WritePosted
  <2>1. FsmTyped'
    BY <1>2, <1>3, <1>7, QuietTypes DEF WritePosted, FsmTyped
  <2> QED BY <1>1, <1>2, <1>7, <2>1, QuietOn DEF WritePosted
<1>8. CASE It.op = "script" /\ WriteScript
  <2>1. FsmTyped'
    BY <1>2, <1>3, <1>8, QuietTypes DEF WriteScript, FsmTyped
  <2>2. [op |-> "state", to |-> "idle"] \in QuietStep
    BY DEF QuietStep, DeliveryState
  <2>3. PICK s \in Seq(QuietStep) : todo' = s \o Tail(todo)
    BY <1>8, <2>2, QuietLists DEF WriteScript
  <2>4. todo' \in Seq(QuietStep)
    BY <1>2, <2>3
  <2> QED BY <1>1, <1>8, <2>1, <2>4, QuietOn DEF WriteScript
<1>9. CASE It.op = "drop" /\ DropLoad
  <2>1. /\ todo' = Tail(todo) /\ load' = 0 /\ gone' = gone + load
        /\ UNCHANGED <<ground, hand, purse, pool, stash, fsm, faults, made, slip>>
    BY <1>9 DEF DropLoad
  <2>2. hand' \in Nat /\ purse' \in Nat /\ stash' \in Nat /\ load' \in 0..Bag /\ gone' \in Nat
        /\ load' \in Nat /\ ground' \in [Spots -> Nat] /\ pool' \in [Stores -> 0..Capacity]
    BY <2>1, Places, Numbers DEF SupplyTypeOK
  <2>3. SupplyTypeOK'
    BY <1>1, <2>1, <2>2, TypesKept
  <2>4. Held' = Held + (hand' - hand) + (purse' - purse) + (stash' - stash) + (load' - load)
    BY <2>1, <2>2, HeldNumber
  <2>5. Held' + gone' + 0 = made' + slip' /\ made' + slip' >= 0 /\ -0 <= made' + slip'
    <3>1. Held + gone + 0 = made + slip /\ made + slip >= 0
      BY <1>1 DEF Due
    <3>2. /\ Held \in Int /\ gone \in Int /\ hand \in Int /\ purse \in Int
          /\ stash \in Int /\ load \in Int
      BY Counts
    <3> QED BY <2>1, <2>4, <3>1, <3>2
  <2>6. Resting'
    BY <1>2, <2>1, <2>5 DEF Resting, Due
  <2> QED BY <2>3, <2>6 DEF SupplyInv, Underway
<1>10. CASE It.op = "turn" /\ Turn
  <2>1. FsmTyped'
    BY <1>10, FsmKept DEF Turn
  <2>2. [op |-> "state", to |-> "idle"] \in QuietStep
        /\ [op |-> "state", to |-> "returning"] \in QuietStep
        /\ [op |-> "walking", to |-> TRUE] \in QuietStep
        /\ [op |-> "dest", to |-> NoStore] \in QuietStep
    BY DEF QuietStep, DeliveryState
  <2>3. todo' \in Seq(QuietStep)
    BY <1>10, <2>2, QuietLists DEF Turn
  <2> QED BY <1>1, <1>10, <2>1, <2>3, QuietOn DEF Turn
<1> QED
  BY <1>2, <1>4, <1>5, <1>6, <1>7, <1>8, <1>9, <1>10, QuietTypes, QuietWrite

(* Every write takes the list from one shape to another.                   *)
LEMMA WritesOn == SupplyInv /\ Write => SupplyInv'
<1> SUFFICES ASSUME SupplyTypeOK, Underway, Write PROVE SupplyInv'
  BY DEF SupplyInv
<1>1. CASE Resting
  BY <1>1, AfterResting
<1>2. ASSUME NEW s \in Spots, NEW m \in Nat, NEW h \in Nat,
             (\E a \in Nat : Getting3(s, a, m, h)) \/ Getting2(s, m, h) \/ Getting1(h)
      PROVE  SupplyInv'
  BY <1>2, AfterGetting3, AfterGetting2, AfterGetting1
<1>3. ASSUME NEW n \in Int, (\E v \in Stores : Moving2(v, n)) \/ Moving1(n)
      PROVE  SupplyInv'
  BY <1>3, AfterMoving2, AfterMoving1
<1>4. ASSUME NEW t \in Nat, Dying(t) \/ Stashing(t) \/ \E a \in Nat : Collecting(a, t)
      PROVE  SupplyInv'
  BY <1>4, AfterDying, AfterStashing, AfterCollecting
<1>5. ASSUME NEW v \in Stores, NEW n \in Nat, NEW m \in Nat, NEW e \in QuietStep,
             Handing4(v, n, m, e) \/ Handing3(v, m, e)
      PROVE  SupplyInv'
  BY <1>5, AfterHanding4, AfterHanding3
<1>6. ASSUME NEW n \in Nat, NEW e \in QuietStep,
             Picking(n, e) \/ Paying(e) \/ Filling(n, e)
      PROVE  SupplyInv'
  BY <1>6, AfterPicking, AfterPaying, AfterFilling
<1> QED
  BY <1>1, <1>2, <1>3, <1>4, <1>5, <1>6 DEF Underway

-----------------------------------------------------------------------------
(* Where a handler begins: nothing is under way.                           *)
LEMMA AtRest ==
  ASSUME SupplyInv, todo = <<>>
  PROVE  SupplyTypeOK /\ Due(0)
<1>1. \A u, v, w, x : <<u>> # <<>> /\ <<u, v>> # <<>> /\ <<u, v, w>> # <<>> /\ <<u, v, w, x>> # <<>>
  BY ShortLists
<1>2. Underway /\ SupplyTypeOK
  BY DEF SupplyInv
<1>3. Resting
  BY <1>1, <1>2
  DEF Underway, Getting3, Getting2, Getting1, Moving2, Moving1, Dying, Collecting, Stashing,
      Picking, Handing4, Handing3, Paying, Filling
<1> QED
  BY <1>2, <1>3 DEF Resting

LEMMA StepsTyped ==
    /\ \A n \in Int : AddOf(n) \in Step
    /\ \A s \in Spots, n \in Int : GroundOf(s, n) \in Step /\ SpillOf(s, n) \in Step
    /\ \A s \in Spots, n \in Int : PoolOf(s, n) \in Step
    /\ \A n \in Nat : HandOf(n) \in Step /\ PurseOf(n) \in Step
                      /\ StashOf(n) \in Step /\ LoadOf(n) \in Step
BY DEF Step, AddOf, GroundOf, SpillOf, PoolOf, HandOf, PurseOf, StashOf, LoadOf

LEMMA ListsTyped ==
    /\ <<>> \in Seq(Step)
    /\ \A a, b \in Step : <<a, b>> \in Seq(Step)
    /\ \A a, b, c \in Step : <<a, b, c>> \in Seq(Step)
    /\ \A a, b, c, d \in Step : <<a, b, c, d>> \in Seq(Step)
OBVIOUS

LEMMA Joined ==
    /\ \A a : <<>> \o <<a>> = <<a>>
    /\ \A a, b : <<>> \o <<a, b>> = <<a, b>>
    /\ \A a, b, c : <<a>> \o <<b, c>> = <<a, b, c>> /\ <<a, b>> \o <<c>> = <<a, b, c>>
    /\ \A a, b, c, d : <<a, b, c>> \o <<d>> = <<a, b, c, d>>
<1>1. \A a : <<>> \o <<a>> = <<a>>
  OBVIOUS
<1>2. \A a, b : <<>> \o <<a, b>> = <<a, b>>
  OBVIOUS
<1>3. ASSUME NEW a, NEW b, NEW c PROVE <<a>> \o <<b, c>> = <<a, b, c>>
  <2>1. PICK S, s, t, u : S = {a, b, c} /\ s = <<a>> /\ t = <<b, c>> /\ u = s \o t
    OBVIOUS
  <2>2. /\ s \in Seq(S) /\ Len(s) = 1 /\ s[1] = a
        /\ t \in Seq(S) /\ Len(t) = 2 /\ t[1] = b /\ t[2] = c
    BY <2>1
  <2>3. u \in Seq(S) /\ Len(u) = 3 /\ u[1] = a /\ u[2] = b /\ u[3] = c
    BY <2>1, <2>2, ConcatProperties
  <2>4. u = <<a, b, c>>
    BY <2>3
  <2> QED BY <2>1, <2>4
<1>4. ASSUME NEW a, NEW b, NEW c PROVE <<a, b>> \o <<c>> = <<a, b, c>>
  <2>1. PICK S, s, t, u : S = {a, b, c} /\ s = <<a, b>> /\ t = <<c>> /\ u = s \o t
    OBVIOUS
  <2>2. /\ s \in Seq(S) /\ Len(s) = 2 /\ s[1] = a /\ s[2] = b
        /\ t \in Seq(S) /\ Len(t) = 1 /\ t[1] = c
    BY <2>1
  <2>3. u \in Seq(S) /\ Len(u) = 3 /\ u[1] = a /\ u[2] = b /\ u[3] = c
    BY <2>1, <2>2, ConcatProperties
  <2>4. u = <<a, b, c>>
    BY <2>3
  <2> QED BY <2>1, <2>4
<1>5. ASSUME NEW a, NEW b, NEW c, NEW d PROVE <<a, b, c>> \o <<d>> = <<a, b, c, d>>
  <2>1. PICK S, s, t, u : S = {a, b, c, d} /\ s = <<a, b, c>> /\ t = <<d>> /\ u = s \o t
    OBVIOUS
  <2>2. /\ s \in Seq(S) /\ Len(s) = 3 /\ s[1] = a /\ s[2] = b /\ s[3] = c
        /\ t \in Seq(S) /\ Len(t) = 1 /\ t[1] = d
    BY <2>1
  <2>3. u \in Seq(S) /\ Len(u) = 4 /\ u[1] = a /\ u[2] = b /\ u[3] = c /\ u[4] = d
    BY <2>1, <2>2, ConcatProperties
  <2>4. u = <<a, b, c, d>>
    BY <2>3
  <2> QED BY <2>1, <2>4
<1> QED
  BY <1>1, <1>2, <1>3, <1>4, <1>5

LEMMA LeastRoom ==
    /\ \A a, b \in Nat : Least(a, b) \in Nat /\ Least(a, b) <= a /\ Least(a, b) <= b
    /\ \A a, b \in Nat : Room(a, b) \in Nat
    /\ \A a, b \in Nat : a <= b => a + Room(a, b) = b
BY DEF Least, Room

(* A handler that has only written its list so far.                        *)
LEMMA ListWritten ==
  ASSUME SupplyTypeOK, UNCHANGED <<goods, fsm, faults, made, slip>>, gone' \in Nat,
         todo' \in Seq(Step)
  PROVE  /\ SupplyTypeOK' /\ Held' = Held
         /\ UNCHANGED <<ground, hand, purse, pool, stash, load, made, slip>>
<1>1. FsmTyped'
  BY FsmKept
<1>2. UNCHANGED <<ground, hand, purse, pool, stash, load, made, slip>>
  BY DEF goods
<1> QED
  BY <1>1, <1>2, GoodsKept

LEMMA QuietStart ==
  ASSUME SupplyInv, todo = <<>>, UNCHANGED <<goods, fsm, faults, made, gone, slip>>,
         todo' \in Seq(QuietStep)
  PROVE  SupplyInv'
<1>1. SupplyTypeOK /\ Due(0)
  BY AtRest
<1>2. FsmTyped'
  BY <1>1, FsmKept
<1> QED
  BY <1>1, <1>2, QuietOn

LEMMA StartsMoving ==
  ASSUME SupplyInv, todo = <<>>, UNCHANGED <<goods, fsm, faults, made, gone, slip>>,
         NEW v \in Stores, NEW n \in Int, pool[v] + n \in 0..Capacity, n <= purse,
         todo' = <<PoolOf(v, n), AddOf(-n)>>
  PROVE  SupplyInv'
<1>1. SupplyTypeOK /\ Due(0) /\ gone' \in Nat
  BY AtRest, Numbers
<1>2. PoolOf(v, n) \in Step /\ AddOf(-n) \in Step
  BY Places, StepsTyped
<1>3. todo' \in Seq(Step)
  BY <1>2, ListsTyped
<1>4. /\ SupplyTypeOK' /\ Held' = Held
      /\ UNCHANGED <<ground, hand, purse, pool, stash, load, made, slip>>
  BY <1>1, <1>3, ListWritten
<1>5. Moving2(v, n)'
  BY <1>1, <1>4 DEF Moving2, Due
<1> QED
  BY <1>4, <1>5 DEF SupplyInv, Underway

LEMMA DepositStarts ==
  ASSUME SupplyInv, NEW v \in Stores, NEW n \in Amounts, Deposit(v, n)
  PROVE  SupplyInv'
<1>1. PICK k : k = Least(Least(n, purse), Room(pool[v], Capacity))
  OBVIOUS
<1>2. /\ todo = <<>> /\ UNCHANGED <<goods, fsm, faults, made, gone, slip>>
      /\ todo' = <<[op |-> "pool", at |-> v, n |-> k], [op |-> "add", at |-> NoStore, n |-> -k]>>
  BY <1>1 DEF Deposit, Leaves
<1>3. SupplyTypeOK
  BY <1>2, AtRest
<1>4. n \in Nat /\ purse \in Nat /\ pool[v] \in Nat /\ pool[v] <= Capacity /\ Capacity \in Nat
  BY <1>3, Numbers, Places DEF Amounts
<1>5. Room(pool[v], Capacity) \in Nat /\ pool[v] + Room(pool[v], Capacity) = Capacity
  BY <1>4, LeastRoom
<1>6. Least(n, purse) \in Nat /\ Least(n, purse) <= purse
  BY <1>4, LeastRoom
<1>7. k \in Nat /\ k <= Least(n, purse) /\ k <= Room(pool[v], Capacity)
  BY <1>1, <1>5, <1>6, LeastRoom
<1>8. k \in Int /\ pool[v] + k \in 0..Capacity /\ k <= purse
  BY <1>4, <1>5, <1>6, <1>7
<1>9. todo' = <<PoolOf(v, k), AddOf(-k)>>
  BY <1>2 DEF PoolOf, AddOf
<1> QED
  BY <1>2, <1>8, <1>9, StartsMoving

LEMMA WithdrawStarts ==
  ASSUME SupplyInv, NEW v \in Stores, NEW n \in Amounts, Withdraw(v, n)
  PROVE  SupplyInv'
<1>1. PICK k : k = Least(Least(n, pool[v]), Room(purse, Carry))
  OBVIOUS
<1>2. /\ todo = <<>> /\ UNCHANGED <<goods, fsm, faults, made, gone, slip>>
      /\ todo' = <<[op |-> "pool", at |-> v, n |-> -k], [op |-> "add", at |-> NoStore, n |-> k]>>
  BY <1>1 DEF Withdraw, Leaves
<1>3. SupplyTypeOK
  BY <1>2, AtRest
<1>4. n \in Nat /\ purse \in Nat /\ pool[v] \in Nat /\ pool[v] <= Capacity /\ Capacity \in Nat
      /\ Carry \in Nat
  BY <1>3, Numbers, Places DEF Amounts
<1>5. Room(purse, Carry) \in Nat
  BY <1>4, LeastRoom
<1>6. Least(n, pool[v]) \in Nat /\ Least(n, pool[v]) <= pool[v]
  BY <1>4, LeastRoom
<1>7. k \in Nat /\ k <= Least(n, pool[v])
  BY <1>1, <1>5, <1>6, LeastRoom
<1>8. PICK j \in Int : j = -k
  BY <1>7
<1>9. pool[v] + j \in 0..Capacity /\ j <= purse /\ k = -j
  BY <1>4, <1>6, <1>7, <1>8
<1>10. todo' = <<PoolOf(v, j), AddOf(-j)>>
  BY <1>2, <1>8, <1>9 DEF PoolOf, AddOf
<1> QED
  BY <1>2, <1>9, <1>10, StartsMoving

LEMMA DieStarts ==
  ASSUME SupplyInv, NEW kept \in 0..purse, Die(kept)
  PROVE  SupplyInv'
<1>1. /\ todo = <<>> /\ gone' = gone + purse - kept
      /\ UNCHANGED <<goods, fsm, faults, made, slip>>
      /\ todo' = <<PurseOf(0), StashOf(stash + kept)>>
  BY DEF Die, PurseOf, StashOf
<1>2. SupplyTypeOK /\ Due(0)
  BY <1>1, AtRest
<1>3. PICK t : t = stash + kept
  OBVIOUS
<1>4. purse \in Nat /\ kept \in Nat /\ kept <= purse /\ stash \in Nat /\ gone \in Nat
  BY <1>2, Numbers
<1>5. t \in Nat /\ gone' \in Nat
  BY <1>1, <1>3, <1>4
<1>6. PurseOf(0) \in Step /\ StashOf(t) \in Step
  BY <1>5, StepsTyped
<1>7. todo' \in Seq(Step)
  BY <1>1, <1>3, <1>6, ListsTyped
<1>8. /\ SupplyTypeOK' /\ Held' = Held
      /\ UNCHANGED <<ground, hand, purse, pool, stash, load, made, slip>>
  BY <1>1, <1>2, <1>5, <1>7, ListWritten
<1>9. Held + gone + 0 = made + slip /\ made + slip >= 0
  BY <1>2 DEF Due
<1>10. /\ Held' + gone' + (t - stash' - purse') = made' + slip' /\ made' + slip' >= 0
       /\ -(t - stash' - purse') <= made' + slip'
  <2>1. Held \in Int /\ purse <= Held /\ made \in Int /\ slip \in Int
    BY <1>2, Counts
  <2> QED BY <1>1, <1>3, <1>4, <1>8, <1>9, <2>1
<1>11. Dying(t)'
  BY <1>1, <1>3, <1>10 DEF Dying, Due
<1> QED
  BY <1>5, <1>8, <1>11 DEF SupplyInv, Underway

LEMMA CollectStarts ==
  ASSUME SupplyInv, Collect
  PROVE  SupplyInv'
<1>1. PICK a : a = Least(stash, Room(purse, Carry))
  OBVIOUS
<1>2. /\ todo = <<>> /\ UNCHANGED <<goods, fsm, faults, made, gone, slip>>
      /\ todo' = <<AddOf(a), StashOf(stash - a)>>
  BY <1>1 DEF Collect, Leaves, AddOf, StashOf
<1>3. SupplyTypeOK /\ Due(0)
  BY <1>2, AtRest
<1>4. stash \in Nat /\ purse \in Nat /\ Carry \in Nat /\ gone' \in Nat
  BY <1>2, <1>3, Numbers, Places
<1>5. a \in Nat /\ a <= stash
  <2>1. Room(purse, Carry) \in Nat
    BY <1>4, LeastRoom
  <2> QED BY <1>1, <1>4, <2>1, LeastRoom
<1>6. PICK t \in Nat : t = stash - a
  BY <1>4, <1>5
<1>7. AddOf(a) \in Step /\ StashOf(t) \in Step
  BY <1>5, <1>6, StepsTyped
<1>8. todo' \in Seq(Step)
  BY <1>2, <1>6, <1>7, ListsTyped
<1>9. /\ SupplyTypeOK' /\ Held' = Held
      /\ UNCHANGED <<ground, hand, purse, pool, stash, load, made, slip>>
  BY <1>2, <1>3, <1>4, <1>8, ListWritten
<1>10. a + t = stash'
  BY <1>4, <1>5, <1>6, <1>9
<1>11. Collecting(a, t)'
  BY <1>2, <1>3, <1>6, <1>9, <1>10 DEF Collecting, Due
<1> QED
  BY <1>5, <1>9, <1>11 DEF SupplyInv, Underway

LEMMA ProduceKeeps ==
  ASSUME SupplyInv, NEW n \in 1..MaxMade, Produce(n)
  PROVE  SupplyInv'
<1>1. /\ todo = <<>> /\ todo' = todo /\ made + n <= MaxMade /\ made' = made + n
      /\ ground' = [ground EXCEPT ![Field] = @ + n]
      /\ UNCHANGED <<hand, purse, pool, stash, load, fsm, faults, gone, slip>>
  BY DEF Produce
<1>2. SupplyTypeOK /\ Due(0)
  BY <1>1, AtRest
<1>3. Field \in Spots /\ n \in Int /\ ground[Field] + n >= 0
  BY <1>2, Places, Numbers
<1>4. ground' \in [Spots -> Nat] /\ Held' = Held + n
  BY <1>1, <1>2, <1>3, HeldTile
<1>5. made' \in 0..MaxMade
  BY <1>1, <1>2, Places, Numbers
<1>6. SupplyTypeOK'
  BY <1>1, <1>2, <1>4, <1>5 DEF SupplyTypeOK, fsm
<1>7. Held + gone + 0 = made + slip /\ made + slip >= 0
  BY <1>2 DEF Due
<1>8. Held' + gone' + 0 = made' + slip' /\ made' + slip' >= 0 /\ -0 <= made' + slip'
  <2>1. Held \in Int /\ gone \in Int /\ made \in Int /\ slip \in Int /\ n >= 0
    BY <1>2, Counts
  <2> QED BY <1>1, <1>3, <1>4, <1>7, <2>1
<1>9. Resting'
  BY <1>1, <1>8, QuietLists DEF Resting, Due
<1> QED
  BY <1>6, <1>9 DEF SupplyInv, Underway

LEMMA GetStarts ==
  ASSUME SupplyInv, NEW s \in Spots, Get(s)
  PROVE  SupplyInv'
<1>1. PICK a : a = Least(ground[s], Room(purse, Carry))
  OBVIOUS
<1>2. PICK m : m = ground[s] - a
  OBVIOUS
<1>3. /\ todo = <<>> /\ ground' = [ground EXCEPT ![s] = 0] /\ hand' = hand + ground[s]
      /\ UNCHANGED <<purse, pool, stash, load, fsm, faults, made, gone, slip>>
      /\ todo' = <<AddOf(a), GroundOf(s, m), HandOf(hand)>>
  BY <1>1, <1>2 DEF Get, AddOf, GroundOf, HandOf
<1>4. SupplyTypeOK /\ Due(0)
  BY <1>3, AtRest
<1>5. ground[s] \in Nat /\ hand \in Nat /\ purse \in Nat /\ Carry \in Nat
  BY <1>4, Numbers, Places
<1>6. a \in Nat /\ a <= ground[s]
  <2>1. Room(purse, Carry) \in Nat
    BY <1>5, LeastRoom
  <2> QED BY <1>1, <1>5, <2>1, LeastRoom
<1>7. m \in Nat
  BY <1>2, <1>5, <1>6
<1>8. ground' \in [Spots -> Nat] /\ hand' \in Nat
  BY <1>3, <1>4, <1>5 DEF SupplyTypeOK
<1>9. Tally(ground', Spots) = Tally(ground, Spots) - ground[s]
  <2>1. PICK f, g : f = ground /\ g = ground'
    OBVIOUS
  <2>2. g[s] = 0 /\ \A y \in Spots \ {s} : g[y] = f[y]
    BY <1>3, <1>4, <2>1 DEF SupplyTypeOK
  <2>3. IsFiniteSet(Spots) /\ \A y \in Spots : f[y] \in Nat
    BY <1>4, <2>1, Places, Numbers
  <2>4. Tally(g, Spots) = Tally(f, Spots) - f[s] + g[s] /\ Tally(f, Spots) \in Nat
    BY <2>2, <2>3, TallyOne
  <2> QED BY <1>5, <2>1, <2>2, <2>4
<1>10. Held' = Held
  <2>1. PICK x, y, z : x = Tally(ground, Spots) /\ y = Tally(pool, Stores) /\ z = ground[s]
    OBVIOUS
  <2>2. /\ x \in Nat /\ y \in Nat /\ Held = x + y + hand + purse + stash + load
        /\ stash \in Nat /\ load \in Nat
    BY <1>4, <2>1, HeldParts, Numbers DEF Held
  <2>3. Tally(pool, Stores)' = y
    BY <1>3, <2>1
  <2>4. Held' = (x - z) + y + (hand + z) + purse + stash + load
    BY <1>3, <1>9, <2>1, <2>3 DEF Held
  <2> QED BY <1>5, <2>1, <2>2, <2>4
<1>11. AddOf(a) \in Step /\ GroundOf(s, m) \in Step /\ HandOf(hand) \in Step
  BY <1>5, <1>6, <1>7, StepsTyped
<1>12. todo' \in Seq(Step)
  BY <1>3, <1>11, ListsTyped
<1>13. SupplyTypeOK'
  BY <1>3, <1>4, <1>8, <1>12 DEF SupplyTypeOK, fsm
<1>14. PICK h \in Nat : h = hand
  BY <1>5
<1>15. hand' = h + a + m
  <2>1. PICK z \in Nat : z = ground[s]
    BY <1>5
  <2>2. m = z - a /\ hand' = hand + z /\ h = hand
    BY <1>2, <1>3, <1>14, <2>1
  <2> QED BY <1>6, <2>2
<1>16. Getting3(s, a, m, h)'
  BY <1>3, <1>4, <1>10, <1>14, <1>15 DEF Getting3, Due
<1> QED
  BY <1>6, <1>7, <1>13, <1>16 DEF SupplyInv, Underway

LEMMA RazeKeeps ==
  ASSUME SupplyInv, NEW v \in Stores, Raze(v)
  PROVE  SupplyInv'
<1>1. /\ todo = <<>> /\ todo' = todo /\ gone' = gone + pool[v]
      /\ pool' = [pool EXCEPT ![v] = 0]
      /\ UNCHANGED <<ground, hand, purse, stash, load, state, walking, posted, script, enabled,
                     faults, made, slip>>
      /\ dest' \in {NoStore, dest}
  BY DEF Raze
<1>2. SupplyTypeOK /\ Due(0)
  BY <1>1, AtRest
<1>3. PICK k : k = pool[v]
  OBVIOUS
<1>4. k \in Nat /\ gone \in Nat /\ gone' = gone + k
  BY <1>1, <1>2, <1>3, Numbers
<1>5. pool' \in [Stores -> 0..Capacity]
  BY <1>1, <1>2, Places DEF SupplyTypeOK
<1>6. Tally(pool', Stores) = Tally(pool, Stores) - k
  <2>1. PICK f, g : f = pool /\ g = pool'
    OBVIOUS
  <2>2. g[v] = 0 /\ \A y \in Stores \ {v} : g[y] = f[y]
    BY <1>1, <1>2, <2>1 DEF SupplyTypeOK
  <2>3. IsFiniteSet(Stores) /\ \A y \in Stores : f[y] \in Nat
    BY <1>2, <2>1, Places, Numbers
  <2>4. Tally(g, Stores) = Tally(f, Stores) - f[v] + g[v] /\ Tally(f, Stores) \in Nat
    BY <2>2, <2>3, TallyOne
  <2> QED BY <1>3, <1>4, <2>1, <2>2, <2>4
<1>7. Held' = Held - k
  <2>1. PICK x, y : x = Tally(ground, Spots) /\ y = Tally(pool, Stores)
    OBVIOUS
  <2>2. /\ x \in Nat /\ y \in Nat /\ Held = x + y + hand + purse + stash + load
        /\ hand \in Nat /\ purse \in Nat /\ stash \in Nat /\ load \in Nat
    BY <1>2, <2>1, HeldParts, Numbers DEF Held
  <2>3. Tally(ground, Spots)' = x
    BY <1>1, <2>1
  <2>4. Held' = x + (y - k) + hand + purse + stash + load
    BY <1>1, <1>6, <2>1, <2>3 DEF Held
  <2> QED BY <1>4, <2>2, <2>4
<1>8. SupplyTypeOK'
  <2>1. gone' \in Nat
    BY <1>4
  <2> QED BY <1>1, <1>2, <1>5, <2>1 DEF SupplyTypeOK
<1>9. Held' + gone' + 0 = made' + slip' /\ made' + slip' >= 0 /\ -0 <= made' + slip'
  <2>1. Held + gone + 0 = made + slip /\ made + slip >= 0 /\ Held \in Int
    BY <1>2, Counts DEF Due
  <2> QED BY <1>1, <1>4, <1>7, <2>1
<1>10. Resting'
  BY <1>1, <1>9, QuietLists DEF Resting, Due
<1> QED
  BY <1>8, <1>10 DEF SupplyInv, Underway

(* The commands and ticks that only leave quiet writes.                    *)
LEMMA QuietSteps ==
    /\ \A x \in DeliveryState \cup {"none"} : [op |-> "state", to |-> x] \in QuietStep
    /\ \A v \in Stores \cup {NoStore} : [op |-> "dest", to |-> v] \in QuietStep
    /\ \A b \in BOOLEAN : /\ [op |-> "walking", to |-> b] \in QuietStep
                          /\ [op |-> "posted", to |-> b] \in QuietStep
                          /\ [op |-> "script", to |-> b] \in QuietStep
    /\ [op |-> "drop"] \in QuietStep /\ [op |-> "turn"] \in QuietStep
    /\ \A x \in {"none", "idle", "picking_up", "delivering", "returning"} :
         x \in DeliveryState \cup {"none"}
BY DEF QuietStep, DeliveryState

LEMMA DroppingQuiet == Dropping \in Seq(QuietStep)
<1>1. /\ [op |-> "state", to |-> "none"] \in QuietStep /\ [op |-> "drop"] \in QuietStep
      /\ [op |-> "dest", to |-> NoStore] \in QuietStep
  BY QuietSteps
<1> QED
  BY <1>1, QuietLists DEF Dropping

LEMMA AssignStarts ==
  ASSUME SupplyInv, enabled \in BOOLEAN, Assign
  PROVE  SupplyInv'
<1>1. PICK a, b, c, d, w : a = [op |-> "posted", to |-> TRUE]
        /\ b = [op |-> "script", to |-> FALSE] /\ c = [op |-> "walking", to |-> FALSE]
        /\ d = [op |-> "script", to |-> enabled] /\ w = [op |-> "walking", to |-> TRUE]
  OBVIOUS
<1>2. /\ a \in QuietStep /\ b \in QuietStep /\ c \in QuietStep /\ d \in QuietStep
      /\ w \in QuietStep
  BY <1>1, QuietSteps
<1>3. /\ todo = <<>> /\ todo' = <<a, b, c, d>> \o Dropping \o <<w>>
      /\ UNCHANGED <<goods, fsm, faults, made, gone, slip>>
  BY <1>1 DEF Assign
<1>4. <<a, b, c, d>> \in Seq(QuietStep) /\ <<w>> \in Seq(QuietStep)
  BY <1>2
<1>5. <<a, b, c, d>> \o Dropping \in Seq(QuietStep)
  BY <1>4, DroppingQuiet
<1>6. todo' \in Seq(QuietStep)
  BY <1>3, <1>4, <1>5
<1> QED
  BY <1>3, <1>6, QuietStart

LEMMA UnassignStarts ==
  ASSUME SupplyInv, Unassign
  PROVE  SupplyInv'
<1>1. PICK a, b, c, w : a = [op |-> "script", to |-> FALSE]
        /\ b = [op |-> "walking", to |-> FALSE] /\ c = [op |-> "posted", to |-> FALSE]
        /\ w = [op |-> "walking", to |-> TRUE]
  OBVIOUS
<1>2. a \in QuietStep /\ b \in QuietStep /\ c \in QuietStep /\ w \in QuietStep
  BY <1>1, QuietSteps
<1>3. /\ todo = <<>> /\ todo' = <<a, b>> \o Dropping \o <<c, w>>
      /\ UNCHANGED <<goods, fsm, faults, made, gone, slip>>
  BY <1>1 DEF Unassign, Leaves
<1>4. <<a, b>> \in Seq(QuietStep) /\ <<c, w>> \in Seq(QuietStep)
  BY <1>2, QuietLists
<1>5. <<a, b>> \o Dropping \in Seq(QuietStep)
  BY <1>4, DroppingQuiet
<1>6. todo' \in Seq(QuietStep)
  BY <1>3, <1>4, <1>5
<1> QED
  BY <1>3, <1>6, QuietStart

LEMMA StopStarts ==
  ASSUME SupplyInv, Stop
  PROVE  SupplyInv'
<1>1. PICK a, b, c, d : a = [op |-> "walking", to |-> FALSE]
        /\ b = [op |-> "state", to |-> "idle"] /\ c = [op |-> "script", to |-> FALSE]
        /\ d = [op |-> "posted", to |-> FALSE]
  OBVIOUS
<1>2. a \in QuietStep /\ b \in QuietStep /\ c \in QuietStep /\ d \in QuietStep
  BY <1>1, QuietSteps
<1>3. PICK s : s = IF posted THEN <<b>> ELSE <<>>
  OBVIOUS
<1>4. /\ todo = <<>> /\ todo' = <<a>> \o s \o <<c, d>>
      /\ UNCHANGED <<goods, fsm, faults, made, gone, slip>>
  BY <1>1, <1>3 DEF Stop, Leaves
<1>5. s \in Seq(QuietStep) /\ <<a>> \in Seq(QuietStep) /\ <<c, d>> \in Seq(QuietStep)
  BY <1>2, <1>3, QuietLists
<1>6. <<a>> \o s \in Seq(QuietStep)
  BY <1>5
<1>7. todo' \in Seq(QuietStep)
  BY <1>4, <1>5, <1>6
<1> QED
  BY <1>4, <1>7, QuietStart

LEMMA ConvergeStarts ==
  ASSUME SupplyInv, NEW may \in BOOLEAN, Converge(may)
  PROVE  SupplyInv'
<1>1. /\ todo = <<>> /\ enabled' = may /\ todo' = <<[op |-> "script", to |-> may]>>
      /\ UNCHANGED <<goods, state, dest, walking, posted, script, faults, made, gone, slip>>
  BY DEF Converge
<1>2. SupplyTypeOK /\ Due(0)
  BY <1>1, AtRest
<1>3. FsmTyped'
  BY <1>1, <1>2 DEF FsmTyped, SupplyTypeOK
<1>4. todo' \in Seq(QuietStep)
  BY <1>1, QuietSteps, QuietLists
<1> QED
  BY <1>1, <1>2, <1>3, <1>4, QuietOn

LEMMA ArriveKeeps ==
  ASSUME SupplyInv, Arrive
  PROVE  SupplyInv'
<1>1. /\ todo = <<>> /\ walking' = FALSE /\ todo' = todo
      /\ UNCHANGED <<goods, state, dest, posted, script, enabled, faults, made, gone, slip>>
  BY DEF Arrive
<1>2. SupplyTypeOK /\ Due(0)
  BY <1>1, AtRest
<1>3. FsmTyped'
  BY <1>1, <1>2 DEF FsmTyped, SupplyTypeOK
<1>4. todo' \in Seq(QuietStep)
  BY <1>1, QuietLists
<1> QED
  BY <1>1, <1>2, <1>3, <1>4, QuietOn

LEMMA StartDeliveryStarts ==
  ASSUME SupplyInv, StartDelivery
  PROVE  SupplyInv'
<1>1. /\ todo = <<>> /\ UNCHANGED <<goods, fsm, faults, made, gone, slip>>
  BY DEF StartDelivery, Awake
<1>2. CASE todo' = <<[op |-> "state", to |-> "idle"]>>
  <2>1. todo' \in Seq(QuietStep)
    BY <1>2, QuietSteps, QuietLists
  <2> QED BY <1>1, <2>1, QuietStart
<1>3. ASSUME NEW v \in Targets, NEW path \in BOOLEAN,
             todo' = <<[op |-> "dest", to |-> v]>>
                       \o IF path THEN <<[op |-> "walking", to |-> TRUE],
                                         [op |-> "state", to |-> "delivering"]>>
                          ELSE <<>>
      PROVE  SupplyInv'
  <2>1. v \in Stores
    BY DEF Targets
  <2>2. PICK a, b, c : a = [op |-> "dest", to |-> v] /\ b = [op |-> "walking", to |-> TRUE]
                       /\ c = [op |-> "state", to |-> "delivering"]
    OBVIOUS
  <2>3. a \in QuietStep /\ b \in QuietStep /\ c \in QuietStep
    BY <2>1, <2>2, QuietSteps
  <2>4. PICK s : s = IF path THEN <<b, c>> ELSE <<>>
    OBVIOUS
  <2>5. s \in Seq(QuietStep) /\ <<a>> \in Seq(QuietStep)
    BY <2>3, <2>4, QuietLists
  <2>6. todo' = <<a>> \o s
    BY <1>3, <2>2, <2>4
  <2>7. todo' \in Seq(QuietStep)
    BY <2>5, <2>6
  <2> QED BY <1>1, <2>7, QuietStart
<1> QED
  BY <1>2, <1>3 DEF StartDelivery

LEMMA ArriveBackStarts ==
  ASSUME SupplyInv, ArriveBack
  PROVE  SupplyInv'
<1>1. /\ todo = <<>> /\ UNCHANGED <<goods, fsm, faults, made, gone, slip>>
      /\ todo' = <<[op |-> "state", to |-> "idle"]>>
  BY DEF ArriveBack, Leaves
<1>2. todo' \in Seq(QuietStep)
  BY <1>1, QuietSteps, QuietLists
<1> QED
  BY <1>1, <1>2, QuietStart

LEMMA TryPickUpStarts ==
  ASSUME SupplyInv, TryPickUp
  PROVE  SupplyInv'
<1>1. PICK k : k = Least(ground[Field], Bag - load)
  OBVIOUS
<1>2. PICK e : e = [op |-> "state", to |-> "picking_up"]
  OBVIOUS
<1>3. PICK l : l = load + k
  OBVIOUS
<1>4. /\ todo = <<>> /\ UNCHANGED <<goods, fsm, faults, made, gone, slip>>
      /\ todo' = (IF k = 0 THEN <<>> ELSE <<GroundOf(Field, -k)>>) \o <<LoadOf(l), e>>
  BY <1>1, <1>2, <1>3 DEF TryPickUp, Awake, GroundOf, LoadOf
<1>5. SupplyTypeOK /\ Due(0) /\ gone' \in Nat
  BY <1>4, AtRest, Numbers
<1>6. /\ ground[Field] \in Nat /\ load \in Nat /\ load <= Bag /\ Bag \in Nat
      /\ Field \in Spots
  BY <1>5, Numbers, Places
<1>7. k \in Nat /\ k <= ground[Field] /\ load + k <= Bag
  <2>1. PICK r \in Nat : r = Bag - load
    BY <1>6
  <2>2. k \in Nat /\ k <= ground[Field] /\ k <= r
    BY <1>1, <1>6, <2>1, LeastRoom
  <2> QED BY <1>6, <2>1, <2>2
<1>8. l \in Nat /\ e \in QuietStep
  BY <1>2, <1>3, <1>6, <1>7, QuietSteps
<1>9. -k \in Int
  BY <1>7
<1>10. LoadOf(l) \in Step /\ GroundOf(Field, -k) \in Step /\ e \in Step
  BY <1>6, <1>8, <1>9, StepsTyped, QuietLists
<1>11. CASE k = 0
  <2>1. todo' = <<LoadOf(l), e>>
    BY <1>4, <1>11, Joined
  <2>2. todo' \in Seq(Step)
    BY <1>10, <2>1, ListsTyped
  <2>3. /\ SupplyTypeOK' /\ Held' = Held
        /\ UNCHANGED <<ground, hand, purse, pool, stash, load, made, slip>>
    BY <1>4, <1>5, <2>2, ListWritten
  <2>4. l - load' = 0 /\ l <= Bag
    BY <1>3, <1>6, <1>7, <1>11, <2>3
  <2>5. Filling(l, e)'
    BY <1>4, <1>5, <2>1, <2>3, <2>4 DEF Filling, Due
  <2> QED BY <1>8, <2>3, <2>5 DEF SupplyInv, Underway
<1>12. CASE k # 0
  <2>1. todo' = <<GroundOf(Field, -k), LoadOf(l), e>>
    BY <1>4, <1>12, Joined
  <2>2. todo' \in Seq(Step)
    BY <1>10, <2>1, ListsTyped
  <2>3. /\ SupplyTypeOK' /\ Held' = Held
        /\ UNCHANGED <<ground, hand, purse, pool, stash, load, made, slip>>
    BY <1>4, <1>5, <2>2, ListWritten
  <2>4. todo' = <<GroundOf(Field, -k), LoadOf(load' + k), e>>
    BY <1>3, <2>1, <2>3
  <2>5. Picking(k, e)'
    BY <1>4, <1>5, <1>7, <2>3, <2>4 DEF Picking, Due
  <2> QED BY <1>7, <1>8, <2>3, <2>5 DEF SupplyInv, Underway
<1> QED
  BY <1>11, <1>12

(* The three ways to hand a load over.                                     *)
LEMMA HandingKinds ==
  ASSUME SupplyTypeOK, NEW steps \in Handing
  PROVE  \/ steps = <<>>
         \/ steps = <<AddOf(load), LoadOf(0)>>
         \/ \E v \in Stores, n, m \in Nat :
              /\ steps = <<PoolOf(v, n), SpillOf(v, m), LoadOf(0)>>
              /\ n + m = load /\ pool[v] + n <= Capacity
<1>1. CASE load = 0
  BY <1>1 DEF Handing
<1>2. CASE load # 0 /\ dest = NoStore /\ Targets = {}
  BY <1>2 DEF Handing, AddOf, LoadOf
<1>3. CASE load # 0 /\ ~(dest = NoStore /\ Targets = {})
  <2>1. PICK v \in IF dest # NoStore THEN {dest} ELSE Targets :
          steps = LET stored == Least(load, Room(pool[v], Capacity)) IN
                    <<[op |-> "pool", at |-> v, n |-> stored],
                      [op |-> "spill", at |-> v, n |-> load - stored],
                      [op |-> "load", n |-> 0]>>
    BY <1>3 DEF Handing
  <2>2. v \in Stores
    BY <2>1 DEF Targets, SupplyTypeOK
  <2>3. PICK n : n = Least(load, Room(pool[v], Capacity))
    OBVIOUS
  <2>4. /\ load \in Nat /\ pool[v] \in Nat /\ pool[v] <= Capacity /\ Capacity \in Nat
    BY <2>2, Numbers, Places
  <2>5. Room(pool[v], Capacity) \in Nat /\ pool[v] + Room(pool[v], Capacity) = Capacity
    BY <2>4, LeastRoom
  <2>6. n \in Nat /\ n <= load /\ n <= Room(pool[v], Capacity)
    BY <2>3, <2>4, <2>5, LeastRoom
  <2>7. PICK m \in Nat : m = load - n
    BY <2>4, <2>6
  <2>8. n + m = load /\ pool[v] + n <= Capacity
    BY <2>4, <2>5, <2>6, <2>7
  <2>9. steps = <<PoolOf(v, n), SpillOf(v, m), LoadOf(0)>>
    BY <2>1, <2>3, <2>7 DEF PoolOf, SpillOf, LoadOf
  <2> QED BY <2>2, <2>6, <2>8, <2>9
<1> QED
  BY <1>1, <1>2, <1>3

LEMMA HandOverStarts ==
  ASSUME SupplyInv, HandOver
  PROVE  SupplyInv'
<1>1. PICK e : e = [op |-> "turn"]
  OBVIOUS
<1>2. PICK steps \in Handing : todo' = steps \o <<e>>
  BY <1>1 DEF HandOver
<1>3. todo = <<>> /\ UNCHANGED <<goods, fsm, faults, made, gone, slip>>
  BY DEF HandOver, Awake
<1>4. SupplyTypeOK /\ Due(0) /\ gone' \in Nat
  BY <1>3, AtRest, Numbers
<1>5. e \in QuietStep /\ e \in Step /\ LoadOf(0) \in Step /\ load \in Nat
  BY <1>1, <1>4, QuietSteps, QuietLists, StepsTyped, Numbers
<1>6. CASE steps = <<>>
  <2>1. todo' = <<e>>
    BY <1>2, <1>6, Joined
  <2>2. todo' \in Seq(QuietStep)
    BY <1>5, <2>1, QuietLists
  <2> QED BY <1>3, <2>2, QuietStart
<1>7. CASE steps = <<AddOf(load), LoadOf(0)>>
  <2>1. todo' = <<AddOf(load), LoadOf(0), e>>
    BY <1>2, <1>7, Joined
  <2>2. AddOf(load) \in Step
    BY <1>5, StepsTyped
  <2>3. todo' \in Seq(Step)
    BY <1>5, <2>1, <2>2, ListsTyped
  <2>4. /\ SupplyTypeOK' /\ Held' = Held
        /\ UNCHANGED <<ground, hand, purse, pool, stash, load, made, slip>>
    BY <1>3, <1>4, <2>3, ListWritten
  <2>5. Paying(e)'
    BY <1>3, <1>4, <2>1, <2>4 DEF Paying, Due
  <2> QED BY <1>5, <2>4, <2>5 DEF SupplyInv, Underway
<1>8. ASSUME NEW v \in Stores, NEW n \in Nat, NEW m \in Nat,
             steps = <<PoolOf(v, n), SpillOf(v, m), LoadOf(0)>>,
             n + m = load, pool[v] + n <= Capacity
      PROVE  SupplyInv'
  <2>1. todo' = <<PoolOf(v, n), SpillOf(v, m), LoadOf(0), e>>
    BY <1>2, <1>8, Joined
  <2>2. PoolOf(v, n) \in Step /\ SpillOf(v, m) \in Step
    BY Places, StepsTyped
  <2>3. todo' \in Seq(Step)
    BY <1>5, <2>1, <2>2, ListsTyped
  <2>4. /\ SupplyTypeOK' /\ Held' = Held
        /\ UNCHANGED <<ground, hand, purse, pool, stash, load, made, slip>>
    BY <1>3, <1>4, <2>3, ListWritten
  <2>5. Handing4(v, n, m, e)'
    BY <1>3, <1>4, <1>8, <2>1, <2>4 DEF Handing4, Due
  <2> QED BY <1>5, <2>4, <2>5 DEF SupplyInv, Underway
<1> QED
  BY <1>2, <1>4, <1>6, <1>7, <1>8, HandingKinds

(* In every state what counts twice is no more than what there was.        *)
LEMMA AtMostTwice ==
  ASSUME SupplyInv
  PROVE  SupplyTypeOK /\ \E n \in Int : Due(n)
<1>1. SupplyTypeOK /\ Underway
  BY DEF SupplyInv
<1>2. PICK h, p, s, l : h = hand /\ p = purse /\ s = stash /\ l = load
  OBVIOUS
<1>3. h \in Int /\ p \in Int /\ s \in Int /\ l \in Int
  BY <1>1, <1>2, Counts
<1>4. /\ \A m, n \in Nat : m + n - h \in Int
      /\ \A n \in Nat : n - h \in Int /\ n - s - p \in Int /\ n - s \in Int /\ n - l \in Int
  BY <1>3
<1>5. CASE Resting
  BY <1>1, <1>5 DEF Resting
<1>6. ASSUME NEW t \in Spots, NEW m \in Nat, NEW n \in Nat,
             (\E a \in Nat : Getting3(t, a, m, n)) \/ Getting2(t, m, n) \/ Getting1(n)
      PROVE  \E i \in Int : Due(i)
  BY <1>2, <1>4, <1>6 DEF Getting3, Getting2, Getting1
<1>7. ASSUME NEW n \in Int, (\E v \in Stores : Moving2(v, n)) \/ Moving1(n)
      PROVE  \E i \in Int : Due(i)
  BY <1>7 DEF Moving2, Moving1
<1>8. ASSUME NEW t \in Nat, Dying(t) \/ Stashing(t) \/ \E a \in Nat : Collecting(a, t)
      PROVE  \E i \in Int : Due(i)
  BY <1>2, <1>4, <1>8 DEF Dying, Stashing, Collecting
<1>9. ASSUME NEW v \in Stores, NEW n \in Nat, NEW m \in Nat, NEW e \in QuietStep,
             Handing4(v, n, m, e) \/ Handing3(v, m, e)
      PROVE  \E i \in Int : Due(i)
  BY <1>2, <1>4, <1>9 DEF Handing4, Handing3
<1>10. ASSUME NEW n \in Nat, NEW e \in QuietStep,
              Picking(n, e) \/ Paying(e) \/ Filling(n, e)
      PROVE  \E i \in Int : Due(i)
  BY <1>2, <1>4, <1>10 DEF Picking, Paying, Filling
<1> QED
  BY <1>1, <1>5, <1>6, <1>7, <1>8, <1>9, <1>10 DEF Underway

LEMMA CrashKeeps ==
  ASSUME SupplyInv, ProcessDies
  PROVE  SupplyInv'
<1>1. /\ faults < MaxFaults /\ faults' = faults + 1 /\ todo' = <<>>
      /\ slip' = Held + gone - made /\ UNCHANGED <<goods, fsm, made, gone>>
  BY DEF ProcessDies
<1>2. SupplyTypeOK
  BY AtMostTwice
<1>3. /\ Held \in Int /\ gone \in Int /\ made \in Int /\ 0 <= Held /\ 0 <= gone
  BY <1>2, Counts
<1>4. faults' \in 0..MaxFaults /\ slip' \in Int
  BY <1>1, <1>2, <1>3, Places DEF SupplyTypeOK
<1>5. Held' = Held
  BY <1>1, <1>2, HeldSame
<1>6. SupplyTypeOK'
  BY <1>1, <1>2, <1>4, QuietLists DEF SupplyTypeOK, goods, fsm
<1>7. Held' + gone' + 0 = made' + slip' /\ made' + slip' >= 0 /\ -0 <= made' + slip'
  BY <1>1, <1>3, <1>5
<1>8. Resting'
  BY <1>1, <1>7, QuietLists DEF Resting, Due
<1> QED
  BY <1>6, <1>8 DEF SupplyInv, Underway

LEMMA InitSupplied == SupplyInit => SupplyInv
<1> SUFFICES ASSUME SupplyInit PROVE SupplyInv
  OBVIOUS
<1>1. \A s \in Spots : ground[s] = 0
  BY DEF SupplyInit
<1>2. \A v \in Stores : pool[v] = 0
  BY DEF SupplyInit
<1>3. Tally(ground, Spots) = 0 /\ Tally(pool, Stores) = 0
  BY <1>1, <1>2, TallyNothing
<1>4. /\ hand = 0 /\ purse = 0 /\ stash = 0 /\ load = 0 /\ gone = 0 /\ made = 0 /\ slip = 0
      /\ todo = <<>>
  BY DEF SupplyInit
<1>5. Held = 0
  BY <1>3, <1>4 DEF Held
<1>6. Resting
  BY <1>4, <1>5, QuietLists DEF Resting, Due
<1>7. SupplyTypeOK
  <2>1. ground \in [Spots -> Nat] /\ pool \in [Stores -> 0..Capacity]
    BY Places DEF SupplyInit
  <2>2. 0 \in 0..Bag /\ 0 \in 0..MaxFaults /\ 0 \in 0..MaxMade
    BY Places
  <2>3. /\ state = "none" /\ dest = NoStore /\ walking = FALSE /\ posted = FALSE
        /\ script = FALSE /\ enabled = FALSE /\ faults = 0
    BY DEF SupplyInit
  <2>4. todo \in Seq(Step)
    BY <1>4, ListsTyped
  <2>5. /\ walking \in BOOLEAN /\ posted \in BOOLEAN
        /\ script \in BOOLEAN /\ enabled \in BOOLEAN
    BY <2>3
  <2>6. state \in DeliveryState \cup {"none"} /\ dest \in Stores \cup {NoStore}
    BY <2>3
  <2>7. /\ hand \in Nat /\ purse \in Nat /\ stash \in Nat /\ load \in 0..Bag
        /\ faults \in 0..MaxFaults /\ made \in 0..MaxMade /\ gone \in Nat /\ slip \in Int
    BY <1>4, <2>2, <2>3
  <2> QED BY <2>1, <2>4, <2>5, <2>6, <2>7 DEF SupplyTypeOK
<1> QED
  BY <1>6, <1>7 DEF SupplyInv, Underway

LEMMA Stuttered == SupplyInv /\ UNCHANGED supply => SupplyInv'
<1> SUFFICES ASSUME SupplyInv, UNCHANGED supply PROVE SupplyInv'
  OBVIOUS
<1>1. /\ UNCHANGED <<ground, hand, purse, pool, stash, load, state, dest, walking, posted,
                     script, enabled, todo, faults, made, gone, slip>>
      /\ UNCHANGED goods
  BY DEF supply, goods, fsm
<1>2. Held' = Held
  BY <1>1, HeldSame DEF SupplyInv
<1> QED
  BY <1>1, <1>2
  DEF SupplyInv, SupplyTypeOK, Underway, Resting, Due, Getting3, Getting2, Getting1, Moving2,
      Moving1, Dying, Collecting, Stashing, Picking, Handing4, Handing3, Paying, Filling

LEMMA StepSupplied == SupplyInv /\ [SupplyNext]_supply => SupplyInv'
<1> SUFFICES ASSUME SupplyInv, [SupplyNext]_supply PROVE SupplyInv'
  OBVIOUS
<1>1. enabled \in BOOLEAN
  BY DEF SupplyInv, SupplyTypeOK
<1>2. ASSUME NEW n \in 1..MaxMade, Produce(n) PROVE SupplyInv'
  BY <1>2, ProduceKeeps
<1>3. ASSUME NEW s \in Spots, Get(s) PROVE SupplyInv'
  BY <1>3, GetStarts
<1>4. ASSUME NEW v \in Stores, NEW n \in Amounts, Deposit(v, n) \/ Withdraw(v, n)
      PROVE  SupplyInv'
  BY <1>4, DepositStarts, WithdrawStarts
<1>5. ASSUME NEW kept \in 0..purse, Die(kept) PROVE SupplyInv'
  BY <1>5, DieStarts
<1>6. ASSUME NEW v \in Stores, Raze(v) PROVE SupplyInv'
  BY <1>6, RazeKeeps
<1>7. ASSUME NEW may \in BOOLEAN, Converge(may) PROVE SupplyInv'
  BY <1>7, ConvergeStarts
<1>8. CASE Collect \/ Assign \/ Unassign \/ Stop \/ Arrive
  BY <1>1, <1>8, CollectStarts, AssignStarts, UnassignStarts, StopStarts, ArriveKeeps
<1>9. CASE TryPickUp \/ StartDelivery \/ HandOver \/ ArriveBack
  BY <1>9, TryPickUpStarts, StartDeliveryStarts, HandOverStarts, ArriveBackStarts
<1>10. CASE Write \/ ProcessDies
  BY <1>10, WritesOn, CrashKeeps
<1>11. CASE UNCHANGED supply
  BY <1>11, Stuttered
<1> QED
  BY <1>2, <1>3, <1>4, <1>5, <1>6, <1>7, <1>8, <1>9, <1>10, <1>11 DEF SupplyNext

LEMMA Supplied == SupplySpec => []SupplyInv
<1>1. QED BY InitSupplied, StepSupplied, PTL DEF SupplySpec

(* Stores never hold more than their capacity nor the harvester more than  *)
(* its bag, and no amount is ever negative, whatever a crash cuts.         *)
THEOREM SupplyTypeCorrect == SupplySpec => []SupplyTypeOK
<1>1. SupplyInv => SupplyTypeOK
  BY DEF SupplyInv
<1>2. QED BY <1>1, Supplied, PTL

(* Any number of stores, units and crashes: between handlers all goods are *)
(* where the books say, and at no moment are more than twice as many.      *)
THEOREM SupplyConserved == SupplySpec => []Conserved
<1>1. SupplyInv => Conserved
  <2> SUFFICES ASSUME SupplyInv PROVE Conserved
    OBVIOUS
  <2>1. SupplyTypeOK /\ \E n \in Int : Due(n)
    BY AtMostTwice
  <2>2. PICK n \in Int : Due(n)
    BY <2>1
  <2>3. Held \in Int /\ gone \in Int /\ made \in Int /\ slip \in Int
    BY <2>1, Counts
  <2>4. Held + gone + n = made + slip /\ -n <= made + slip
    BY <2>2 DEF Due
  <2>5. Held + gone <= 2 * (made + slip)
    BY <2>3, <2>4
  <2>6. ASSUME todo = <<>> PROVE Held + gone = made + slip
    <3>1. Held + gone + 0 = made + slip
      BY <2>6, AtRest DEF Due
    <3> QED BY <2>3, <3>1
  <2> QED BY <2>5, <2>6 DEF Conserved
<1>2. QED BY <1>1, Supplied, PTL

-----------------------------------------------------------------------------
(* Definitions.                                                            *)
N == Len(Order)

(* A registry that is started is not filled before the load has ended, and *)
(* nothing has been read when no load runs.                                *)
NothingYet ==
    /\ job \in {"down", "start"} => live = Empty
    /\ job \in {"down", "idle", "rollback"} => at = 0

(* The document c says what the override of d says, if it is in force.     *)
Heeds(c, d) == overlay[d] # None /\ c.field # NoEntry => c.field = overlay[d]

(* What has been read is what was merged, overrides included.              *)
ReadIsMerged ==
    \A i \in 1..at :
        /\ raw[Order[i]] \in Values
        /\ Order[i] \in Required => Heeds(raw[Order[i]], Order[i])

(* Contents that no load takes.                                            *)
Unfit == Wrong \cup Rough

(* The validators that were due have passed.                               *)
ChecksPassed ==
    /\ raw[Extra] = None
    /\ at >= N - 2 => \A d \in Required : raw[d] \notin Unfit
    /\ at >= N - 1 => raw[Balance] \notin Unfit /\ ~Clashing(raw)

(* A write in progress has changed one override.                           *)
OneOverride ==
    job \in {"write", "rollback"} =>
        \E d \in Required, v \in Fields \cup {None} : overlay = [before EXCEPT ![d] = v]

IInv == TypeOK /\ NothingYet /\ ReadIsMerged /\ ChecksPassed /\ OneOverride

-----------------------------------------------------------------------------
LEMMA OrderFacts ==
    /\ N \in Nat /\ N > 2 /\ N - 1 \in 1..N /\ N - 2 \in 1..N
    /\ \A i \in 1..N : Order[i] \in Docs
    /\ \A i \in 1..N : Order[i] \in Required <=> i <= N - 2
    /\ \A i \in 1..N : Order[i] = Balance <=> i = N - 1
    /\ \A i \in 1..N : Order[i] = Extra <=> i = N
    /\ \A d \in Required : \E i \in 1..N - 2 : Order[i] = d
    /\ Required \subseteq Docs /\ Balance \in Docs /\ Extra \in Docs
    /\ Extra \notin Required /\ Balance \notin Required /\ Extra # Balance
    /\ Last = Order[N - 2]
<1>1. N \in Nat /\ N > 2 BY DefinitionsAssumption DEF N
<1>2. \A i \in 1..N : Order[i] \in Docs BY DefinitionsAssumption DEF N
<1>3. \A i \in 1..N : i <= N - 2 \/ i = N - 1 \/ i = N BY <1>1
<1>4. N - 1 \in 1..N /\ N - 2 \in 1..N BY <1>1
<1>5. Balance # Extra /\ Balance \notin Required /\ Extra \notin Required
  BY DefinitionsAssumption
<1>6. Order[N - 1] = Balance /\ Order[N] = Extra BY DefinitionsAssumption DEF N
<1>7. \A i \in 1..N : i <= N - 2 => i \in 1..N - 2 BY <1>1
<1>8. \A i \in 1..N : i <= N - 2 => Order[i] \in Required
  BY <1>7, DefinitionsAssumption DEF N
<1>9. \A d \in Required : \E i \in 1..N - 2 : Order[i] = d BY DefinitionsAssumption DEF N
<1>10. Last = Order[N - 2] BY DEF Last, N
<1>11. Required \subseteq Docs /\ Balance \in Docs /\ Extra \in Docs BY DEF Docs
<1>12. \A i \in 1..N : Order[i] \in Required <=> i <= N - 2
  BY <1>1, <1>3, <1>5, <1>6, <1>8
<1>13. \A i \in 1..N : Order[i] = Balance <=> i = N - 1
  BY <1>1, <1>3, <1>5, <1>6, <1>8
<1>14. \A i \in 1..N : Order[i] = Extra <=> i = N
  BY <1>1, <1>3, <1>5, <1>6, <1>8
<1>15. QED
  BY <1>1, <1>2, <1>4, <1>5, <1>9, <1>10, <1>11, <1>12, <1>13, <1>14

LEMMA ContentFacts ==
    /\ None \notin Values /\ Unfit \subseteq Values
    /\ Contents = Values \cup {None}
    /\ N - 1 \in Nat
BY DefinitionsAssumption, OrderFacts DEF Contents, Unfit

(* What merge_into makes of a document.                                    *)
LEMMA MergedFacts ==
  ASSUME TypeOK, NEW d \in Docs
  PROVE  Merged(d) \in Values /\ (d \in Required => Heeds(Merged(d), d))
<1>1. PICK c \in Values : c = base[d] BY DEF TypeOK
<1>2. CASE d \in Required /\ overlay[d] # None /\ c.field # NoEntry
  <2>1. PICK v \in Fields : v = overlay[d] BY <1>2 DEF TypeOK, Overrides
  <2>2. Merged(d) = [c EXCEPT !.field = v] BY <1>1, <1>2, <2>1 DEF Merged
  <2>3. [c EXCEPT !.field = v] \in Values /\ [c EXCEPT !.field = v].field = v
    BY DEF Values
  <2>4. QED BY <2>1, <2>2, <2>3 DEF Heeds
<1>3. CASE ~(d \in Required /\ overlay[d] # None /\ c.field # NoEntry)
  <2>1. Merged(d) = c BY <1>1, <1>3 DEF Merged
  <2>2. QED BY <1>3, <2>1 DEF Heeds
<1>4. QED BY <1>2, <1>3

(* What the next read adds.                                                *)
LEMMA GotFacts ==
  ASSUME TypeOK, Loading
  PROVE  /\ at + 1 \in 1..N /\ Doc \in Docs /\ Merged(Doc) \in Values
         /\ Got \in [Docs -> Contents] /\ Got[Doc] = Merged(Doc)
         /\ \A d \in Docs : d # Doc => Got[d] = raw[d]
         /\ Doc \in Required => Heeds(Got[Doc], Doc)
<1>1. at + 1 \in 1..N BY OrderFacts DEF TypeOK, Loading, N
<1>2. Doc \in Docs BY <1>1, OrderFacts DEF Doc
<1>3. Merged(Doc) \in Values BY <1>2, MergedFacts
<1>4. Got \in [Docs -> Contents] /\ Got[Doc] = Merged(Doc)
  BY <1>2, <1>3, ContentFacts DEF Got, TypeOK
<1>5. \A d \in Docs : d # Doc => Got[d] = raw[d] BY <1>2 DEF Got, TypeOK
<1>6. Doc \in Required => Heeds(Got[Doc], Doc) BY <1>2, <1>4, MergedFacts
<1>7. QED BY <1>1, <1>2, <1>3, <1>4, <1>5, <1>6

LEMMA InitTypes == Init => IInv
<1> SUFFICES ASSUME Init PROVE IInv
  OBVIOUS
<1>1. at = 0 /\ raw = Empty /\ live = Empty /\ job = "down" BY DEF Init
<1>2. TypeOK
  <2>1. base \in [Docs -> Values]
    <3>1. PICK v \in Values \ (Wrong \cup Rough) : base = [d \in Docs |-> v]
      BY DEF Init
    <3>2. QED BY <3>1
  <2>2. overlay = [d \in Required |-> None] /\ before = overlay BY DEF Init
  <2>3. overlay \in Overrides BY <2>2 DEF Overrides
  <2>4. Empty \in [Docs -> Contents] BY DEF Empty, Contents
  <2>5. 0 \in 0..Len(Order) - 1 BY OrderFacts DEF N
  <2>6. 0 \in 0..MaxEdits /\ 0 \in 0..MaxCrashes BY DefinitionsAssumption
  <2>7. /\ curve = NotBuilt /\ astray = FALSE
        /\ edits = 0 /\ crashes = 0
    BY DEF Init
  <2>8. QED BY <1>1, <2>1, <2>2, <2>3, <2>4, <2>5, <2>6, <2>7 DEF TypeOK
<1>3. ReadIsMerged BY <1>1 DEF ReadIsMerged
<1>4. ChecksPassed
  BY <1>1, OrderFacts DEF ChecksPassed, Empty
<1>5. QED BY <1>1, <1>2, <1>3, <1>4 DEF IInv, NothingYet, OneOverride

-----------------------------------------------------------------------------
LEMMA StepTypes == TypeOK /\ [Next]_vars => TypeOK'
<1> SUFFICES ASSUME TypeOK, [Next]_vars PROVE TypeOK'
  OBVIOUS
<1> USE DEF TypeOK, files, reading, Overrides
<1>0. /\ Empty \in [Docs -> Contents] /\ 0 \in 0..N - 1
      /\ N = Len(Order) /\ None \in Contents /\ Values \subseteq Contents
  BY OrderFacts DEF Empty, Contents, N
<1>1. ASSUME NEW d \in Docs, NEW v \in Values, Edit(d, v) PROVE TypeOK'
  BY <1>1, DefinitionsAssumption DEF Edit
<1>2. ASSUME Start \/ Reload PROVE TypeOK'
  BY <1>0, <1>2 DEF Start, Reload, Begin
<1>3. ASSUME NEW d \in Required, NEW v \in Fields \cup {None}, Mutate(d, v) PROVE TypeOK'
  BY <1>0, <1>3 DEF Mutate, Begin
<1>4. CASE Read
  <2>1. Got \in [Docs -> Contents] BY <1>4, GotFacts DEF Read
  <2>2. at + 1 \in 0..N - 1
    <3>1. at + 1 \in 1..N /\ Doc # Extra BY <1>4, GotFacts DEF Read
    <3>2. at + 1 # N BY <3>1, OrderFacts DEF Doc
    <3>3. QED BY <3>1, <3>2, OrderFacts
  <2>3. QED BY <1>0, <1>4, <2>1, <2>2 DEF Read
<1>5. CASE Done
  <2>1. Loading /\ Got \in [Docs -> Contents] /\ Got[Balance] \in Contents
    BY <1>5, GotFacts, OrderFacts DEF Done
  <2>2. curve' \in Contents \cup {NotBuilt} BY <1>0, <1>5, <2>1 DEF Done
  <2>3. QED BY <1>0, <1>5, <2>1, <2>2 DEF Done
<1>6. ASSUME Loading
      PROVE  Populated \in [Docs -> Contents] /\ PopulatedPart \subseteq [Docs -> Contents]
  <2>1. Populated \in [Docs -> Contents] BY <1>0, <1>6, GotFacts DEF Populated
  <2>2. Got \in [Docs -> Contents] BY <1>6, GotFacts
  <2>3. QED BY <1>0, <2>1, <2>2 DEF PopulatedPart
<1>7. CASE Refuse
  BY <1>0, <1>6, <1>7 DEF Refuse
<1>8. CASE Trip
  BY <1>0, <1>6, <1>8 DEF Trip
<1>9. CASE Rollback
  BY <1>9 DEF Rollback
<1>10. CASE BuildLazily
  BY <1>10, OrderFacts DEF BuildLazily
<1>11. CASE Crash
  BY <1>0, <1>11, DefinitionsAssumption DEF Crash
<1>12. CASE UNCHANGED vars
  BY <1>12 DEF vars
<1>13. QED
  BY <1>1, <1>2, <1>3, <1>4, <1>5, <1>7, <1>8, <1>9, <1>10, <1>11, <1>12 DEF Next

(* A load that is not running has read nothing, and knows nothing.         *)
LEMMA Afresh ==
  ASSUME at' = 0, raw' = Empty
  PROVE  ReadIsMerged' /\ ChecksPassed'
<1>1. ReadIsMerged' BY DEF ReadIsMerged
<1>2. 0 < N - 2 /\ 0 < N - 1 BY OrderFacts
<1>3. ChecksPassed' BY <1>2, OrderFacts DEF ChecksPassed, Empty
<1>4. QED BY <1>1, <1>3

LEMMA ReadAdds ==
  ASSUME IInv, Read
  PROVE  ReadIsMerged' /\ ChecksPassed'
<1> USE DEF IInv
<1>1. /\ TypeOK /\ Loading /\ ~Refused /\ ~Trips /\ Doc # Extra
      /\ raw' = Got /\ at' = at + 1 /\ overlay' = overlay
  BY DEF Read, files
<1>2. at \in 0..N - 1 /\ at + 1 \in 1..N BY <1>1, GotFacts DEF TypeOK, N
<1>3. ReadIsMerged'
  <2> SUFFICES ASSUME NEW i \in 1..at + 1
               PROVE  /\ Got[Order[i]] \in Values
                      /\ Order[i] \in Required => Heeds(Got[Order[i]], Order[i])
    BY <1>1 DEF ReadIsMerged, Heeds
  <2>1. CASE Order[i] = Doc
    BY <1>1, <2>1, GotFacts
  <2>2. CASE Order[i] # Doc
    <3>1. i # at + 1 BY <2>2 DEF Doc
    <3>2. i \in 1..at BY <1>2, <3>1, OrderFacts
    <3>3. Order[i] \in Docs BY <1>2, OrderFacts
    <3>4. Got[Order[i]] = raw[Order[i]] BY <1>1, <2>2, <3>3, GotFacts
    <3>5. QED BY <3>2, <3>4 DEF ReadIsMerged
  <2>3. QED BY <2>1, <2>2
<1>4. Got[Extra] = None
  BY <1>1, GotFacts, OrderFacts DEF ChecksPassed
<1>5. SUFFICES
        /\ at + 1 >= N - 2 => \A d \in Required : Got[d] \notin Unfit
        /\ at + 1 >= N - 1 => Got[Balance] \notin Unfit /\ ~Clashing(Got)
  BY <1>1, <1>3, <1>4 DEF ChecksPassed, Clashing
<1>7. CASE at + 1 < N - 2
  BY <1>2, <1>7, OrderFacts
<1>8. CASE at + 1 = N - 2
  <2>1. Doc = Last BY <1>8, OrderFacts DEF Doc
  <2>2. \A d \in Required : Got[d] \notin Unfit BY <1>1, <2>1, OrderFacts DEF Refused, Trips, Unfit
  <2>3. ~(at + 1 >= N - 1) BY <1>2, <1>8, OrderFacts
  <2>4. QED BY <2>2, <2>3
<1>9. CASE at + 1 = N - 1
  <2>1. Doc = Balance BY <1>9, OrderFacts DEF Doc
  <2>2. Got[Balance] \notin Unfit /\ ~Clashing(Got)
    BY <1>1, <2>1, OrderFacts DEF Refused, Trips, Unfit
  <2>3. at >= N - 2 BY <1>2, <1>9, OrderFacts
  <2>4. \A d \in Required : raw[d] \notin Unfit BY <2>3 DEF ChecksPassed
  <2>5. \A d \in Required : Got[d] \notin Unfit
    BY <1>1, <2>1, <2>4, GotFacts, OrderFacts
  <2>6. QED BY <2>2, <2>5
<1>10. at + 1 # N BY <1>1, <1>2, OrderFacts DEF Doc
<1>11. QED BY <1>2, <1>7, <1>8, <1>9, <1>10, OrderFacts

LEMMA StepInvariant == IInv /\ [Next]_vars => IInv'
<1> SUFFICES ASSUME IInv, [Next]_vars PROVE IInv'
  OBVIOUS
<1> USE DEF files, reading
<1>1. TypeOK /\ TypeOK' BY StepTypes DEF IInv
<1>2. ASSUME NEW d \in Docs, NEW v \in Values, Edit(d, v) PROVE IInv'
  BY <1>1, <1>2
  DEF Edit, IInv, NothingYet, ReadIsMerged, ChecksPassed, OneOverride, Clashing, Heeds
<1>3. ASSUME Start \/ Reload PROVE IInv'
  <2>1. ReadIsMerged' /\ ChecksPassed' BY <1>3, Afresh DEF Start, Reload, Begin
  <2>2. QED
    BY <1>1, <1>3, <2>1 DEF Start, Reload, Begin, IInv, NothingYet, OneOverride
<1>4. ASSUME NEW d \in Required, NEW v \in Fields \cup {None}, Mutate(d, v) PROVE IInv'
  <2>1. ReadIsMerged' /\ ChecksPassed' BY <1>4, Afresh DEF Mutate, Begin
  <2>2. OneOverride' BY <1>4 DEF Mutate, OneOverride
  <2>3. job' = "write" BY <1>4 DEF Mutate, Begin
  <2>4. QED BY <1>1, <2>1, <2>2, <2>3 DEF IInv, NothingYet
<1>5. CASE Read
  <2>1. ReadIsMerged' /\ ChecksPassed' BY <1>5, ReadAdds
  <2>2. job \in {"start", "reload", "write"} /\ job' = job /\ live' = live
        /\ overlay' = overlay /\ before' = before
    BY <1>5 DEF Read, Loading
  <2>3. NothingYet' BY <2>2 DEF IInv, NothingYet
  <2>4. OneOverride' BY <2>2 DEF IInv, OneOverride
  <2>5. QED BY <1>1, <2>1, <2>3, <2>4 DEF IInv
<1>6. CASE Done
  <2>1. ReadIsMerged' /\ ChecksPassed' BY <1>6, Afresh DEF Done
  <2>2. QED BY <1>1, <1>6, <2>1 DEF Done, IInv, NothingYet, OneOverride
<1>7. CASE Refuse
  <2>1. ReadIsMerged' /\ ChecksPassed' BY <1>7, Afresh DEF Refuse
  <2>2. job' \in {"rollback", "idle"} /\ (job' = "rollback" => job = "write")
    BY <1>7 DEF Refuse
  <2>3. OneOverride' BY <1>7, <2>2 DEF Refuse, IInv, OneOverride
  <2>4. at' = 0 BY <1>7 DEF Refuse
  <2>5. QED BY <1>1, <2>1, <2>2, <2>3, <2>4 DEF IInv, NothingYet
<1>8. CASE Trip
  <2>1. ReadIsMerged' /\ ChecksPassed' BY <1>8, Afresh DEF Trip
  <2>2. QED BY <1>1, <1>8, <2>1 DEF Trip, IInv, NothingYet, OneOverride
<1>9. CASE Rollback
  <2>1. /\ job = "rollback" /\ job' = "idle" /\ at' = at
        /\ raw' = raw /\ live' = live
    BY <1>9 DEF Rollback
  <2>2. at' = 0 BY <2>1 DEF IInv, NothingYet
  <2>3. ReadIsMerged' BY <2>2 DEF ReadIsMerged
  <2>4. ChecksPassed' BY <2>1 DEF IInv, ChecksPassed, Clashing
  <2>5. QED BY <1>1, <2>1, <2>2, <2>3, <2>4 DEF IInv, NothingYet, OneOverride
<1>10. CASE BuildLazily
  BY <1>1, <1>10
  DEF BuildLazily, IInv, NothingYet, ReadIsMerged, ChecksPassed, OneOverride, Clashing, Heeds
<1>11. CASE Crash
  <2>1. ReadIsMerged' /\ ChecksPassed' BY <1>11, Afresh DEF Crash
  <2>2. QED BY <1>1, <1>11, <2>1 DEF Crash, IInv, NothingYet, OneOverride
<1>12. CASE UNCHANGED vars
  BY <1>1, <1>12
  DEF vars, IInv, NothingYet, ReadIsMerged, ChecksPassed, OneOverride, Clashing, Heeds
<1>13. QED
  BY <1>2, <1>3, <1>4, <1>5, <1>6, <1>7, <1>8, <1>9, <1>10, <1>11, <1>12 DEF Next

LEMMA Inductive == Spec => []IInv
<1>1. QED BY InitTypes, StepInvariant, PTL DEF Spec

(* Every variable keeps to its type, the registries included.              *)
THEOREM TypeCorrect == Spec => []TypeOK
<1>1. IInv => TypeOK BY DEF IInv
<1>2. QED BY <1>1, Inductive, PTL

-----------------------------------------------------------------------------
Whole == {r \in [Docs -> Values] : Accepted(r)}

(* A load that ends has an accepted set of documents, overrides included.  *)
LEMMA DoneIsWhole ==
  ASSUME IInv, Done
  PROVE  Got \in Whole /\ \A d \in Required : Heeds(Got[d], d)
<1> USE DEF IInv
<1>1. TypeOK /\ Loading /\ ~Refused /\ ~Trips /\ Doc = Extra BY DEF Done
<1>2. at + 1 = N /\ at = N - 1
  BY <1>1, GotFacts, OrderFacts DEF Doc, TypeOK
<1>3. \A d \in Docs \ {Extra} : Got[d] = raw[d]
  BY <1>1, GotFacts
<1>4. \A d \in Required :
        raw[d] \in Values \ Unfit /\ Heeds(raw[d], d)
  <2> SUFFICES ASSUME NEW d \in Required
               PROVE  raw[d] \in Values \ Unfit /\ Heeds(raw[d], d)
    OBVIOUS
  <2>1. PICK i \in 1..N - 2 : Order[i] = d BY OrderFacts
  <2>2. i \in 1..at BY <1>2, OrderFacts
  <2>3. raw[d] \notin Unfit BY <1>2, OrderFacts DEF ChecksPassed
  <2>4. QED BY <2>1, <2>2, <2>3 DEF ReadIsMerged
<1>5. raw[Balance] \in Values \ Unfit /\ ~Clashing(raw)
  <2>1. N - 1 \in 1..at /\ Order[N - 1] = Balance BY <1>2, OrderFacts
  <2>2. QED BY <1>2, <2>1, OrderFacts DEF ReadIsMerged, ChecksPassed
<1>6. Got[Extra] \in Values \ Unfit
  BY <1>1, GotFacts DEF Refused, Trips, Unfit
<1>7. ~Clashing(Got)
  <2>1. {Got[d] : d \in Docs \ {Extra}} = {raw[d] : d \in Docs \ {Extra}} BY <1>3
  <2>2. QED BY <1>5, <2>1 DEF Clashing
<1>8. \A d \in Docs : Got[d] \in Values \ Unfit
  BY <1>3, <1>4, <1>5, <1>6, OrderFacts DEF Docs
<1>9. Got \in [Docs -> Values] BY <1>1, <1>8, GotFacts
<1>10. \A d \in Required : Heeds(Got[d], d)
  BY <1>3, <1>4, OrderFacts
<1>11. QED BY <1>6, <1>7, <1>8, <1>9, <1>10 DEF Whole, Accepted, Unfit

(* The overlay a command leaves differs in one entry, if it was a write.   *)
LEMMA EditIsEdit ==
  ASSUME IInv, job \in {"write", "rollback"}
  PROVE  Atomic!Edited(overlay)
<1>1. Settled = before BY DEF Settled
<1>2. \E d \in Required, v \in Fields \cup {None} : overlay = [before EXCEPT ![d] = v]
  BY DEF IInv, OneOverride
<1>3. QED BY <1>1, <1>2 DEF Atomic!Edited

LEMMA StepIsAtomic == IInv /\ [Next]_vars => [Atomic!Next]_(Atomic!absvars)
<1> SUFFICES ASSUME IInv, [Next]_vars PROVE Atomic!Next \/ UNCHANGED Atomic!absvars
  OBVIOUS
<1> USE DEF files, reading
<1>1. ASSUME live' = live, astray' = astray, Settled' = Settled
      PROVE  UNCHANGED Atomic!absvars
  BY <1>1 DEF Atomic!absvars
<1>2. ASSUME NEW d \in Docs, NEW v \in Values, Edit(d, v)
      PROVE  UNCHANGED Atomic!absvars
  BY <1>1, <1>2 DEF Edit, Settled
<1>3. Start \/ Reload => UNCHANGED Atomic!absvars
  BY <1>1 DEF Start, Reload, Begin, Settled
<1>4. ASSUME NEW d \in Required, NEW v \in Fields \cup {None}, Mutate(d, v)
      PROVE  UNCHANGED Atomic!absvars
  BY <1>1, <1>4 DEF Mutate, Begin, Settled
<1>5. Read => UNCHANGED Atomic!absvars
  BY <1>1 DEF Read, Settled
<1>6. CASE Done
  <2>1. /\ live' = Got /\ live' \in Whole
        /\ \A d \in Required : Heeds(live'[d], d)
        /\ astray' = FALSE /\ Settled' = overlay
    BY <1>6, DoneIsWhole DEF Done, Settled
  <2>2. Atomic!Agrees(live', overlay) BY <2>1 DEF Atomic!Agrees, Heeds
  <2>3. CASE job = "write"
    BY <2>1, <2>2, <2>3, EditIsEdit DEF Atomic!Next, Atomic!Write, Whole
  <2>4. CASE job # "write"
    <3>1. Settled = overlay BY <1>6, <2>4 DEF Done, Loading, Settled
    <3>2. QED BY <2>1, <2>2, <3>1 DEF Atomic!Next, Atomic!Load, Whole
  <2>5. QED BY <2>3, <2>4
<1>7. ASSUME Loading
      PROVE  \A r \in PopulatedPart \cup {Populated} :
               r \in [Docs -> Values \cup {None}] /\ r[Extra] = None
  <2>1. Got[Extra] = None \/ Doc = Extra
    BY <1>7, GotFacts, OrderFacts DEF IInv, ChecksPassed
  <2>2. raw \in [Docs -> Values \cup {None}] /\ raw[Extra] = None
    BY DEF IInv, TypeOK, ChecksPassed, Contents
  <2>3. Got \in [Docs -> Values \cup {None}] BY <1>7, GotFacts DEF IInv, Contents
  <2>4. Empty \in [Docs -> Values \cup {None}] /\ Empty[Extra] = None
    BY OrderFacts DEF Empty
  <2>5. Populated \in [Docs -> Values \cup {None}] /\ Populated[Extra] = None
    BY <2>1, <2>2, <2>3, <2>4 DEF Populated
  <2>6. ASSUME NEW r \in PopulatedPart
        PROVE  r \in [Docs -> Values \cup {None}] /\ r[Extra] = None
    <3>1. CASE r = Populated BY <2>5, <3>1
    <3>2. CASE r # Populated
      <4>1. PICK n \in 0..at :
              r = [d \in Docs |-> IF d \in Required /\ d \in {Order[i] : i \in 1..n}
                                   THEN Got[d] ELSE None]
        BY <3>2 DEF PopulatedPart
      <4>2. QED BY <2>3, <4>1, OrderFacts
    <3>3. QED BY <3>1, <3>2
  <2>7. QED BY <2>5, <2>6
<1>8. ASSUME job = "start", Loading, live' \in PopulatedPart \cup {Populated},
             astray' = astray, Settled' = Settled
      PROVE  Atomic!LoadPart
  <2>1. live = Atomic!Empty BY <1>8 DEF IInv, NothingYet, Empty, Atomic!Empty
  <2>2. QED BY <1>7, <1>8, <2>1, OrderFacts DEF Atomic!LoadPart
<1>9. CASE Refuse
  <2>1. Loading /\ astray' = astray /\ overlay' = overlay /\ before' = before
    BY <1>9 DEF Refuse
  <2>2. Settled' = Settled BY <1>9, <2>1 DEF Refuse, Loading, Settled
  <2>3. CASE job = "start"
    BY <1>8, <1>9, <2>1, <2>2, <2>3 DEF Refuse, Atomic!Next
  <2>4. CASE job # "start"
    BY <1>1, <1>9, <2>1, <2>2, <2>4 DEF Refuse
  <2>5. QED BY <2>3, <2>4
<1>10. CASE Trip
  <2>1. Loading /\ overlay' = overlay /\ job' = "idle" /\ Settled' = overlay
    BY <1>10 DEF Trip, Settled
  <2>2. CASE job = "write"
    <3>1. live' = live /\ astray' = TRUE BY <1>10, <2>2 DEF Trip
    <3>2. QED BY <2>1, <2>2, <3>1, EditIsEdit DEF Atomic!Next, Atomic!Stray
  <2>3. CASE job # "write"
    <3>1. Settled' = Settled BY <2>1, <2>3 DEF Loading, Settled
    <3>2. astray' = astray BY <1>10, <2>3 DEF Trip, IInv, TypeOK
    <3>3. CASE job = "start"
      BY <1>8, <1>10, <2>1, <3>1, <3>2, <3>3 DEF Trip, Atomic!Next
    <3>4. CASE job # "start"
      BY <1>1, <1>10, <3>1, <3>2, <3>4 DEF Trip
    <3>5. QED BY <3>3, <3>4
  <2>4. QED BY <2>2, <2>3
<1>11. Rollback => UNCHANGED Atomic!absvars
  BY <1>1 DEF Rollback, Settled
<1>12. BuildLazily => UNCHANGED Atomic!absvars
  BY <1>1 DEF BuildLazily, Settled
<1>13. CASE Crash
  <2>1. live' = Atomic!Empty /\ astray' = astray /\ Settled' = overlay
    BY <1>13 DEF Crash, Empty, Atomic!Empty, Settled
  <2>2. Atomic!Edited(overlay) \/ overlay = Settled
    BY EditIsEdit DEF Settled
  <2>3. QED BY <2>1, <2>2 DEF Atomic!Next, Atomic!Halt
<1>14. UNCHANGED vars => UNCHANGED Atomic!absvars
  BY <1>1 DEF vars, Settled
<1>15. QED
  BY <1>2, <1>3, <1>4, <1>5, <1>6, <1>9, <1>10, <1>11, <1>12, <1>13, <1>14 DEF Next

(* Starts, reloads and override writes, read file by file while an         *)
(* operator edits, refused, cut by crashes or ended by an error, are the   *)
(* atomic changes of AtomicDefinitions.                                    *)
THEOREM Refinement == Spec => WritesAreAtomic
<1>1. Init => Atomic!Init
  <2> SUFFICES ASSUME Init PROVE Atomic!Init
    OBVIOUS
  <2>1. Settled = [d \in Required |-> None] BY DEF Init, Settled
  <2>2. live = Atomic!Empty /\ astray = FALSE BY DEF Init, Empty, Atomic!Empty
  <2>3. QED BY <2>1, <2>2 DEF Atomic!Init
<1>2. QED
  BY <1>1, StepIsAtomic, Inductive, PTL DEF Spec, WritesAreAtomic, Atomic!Spec
=============================================================================
