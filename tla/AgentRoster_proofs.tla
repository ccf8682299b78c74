-------------------------- MODULE AgentRoster_proofs --------------------------
(***************************************************************************)
(* Slots, targets and IDs of an agent roster of any size, with any number  *)
(* of crashes.  The invariant says which writes a handler can have left    *)
(* (Shape) and what each tail of them relies on: that nobody's slot holds  *)
(* an agent between its old post and its new one, and how far the counter  *)
(* may lag behind the ID being issued.                                     *)
(***************************************************************************)
EXTENDS AgentRoster, TLAPS, FiniteSetTheorems, SequenceTheorems

ClearOf(a) == [op |-> "clear", agent |-> a]
DeleteOf(a) == [op |-> "delete", agent |-> a]
RoleOf(a, r) == [op |-> "role", agent |-> a, to |-> r]
TargetOf(a, b) == [op |-> "target", agent |-> a, to |-> b]
SlotOf(a, b) == [op |-> "slot", agent |-> a, at |-> b]
ReserveOf(S, x) == [op |-> "reserve", of |-> S, to |-> x]
TraineeOf(c, n) == [op |-> "trainee", at |-> c, new |-> n]
CreateOf(c, n) == [op |-> "create", at |-> c, new |-> n]
TicksOf(c, d) == [op |-> "ticks", at |-> c, to |-> d]
OwnerOf(c) == [op |-> "owner", at |-> c, to |-> TRUE]
DisownOf(c) == [op |-> "owner", at |-> c, to |-> FALSE]
NextOf(c, n) == [op |-> "next", at |-> c, to |-> n]
LeaveOf(c) == [op |-> "leave", at |-> c]

Reasons == {"none", "army", "post"}
Places == Academies \cup {None}

(* Nobody's building holds the agent. *)
Unheld(a) == \A b \in Posts : slot[b] # a

(* The IDs issued differ and are below m; E has handed its own to an agent *)
(* and not yet let go of it.                                               *)
Fresh(m, E) ==
    /\ \A a \in Roster : id[a] < m
    /\ \A c \in Academies : trainee[c] < m
    /\ \A a \in Roster, b \in Agents : id[a] = id[b] => a = b
    /\ \A c \in Academies \ E, a \in Roster : trainee[c] # id[a]
    /\ \A c, d \in Academies : trainee[c] = trainee[d] => c = d \/ trainee[c] = 0

(* What is left of assign_agent at a building: the post is still free, and *)
(* the agent is nowhere once the old one was told.                         *)
AtPost4(a, b) ==
    /\ todo = <<ClearOf(a), RoleOf(a, "post"), TargetOf(a, b), SlotOf(a, b)>>
    /\ id[a] # 0 /\ slot[b] = None
AtPost3(a, b) ==
    /\ todo = <<RoleOf(a, "post"), TargetOf(a, b), SlotOf(a, b)>>
    /\ id[a] # 0 /\ slot[b] = None /\ Unheld(a)
AtPost2(a, b) ==
    /\ todo = <<TargetOf(a, b), SlotOf(a, b)>>
    /\ id[a] # 0 /\ slot[b] = None /\ Unheld(a)
AtPost1(a, b) ==
    /\ todo = <<SlotOf(a, b)>>
    /\ id[a] # 0 /\ slot[b] = None /\ Unheld(a) /\ target[a] = b

(* Of a release. *)
AtLeave3(a, r) == todo = <<ClearOf(a), RoleOf(a, r), TargetOf(a, None)>>
AtLeave2(a, r) == todo = <<RoleOf(a, r), TargetOf(a, None)>> /\ Unheld(a)
AtLeave1(a) == todo = <<TargetOf(a, None)>> /\ Unheld(a)

(* Of admin_destroy_agent, and of a bench. *)
AtDestroy2(a) == todo = <<ClearOf(a), DeleteOf(a)>>
AtDestroy1(a) == todo = <<DeleteOf(a)>> /\ Unheld(a)
AtBench(S, x) == todo = <<ReserveOf(S, x)>>

(* Nothing is being issued: the IDs are below the counter. *)
Numbered == ~reissued => Fresh(next, {})

Moving ==
    \/ \E a \in Agents, b \in Posts : AtPost4(a, b)
    \/ \E a \in Agents, b \in Posts : AtPost3(a, b)
    \/ \E a \in Agents, b \in Posts : AtPost2(a, b)
    \/ \E a \in Agents, b \in Posts : AtPost1(a, b)
    \/ \E a \in Agents, r \in Reasons : AtLeave3(a, r)
    \/ \E a \in Agents, r \in Reasons : AtLeave2(a, r)
    \/ \E a \in Agents : AtLeave1(a)
    \/ \E a \in Agents : AtDestroy2(a)
    \/ \E a \in Agents : AtDestroy1(a)
    \/ \E S \in SUBSET Agents, x \in BOOLEAN : AtBench(S, x)

(* Of train_agent and admin_create_agent: n is issued, the counter waits.  *)
ToIssue(n) == ~reissued => Fresh(next, {}) /\ n >= next /\ \A a \in Roster : n > id[a]
Issued(n) == ~reissued => Fresh(n + 1, {})

AtTrain4(c, d, n) ==
    /\ todo = <<TraineeOf(c, n), TicksOf(c, d), OwnerOf(c), NextOf(c, n + 1)>>
    /\ ToIssue(n)
AtTrain3(c, d, n) ==
    todo = <<TicksOf(c, d), OwnerOf(c), NextOf(c, n + 1)>> /\ Issued(n)
AtTrain2(c, n) == todo = <<OwnerOf(c), NextOf(c, n + 1)>> /\ Issued(n)
AtTrain1(c, n) == todo = <<NextOf(c, n + 1)>> /\ Issued(n)
AtAdmin(n) == todo = <<CreateOf(None, n), NextOf(None, n + 1)>> /\ ToIssue(n)

Issuing ==
    \/ \E c \in Academies, d \in Durations, n \in 1..MaxId : AtTrain4(c, d, n)
    \/ \E c \in Academies, d \in Durations, n \in 1..MaxId : AtTrain3(c, d, n)
    \/ \E c \in Academies, n \in 1..MaxId : AtTrain2(c, n)
    \/ \E c \in Places, n \in 1..MaxId : AtTrain1(c, n)
    \/ \E n \in 1..MaxId : AtAdmin(n)

(* Of complete_training and admin_clear_training: the ID is the agent's    *)
(* before the Academy lets go of it.                                       *)
AtDone(c) ==
    /\ todo = <<CreateOf(c, trainee[c]), TraineeOf(c, 0), TicksOf(c, 0),
                DisownOf(c), LeaveOf(c)>>
    /\ trainee[c] # 0 /\ Numbered
AtClear4(c) ==
    /\ todo = <<TraineeOf(c, 0), TicksOf(c, 0), DisownOf(c), LeaveOf(c)>>
    /\ ~reissued => Fresh(next, {c})
AtClear3(c) == todo = <<TicksOf(c, 0), DisownOf(c), LeaveOf(c)>> /\ Numbered
AtClear2(c) == todo = <<DisownOf(c), LeaveOf(c)>> /\ Numbered
AtClear1(c) == todo = <<LeaveOf(c)>> /\ Numbered

Ending ==
    \/ \E c \in Academies : AtDone(c)
    \/ \E c \in Academies : AtClear4(c)
    \/ \E c \in Academies : AtClear3(c)
    \/ \E c \in Academies : AtClear2(c)
    \/ \E c \in Academies : AtClear1(c)

Shape ==
    \/ (todo = <<>> \/ Moving) /\ Numbered
    \/ Issuing
    \/ Ending

(* A building never points at somebody who is gone or works elsewhere.     *)
Pointed == \A b \in Posts : slot[b] # None => id[slot[b]] # 0 /\ target[slot[b]] = b

(* The agent of a running assignment, release or removal.                  *)
InHand(a) ==
    \/ \E b \in Posts : AtPost4(a, b) \/ AtPost3(a, b) \/ AtPost2(a, b) \/ AtPost1(a, b)
    \/ \E r \in Reasons : AtLeave3(a, r) \/ AtLeave2(a, r)
    \/ AtLeave1(a) \/ AtDestroy2(a) \/ AtDestroy1(a)

Holding ==
    \A a \in Agents \ loose : target[a] # None => slot[target[a]] = a \/ InHand(a)

(* TypeOK, but for the writes left, which Shape says. *)
Types ==
    /\ id \in [Agents -> 0..MaxId]
    /\ role \in [Agents -> Reasons]
    /\ target \in [Agents -> Posts \cup {None}]
    /\ reserve \in [Agents -> BOOLEAN]
    /\ slot \in [Posts -> Agents \cup {None}]
    /\ trainee \in [Academies -> 0..MaxId]
    /\ ticks \in [Academies -> Nat]
    /\ owned \subseteq Academies
    /\ next \in 1..(MaxId + 1) /\ rank \in DOMAIN Caps
    /\ cache \in Seq(Academies) /\ round \in Nat
    /\ faults \in 0..MaxFaults
    /\ torn \subseteq Academies /\ loose \subseteq Agents
    /\ reissued \in BOOLEAN /\ upset \in BOOLEAN

IInv == Types /\ Shape /\ Pointed /\ Holding

-----------------------------------------------------------------------------
(* The write at hand tells which handler is running. *)
LEMMA Ops ==
    /\ \A a, b, r : ClearOf(a).op = "clear" /\ DeleteOf(a).op = "delete"
                    /\ RoleOf(a, r).op = "role" /\ TargetOf(a, b).op = "target"
                    /\ SlotOf(a, b).op = "slot"
    /\ \A S, x : ReserveOf(S, x).op = "reserve"
    /\ \A c, n : TraineeOf(c, n).op = "trainee" /\ CreateOf(c, n).op = "create"
                 /\ TicksOf(c, n).op = "ticks" /\ OwnerOf(c).op = "owner" /\ DisownOf(c).op = "owner"
                 /\ NextOf(c, n).op = "next" /\ LeaveOf(c).op = "leave"
BY DEF ClearOf, DeleteOf, RoleOf, TargetOf, SlotOf, ReserveOf, TraineeOf, CreateOf,
       TicksOf, OwnerOf, DisownOf, NextOf, LeaveOf

LEMMA Tuples ==
    /\ \A u : <<u>> # <<>> /\ Head(<<u>>) = u /\ Tail(<<u>>) = <<>>
    /\ \A u, v : <<u, v>> # <<>> /\ Head(<<u, v>>) = u /\ Tail(<<u, v>>) = <<v>>
    /\ \A u, v, w : /\ <<u, v, w>> # <<>> /\ Head(<<u, v, w>>) = u
                    /\ Tail(<<u, v, w>>) = <<v, w>>
    /\ \A u, v, w, x : /\ <<u, v, w, x>> # <<>> /\ Head(<<u, v, w, x>>) = u
                       /\ Tail(<<u, v, w, x>>) = <<v, w, x>>
    /\ \A u, v, w, x, y : /\ <<u, v, w, x, y>> # <<>> /\ Head(<<u, v, w, x, y>>) = u
                          /\ Tail(<<u, v, w, x, y>>) = <<v, w, x, y>>
OBVIOUS

LEMMA HeadsOfMoves ==
    /\ \A a, b : AtPost4(a, b) =>
          todo # <<>> /\ Head(todo) = ClearOf(a)
          /\ Tail(todo) = <<RoleOf(a, "post"), TargetOf(a, b), SlotOf(a, b)>>
    /\ \A a, b : AtPost3(a, b) =>
          todo # <<>> /\ Head(todo) = RoleOf(a, "post")
          /\ Tail(todo) = <<TargetOf(a, b), SlotOf(a, b)>>
    /\ \A a, b : AtPost2(a, b) =>
          todo # <<>> /\ Head(todo) = TargetOf(a, b) /\ Tail(todo) = <<SlotOf(a, b)>>
    /\ \A a, b : AtPost1(a, b) =>
          todo # <<>> /\ Head(todo) = SlotOf(a, b) /\ Tail(todo) = <<>>
    /\ \A a, r : AtLeave3(a, r) =>
          todo # <<>> /\ Head(todo) = ClearOf(a)
          /\ Tail(todo) = <<RoleOf(a, r), TargetOf(a, None)>>
    /\ \A a, r : AtLeave2(a, r) =>
          todo # <<>> /\ Head(todo) = RoleOf(a, r) /\ Tail(todo) = <<TargetOf(a, None)>>
    /\ \A a : AtLeave1(a) =>
          todo # <<>> /\ Head(todo) = TargetOf(a, None) /\ Tail(todo) = <<>>
    /\ \A a : AtDestroy2(a) =>
          todo # <<>> /\ Head(todo) = ClearOf(a) /\ Tail(todo) = <<DeleteOf(a)>>
    /\ \A a : AtDestroy1(a) =>
          todo # <<>> /\ Head(todo) = DeleteOf(a) /\ Tail(todo) = <<>>
    /\ \A S, x : AtBench(S, x) =>
          todo # <<>> /\ Head(todo) = ReserveOf(S, x) /\ Tail(todo) = <<>>
<1>1. \A a, b : AtPost4(a, b) =>
          todo # <<>> /\ Head(todo) = ClearOf(a)
          /\ Tail(todo) = <<RoleOf(a, "post"), TargetOf(a, b), SlotOf(a, b)>>
  BY Tuples DEF AtPost4
<1>2. \A a, b : AtPost3(a, b) =>
          todo # <<>> /\ Head(todo) = RoleOf(a, "post")
          /\ Tail(todo) = <<TargetOf(a, b), SlotOf(a, b)>>
  BY Tuples DEF AtPost3
<1>3. \A a, b : AtPost2(a, b) =>
          todo # <<>> /\ Head(todo) = TargetOf(a, b) /\ Tail(todo) = <<SlotOf(a, b)>>
  BY Tuples DEF AtPost2
<1>4. \A a, b : AtPost1(a, b) =>
          todo # <<>> /\ Head(todo) = SlotOf(a, b) /\ Tail(todo) = <<>>
  BY Tuples DEF AtPost1
<1>5. \A a, r : AtLeave3(a, r) =>
          todo # <<>> /\ Head(todo) = ClearOf(a)
          /\ Tail(todo) = <<RoleOf(a, r), TargetOf(a, None)>>
  BY Tuples DEF AtLeave3
<1>6. \A a, r : AtLeave2(a, r) =>
          todo # <<>> /\ Head(todo) = RoleOf(a, r) /\ Tail(todo) = <<TargetOf(a, None)>>
  BY Tuples DEF AtLeave2
<1>7. \A a : AtLeave1(a) =>
          todo # <<>> /\ Head(todo) = TargetOf(a, None) /\ Tail(todo) = <<>>
  BY Tuples DEF AtLeave1
<1>8. \A a : AtDestroy2(a) =>
          todo # <<>> /\ Head(todo) = ClearOf(a) /\ Tail(todo) = <<DeleteOf(a)>>
  BY Tuples DEF AtDestroy2
<1>9. \A a : AtDestroy1(a) =>
          todo # <<>> /\ Head(todo) = DeleteOf(a) /\ Tail(todo) = <<>>
  BY Tuples DEF AtDestroy1
<1>10. \A S, x : AtBench(S, x) =>
          todo # <<>> /\ Head(todo) = ReserveOf(S, x) /\ Tail(todo) = <<>>
  BY Tuples DEF AtBench
<1> QED BY <1>1, <1>2, <1>3, <1>4, <1>5, <1>6, <1>7, <1>8, <1>9, <1>10

LEMMA HeadsOfTraining ==
    /\ \A c, d, n : AtTrain4(c, d, n) =>
          todo # <<>> /\ Head(todo) = TraineeOf(c, n)
          /\ Tail(todo) = <<TicksOf(c, d), OwnerOf(c), NextOf(c, n + 1)>>
    /\ \A c, d, n : AtTrain3(c, d, n) =>
          todo # <<>> /\ Head(todo) = TicksOf(c, d)
          /\ Tail(todo) = <<OwnerOf(c), NextOf(c, n + 1)>>
    /\ \A c, n : AtTrain2(c, n) =>
          todo # <<>> /\ Head(todo) = OwnerOf(c)
          /\ Tail(todo) = <<NextOf(c, n + 1)>>
    /\ \A c, n : AtTrain1(c, n) =>
          todo # <<>> /\ Head(todo) = NextOf(c, n + 1) /\ Tail(todo) = <<>>
    /\ \A n : AtAdmin(n) =>
          todo # <<>> /\ Head(todo) = CreateOf(None, n)
          /\ Tail(todo) = <<NextOf(None, n + 1)>>
    /\ \A c : AtDone(c) =>
          todo # <<>> /\ Head(todo) = CreateOf(c, trainee[c])
          /\ Tail(todo) = <<TraineeOf(c, 0), TicksOf(c, 0), DisownOf(c), LeaveOf(c)>>
    /\ \A c : AtClear4(c) =>
          todo # <<>> /\ Head(todo) = TraineeOf(c, 0)
          /\ Tail(todo) = <<TicksOf(c, 0), DisownOf(c), LeaveOf(c)>>
    /\ \A c : AtClear3(c) =>
          todo # <<>> /\ Head(todo) = TicksOf(c, 0)
          /\ Tail(todo) = <<DisownOf(c), LeaveOf(c)>>
    /\ \A c : AtClear2(c) =>
          todo # <<>> /\ Head(todo) = DisownOf(c) /\ Tail(todo) = <<LeaveOf(c)>>
    /\ \A c : AtClear1(c) =>
          todo # <<>> /\ Head(todo) = LeaveOf(c) /\ Tail(todo) = <<>>
<1>1. \A c, d, n : AtTrain4(c, d, n) =>
          todo # <<>> /\ Head(todo) = TraineeOf(c, n)
          /\ Tail(todo) = <<TicksOf(c, d), OwnerOf(c), NextOf(c, n + 1)>>
  BY Tuples DEF AtTrain4
<1>2. \A c, d, n : AtTrain3(c, d, n) =>
          todo # <<>> /\ Head(todo) = TicksOf(c, d)
          /\ Tail(todo) = <<OwnerOf(c), NextOf(c, n + 1)>>
  BY Tuples DEF AtTrain3
<1>3. \A c, n : AtTrain2(c, n) =>
          todo # <<>> /\ Head(todo) = OwnerOf(c)
          /\ Tail(todo) = <<NextOf(c, n + 1)>>
  BY Tuples DEF AtTrain2
<1>4. \A c, n : AtTrain1(c, n) =>
          todo # <<>> /\ Head(todo) = NextOf(c, n + 1) /\ Tail(todo) = <<>>
  BY Tuples DEF AtTrain1
<1>5. \A n : AtAdmin(n) =>
          todo # <<>> /\ Head(todo) = CreateOf(None, n)
          /\ Tail(todo) = <<NextOf(None, n + 1)>>
  BY Tuples DEF AtAdmin
<1>6. \A c : AtDone(c) =>
          todo # <<>> /\ Head(todo) = CreateOf(c, trainee[c])
          /\ Tail(todo) = <<TraineeOf(c, 0), TicksOf(c, 0), DisownOf(c), LeaveOf(c)>>
  BY Tuples DEF AtDone
<1>7. \A c : AtClear4(c) =>
          todo # <<>> /\ Head(todo) = TraineeOf(c, 0)
          /\ Tail(todo) = <<TicksOf(c, 0), DisownOf(c), LeaveOf(c)>>
  BY Tuples DEF AtClear4
<1>8. \A c : AtClear3(c) =>
          todo # <<>> /\ Head(todo) = TicksOf(c, 0)
          /\ Tail(todo) = <<DisownOf(c), LeaveOf(c)>>
  BY Tuples DEF AtClear3
<1>9. \A c : AtClear2(c) =>
          todo # <<>> /\ Head(todo) = DisownOf(c) /\ Tail(todo) = <<LeaveOf(c)>>
  BY Tuples DEF AtClear2
<1>10. \A c : AtClear1(c) =>
          todo # <<>> /\ Head(todo) = LeaveOf(c) /\ Tail(todo) = <<>>
  BY Tuples DEF AtClear1
<1> QED BY <1>1, <1>2, <1>3, <1>4, <1>5, <1>6, <1>7, <1>8, <1>9, <1>10

(* The first write of each. *)
LEMMA Firsts ==
    /\ \A a, b : AtPost4(a, b) => todo # <<>> /\ Head(todo).op = "clear"
    /\ \A a, b : AtPost3(a, b) => todo # <<>> /\ Head(todo).op = "role"
    /\ \A a, b : AtPost2(a, b) => todo # <<>> /\ Head(todo).op = "target"
    /\ \A a, b : AtPost1(a, b) => todo # <<>> /\ Head(todo).op = "slot"
    /\ \A a, r : AtLeave3(a, r) => todo # <<>> /\ Head(todo).op = "clear"
    /\ \A a, r : AtLeave2(a, r) => todo # <<>> /\ Head(todo).op = "role"
    /\ \A a : AtLeave1(a) => todo # <<>> /\ Head(todo).op = "target"
    /\ \A a : AtDestroy2(a) => todo # <<>> /\ Head(todo).op = "clear"
    /\ \A a : AtDestroy1(a) => todo # <<>> /\ Head(todo).op = "delete"
    /\ \A S, x : AtBench(S, x) => todo # <<>> /\ Head(todo).op = "reserve"
    /\ \A c, d, n : AtTrain4(c, d, n) => todo # <<>> /\ Head(todo).op = "trainee"
    /\ \A c, d, n : AtTrain3(c, d, n) => todo # <<>> /\ Head(todo).op = "ticks"
    /\ \A c, n : AtTrain2(c, n) => todo # <<>> /\ Head(todo).op = "owner"
    /\ \A c, n : AtTrain1(c, n) => todo # <<>> /\ Head(todo).op = "next"
    /\ \A n : AtAdmin(n) => todo # <<>> /\ Head(todo).op = "create"
    /\ \A c : AtDone(c) => todo # <<>> /\ Head(todo).op = "create"
    /\ \A c : AtClear4(c) => todo # <<>> /\ Head(todo).op = "trainee"
    /\ \A c : AtClear3(c) => todo # <<>> /\ Head(todo).op = "ticks"
    /\ \A c : AtClear2(c) => todo # <<>> /\ Head(todo).op = "owner"
    /\ \A c : AtClear1(c) => todo # <<>> /\ Head(todo).op = "leave"
BY HeadsOfMoves, HeadsOfTraining, Ops

(* Which handlers a write can belong to. *)
LEMMA WhichWrite ==
    ASSUME Shape
    PROVE  /\ Doing("clear") => \/ \E a \in Agents, b \in Posts : AtPost4(a, b)
                                \/ \E a \in Agents, r \in Reasons : AtLeave3(a, r)
                                \/ \E a \in Agents : AtDestroy2(a)
           /\ Doing("role") => \/ \E a \in Agents, b \in Posts : AtPost3(a, b)
                               \/ \E a \in Agents, r \in Reasons : AtLeave2(a, r)
           /\ Doing("target") => \/ \E a \in Agents, b \in Posts : AtPost2(a, b)
                                 \/ \E a \in Agents : AtLeave1(a)
           /\ Doing("slot") => \E a \in Agents, b \in Posts : AtPost1(a, b)
           /\ Doing("delete") => \E a \in Agents : AtDestroy1(a)
           /\ Doing("reserve") => \E S \in SUBSET Agents, x \in BOOLEAN : AtBench(S, x)
           /\ Doing("trainee") =>
                \/ \E c \in Academies, d \in Durations, n \in 1..MaxId : AtTrain4(c, d, n)
                \/ \E c \in Academies : AtClear4(c)
           /\ Doing("ticks") =>
                \/ \E c \in Academies, d \in Durations, n \in 1..MaxId : AtTrain3(c, d, n)
                \/ \E c \in Academies : AtClear3(c)
           /\ Doing("owner") => \/ \E c \in Academies, n \in 1..MaxId : AtTrain2(c, n)
                                \/ \E c \in Academies : AtClear2(c)
           /\ Doing("next") => \E c \in Places, n \in 1..MaxId : AtTrain1(c, n)
           /\ Doing("create") => \/ \E n \in 1..MaxId : AtAdmin(n)
                                 \/ \E c \in Academies : AtDone(c)
           /\ Doing("leave") => \E c \in Academies : AtClear1(c)
BY Firsts DEF Shape, Moving, Issuing, Ending, Doing

(* Moves and benches issue nothing; between handlers nobody is in hand.    *)
LEMMA NumberedInMoves ==
    ASSUME Shape, todo = <<>> \/ Moving
    PROVE  Numbered
BY Firsts DEF Shape, Moving, Issuing, Ending

LEMMA NobodyInHand ==
    /\ todo = <<>> => \A a : ~InHand(a)
    /\ Issuing \/ Ending => \A a : ~InHand(a)
    /\ \A S, x : AtBench(S, x) => \A a : ~InHand(a)
BY Firsts DEF InHand, Issuing, Ending

(* Every write left is one. *)
LEMMA StepsTyped == /\ \A a \in Agents, r \in Reasons :
                          /\ ClearOf(a) \in Step /\ DeleteOf(a) \in Step
                          /\ RoleOf(a, r) \in Step
                    /\ \A a \in Agents, b \in Posts : SlotOf(a, b) \in Step
                    /\ \A a \in Agents, b \in Posts \cup {None} : TargetOf(a, b) \in Step
                    /\ \A S \in SUBSET Agents, x \in BOOLEAN : ReserveOf(S, x) \in Step
                    /\ \A c \in Places, n \in 0..MaxId :
                          /\ TraineeOf(c, n) \in Step /\ CreateOf(c, n) \in Step
                    /\ \A c \in Academies, d \in Durations \cup {0} : TicksOf(c, d) \in Step
                    /\ \A c \in Academies : OwnerOf(c) \in Step /\ DisownOf(c) \in Step
                    /\ \A c \in Places, n \in Nat : NextOf(c, n) \in Step
                    /\ \A c \in Academies : LeaveOf(c) \in Step
BY DEF Step, ClearOf, DeleteOf, RoleOf, TargetOf, SlotOf, ReserveOf, TraineeOf, CreateOf,
       TicksOf, OwnerOf, DisownOf, NextOf, LeaveOf, Reasons, Places

LEMMA TuplesTyped ==
    ASSUME NEW S
    PROVE  /\ \A u \in S : <<u>> \in Seq(S)
           /\ \A u, v \in S : <<u, v>> \in Seq(S)
           /\ \A u, v, w \in S : <<u, v, w>> \in Seq(S)
           /\ \A u, v, w, x \in S : <<u, v, w, x>> \in Seq(S)
           /\ \A u, v, w, x, y \in S : <<u, v, w, x, y>> \in Seq(S)
OBVIOUS

LEMMA TodoTyped ==
    ASSUME Types, Shape
    PROVE  todo \in Seq(Step)
<1>1. CASE todo = <<>> BY <1>1
<1>2. CASE Moving
  <2>0. "post" \in Reasons BY DEF Reasons
  <2>1. CASE \E a \in Agents, b \in Posts :
                AtPost4(a, b) \/ AtPost3(a, b) \/ AtPost2(a, b) \/ AtPost1(a, b)
    <3>1. PICK a \in Agents, b \in Posts :
             AtPost4(a, b) \/ AtPost3(a, b) \/ AtPost2(a, b) \/ AtPost1(a, b)
      BY <2>1
    <3>2. /\ ClearOf(a) \in Step /\ RoleOf(a, "post") \in Step
          /\ TargetOf(a, b) \in Step /\ SlotOf(a, b) \in Step
      BY <2>0, StepsTyped
    <3> QED BY <3>1, <3>2, TuplesTyped DEF AtPost4, AtPost3, AtPost2, AtPost1
  <2>2. CASE \E a \in Agents, r \in Reasons :
                \/ AtLeave3(a, r) \/ AtLeave2(a, r) \/ AtLeave1(a)
                \/ AtDestroy2(a) \/ AtDestroy1(a)
    <3>1. PICK a \in Agents, r \in Reasons :
                \/ AtLeave3(a, r) \/ AtLeave2(a, r) \/ AtLeave1(a)
                \/ AtDestroy2(a) \/ AtDestroy1(a)
      BY <2>2
    <3>2. /\ ClearOf(a) \in Step /\ RoleOf(a, r) \in Step
          /\ TargetOf(a, None) \in Step /\ DeleteOf(a) \in Step
      BY StepsTyped
    <3> QED BY <3>1, <3>2, TuplesTyped
        DEF AtLeave3, AtLeave2, AtLeave1, AtDestroy2, AtDestroy1
  <2>3. CASE \E S \in SUBSET Agents, x \in BOOLEAN : AtBench(S, x)
    BY <2>3, StepsTyped, TuplesTyped DEF AtBench
  <2> QED BY <1>2, <2>0, <2>1, <2>2, <2>3 DEF Moving
<1>3. CASE Issuing
  <2>1. CASE \E c \in Academies, d \in Durations, n \in 1..MaxId :
                AtTrain4(c, d, n) \/ AtTrain3(c, d, n)
    <3>1. PICK c \in Academies, d \in Durations, n \in 1..MaxId :
             AtTrain4(c, d, n) \/ AtTrain3(c, d, n)
      BY <2>1
    <3>2. n \in 0..MaxId /\ n + 1 \in Nat BY RosterAssumption
    <3>3. /\ TraineeOf(c, n) \in Step /\ TicksOf(c, d) \in Step
          /\ OwnerOf(c) \in Step /\ NextOf(c, n + 1) \in Step
      BY <3>2, StepsTyped DEF Places
    <3> QED BY <3>1, <3>3, TuplesTyped DEF AtTrain4, AtTrain3
  <2>2. CASE \E c \in Academies, n \in 1..MaxId : AtTrain2(c, n)
    <3>1. PICK c \in Academies, n \in 1..MaxId : AtTrain2(c, n) BY <2>2
    <3>2. n + 1 \in Nat BY RosterAssumption
    <3>3. OwnerOf(c) \in Step /\ NextOf(c, n + 1) \in Step
      BY <3>2, StepsTyped DEF Places
    <3> QED BY <3>1, <3>3, TuplesTyped DEF AtTrain2
  <2>3. CASE \E c \in Places, n \in 1..MaxId : AtTrain1(c, n)
    <3>1. PICK c \in Places, n \in 1..MaxId : AtTrain1(c, n) BY <2>3
    <3>2. n + 1 \in Nat BY RosterAssumption
    <3> QED BY <3>1, <3>2, StepsTyped, TuplesTyped DEF AtTrain1
  <2>4. CASE \E n \in 1..MaxId : AtAdmin(n)
    <3>1. PICK n \in 1..MaxId : AtAdmin(n) BY <2>4
    <3>2. n \in 0..MaxId /\ n + 1 \in Nat BY RosterAssumption
    <3>3. CreateOf(None, n) \in Step /\ NextOf(None, n + 1) \in Step
      BY <3>2, StepsTyped DEF Places
    <3> QED BY <3>1, <3>3, TuplesTyped DEF AtAdmin
  <2> QED BY <1>3, <2>1, <2>2, <2>3, <2>4 DEF Issuing
<1>4. CASE Ending
  <2>1. PICK c \in Academies :
           AtDone(c) \/ AtClear4(c) \/ AtClear3(c) \/ AtClear2(c) \/ AtClear1(c)
    BY <1>4 DEF Ending
  <2>2. 0 \in 0..MaxId /\ trainee[c] \in 0..MaxId BY RosterAssumption DEF Types
  <2>3. /\ CreateOf(c, trainee[c]) \in Step /\ TraineeOf(c, 0) \in Step
        /\ TicksOf(c, 0) \in Step /\ DisownOf(c) \in Step /\ LeaveOf(c) \in Step
    BY <2>2, StepsTyped DEF Places
  <2>4. CASE AtDone(c) BY <2>4, <2>3, TuplesTyped DEF AtDone
  <2>5. CASE AtClear4(c) \/ AtClear3(c) BY <2>5, <2>3, TuplesTyped DEF AtClear4, AtClear3
  <2>6. CASE AtClear2(c) \/ AtClear1(c) BY <2>6, <2>3, TuplesTyped DEF AtClear2, AtClear1
  <2> QED BY <2>1, <2>4, <2>5, <2>6
<1> QED BY <1>1, <1>2, <1>3, <1>4 DEF Shape

LEMMA TypeFromIInv == IInv => TypeOK
BY TodoTyped, RosterAssumption DEF IInv, Types, TypeOK, Reasons

LEMMA InitIInv == Init => IInv
<1> SUFFICES ASSUME Init PROVE IInv OBVIOUS
<1>1. Types
  <2>1. cache \in Seq(Academies) /\ round \in Nat BY DEF Init
  <2>2. 0 \in 0..MaxId /\ 1 \in 1..(MaxId + 1) /\ 0 \in 0..MaxFaults
    BY RosterAssumption
  <2>3. /\ id \in [Agents -> 0..MaxId] /\ role \in [Agents -> Reasons]
        /\ target \in [Agents -> Posts \cup {None}]
        /\ trainee \in [Academies -> 0..MaxId] /\ ticks \in [Academies -> Nat]
    BY <2>2 DEF Init, Reasons
  <2>4. reserve \in [Agents -> BOOLEAN] /\ slot \in [Posts -> Agents \cup {None}]
    BY DEF Init
  <2> QED BY <2>1, <2>2, <2>3, <2>4 DEF Init, Types
<1>2. Shape BY <1>1 DEF Init, Shape, Numbered, Fresh, Roster, Types
<1> QED BY <1>1, <1>2 DEF Init, IInv, Pointed, Holding

-----------------------------------------------------------------------------
(* A command that only leaves writes to do: nobody was in hand, so nothing *)
(* is asked of the writes but their shape.                                 *)
LEMMA StartStep ==
    ASSUME IInv, NEW steps, Start(steps), Shape'
    PROVE  IInv'
<1>1. Types' BY DEF IInv, Types, Start, roster, school
<1>2. Pointed' BY DEF IInv, Pointed, Start, roster
<1>3. Holding' BY NobodyInHand DEF IInv, Holding, Start, Idle, roster
<1> QED BY <1>1, <1>2, <1>3 DEF IInv

LEMMA NumberedAtStart ==
    ASSUME IInv, NEW steps, Start(steps)
    PROVE  Numbered /\ Numbered'
<1>1. Numbered BY NumberedInMoves DEF IInv, Start, Idle
<1> QED BY <1>1 DEF Numbered, Fresh, Roster, Start, roster, school

(* Nobody's slot holds an agent who is to take an empty one next.          *)
LEMMA TrainStep ==
    ASSUME IInv, NEW c \in Academies, NEW d \in Durations, Train(c, d)
    PROVE  IInv'
<1>1. PICK n \in 1..MaxId : IsNextId(n) /\ Start(Training(c, d, n)) BY DEF Train
<1>2. ToIssue(n)'
  BY <1>1, NumberedAtStart
     DEF ToIssue, Numbered, Fresh, Roster, IsNextId, Start, roster, school
<1>3. AtTrain4(c, d, n)'
  BY <1>1, <1>2
     DEF AtTrain4, Start, Training, TraineeOf, TicksOf, OwnerOf, NextOf
<1>4. Shape' BY <1>3 DEF Shape, Issuing
<1> QED BY <1>1, <1>4, StartStep

LEMMA AdminCreateStep ==
    ASSUME IInv, AdminCreate
    PROVE  IInv'
<1>1. PICK n \in 1..MaxId :
         /\ IsNextId(n)
         /\ Start(<<[op |-> "create", at |-> None, new |-> n],
                    [op |-> "next", at |-> None, to |-> n + 1]>>)
  BY DEF AdminCreate
<1>2. ToIssue(n)'
  BY <1>1, NumberedAtStart
     DEF ToIssue, Numbered, Fresh, Roster, IsNextId, Start, roster, school
<1>3. AtAdmin(n)' BY <1>1, <1>2 DEF AtAdmin, Start, CreateOf, NextOf
<1>4. Shape' BY <1>3 DEF Shape, Issuing
<1> QED BY <1>1, <1>4, StartStep

LEMMA AdminClearTrainingStep ==
    ASSUME IInv, NEW c \in Academies, AdminClearTraining(c)
    PROVE  IInv'
<1>1. Start(Clearing(c)) BY DEF AdminClearTraining
<1>2. ~reissued' => Fresh(next, {c})' BY <1>1, NumberedAtStart DEF Numbered, Fresh
<1>3. AtClear4(c)'
  BY <1>1, <1>2
     DEF AtClear4, Start, Clearing, TraineeOf, TicksOf, DisownOf, LeaveOf
<1>4. Shape' BY <1>3 DEF Shape, Ending
<1> QED BY <1>1, <1>4, StartStep

LEMMA PostStep ==
    ASSUME IInv, NEW a \in Agents, NEW b \in Posts, Post(a, b)
    PROVE  IInv'
<1>1. Start(Posting(a, b)) /\ slot[b] = None /\ id[a] # 0
  BY DEF Post, Active, Roster
<1>2. Numbered' BY <1>1, NumberedAtStart
<1>3. Moving'
  <2>1. CASE target[a] = b
    <3>1. Unheld(a)'
      BY <1>1, <2>1, RosterAssumption DEF IInv, Pointed, Unheld, Start, roster
    <3>2. AtPost3(a, b)'
      BY <1>1, <2>1, <3>1
         DEF AtPost3, Start, Posting, roster, RoleOf, TargetOf, SlotOf
    <3> QED BY <3>2 DEF Moving
  <2>2. CASE target[a] # b
    <3>1. AtPost4(a, b)'
      BY <1>1, <2>2 DEF AtPost4, Start, Posting, roster, ClearOf, RoleOf, TargetOf, SlotOf
    <3> QED BY <3>1 DEF Moving
  <2> QED BY <2>1, <2>2
<1>4. Shape' BY <1>2, <1>3 DEF Shape
<1> QED BY <1>1, <1>4, StartStep

LEMMA LeavingStep ==
    ASSUME IInv, NEW a \in Agents, NEW r \in Reasons, Start(Leaving(a, r))
    PROVE  IInv'
<1>1. Numbered' BY NumberedAtStart
<1>2. AtLeave3(a, r)' BY DEF AtLeave3, Start, Leaving, ClearOf, RoleOf, TargetOf
<1>3. Shape' BY <1>1, <1>2 DEF Shape, Moving
<1> QED BY <1>3, StartStep

LEMMA AdminDestroyStep ==
    ASSUME IInv, NEW a \in Agents, AdminDestroy(a)
    PROVE  IInv'
<1>1. Start(<<[op |-> "clear", agent |-> a], [op |-> "delete", agent |-> a]>>)
  BY DEF AdminDestroy
<1>2. Numbered' BY <1>1, NumberedAtStart
<1>3. AtDestroy2(a)' BY <1>1 DEF AtDestroy2, Start, ClearOf, DeleteOf
<1>4. Shape' BY <1>2, <1>3 DEF Shape, Moving
<1> QED BY <1>1, <1>4, StartStep

(* The building is gone, and both sides of the bond with it.               *)
LEMMA LosePostStep ==
    ASSUME IInv, NEW b \in Posts, LosePost(b)
    PROVE  IInv'
<1>1. Types' BY DEF IInv, Types, LosePost, school
<1>2. Numbered' BY NumberedInMoves DEF IInv, LosePost, Idle, Numbered, Fresh, Roster, school
<1>3. Shape' BY <1>2 DEF LosePost, Idle, Shape
<1>4. Pointed' BY DEF IInv, Types, Pointed, LosePost
<1>5. Holding' BY NobodyInHand DEF IInv, Types, Holding, LosePost, Idle
<1> QED BY <1>1, <1>3, <1>4, <1>5 DEF IInv

LEMMA ChangeRankStep ==
    ASSUME IInv, NEW r \in DOMAIN Caps, ChangeRank(r)
    PROVE  IInv'
<1>1. Types' BY DEF IInv, Types, ChangeRank, roster, school
<1>2. PICK S \in SUBSET Agents, x \in BOOLEAN : todo' = <<ReserveOf(S, x)>>
  BY DEF ChangeRank, Demoted, Promoted, Highest, Active, Bench, Roster, ReserveOf
<1>5. AtBench(S, x)' BY <1>2 DEF AtBench
<1>6. Numbered'
  BY NumberedInMoves DEF IInv, ChangeRank, Idle, Numbered, Fresh, Roster, roster, school
<1>7. Shape' BY <1>5, <1>6 DEF Shape, Moving
<1>8. Pointed' BY DEF IInv, Pointed, ChangeRank, roster
<1>9. Holding' BY NobodyInHand DEF IInv, Holding, ChangeRank, Idle, roster
<1> QED BY <1>1, <1>7, <1>8, <1>9 DEF IInv

-----------------------------------------------------------------------------
(* The tick touches timers only, and leaves a completion to do.            *)
LEMMA TickSteps ==
    ASSUME IInv, BeginTick \/ EndTick
    PROVE  IInv'
<1>1. todo = <<>> BY DEF BeginTick, EndTick, Idle
<1>2. Types' BY DEF IInv, Types, BeginTick, EndTick, roster, school
<1>3. Numbered'
  BY <1>1, NumberedInMoves
     DEF IInv, BeginTick, EndTick, Numbered, Fresh, Roster, roster, school
<1>4. Shape' BY <1>1, <1>3 DEF Shape, BeginTick, EndTick
<1>5. Pointed' BY DEF IInv, Pointed, BeginTick, EndTick, roster
<1>6. Holding' BY <1>1, NobodyInHand DEF IInv, Holding, BeginTick, EndTick, roster
<1> QED BY <1>2, <1>4, <1>5, <1>6 DEF IInv

LEMMA VisitStep ==
    ASSUME IInv, Visit
    PROVE  IInv'
<1>1. PICK c \in Academies : c = cache[round] /\ todo = <<>> BY DEF IInv, Types, Visit
<1>2. Types'
  <2>1. ticks' \in [Academies -> Nat]
    <3>1. (IF ticks[c] = 0 THEN 0 ELSE ticks[c] - 1) \in Nat BY <1>1 DEF IInv, Types
    <3> QED BY <1>1, <3>1 DEF IInv, Types, Visit
  <2>2. /\ UNCHANGED <<roster, trainee, owned, reserve, next, rank, cache, faults, torn,
                       loose, reissued, upset>>
        /\ round' \in Nat
    BY DEF IInv, Types, Visit
  <2> QED BY <2>1, <2>2 DEF IInv, Types, roster
<1>3. Numbered'
  BY <1>1, NumberedInMoves DEF IInv, Visit, Numbered, Fresh, Roster, roster
<1>4. Shape'
  <2>1. CASE todo' = <<>> BY <2>1, <1>3 DEF Shape
  <2>2. CASE todo' # <<>>
    <3>1. todo' = Completing(c) /\ trainee[c] # 0 /\ c \in owned
      BY <1>1, <2>2 DEF Visit, Completing
    <3>2. AtDone(c)'
      BY <3>1, <1>3
         DEF AtDone, Completing, Clearing, Visit, CreateOf, TraineeOf, TicksOf, DisownOf,
             LeaveOf
    <3> QED BY <1>1, <3>2 DEF Shape, Ending
  <2> QED BY <2>1, <2>2
<1>5. Pointed' BY DEF IInv, Pointed, Visit, roster
<1>6. Holding' BY <1>1, NobodyInHand DEF IInv, Holding, Visit, roster
<1> QED BY <1>2, <1>4, <1>5, <1>6 DEF IInv

-----------------------------------------------------------------------------
(* The writes.  Whoever is in hand is the agent of the next write, so that *)
(* nobody else's bond is at stake.                                         *)
LEMMA HandIsNext ==
    ASSUME NEW a, InHand(a)
    PROVE  todo # <<>> /\ It.agent = a
<1>1. /\ ClearOf(a).agent = a /\ DeleteOf(a).agent = a
      /\ \A r : RoleOf(a, r).agent = a
      /\ \A b : TargetOf(a, b).agent = a /\ SlotOf(a, b).agent = a
  BY DEF ClearOf, DeleteOf, RoleOf, TargetOf, SlotOf
<1> QED BY <1>1, HeadsOfMoves DEF InHand, It

LEMMA OthersHold ==
    ASSUME Holding, NEW a, todo # <<>>, It.agent = a
    PROVE  \A x \in Agents \ (loose \cup {a}) : target[x] # None => slot[target[x]] = x
BY HandIsNext DEF Holding

(* An agent whose old building was told is in nobody's slot.               *)
LEMMA ClearUnholds ==
    ASSUME Types, Pointed, Clear, NEW a \in Agents, It.agent = a
    PROVE  /\ slot' \in [Posts -> Agents \cup {None}]
           /\ Unheld(a)'
           /\ \A b \in Posts : slot[b] # a => slot'[b] = slot[b]
           /\ \A b \in Posts : slot'[b] = slot[b] \/ slot'[b] = None
<1>1. a # None BY RosterAssumption
<1>2. slot' = [b \in Posts |-> IF b = target[a] /\ slot[b] = a THEN None ELSE slot[b]]
  BY DEF Clear
<1> QED BY <1>1, <1>2 DEF Types, Pointed, Unheld

LEMMA ClearStep ==
    ASSUME IInv, Clear
    PROVE  IInv'
<1>1. PICK a \in Agents :
         \/ \E b \in Posts : AtPost4(a, b)
         \/ \E r \in Reasons : AtLeave3(a, r)
         \/ AtDestroy2(a)
  BY WhichWrite DEF IInv, Clear
<1>2. todo # <<>> /\ It.agent = a /\ Moving /\ todo' = Tail(todo)
  <2>1. Moving /\ InHand(a) BY <1>1 DEF Moving, InHand
  <2> QED BY <2>1, HandIsNext DEF Clear
<1>3. /\ slot' \in [Posts -> Agents \cup {None}]
      /\ Unheld(a)'
      /\ \A b \in Posts : slot[b] # a => slot'[b] = slot[b]
      /\ \A b \in Posts : slot'[b] = slot[b] \/ slot'[b] = None
  BY <1>2, ClearUnholds DEF IInv
<1>4. UNCHANGED <<id, role, target, school, reserve, next, rank, cache, round, faults,
                  torn, loose, reissued, upset>>
  BY DEF Clear
<1>5. Types' BY <1>3, <1>4 DEF IInv, Types, school
<1>6. Pointed' BY <1>3, <1>4 DEF IInv, Pointed
<1>7. Numbered' BY <1>2, <1>4, NumberedInMoves DEF IInv, Numbered, Fresh, Roster, school
<1>8. /\ InHand(a)'
      /\ Moving'
  <2>1. CASE \E b \in Posts : AtPost4(a, b)
    <3>1. PICK b \in Posts : AtPost4(a, b) BY <2>1
    <3>2. slot'[b] = None BY <3>1, <1>3 DEF AtPost4
    <3>3. AtPost3(a, b)'
      BY <3>1, <3>2, <1>2, <1>3, <1>4, HeadsOfMoves DEF AtPost4, AtPost3
    <3> QED BY <3>3 DEF InHand, Moving
  <2>2. CASE \E r \in Reasons : AtLeave3(a, r)
    <3>1. PICK r \in Reasons : AtLeave3(a, r) BY <2>2
    <3>2. AtLeave2(a, r)' BY <3>1, <1>2, <1>3, HeadsOfMoves DEF AtLeave2
    <3> QED BY <3>2 DEF InHand, Moving
  <2>3. CASE AtDestroy2(a)
    <3>1. AtDestroy1(a)' BY <2>3, <1>2, <1>3, HeadsOfMoves DEF AtDestroy1
    <3> QED BY <3>1 DEF InHand, Moving
  <2> QED BY <1>1, <2>1, <2>2, <2>3
<1>9. Holding'
  <2> SUFFICES ASSUME NEW x \in Agents \ loose, target[x] # None
               PROVE  slot'[target[x]] = x \/ InHand(x)'
    BY <1>4 DEF Holding
  <2>1. CASE x = a BY <2>1, <1>8
  <2>2. CASE x # a
    <3>1. slot[target[x]] = x /\ target[x] \in Posts
      BY <2>2, <1>2, OthersHold DEF IInv, Types
    <3> QED BY <2>2, <3>1, <1>3
  <2> QED BY <2>1, <2>2
<1> QED BY <1>5, <1>6, <1>7, <1>8, <1>9 DEF IInv, Shape

LEMMA WriteRoleStep ==
    ASSUME IInv, WriteRole
    PROVE  IInv'
<1>1. PICK a \in Agents :
         (\E b \in Posts : AtPost3(a, b)) \/ (\E r \in Reasons : AtLeave2(a, r))
  BY WhichWrite DEF IInv, WriteRole
<1>2. todo # <<>> /\ It.agent = a /\ It.to \in Reasons /\ Moving /\ todo' = Tail(todo)
  <2>1. Moving /\ InHand(a) BY <1>1 DEF Moving, InHand
  <2>2. \A r : RoleOf(a, r).to = r BY DEF RoleOf
  <2>3. It.to \in Reasons BY <1>1, <2>2, HeadsOfMoves DEF It, Reasons
  <2> QED BY <2>1, <2>3, HandIsNext DEF WriteRole
<1>3. /\ UNCHANGED <<id, target, slot, school, reserve, next, rank, cache, round, faults,
                     torn, loose, reissued, upset>>
      /\ role' \in [Agents -> Reasons]
  BY <1>2 DEF WriteRole, IInv, Types
<1>4. Types' BY <1>3 DEF IInv, Types, school
<1>5. Pointed' BY <1>3 DEF IInv, Pointed
<1>6. Numbered' BY <1>2, <1>3, NumberedInMoves DEF IInv, Numbered, Fresh, Roster, school
<1>7. InHand(a)' /\ Moving'
  <2>1. CASE \E b \in Posts : AtPost3(a, b)
    <3>1. PICK b \in Posts : AtPost3(a, b) BY <2>1
    <3>2. AtPost2(a, b)'
      BY <3>1, <1>2, <1>3, HeadsOfMoves DEF AtPost3, AtPost2, Unheld
    <3> QED BY <3>2 DEF InHand, Moving
  <2>2. CASE \E r \in Reasons : AtLeave2(a, r)
    <3>1. AtLeave1(a)'
      BY <2>2, <1>2, <1>3, HeadsOfMoves DEF AtLeave2, AtLeave1, Unheld
    <3> QED BY <3>1 DEF InHand, Moving
  <2> QED BY <1>1, <2>1, <2>2
<1>8. Holding'
  BY <1>2, <1>3, <1>7, OthersHold DEF IInv, Holding
<1> QED BY <1>4, <1>5, <1>6, <1>7, <1>8 DEF IInv, Shape

LEMMA WriteTargetStep ==
    ASSUME IInv, WriteTarget
    PROVE  IInv'
<1>1. PICK a \in Agents : (\E b \in Posts : AtPost2(a, b)) \/ AtLeave1(a)
  BY WhichWrite DEF IInv, WriteTarget
<1>2. todo # <<>> /\ It.agent = a /\ Moving /\ todo' = Tail(todo) /\ Unheld(a)
  <2>1. Moving /\ InHand(a) BY <1>1 DEF Moving, InHand
  <2>2. Unheld(a) BY <1>1 DEF AtPost2, AtLeave1
  <2> QED BY <2>1, <2>2, HandIsNext DEF WriteTarget
<1>3. UNCHANGED <<id, role, slot, school, reserve, next, rank, cache, round, faults,
                  torn, reissued, upset>>
  BY DEF WriteTarget
<1>4. Numbered' BY <1>2, <1>3, NumberedInMoves DEF IInv, Numbered, Fresh, Roster, school
<1>5. CASE \E b \in Posts : AtPost2(a, b)
  <2>1. PICK b \in Posts : AtPost2(a, b) BY <1>5
  <2>2. It = TargetOf(a, b) /\ TargetOf(a, b).to = b /\ b # None
    BY <2>1, HeadsOfMoves, RosterAssumption DEF It, TargetOf
  <2>3. target' = [target EXCEPT ![a] = b] /\ loose' = loose
    BY <1>2, <2>2 DEF WriteTarget
  <2>4. Types' BY <1>3, <2>3 DEF IInv, Types, school
  <2>5. Pointed' BY <1>2, <1>3, <2>3 DEF IInv, Types, Pointed, Unheld
  <2>6. AtPost1(a, b)'
    BY <1>2, <1>3, <2>1, <2>3, HeadsOfMoves DEF IInv, Types, AtPost2, AtPost1, Unheld
  <2>7. Moving' /\ InHand(a)' BY <2>6 DEF Moving, InHand
  <2>8. Holding' BY <1>2, <1>3, <2>3, <2>7, OthersHold DEF IInv, Types, Holding
  <2> QED BY <1>4, <2>4, <2>5, <2>7, <2>8 DEF IInv, Shape
<1>6. CASE AtLeave1(a)
  <2>1. It = TargetOf(a, None) /\ TargetOf(a, None).to = None /\ todo' = <<>>
    BY <1>2, <1>6, HeadsOfMoves DEF It, TargetOf
  <2>2. target' = [target EXCEPT ![a] = None] /\ loose' = loose \ {a}
    BY <1>2, <2>1 DEF WriteTarget
  <2>3. Types' BY <1>3, <2>2 DEF IInv, Types, school
  <2>4. Pointed' BY <1>2, <1>3, <2>2 DEF IInv, Types, Pointed, Unheld
  <2>5. Holding' BY <1>2, <1>3, <2>2, OthersHold DEF IInv, Types, Holding
  <2> QED BY <1>4, <2>1, <2>3, <2>4, <2>5 DEF IInv, Shape
<1> QED BY <1>1, <1>5, <1>6

LEMMA WriteSlotStep ==
    ASSUME IInv, WriteSlot
    PROVE  IInv'
<1>1. PICK a \in Agents, b \in Posts : AtPost1(a, b) BY WhichWrite DEF IInv, WriteSlot
<1>2. /\ todo # <<>> /\ It.agent = a /\ It.at = b /\ todo' = <<>> /\ Moving
      /\ id[a] # 0 /\ slot[b] = None /\ target[a] = b
  <2>1. It = SlotOf(a, b) /\ todo' = <<>> /\ todo # <<>>
    BY <1>1, HeadsOfMoves DEF It, WriteSlot
  <2>2. SlotOf(a, b).agent = a /\ SlotOf(a, b).at = b BY DEF SlotOf
  <2> QED BY <1>1, <2>1, <2>2 DEF AtPost1, Moving
<1>3. /\ slot' = [slot EXCEPT ![b] = a] /\ loose' = loose \ {a}
      /\ UNCHANGED <<id, role, target, school, reserve, next, rank, cache, round, faults,
                     torn, reissued, upset>>
  BY <1>2 DEF WriteSlot
<1>4. Types' BY <1>3 DEF IInv, Types, school
<1>5. Numbered' BY <1>2, <1>3, NumberedInMoves DEF IInv, Numbered, Fresh, Roster, school
<1>6. Pointed' BY <1>2, <1>3 DEF IInv, Types, Pointed
<1>7. Holding' BY <1>2, <1>3, OthersHold, RosterAssumption DEF IInv, Types, Holding
<1> QED BY <1>2, <1>4, <1>5, <1>6, <1>7 DEF IInv, Shape

LEMMA DeleteStep ==
    ASSUME IInv, Delete
    PROVE  IInv'
<1>1. PICK a \in Agents : AtDestroy1(a) BY WhichWrite DEF IInv, Delete
<1>2. todo # <<>> /\ It.agent = a /\ todo' = <<>> /\ Moving /\ Unheld(a)
  <2>1. It = DeleteOf(a) /\ todo' = <<>> /\ todo # <<>>
    BY <1>1, HeadsOfMoves DEF It, Delete
  <2>2. DeleteOf(a).agent = a BY DEF DeleteOf
  <2> QED BY <1>1, <2>1, <2>2 DEF AtDestroy1, Moving
<1>3. /\ id' = [id EXCEPT ![a] = 0] /\ role' = [role EXCEPT ![a] = "none"]
      /\ target' = [target EXCEPT ![a] = None]
      /\ reserve' = [reserve EXCEPT ![a] = FALSE]
      /\ slot' = [b \in Posts |-> IF slot[b] = a THEN None ELSE slot[b]]
      /\ loose' = loose \ {a} /\ upset' = TRUE
      /\ UNCHANGED <<school, next, rank, cache, round, faults, torn, reissued>>
  BY <1>2 DEF Delete
<1>4. Types'
  <2>1. 0 \in 0..MaxId BY RosterAssumption
  <2>2. reserve' \in [Agents -> BOOLEAN] BY <1>3 DEF IInv, Types
  <2>3. /\ id' \in [Agents -> 0..MaxId] /\ role' \in [Agents -> Reasons]
        /\ target' \in [Agents -> Posts \cup {None}]
        /\ slot' \in [Posts -> Agents \cup {None}]
    BY <1>3, <2>1 DEF IInv, Types, Reasons
  <2> QED BY <1>3, <2>2, <2>3 DEF IInv, Types, school
<1>5. Numbered'
  BY <1>2, <1>3, NumberedInMoves DEF IInv, Types, Numbered, Fresh, Roster, school
<1>6. Pointed' BY <1>2, <1>3 DEF IInv, Types, Pointed, Unheld
<1>7. Holding' BY <1>2, <1>3, OthersHold, RosterAssumption DEF IInv, Types, Holding
<1> QED BY <1>2, <1>4, <1>5, <1>6, <1>7 DEF IInv, Shape

(* A bench or a restoration, one agent at a time.                          *)
LEMMA WriteReserveStep ==
    ASSUME IInv, WriteReserve
    PROVE  IInv'
<1>1. PICK S \in SUBSET Agents, x \in BOOLEAN : AtBench(S, x)
  BY WhichWrite DEF IInv, WriteReserve
<1>2. /\ It = ReserveOf(S, x) /\ ReserveOf(S, x).of = S /\ Tail(todo) = <<>>
      /\ todo = <<ReserveOf(S, x)>> /\ Moving
      /\ \A a : ~InHand(a)
  <2>1. It = ReserveOf(S, x) /\ Tail(todo) = <<>> BY <1>1, HeadsOfMoves DEF It
  <2>2. ReserveOf(S, x).of = S BY DEF ReserveOf
  <2> QED BY <1>1, <2>1, <2>2, NobodyInHand DEF AtBench, Moving
<1>3. UNCHANGED <<id, role, target, slot, school, next, rank, cache, round, faults, torn,
                  loose, reissued, upset>>
  BY DEF WriteReserve, roster
<1>4. Numbered' BY <1>2, <1>3, NumberedInMoves DEF IInv, Numbered, Fresh, Roster, school
<1>5. Pointed' BY <1>3 DEF IInv, Pointed
<1>6. Holding' BY <1>2, <1>3 DEF IInv, Holding
<1>7. CASE S = {}
  <2>1. todo' = <<>> /\ UNCHANGED reserve BY <1>2, <1>7 DEF WriteReserve
  <2>2. Types' BY <1>3, <2>1 DEF IInv, Types, school
  <2> QED BY <1>4, <1>5, <1>6, <2>1, <2>2 DEF IInv, Shape
<1>8. CASE S # {}
  <2>1. PICK a \in S : /\ reserve' = [reserve EXCEPT ![a] = It.to]
                       /\ todo' = [todo EXCEPT ![1].of = It.of \ {a}]
    BY <1>2, <1>8 DEF WriteReserve
  <2>2. todo' = <<ReserveOf(S \ {a}, x)>>
    <3>1. todo' = [todo EXCEPT ![1] = [todo[1] EXCEPT !.of = S \ {a}]] BY <1>2, <2>1
    <3>2. todo[1] = ReserveOf(S, x) BY <1>2
    <3>3. [todo[1] EXCEPT !.of = S \ {a}] = ReserveOf(S \ {a}, x)
      BY <3>2 DEF ReserveOf
    <3> QED BY <1>2, <3>1, <3>3
  <2>3. reserve' \in [Agents -> BOOLEAN]
    <3>1. It.to \in BOOLEAN BY <1>2 DEF ReserveOf
    <3>2. reserve \in [Agents -> BOOLEAN] BY DEF IInv, Types
    <3> QED BY <2>1, <3>1, <3>2
  <2>4. Types' BY <1>3, <2>3 DEF IInv, Types, school
  <2>5. Moving' BY <2>2 DEF Moving, AtBench
  <2> QED BY <1>4, <1>5, <1>6, <2>4, <2>5 DEF IInv, Shape
<1> QED BY <1>7, <1>8

-----------------------------------------------------------------------------
(* The writes of training: they move no agent, and only the IDs count.     *)
LEMMA SchoolKeepsBonds ==
    ASSUME IInv, Issuing \/ Ending, todo' = <<>> \/ Issuing' \/ Ending',
           UNCHANGED <<target, slot>>, loose \subseteq loose',
           \A a \in Agents : id[a] # 0 => id'[a] = id[a]
    PROVE  Pointed' /\ Holding'
<1>1. Pointed' BY DEF IInv, Types, Pointed
<1>2. \A a : ~InHand(a) BY NobodyInHand
<1>3. Holding' BY <1>2 DEF IInv, Holding
<1> QED BY <1>1, <1>3

LEMMA WriteTraineeStep ==
    ASSUME IInv, WriteTrainee
    PROVE  IInv'
<1>1. /\ todo' = Tail(todo) /\ trainee' = [trainee EXCEPT ![It.at] = It.new]
      /\ torn' = torn \ {It.at}
      /\ UNCHANGED <<id, role, target, slot, ticks, owned, reserve, next, rank, cache,
                     round, faults, loose, reissued, upset>>
  BY DEF WriteTrainee, roster
<1>2. CASE \E c \in Academies, d \in Durations, n \in 1..MaxId : AtTrain4(c, d, n)
  <2>1. PICK c \in Academies, d \in Durations, n \in 1..MaxId : AtTrain4(c, d, n)
    BY <1>2
  <2>2. It = TraineeOf(c, n) /\ TraineeOf(c, n).at = c /\ TraineeOf(c, n).new = n
    BY <2>1, HeadsOfTraining DEF It, TraineeOf
  <2>3. trainee' = [trainee EXCEPT ![c] = n] BY <1>1, <2>2
  <2>4. Types'
    <3>1. n \in 0..MaxId BY RosterAssumption
    <3> QED BY <1>1, <2>3, <3>1 DEF IInv, Types
  <2>5. Issued(n)'
    <3> SUFFICES ASSUME ~reissued PROVE Fresh(n + 1, {})'
      BY <1>1 DEF Issued
    <3>1. Fresh(next, {}) /\ n >= next /\ \A a \in Roster : n > id[a]
      BY <2>1 DEF AtTrain4, ToIssue
    <3>2. Roster' = Roster /\ id' = id BY <1>1 DEF Roster
    <3>3. \A x \in Academies : trainee'[x] = IF x = c THEN n ELSE trainee[x]
      BY <2>3 DEF IInv, Types
    <3>4. next \in Nat /\ n \in Nat /\ (\A x \in Academies : trainee[x] \in Nat)
          /\ (\A a \in Roster : id[a] \in Nat /\ a \in Agents)
      BY RosterAssumption DEF IInv, Types, Roster
    <3> QED BY <3>1, <3>2, <3>3, <3>4 DEF Fresh
  <2>6. AtTrain3(c, d, n)' BY <1>1, <2>1, <2>5, HeadsOfTraining DEF AtTrain3
  <2>7. Issuing /\ Issuing' BY <2>1, <2>6 DEF Issuing
  <2> QED BY <1>1, <2>4, <2>7, SchoolKeepsBonds DEF IInv, Shape
<1>3. CASE \E c \in Academies : AtClear4(c)
  <2>1. PICK c \in Academies : AtClear4(c) BY <1>3
  <2>2. It = TraineeOf(c, 0) /\ TraineeOf(c, 0).at = c /\ TraineeOf(c, 0).new = 0
    BY <2>1, HeadsOfTraining DEF It, TraineeOf
  <2>3. trainee' = [trainee EXCEPT ![c] = 0] BY <1>1, <2>2
  <2>4. Types'
    <3>1. 0 \in 0..MaxId BY RosterAssumption
    <3> QED BY <1>1, <2>3, <3>1 DEF IInv, Types
  <2>5. Numbered'
    <3> SUFFICES ASSUME ~reissued PROVE Fresh(next, {})'
      BY <1>1 DEF Numbered
    <3>1. Fresh(next, {c}) BY <2>1 DEF AtClear4
    <3>2. Roster' = Roster /\ id' = id /\ next' = next BY <1>1 DEF Roster
    <3>3. \A x \in Academies : trainee'[x] = IF x = c THEN 0 ELSE trainee[x]
      BY <2>3 DEF IInv, Types
    <3>4. next > 0 /\ \A a \in Roster : id[a] # 0 BY RosterAssumption DEF IInv, Types, Roster
    <3> QED BY <3>1, <3>2, <3>3, <3>4 DEF Fresh
  <2>6. AtClear3(c)' BY <1>1, <2>1, <2>5, HeadsOfTraining DEF AtClear3
  <2>7. Ending /\ Ending' BY <2>1, <2>6 DEF Ending
  <2> QED BY <1>1, <2>4, <2>7, SchoolKeepsBonds DEF IInv, Shape
<1> QED BY <1>2, <1>3, WhichWrite DEF IInv, WriteTrainee

(* Two writes no ID depends on.                                            *)
LEMMA SameNumbers ==
    ASSUME UNCHANGED <<id, trainee, reissued, next>>, NEW n
    PROVE  (Numbered => Numbered') /\ (Issued(n) => Issued(n)')
BY DEF Numbered, Issued, Fresh, Roster

LEMMA WriteTicksStep ==
    ASSUME IInv, WriteTicks
    PROVE  IInv'
<1>1. /\ todo' = Tail(todo) /\ ticks' = [ticks EXCEPT ![It.at] = It.to]
      /\ UNCHANGED <<id, role, target, slot, trainee, owned, reserve, next, rank, cache,
                     round, faults, torn, loose, reissued, upset>>
  BY DEF WriteTicks, roster
<1>2. CASE \E c \in Academies, d \in Durations, n \in 1..MaxId : AtTrain3(c, d, n)
  <2>1. PICK c \in Academies, d \in Durations, n \in 1..MaxId : AtTrain3(c, d, n)
    BY <1>2
  <2>2. It = TicksOf(c, d) /\ TicksOf(c, d).at = c /\ TicksOf(c, d).to = d
    BY <2>1, HeadsOfTraining DEF It, TicksOf
  <2>3. d \in Nat BY RosterAssumption
  <2>4. Types' BY <1>1, <2>2, <2>3 DEF IInv, Types
  <2>5. Issued(n)' BY <1>1, <2>1, SameNumbers DEF AtTrain3
  <2>6. AtTrain2(c, n)' BY <1>1, <2>1, <2>5, HeadsOfTraining DEF AtTrain2
  <2>7. Issuing /\ Issuing' BY <2>1, <2>6 DEF Issuing
  <2> QED BY <1>1, <2>4, <2>7, SchoolKeepsBonds DEF IInv, Shape
<1>3. CASE \E c \in Academies : AtClear3(c)
  <2>1. PICK c \in Academies : AtClear3(c) BY <1>3
  <2>2. It = TicksOf(c, 0) /\ TicksOf(c, 0).at = c /\ TicksOf(c, 0).to = 0
    BY <2>1, HeadsOfTraining DEF It, TicksOf
  <2>3. Types' BY <1>1, <2>2 DEF IInv, Types
  <2>4. AtClear2(c)' BY <1>1, <2>1, SameNumbers, HeadsOfTraining DEF AtClear3, AtClear2
  <2>5. Ending /\ Ending' BY <2>1, <2>4 DEF Ending
  <2> QED BY <1>1, <2>3, <2>5, SchoolKeepsBonds DEF IInv, Shape
<1> QED BY <1>2, <1>3, WhichWrite DEF IInv, WriteTicks

LEMMA WriteOwnerStep ==
    ASSUME IInv, WriteOwner
    PROVE  IInv'
<1>1. /\ todo' = Tail(todo)
      /\ owned' = IF It.to THEN owned \cup {It.at} ELSE owned \ {It.at}
      /\ UNCHANGED <<id, role, target, slot, trainee, ticks, reserve, next, rank, cache,
                     round, faults, torn, loose, reissued, upset>>
  BY DEF WriteOwner, roster
<1>2. CASE \E c \in Academies, n \in 1..MaxId : AtTrain2(c, n)
  <2>1. PICK c \in Academies, n \in 1..MaxId : AtTrain2(c, n) BY <1>2
  <2>2. It = OwnerOf(c) /\ OwnerOf(c).at = c
    BY <2>1, HeadsOfTraining DEF It, OwnerOf
  <2>3. Types' BY <1>1, <2>2 DEF IInv, Types
  <2>4. Issued(n)' BY <1>1, <2>1, SameNumbers DEF AtTrain2
  <2>5. AtTrain1(c, n)' BY <1>1, <2>1, <2>4, HeadsOfTraining DEF AtTrain1
  <2>6. Issuing /\ Issuing' BY <2>1, <2>5 DEF Issuing, Places
  <2> QED BY <1>1, <2>3, <2>6, SchoolKeepsBonds DEF IInv, Shape
<1>3. CASE \E c \in Academies : AtClear2(c)
  <2>1. PICK c \in Academies : AtClear2(c) BY <1>3
  <2>2. It = DisownOf(c) /\ DisownOf(c).at = c
    BY <2>1, HeadsOfTraining DEF It, DisownOf
  <2>3. Types' BY <1>1, <2>2 DEF IInv, Types
  <2>4. AtClear1(c)' BY <1>1, <2>1, SameNumbers, HeadsOfTraining DEF AtClear2, AtClear1
  <2>5. Ending /\ Ending' BY <2>1, <2>4 DEF Ending
  <2> QED BY <1>1, <2>3, <2>5, SchoolKeepsBonds DEF IInv, Shape
<1> QED BY <1>2, <1>3, WhichWrite DEF IInv, WriteOwner

(* The counter catches up with the ID that was issued.                     *)
LEMMA WriteNextStep ==
    ASSUME IInv, WriteNext
    PROVE  IInv'
<1>1. PICK c \in Places, n \in 1..MaxId : AtTrain1(c, n) BY WhichWrite DEF IInv, WriteNext
<1>2. /\ It = NextOf(c, n + 1) /\ NextOf(c, n + 1).at = c /\ NextOf(c, n + 1).to = n + 1
      /\ Tail(todo) = <<>>
  BY <1>1, HeadsOfTraining DEF It, NextOf
<1>3. /\ todo' = <<>> /\ next' = n + 1
      /\ cache' = cache \/ (c # None /\ cache' = Append(cache, c))
      /\ UNCHANGED <<id, role, target, slot, school, reserve, rank, round, faults, torn,
                     loose, reissued, upset>>
  BY <1>2 DEF WriteNext, roster
<1>4. Types'
  <2>1. cache' \in Seq(Academies)
    <3>1. c # None => c \in Academies BY DEF Places
    <3>2. cache \in Seq(Academies) BY DEF IInv, Types
    <3>3. CASE cache' = cache BY <3>2, <3>3
    <3>4. CASE c # None /\ cache' = Append(cache, c) BY <3>1, <3>2, <3>4
    <3> QED BY <1>3, <3>3, <3>4
  <2>2. next' \in 1..(MaxId + 1) BY <1>3, RosterAssumption
  <2> QED BY <1>3, <2>1, <2>2 DEF IInv, Types, school
<1>5. Numbered' BY <1>1, <1>3 DEF AtTrain1, Issued, Numbered, Fresh, Roster, school
<1>6. Issuing BY <1>1 DEF Issuing
<1> QED BY <1>3, <1>4, <1>5, <1>6, SchoolKeepsBonds DEF IInv, Shape

LEMMA LeaveCacheStep ==
    ASSUME IInv, LeaveCache
    PROVE  IInv'
<1>1. PICK c \in Academies : AtClear1(c) BY WhichWrite DEF IInv, LeaveCache
<1>2. Tail(todo) = <<>> BY <1>1, HeadsOfTraining
<1>3. /\ todo' = <<>> /\ cache' \in Without(cache, It.at)
      /\ UNCHANGED <<id, role, target, slot, school, reserve, next, rank, round, faults,
                     torn, loose, reissued, upset>>
  BY <1>2 DEF LeaveCache, roster
<1>4. cache' \in Seq(Academies)
  <2>1. cache \in Seq(Academies) BY DEF IInv, Types
  <2>2. CASE cache' = cache BY <2>1, <2>2
  <2>3. CASE \E i \in DOMAIN cache :
                cache' = [j \in 1..(Len(cache) - 1) |->
                            IF j < i THEN cache[j] ELSE cache[j + 1]]
    <3>1. PICK i \in DOMAIN cache :
             cache' = [j \in 1..(Len(cache) - 1) |->
                         IF j < i THEN cache[j] ELSE cache[j + 1]]
      BY <2>3
    <3>2. Len(cache) - 1 \in Nat BY <2>1
    <3>3. \A j \in 1..(Len(cache) - 1) : cache[j] \in Academies /\ cache[j + 1] \in Academies
      BY <2>1
    <3>4. cache' \in [1..(Len(cache) - 1) -> Academies] BY <3>1, <3>3
    <3> QED BY <3>2, <3>4, SeqDef
  <2> QED BY <1>3, <2>2, <2>3 DEF Without
<1>5. Types' BY <1>3, <1>4 DEF IInv, Types, school
<1>6. Numbered' BY <1>1, <1>3 DEF AtClear1, Numbered, Fresh, Roster, school
<1>7. Ending BY <1>1 DEF Ending
<1> QED BY <1>3, <1>5, <1>6, <1>7, SchoolKeepsBonds DEF IInv, Shape

(* The new agent's ID is the one issued, or the one that was in training.  *)
LEMMA CreateStep ==
    ASSUME IInv, Create
    PROVE  IInv'
<1>1. PICK a \in Agents : id[a] = 0 /\ id' = [id EXCEPT ![a] = It.new]
  BY DEF Create
<1>2. /\ todo' = Tail(todo)
      /\ UNCHANGED <<role, target, slot, school, reserve, next, rank, cache, round, faults,
                     torn, loose, reissued, upset>>
  BY DEF Create
<1>3. \A x \in Agents : id[x] \in Nat
  BY RosterAssumption DEF IInv, Types
<1>4. CASE \E n \in 1..MaxId : AtAdmin(n)
  <2>1. PICK n \in 1..MaxId : AtAdmin(n) BY <1>4
  <2>2. It = CreateOf(None, n) /\ CreateOf(None, n).new = n
    BY <2>1, HeadsOfTraining DEF It, CreateOf
  <2>3. n \in 0..MaxId /\ n # 0 /\ n \in Nat BY RosterAssumption
  <2>4. Types' BY <1>1, <1>2, <2>2, <2>3 DEF IInv, Types, school
  <2>5. \A x \in Agents : id'[x] = IF x = a THEN n ELSE id[x]
    BY <1>1, <2>2 DEF IInv, Types
  <2>6. Issued(n)'
    <3> SUFFICES ASSUME ~reissued PROVE Fresh(n + 1, {})' BY <1>2 DEF Issued
    <3>1. Fresh(next, {}) /\ n >= next /\ \A x \in Roster : n > id[x]
      BY <2>1 DEF AtAdmin, ToIssue
    <3>2. trainee' = trainee /\ \A c \in Academies : trainee[c] \in Nat
      BY <1>2, RosterAssumption DEF IInv, Types, school
    <3>3. next \in Nat BY RosterAssumption DEF IInv, Types
    <3>4. \A x \in Agents : x \in Roster' <=> x \in Roster \/ x = a
      BY <2>3, <2>5 DEF Roster
    <3>5. \A x \in Agents : x \notin Roster => id[x] = 0 BY DEF Roster
    <3>6. \A x \in Roster' : x \in Agents BY DEF Roster
    <3> QED BY <2>3, <2>5, <1>1, <1>3, <3>1, <3>2, <3>3, <3>4, <3>5, <3>6 DEF Fresh
  <2>7. AtTrain1(None, n)' BY <1>2, <2>1, <2>6, HeadsOfTraining DEF AtTrain1
  <2>8. Issuing /\ Issuing' BY <2>1, <2>7 DEF Issuing, Places
  <2>9. \A x \in Agents : id[x] # 0 => id'[x] = id[x] BY <1>1, <2>5
  <2> QED BY <1>2, <2>4, <2>8, <2>9, SchoolKeepsBonds DEF IInv, Shape
<1>5. CASE \E c \in Academies : AtDone(c)
  <2>1. PICK c \in Academies : AtDone(c) BY <1>5
  <2>2. It = CreateOf(c, trainee[c]) /\ CreateOf(c, trainee[c]).new = trainee[c]
    BY <2>1, HeadsOfTraining DEF It, CreateOf
  <2>3. trainee[c] \in 0..MaxId /\ trainee[c] # 0 BY <2>1 DEF AtDone, IInv, Types
  <2>4. Types' BY <1>1, <1>2, <2>2, <2>3 DEF IInv, Types, school
  <2>5. \A x \in Agents : id'[x] = IF x = a THEN trainee[c] ELSE id[x]
    BY <1>1, <2>2 DEF IInv, Types
  <2>6. ~reissued' => Fresh(next, {c})'
    <3> SUFFICES ASSUME ~reissued PROVE Fresh(next, {c})' BY <1>2
    <3>1. Fresh(next, {}) BY <2>1 DEF AtDone, Numbered
    <3>2. trainee' = trainee /\ next' = next BY <1>2 DEF school
    <3>3. \A x \in Agents : x \in Roster' <=> x \in Roster \/ x = a
      BY <2>3, <2>5 DEF Roster
    <3>4. \A x \in Agents : x \notin Roster => id[x] = 0 BY DEF Roster
    <3>5. \A x \in Roster' : x \in Agents BY DEF Roster
    <3> QED BY <2>3, <2>5, <1>1, <3>1, <3>2, <3>3, <3>4, <3>5 DEF Fresh
  <2>7. AtClear4(c)' BY <1>2, <2>1, <2>6, HeadsOfTraining DEF AtClear4
  <2>8. Ending /\ Ending' BY <2>1, <2>7 DEF Ending
  <2>9. \A x \in Agents : id[x] # 0 => id'[x] = id[x] BY <1>1, <2>5
  <2> QED BY <1>2, <2>4, <2>8, <2>9, SchoolKeepsBonds DEF IInv, Shape
<1> QED BY <1>4, <1>5, WhichWrite DEF IInv, Create

LEMMA CreateRaisesStep ==
    ASSUME IInv, CreateRaises
    PROVE  IInv'
<1>1. /\ todo' = <<>> /\ round' = 0 /\ faults' = faults + 1 /\ faults < MaxFaults
      /\ UNCHANGED <<id, role, target, slot, school, reserve, next, rank, cache, torn,
                     loose, reissued, upset>>
  BY DEF CreateRaises, roster
<1>2. (Issuing \/ Ending) /\ Numbered
  BY WhichWrite
     DEF IInv, CreateRaises, Issuing, Ending, AtAdmin, AtDone, ToIssue, Numbered
<1>3. Types' BY <1>1, RosterAssumption DEF IInv, Types, school
<1>4. Numbered' BY <1>1, <1>2, SameNumbers DEF school
<1> QED BY <1>1, <1>2, <1>3, <1>4, SchoolKeepsBonds DEF IInv, Shape

-----------------------------------------------------------------------------
(* A crash: the agent in hand is loose, and an ID half issued may be       *)
(* issued again.                                                           *)
Remaining == {todo[i] : i \in DOMAIN todo}

LEMMA Members ==
    /\ \A u : u \in {<<u>>[i] : i \in DOMAIN <<u>>}
    /\ \A u, v : v \in {<<u, v>>[i] : i \in DOMAIN <<u, v>>}
    /\ \A u, v, w : w \in {<<u, v, w>>[i] : i \in DOMAIN <<u, v, w>>}
    /\ \A u, v, w, x : x \in {<<u, v, w, x>>[i] : i \in DOMAIN <<u, v, w, x>>}
    /\ \A u, v, w, x : u \in {<<u, v, w, x>>[i] : i \in DOMAIN <<u, v, w, x>>}
    /\ \A u, v, w, x, y : v \in {<<u, v, w, x, y>>[i] : i \in DOMAIN <<u, v, w, x, y>>}
<1>1. \A u : u = <<u>>[1] /\ 1 \in DOMAIN <<u>> OBVIOUS
<1>2. \A u, v : v = <<u, v>>[2] /\ 2 \in DOMAIN <<u, v>> OBVIOUS
<1>3. \A u, v, w : w = <<u, v, w>>[3] /\ 3 \in DOMAIN <<u, v, w>> OBVIOUS
<1>4. \A u, v, w, x : x = <<u, v, w, x>>[4] /\ 4 \in DOMAIN <<u, v, w, x>> OBVIOUS
<1>5. \A u, v, w, x : u = <<u, v, w, x>>[1] /\ 1 \in DOMAIN <<u, v, w, x>> OBVIOUS
<1>6. \A u, v, w, x, y : v = <<u, v, w, x, y>>[2] /\ 2 \in DOMAIN <<u, v, w, x, y>> OBVIOUS
<1> QED BY <1>1, <1>2, <1>3, <1>4, <1>5, <1>6

LEMMA HandRemains ==
    ASSUME NEW a, InHand(a)
    PROVE  \E s \in Remaining : s.op \in {"target", "slot", "delete"} /\ s.agent = a
<1>1. /\ DeleteOf(a).agent = a
      /\ \A b : TargetOf(a, b).agent = a /\ SlotOf(a, b).agent = a
  BY DEF DeleteOf, TargetOf, SlotOf
<1>2. CASE \E b \in Posts : AtPost4(a, b) \/ AtPost3(a, b) \/ AtPost2(a, b) \/ AtPost1(a, b)
  <2>1. PICK b \in Posts : AtPost4(a, b) \/ AtPost3(a, b) \/ AtPost2(a, b) \/ AtPost1(a, b)
    BY <1>2
  <2>2. SlotOf(a, b) \in Remaining
    BY <2>1, Members DEF Remaining, AtPost4, AtPost3, AtPost2, AtPost1
  <2> QED BY <1>1, <2>2, Ops
<1>3. CASE (\E r \in Reasons : AtLeave3(a, r) \/ AtLeave2(a, r)) \/ AtLeave1(a)
  <2>1. TargetOf(a, None) \in Remaining
    BY <1>3, Members DEF Remaining, AtLeave3, AtLeave2, AtLeave1
  <2> QED BY <1>1, <2>1, Ops
<1>4. CASE AtDestroy2(a) \/ AtDestroy1(a)
  <2>1. DeleteOf(a) \in Remaining BY <1>4, Members DEF Remaining, AtDestroy2, AtDestroy1
  <2> QED BY <1>1, <2>1, Ops
<1> QED BY <1>2, <1>3, <1>4 DEF InHand

LEMMA LagRemains ==
    ASSUME Shape, ~Numbered
    PROVE  \E s \in Remaining : s.op \in {"next", "trainee"}
<1>1. CASE Issuing
  <2>1. CASE \E c \in Places, n \in 1..MaxId : NextOf(c, n + 1) \in Remaining
    BY <2>1, Ops
  <2> QED
    BY <1>1, <2>1, Members
       DEF Issuing, Remaining, AtTrain4, AtTrain3, AtTrain2, AtTrain1, AtAdmin, Places
<1>2. CASE Ending
  <2>1. PICK c \in Academies : AtClear4(c)
    BY <1>2 DEF Ending, AtDone, AtClear3, AtClear2, AtClear1
  <2>2. TraineeOf(c, 0) \in Remaining BY <2>1, Members DEF Remaining, AtClear4
  <2> QED BY <2>2, Ops
<1> QED BY <1>1, <1>2 DEF Shape

LEMMA CrashStep ==
    ASSUME IInv, Crash
    PROVE  IInv'
<1>1. /\ todo' = <<>> /\ round' = 0 /\ faults' = faults + 1 /\ faults < MaxFaults
      /\ cache' \in Restored
      /\ torn' = torn \cup {s.at : s \in {x \in Remaining : x.op = "owner"}}
      /\ loose' = loose \cup
             {s.agent : s \in {x \in Remaining : x.op \in {"target", "slot", "delete"}}}
      /\ reissued' = (reissued \/ \E s \in Remaining : s.op \in {"next", "trainee"})
      /\ upset' = (upset \/ \E s \in Remaining : s.op = "reserve")
      /\ UNCHANGED <<id, role, target, slot, school, reserve, next, rank>>
  BY DEF Crash, Remaining, roster
<1>2. Remaining \subseteq Step BY TodoTyped DEF IInv, Remaining
<1>3. cache' \in Seq(Academies)
  <2>1. PICK S \in SUBSET Academies : cache' \in [1..Cardinality(S) -> S]
    BY <1>1 DEF Restored
  <2>2. Cardinality(S) \in Nat BY RosterAssumption, FS_Subset, FS_CardinalityType
  <2>3. cache' \in [1..Cardinality(S) -> Academies] BY <2>1
  <2> QED BY <2>2, <2>3, SeqDef
<1>4. torn' \subseteq Academies
  <2>1. \A s \in Step : s.op = "owner" => s.at \in Academies BY DEF Step
  <2> QED BY <1>1, <1>2, <2>1 DEF IInv, Types
<1>5. loose' \subseteq Agents
  <2>1. \A s \in Step : s.op \in {"target", "slot", "delete"} => s.agent \in Agents
    BY DEF Step
  <2> QED BY <1>1, <1>2, <2>1 DEF IInv, Types
<1>6. Types'
  <2>1. reissued' \in BOOLEAN /\ upset' \in BOOLEAN BY <1>1
  <2>2. round' \in Nat /\ faults' \in 0..MaxFaults
    BY <1>1, RosterAssumption DEF IInv, Types
  <2> QED BY <1>1, <1>3, <1>4, <1>5, <2>1, <2>2 DEF IInv, Types, school
<1>7. Numbered'
  <2> SUFFICES ASSUME ~reissued' PROVE Fresh(next, {})' BY DEF Numbered
  <2>1. ~reissued /\ Numbered BY <1>1, LagRemains DEF IInv
  <2> QED BY <1>1, <2>1 DEF Numbered, Fresh, Roster, school
<1>8. Pointed' BY <1>1 DEF IInv, Pointed
<1>9. Holding'
  <2>1. \A a \in Agents \ loose' : a \notin loose /\ ~InHand(a)
    BY <1>1, HandRemains
  <2> QED BY <1>1, <2>1 DEF IInv, Holding
<1> QED BY <1>1, <1>6, <1>7, <1>8, <1>9 DEF IInv, Shape

-----------------------------------------------------------------------------
LEMMA StutterStep ==
    ASSUME IInv, UNCHANGED vars
    PROVE  IInv'
<1>1. UNCHANGED <<id, role, target, reserve, slot, trainee, ticks, owned, next, rank,
                  cache, round, todo, faults, torn, loose, reissued, upset>>
  BY DEF vars, roster, school
<1>2. Types' BY <1>1 DEF IInv, Types
<1>3. Pointed' BY <1>1 DEF IInv, Pointed
<1>4. Numbered' = Numbered /\ (\A n : Issued(n)' = Issued(n))
      /\ (\A n : ToIssue(n)' = ToIssue(n)) /\ (\A c : Fresh(next, {c})' = Fresh(next, {c}))
  BY <1>1 DEF Numbered, Issued, ToIssue, Fresh, Roster
<1>5. Moving' = Moving /\ \A a : InHand(a)' = InHand(a)
  BY <1>1
     DEF Moving, InHand, Unheld, AtPost4, AtPost3, AtPost2, AtPost1, AtLeave3, AtLeave2,
         AtLeave1, AtDestroy2, AtDestroy1, AtBench
<1>6. Issuing' = Issuing
  BY <1>1, <1>4 DEF Issuing, AtTrain4, AtTrain3, AtTrain2, AtTrain1, AtAdmin
<1>7. Ending' = Ending
  BY <1>1, <1>4 DEF Ending, AtDone, AtClear4, AtClear3, AtClear2, AtClear1
<1>8. Holding' BY <1>1, <1>5 DEF IInv, Holding
<1> QED BY <1>1, <1>2, <1>3, <1>4, <1>5, <1>6, <1>7, <1>8 DEF IInv, Shape

LEMMA Inductive == Spec => []IInv
<1>1. ASSUME IInv, [Next]_vars PROVE IInv'
  <2>1. CASE Write
    BY <1>1, <2>1, ClearStep, WriteRoleStep, WriteTargetStep, WriteSlotStep,
       WriteReserveStep, DeleteStep, CreateStep, WriteTraineeStep, WriteTicksStep,
       WriteOwnerStep, WriteNextStep, LeaveCacheStep DEF Write
  <2>2. CASE \E a \in Agents : Enlist(a) \/ Unassign(a)
    BY <1>1, <2>2, LeavingStep DEF Enlist, Unassign, Reasons
  <2>3. CASE ~Write /\ ~\E a \in Agents : Enlist(a) \/ Unassign(a)
    BY <1>1, <2>3, TrainStep, AdminCreateStep, AdminClearTrainingStep, PostStep,
       AdminDestroyStep, LosePostStep, ChangeRankStep, TickSteps, VisitStep,
       CreateRaisesStep, CrashStep, StutterStep DEF Next, Tick
  <2> QED BY <2>1, <2>2, <2>3
<1> QED BY InitIInv, <1>1, PTL DEF Spec

-----------------------------------------------------------------------------
(* The roster, the schools, the cache and the writes left stay what they   *)
(* are meant to be, and so do the bounds.                                  *)
THEOREM TypeCorrect == Spec => []TypeOK
<1> QED BY Inductive, TypeFromIInv, PTL

(* A building's agent works there, at every instant and wherever the       *)
(* process dies; a posted agent holds its building, unless a crash cut its *)
(* own assignment.  (assign_agent, _clear_building_assignment)             *)
THEOREM BondIsMutual == Spec => []SlotIsTrue
<1>1. IInv => SlotIsTrue BY NobodyInHand DEF IInv, Pointed, Holding, SlotIsTrue
<1> QED BY Inductive, <1>1, PTL

(* IDs differ, in service and in training, and are below the counter,      *)
(* unless a crash cut an issue.  (train_agent, complete_training)          *)
THEOREM IdsNeverReused == Spec => []IdsFresh
<1>1. IInv => IdsFresh BY NumberedInMoves DEF IInv, Numbered, Fresh, IdsFresh
<1> QED BY Inductive, <1>1, PTL
=============================================================================
