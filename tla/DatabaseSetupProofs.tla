------------------------ MODULE DatabaseSetupProofs ------------------------
(***************************************************************************)
(* SeedsInPlace and BindingsKept hold for any number of isolates, seeds,   *)
(* legacy ids, failures and changes.                                       *)
(***************************************************************************)
EXTENDS DatabaseSetup, TLAPS

(* Loop counters are within their sequences.                               *)
InRange ==
  \A i \in Isolate :
    /\ setup[i].phase \in Seeding => setup[i].at \in 1..Len(Seeds)
    /\ setup[i].phase \in Cleaning => setup[i].at \in 1..Len(Pairs)
    /\ setup[i].phase = "count" => setup[i].at = 1
    /\ repair[i].phase # "idle" => repair[i].at \in 1..Len(Seeds)

(* The replacement that was found is there, or the panel removed it.       *)
FoundKept ==
  \A i \in Isolate : setup[i].phase \in Columns \cup {"drop"} =>
    Pair(i).current \in templates \cup removed

(* No column still names a legacy id it was re-pointed from, but for late  *)
(* bindings.                                                               *)
PassedClean ==
  \A i \in Isolate, c \in Columns, r \in Row :
    (setup[i].phase \in Past(c) /\ bound[c][r] = Pair(i).legacy) => <<c, r>> \in loose

BindInv == TypeOK /\ InRange /\ FoundKept /\ PassedClean /\ BindingsKept

Settled == templates \cup Touched \cup cut

(* Somebody is to write number m, and is past number k.                    *)
Due(k, m) ==
  \E j \in Isolate :
    \/ setup[j].phase = "insert" /\ k < setup[j].at /\ setup[j].at <= m
    \/ repair[j].phase # "idle" /\ k < repair[j].at /\ repair[j].at <= m

(* A database that is not empty, or that somebody has seeded, has all the  *)
(* seeds it will have without a further set-up.                            *)
Known == templates # {} \/ \E i \in Isolate : Seated(i) \/ setup[i].phase = "refresh"

AllSeeded ==
  Known => \A m \in DOMAIN Seeds : Seeds[m] \in Settled \/ Due(0, m)

(* What a seeding has passed is written.                                   *)
PassedSettled ==
  \A j \in Isolate, m \in DOMAIN Seeds :
    /\ (setup[j].phase = "insert" /\ m < setup[j].at) => Seeds[m] \in Settled
    /\ (repair[j].phase # "idle" /\ m < repair[j].at) => Seeds[m] \in Settled
    /\ (repair[j].phase = "update" /\ m = repair[j].at) => Seeds[m] \in Settled

(* Whoever wrote number k is past it, or wrote the rest as well.           *)
RestFollows ==
  \A k, m \in DOMAIN Seeds : (k < m /\ Seeds[k] \in templates \ Touched) =>
    Seeds[m] \in Settled \/ Due(k, m)

(* Old contents are behind whoever has seen the templates.                 *)
OldGone ==
  \A i \in Isolate, m \in DOMAIN Seeds :
    /\ Seeds[m] \in old
    /\ \/ Seated(i) \/ setup[i].phase = "insert"
       \/ setup[i].phase = "refresh" /\ m < setup[i].at
    => Seeds[m] \in Touched \cup cut

SeedInv == TypeOK /\ InRange /\ AllSeeded /\ PassedSettled /\ RestFollows /\ OldGone

-----------------------------------------------------------------------------
(* What the assumption says of the two sequences.                          *)
LEMMA SeedFacts ==
  /\ Len(Seeds) \in Nat \ {0} /\ DOMAIN Seeds = 1..Len(Seeds)
  /\ \A m \in 1..Len(Seeds) : Seeds[m] \in Id /\ Seeds[m] \in Seed
  /\ \A m, n \in 1..Len(Seeds) : Seeds[m] = Seeds[n] => m = n
  /\ Seed \subseteq Id
<1>1. Seeds \in Seq(Id) /\ Len(Seeds) > 0
  BY SetupAssumption DEF SetupAssumption
<1>2. Len(Seeds) \in Nat \ {0} /\ DOMAIN Seeds = 1..Len(Seeds)
  BY <1>1
<1>3. \A m \in 1..Len(Seeds) : Seeds[m] \in Id
  BY <1>1
<1>4. \A m, n \in 1..Len(Seeds) : Seeds[m] = Seeds[n] => m = n
  BY <1>2, SetupAssumption DEF SetupAssumption
<1> QED  BY <1>2, <1>3, <1>4 DEF Seed

LEMMA Elements ==
  ASSUME NEW S, NEW q \in Seq(S), NEW n \in 1..Len(q)
  PROVE  q[n] \in S
OBVIOUS

LEMMA PairFacts ==
  /\ Len(Pairs) \in Nat \ {0}
  /\ \A n \in 1..Len(Pairs) : Pairs[n].legacy \in Id /\ Pairs[n].current \in Id
  /\ \A n \in 1..Len(Pairs) : Pairs[n].legacy \notin Seed
  /\ \A m, n \in 1..Len(Pairs) : Pairs[m].legacy # Pairs[n].current
<1>1. Pairs \in Seq([legacy : Id, current : Id]) /\ Len(Pairs) > 0
  BY SetupAssumption DEF SetupAssumption
<1>2. Len(Pairs) \in Nat \ {0} /\ DOMAIN Pairs = 1..Len(Pairs)
  BY <1>1
<1>3. \A n \in 1..Len(Pairs) : Pairs[n] \in [legacy : Id, current : Id]
  BY <1>1, Elements
<1>4. \A n \in 1..Len(Pairs) : Pairs[n].legacy \notin Seed
  BY <1>2, SetupAssumption DEF SetupAssumption, Seed
<1>5. \A m, n \in 1..Len(Pairs) : Pairs[m].legacy # Pairs[n].current
  BY <1>2, SetupAssumption DEF SetupAssumption
<1> QED  BY <1>2, <1>3, <1>4, <1>5

LEMMA FromFacts ==
  ASSUME NEW n \in 1..Len(Seeds)
  PROVE  /\ From(n) \subseteq Seed
         /\ \A m \in 1..Len(Seeds) : Seeds[m] \in From(n) <=> n <= m
BY SeedFacts DEF From, Seed

TypeInv == TypeOK /\ InRange

(* Where an isolate's set-up is after Go, and the others' still.           *)
LEMMA GoEffect ==
  ASSUME TypeOK, NEW i \in Isolate, NEW p \in Phase, NEW n \in Nat, Go(i, p, n)
  PROVE  /\ setup' \in [Isolate -> [phase : Phase, at : Nat]]
         /\ setup'[i].phase = p /\ setup'[i].at = n
         /\ \A j \in Isolate : j # i => setup'[j] = setup[j]
BY DEF TypeOK, Go, To

LEMMA GoRepairEffect ==
  ASSUME TypeOK, NEW i \in Isolate, NEW p \in RepairPhase, NEW n \in Nat,
         GoRepair(i, p, n)
  PROVE  /\ repair' \in [Isolate -> [phase : RepairPhase, at : Nat]]
         /\ repair'[i].phase = p /\ repair'[i].at = n
         /\ \A j \in Isolate : j # i => repair'[j] = repair[j]
BY DEF TypeOK, GoRepair, To

LEMMA NextSeedEffect ==
  ASSUME TypeInv, NEW i \in Isolate, setup[i].phase \in Seeding, NextSeed(i)
  PROVE  /\ setup' \in [Isolate -> [phase : Phase, at : Nat]]
         /\ \A j \in Isolate : j # i => setup'[j] = setup[j]
         /\ \/ /\ setup[i].at = Len(Seeds)
               /\ setup'[i].phase = "find" /\ setup'[i].at = 1
            \/ /\ setup[i].at < Len(Seeds) /\ setup'[i].phase = setup[i].phase
               /\ setup'[i].at = setup[i].at + 1
<1>1. setup[i].at \in 1..Len(Seeds) /\ setup[i].phase \in Phase /\ "find" \in Phase
  BY DEF TypeInv, InRange, Seeding, Phase, Cleaning
<1>2. CASE setup[i].at = Len(Seeds)
  BY <1>1, <1>2, GoEffect DEF NextSeed, TypeInv
<1>3. CASE setup[i].at < Len(Seeds)
  BY <1>1, <1>3, GoEffect, SeedFacts DEF NextSeed, TypeInv
<1> QED  BY <1>1, <1>2, <1>3, SeedFacts

LEMMA NextPairEffect ==
  ASSUME TypeInv, NEW i \in Isolate, setup[i].phase \in Cleaning, NextPair(i)
  PROVE  /\ setup' \in [Isolate -> [phase : Phase, at : Nat]]
         /\ \A j \in Isolate : j # i => setup'[j] = setup[j]
         /\ \/ setup'[i].phase = "ready"
            \/ setup'[i].phase = "find" /\ setup'[i].at \in 1..Len(Pairs)
<1>1. setup[i].at \in 1..Len(Pairs) /\ "ready" \in Phase /\ "find" \in Phase
  BY DEF TypeInv, InRange, Phase, Cleaning
<1>2. CASE setup[i].at = Len(Pairs)
  BY <1>1, <1>2, GoEffect DEF NextPair, TypeInv
<1>3. CASE setup[i].at < Len(Pairs)
  BY <1>1, <1>3, GoEffect, PairFacts DEF NextPair, TypeInv
<1> QED  BY <1>1, <1>2, <1>3, PairFacts

LEMMA NextRepairEffect ==
  ASSUME TypeInv, NEW i \in Isolate, repair[i].phase # "idle", NextRepair(i)
  PROVE  /\ repair' \in [Isolate -> [phase : RepairPhase, at : Nat]]
         /\ \A j \in Isolate : j # i => repair'[j] = repair[j]
         /\ \/ repair[i].at = Len(Seeds) /\ repair'[i].phase = "idle"
            \/ /\ repair[i].at < Len(Seeds) /\ repair'[i].phase = "select"
               /\ repair'[i].at = repair[i].at + 1
<1>1. repair[i].at \in 1..Len(Seeds) /\ "idle" \in RepairPhase /\ "select" \in RepairPhase
  BY DEF TypeInv, InRange, RepairPhase
<1>2. CASE repair[i].at = Len(Seeds)
  BY <1>1, <1>2, GoRepairEffect DEF NextRepair, TypeInv
<1>3. CASE repair[i].at < Len(Seeds)
  BY <1>1, <1>3, GoRepairEffect, SeedFacts DEF NextRepair, TypeInv
<1> QED  BY <1>1, <1>2, <1>3, SeedFacts

-----------------------------------------------------------------------------
LEMMA TypeInit ==
  ASSUME Init
  PROVE  TypeInv
<1>1. templates \subseteq Id /\ tables \subseteq Tables
  BY DEF Init
<1>2. bound \in [Columns -> [Row -> Id \cup {NoTemplate}]]
  BY <1>1 DEF Init
<1>3. /\ setup \in [Isolate -> [phase : Phase, at : Nat]]
      /\ repair \in [Isolate -> [phase : RepairPhase, at : Nat]]
  BY DEF Init, To, Phase, RepairPhase
<1>4. cut \subseteq Seed
  BY DEF Init
<1>5. TypeOK
  BY <1>1, <1>2, <1>3, <1>4, SetupAssumption DEF Init, TypeOK, SetupAssumption
<1>6. InRange
  BY DEF Init, To, InRange, Seeding, Cleaning, Columns
<1> QED  BY <1>5, <1>6 DEF TypeInv

(* Phases are told apart.                                                  *)
LEMMA PhaseFacts ==
  /\ Creating \subseteq Phase /\ Seeding \subseteq Phase /\ Cleaning \subseteq Phase
  /\ \A c \in Columns : c \in Cleaning /\ Then[c] \in Columns \cup {"drop"}
  /\ \A c \in Creating : Then[c] \in Creating \cup {"count"}
  /\ Then["find"] = "subscription"
BY DEF Creating, Tables, Seeding, Cleaning, Phase, Columns, Then

LEMMA FaultType ==
  ASSUME TypeOK, Fault
  PROVE  faults' \in 0..MaxFaults
BY SetupAssumption DEF TypeOK, Fault, SetupAssumption

LEMMA BrokenType ==
  ASSUME TypeOK, NEW P \in BOOLEAN, Broken(P)
  PROVE  faults' \in 0..MaxFaults
BY FaultType DEF Broken, TypeOK

(* What a seeding that writes or gives up leaves in shape.                 *)
LEMMA AddSeedType ==
  ASSUME TypeOK, NEW s \in Seed, AddSeed(s)
  PROVE  /\ templates' \subseteq Id /\ old' \subseteq templates' /\ cut' \subseteq Seed
         /\ UNCHANGED <<tables, bound, edited, removed, loose, changes>>
BY SeedFacts DEF TypeOK, AddSeed

LEMMA GiveUpType ==
  ASSUME TypeOK, NEW n \in 1..Len(Seeds), GiveUp(n)
  PROVE  /\ cut' \subseteq Seed /\ faults' \in 0..MaxFaults
         /\ UNCHANGED <<tables, templates, old, bound, edited, removed, loose, changes>>
<1>1. cut' \subseteq Seed
  BY FromFacts DEF TypeOK, GiveUp
<1>2. faults' \in 0..MaxFaults
  BY BrokenType DEF TypeOK, GiveUp
<1> QED  BY <1>1, <1>2 DEF GiveUp, database

-----------------------------------------------------------------------------
(* One step keeps every shape.                                             *)
LEMMA TypeStep ==
  ASSUME TypeInv, NEW i \in Isolate, Step(i)
  PROVE  TypeInv'
<1>0. USE PhaseFacts, SeedFacts, PairFacts
<1>1. CASE Begin(i)
  <2>1. "nodes" \in Phase /\ "nodes" \notin Seeding /\ "nodes" \notin Cleaning
    BY DEF Phase, Creating, Tables, Seeding, Cleaning, Columns
  <2>2. Go(i, "nodes", 1)
    BY <1>1 DEF Begin
  <2>3. TypeOK'
    BY <1>1, <2>1, <2>2, GoEffect DEF TypeInv, TypeOK, Begin, database, ghosts
  <2>4. InRange'
    BY <1>1, <2>1, <2>2, GoEffect DEF TypeInv, InRange, Begin, Seeding
  <2> QED  BY <2>3, <2>4 DEF TypeInv
<1>2. CASE Create(i)
  <2>1. PICK p \in Phase : p = Then[setup[i].phase] /\ p \in Creating \cup {"count"}
    BY <1>2 DEF Create, Phase, Seeding
  <2>2. Go(i, p, 1) /\ p \notin Cleaning /\ p \notin {"refresh", "insert"}
    BY <1>2, <2>1 DEF Create, Cleaning, Creating, Tables, Columns
  <2>3. tables' \subseteq Tables /\ faults' \in 0..MaxFaults
    BY <1>2, FaultType DEF Create, Creating, TypeOK, TypeInv
  <2>4. TypeOK'
    BY <1>2, <2>1, <2>2, <2>3, GoEffect DEF TypeInv, TypeOK, Create, ghosts
  <2>5. InRange'
    BY <1>2, <2>1, <2>2, GoEffect DEF TypeInv, InRange, Create
  <2> QED  BY <2>4, <2>5 DEF TypeInv
<1>3. CASE Count(i)
  <2>1. PICK p \in {"insert", "refresh"} : Go(i, p, 1)
    BY <1>3 DEF Count
  <2>2. p \in Phase /\ p \in Seeding /\ p \notin Cleaning
    BY <2>1 DEF Phase, Seeding, Cleaning, Columns
  <2>3. TypeOK'
    BY <1>3, <2>1, <2>2, GoEffect DEF TypeInv, TypeOK, Count, database, ghosts
  <2>4. InRange'
    BY <1>3, <2>1, <2>2, GoEffect DEF TypeInv, InRange, Count
  <2> QED  BY <2>3, <2>4 DEF TypeInv
<1>4. CASE Refresh(i)
  <2>1. setup[i].phase \in Seeding /\ NextSeed(i) /\ setup[i].phase = "refresh"
    BY <1>4 DEF Refresh, Seeding
  <2>2. TypeOK'
    BY <1>4, <2>1, NextSeedEffect DEF TypeInv, TypeOK, Refresh, ghosts
  <2>3. InRange'
    BY <1>4, <2>1, NextSeedEffect DEF TypeInv, InRange, Refresh, Seeding, Cleaning, Columns
  <2> QED  BY <2>2, <2>3 DEF TypeInv
<1>5. CASE Insert(i)
  <2>1. setup[i].phase = "insert" /\ setup[i].phase \in Seeding /\ setup[i].at \in 1..Len(Seeds)
    BY <1>5 DEF Insert, TypeInv, InRange, Seeding
  <2>2. CASE AddSeed(Seeds[setup[i].at]) /\ NextSeed(i) /\ UNCHANGED faults
    <3>1. TypeOK'
      BY <1>5, <2>1, <2>2, NextSeedEffect, AddSeedType DEF TypeInv, TypeOK, Insert
    <3>2. InRange'
      <4>1. \A j \in Isolate : repair'[j] = repair[j]
        BY <1>5 DEF Insert
      <4>2. setup'[i].phase \in {"insert", "find"}
        BY <2>1, <2>2, NextSeedEffect
      <4>3. /\ setup'[i].phase = "insert" => setup'[i].at \in 1..Len(Seeds)
            /\ setup'[i].phase = "find" => setup'[i].at \in 1..Len(Pairs)
        BY <2>1, <2>2, NextSeedEffect
      <4>4. \A j \in Isolate : j # i => setup'[j] = setup[j]
        BY <2>1, <2>2, NextSeedEffect
      <4> QED  BY <4>1, <4>2, <4>3, <4>4 DEF TypeInv, InRange, Seeding, Cleaning, Columns
    <3> QED  BY <3>1, <3>2 DEF TypeInv
  <2>3. CASE GiveUp(setup[i].at) /\ Go(i, "find", 1)
    <3>1. "find" \in Phase /\ "find" \notin Seeding
      BY DEF Phase, Cleaning, Seeding
    <3>2. TypeOK'
      BY <1>5, <2>1, <2>3, <3>1, GoEffect, GiveUpType DEF TypeInv, TypeOK, Insert
    <3>3. InRange'
      BY <1>5, <2>1, <2>3, <3>1, GoEffect DEF TypeInv, InRange, Insert
    <3> QED  BY <3>2, <3>3 DEF TypeInv
  <2> QED  BY <1>5, <2>2, <2>3 DEF Insert
<1>6. CASE SeedFails(i)
  <2>1. "find" \in Phase /\ "find" \notin Seeding /\ Go(i, "find", 1)
    BY <1>6 DEF Phase, Cleaning, Seeding, SeedFails
  <2>2. setup[i].at \in 1..Len(Seeds)
    BY <1>6 DEF TypeInv, InRange, SeedFails, Seeding
  <2>3. faults' \in 0..MaxFaults /\ cut' \subseteq Seed
    BY <1>6, <2>2, BrokenType, FromFacts DEF SeedFails, TypeInv, TypeOK
  <2>4. TypeOK'
    BY <1>6, <2>1, <2>3, GoEffect DEF TypeInv, TypeOK, SeedFails, database
  <2>5. InRange'
    BY <1>6, <2>1, GoEffect DEF TypeInv, InRange, SeedFails
  <2> QED  BY <2>4, <2>5 DEF TypeInv
<1>7. CASE Find(i)
  <2>1. setup[i].phase \in Cleaning /\ setup[i].at \in 1..Len(Pairs)
    BY <1>7 DEF Find, TypeInv, InRange, Cleaning
  <2>2. CASE NextPair(i)
    <3>1. TypeOK'
      BY <1>7, <2>1, <2>2, NextPairEffect DEF TypeInv, TypeOK, Find, database, ghosts
    <3>2. InRange'
      BY <1>7, <2>1, <2>2, NextPairEffect DEF TypeInv, InRange, Find, Seeding, Cleaning, Columns
    <3> QED  BY <3>1, <3>2 DEF TypeInv
  <2>3. CASE Go(i, "subscription", setup[i].at)
    <3>1. "subscription" \in Phase /\ "subscription" \notin Seeding
      BY DEF Phase, Cleaning, Seeding, Columns
    <3>2. TypeOK'
      BY <1>7, <2>1, <2>3, <3>1, GoEffect DEF TypeInv, TypeOK, Find, database, ghosts
    <3>3. InRange'
      BY <1>7, <2>1, <2>3, <3>1, GoEffect DEF TypeInv, InRange, Find, Seeding
    <3> QED  BY <3>2, <3>3 DEF TypeInv
  <2> QED  BY <1>7, <2>2, <2>3 DEF Find
<1>8. CASE Repoint(i)
  <2>1. PICK c \in Columns : c = setup[i].phase /\ Go(i, Then[c], setup[i].at)
    BY <1>8 DEF Repoint
  <2>2. setup[i].at \in 1..Len(Pairs) /\ Pair(i).current \in Id
    BY <2>1 DEF TypeInv, InRange, Pair
  <2>3. PICK p \in Phase : p = Then[c] /\ p \in Cleaning /\ p \notin Seeding
    BY DEF Phase, Cleaning, Seeding, Columns
  <2>4. bound' \in [Columns -> [Row -> Id \cup {NoTemplate}]]
    BY <1>8, <2>2 DEF Repoint, TypeInv, TypeOK
  <2>5. TypeOK'
    BY <1>8, <2>1, <2>2, <2>3, <2>4, GoEffect DEF TypeInv, TypeOK, Repoint
  <2>6. InRange'
    BY <1>8, <2>1, <2>2, <2>3, GoEffect DEF TypeInv, InRange, Repoint, Seeding
  <2> QED  BY <2>5, <2>6 DEF TypeInv
<1>9. CASE DropLegacy(i)
  <2>1. setup[i].phase \in Cleaning /\ NextPair(i)
    BY <1>9 DEF DropLegacy, Cleaning
  <2>2. TypeOK'
    BY <1>9, <2>1, NextPairEffect DEF TypeInv, TypeOK, DropLegacy, ghosts
  <2>3. InRange'
    BY <1>9, <2>1, NextPairEffect DEF TypeInv, InRange, DropLegacy, Seeding, Cleaning, Columns
  <2> QED  BY <2>2, <2>3 DEF TypeInv
<1>10. CASE CleanupFails(i)
  <2>1. "ready" \in Phase /\ "ready" \notin Seeding /\ "ready" \notin Cleaning /\ Go(i, "ready", 1)
    BY <1>10 DEF Phase, Cleaning, Seeding, Columns, CleanupFails
  <2>2. faults' \in 0..MaxFaults
    BY <1>10, FaultType DEF CleanupFails, Broken, TypeInv, TypeOK
  <2>3. TypeOK'
    BY <1>10, <2>1, <2>2, GoEffect DEF TypeInv, TypeOK, CleanupFails, database, ghosts
  <2>4. InRange'
    BY <1>10, <2>1, GoEffect DEF TypeInv, InRange, CleanupFails, Seeding
  <2> QED  BY <2>3, <2>4 DEF TypeInv
<1>11. CASE StartRepair(i)
  <2>1. "select" \in RepairPhase /\ GoRepair(i, "select", 1)
    BY <1>11 DEF RepairPhase, StartRepair
  <2>2. changes' \in 0..MaxChanges
    BY <1>11, SetupAssumption DEF StartRepair, Change, TypeInv, TypeOK, SetupAssumption
  <2>3. TypeOK'
    BY <1>11, <2>1, <2>2, GoRepairEffect DEF TypeInv, TypeOK, StartRepair, Change
  <2>4. InRange'
    BY <1>11, <2>1, GoRepairEffect DEF TypeInv, InRange, StartRepair, Change
  <2> QED  BY <2>3, <2>4 DEF TypeInv
<1>12. CASE Select(i)
  <2>1. PICK p \in {"update", "write"} : GoRepair(i, p, repair[i].at)
    BY <1>12 DEF Select
  <2>2. p \in RepairPhase /\ repair[i].at \in 1..Len(Seeds)
    BY <1>12 DEF RepairPhase, Select, TypeInv, InRange
  <2>3. TypeOK'
    BY <1>12, <2>1, <2>2, GoRepairEffect DEF TypeInv, TypeOK, Select, database, ghosts
  <2>4. InRange'
    BY <1>12, <2>1, <2>2, GoRepairEffect DEF TypeInv, InRange, Select
  <2> QED  BY <2>3, <2>4 DEF TypeInv
<1>13. CASE Update(i)
  <2>1. repair[i].phase # "idle" /\ NextRepair(i) /\ repair[i].at \in 1..Len(Seeds)
    BY <1>13 DEF Update, TypeInv, InRange
  <2>2. TypeOK'
    BY <1>13, <2>1, NextRepairEffect DEF TypeInv, TypeOK, Update, ghosts
  <2>3. InRange'
    BY <1>13, <2>1, NextRepairEffect DEF TypeInv, InRange, Update
  <2> QED  BY <2>2, <2>3 DEF TypeInv
<1>14. CASE Write(i)
  <2>1. repair[i].phase # "idle" /\ repair[i].at \in 1..Len(Seeds)
    BY <1>14 DEF Write, TypeInv, InRange
  <2>2. CASE AddSeed(Seeds[repair[i].at]) /\ NextRepair(i) /\ UNCHANGED faults
    <3>1. TypeOK'
      BY <1>14, <2>1, <2>2, NextRepairEffect, AddSeedType DEF TypeInv, TypeOK, Write
    <3>2. InRange'
      BY <1>14, <2>1, <2>2, NextRepairEffect DEF TypeInv, InRange, Write
    <3> QED  BY <3>1, <3>2 DEF TypeInv
  <2>3. CASE GiveUp(repair[i].at) /\ GoRepair(i, "idle", 1)
    <3>1. "idle" \in RepairPhase
      BY DEF RepairPhase
    <3>2. TypeOK'
      BY <1>14, <2>1, <2>3, <3>1, GoRepairEffect, GiveUpType DEF TypeInv, TypeOK, Write
    <3>3. InRange'
      BY <1>14, <2>1, <2>3, <3>1, GoRepairEffect DEF TypeInv, InRange, Write
    <3> QED  BY <3>2, <3>3 DEF TypeInv
  <2> QED  BY <1>14, <2>2, <2>3 DEF Write
<1>15. CASE RepairFails(i)
  <2>1. "idle" \in RepairPhase /\ GoRepair(i, "idle", 1) /\ repair[i].at \in 1..Len(Seeds)
    BY <1>15 DEF RepairPhase, RepairFails, TypeInv, InRange
  <2>2. faults' \in 0..MaxFaults /\ cut' \subseteq Seed
    BY <1>15, <2>1, FaultType, FromFacts DEF RepairFails, TypeInv, TypeOK
  <2>3. TypeOK'
    BY <1>15, <2>1, <2>2, GoRepairEffect DEF TypeInv, TypeOK, RepairFails, database
  <2>4. InRange'
    BY <1>15, <2>1, GoRepairEffect DEF TypeInv, InRange, RepairFails
  <2> QED  BY <2>3, <2>4 DEF TypeInv
<1>16. CASE Restart(i)
  <2>1. "idle" \in RepairPhase /\ GoRepair(i, "idle", 1) /\ Go(i, "none", 1)
    BY <1>16 DEF RepairPhase, Restart
  <2>2. "none" \in Phase /\ "none" \notin Seeding /\ "none" \notin Cleaning
    BY DEF Phase, Seeding, Cleaning, Columns
  <2>3. Todo(i) \subseteq Seed
    BY FromFacts DEF Todo, TypeInv, InRange, Seeding
  <2>4. faults' \in 0..MaxFaults /\ cut' \subseteq Seed
    BY <1>16, <2>3, FaultType DEF Restart, TypeInv, TypeOK
  <2>5. TypeOK'
    BY <1>16, <2>1, <2>2, <2>4, GoEffect, GoRepairEffect DEF TypeInv, TypeOK, Restart, database
  <2>6. InRange'
    BY <1>16, <2>1, <2>2, GoEffect, GoRepairEffect DEF TypeInv, InRange, Seeding
  <2> QED  BY <2>5, <2>6 DEF TypeInv
<1> QED
  BY <1>1, <1>2, <1>3, <1>4, <1>5, <1>6, <1>7, <1>8, <1>9, <1>10, <1>11, <1>12,
     <1>13, <1>14, <1>15, <1>16 DEF Step

(* So does what the panel does, which leaves the seedings where they are.  *)
LEMMA PanelType ==
  ASSUME TypeInv,
         \/ \E id \in Id : Panel(id)
         \/ \E c \in Columns, r \in Row, id \in Id \cup {NoTemplate} : Bind(c, r, id)
  PROVE  TypeInv' /\ UNCHANGED <<tables, setup, repair, cut, faults>>
<1>1. Change /\ UNCHANGED <<tables, setup, repair, cut, faults>>
  BY DEF Panel, AddTemplate, EditTemplate, RemoveTemplate, Bind, Change
<1>2. changes' \in 0..MaxChanges
  BY <1>1, SetupAssumption DEF Change, TypeInv, TypeOK, SetupAssumption
<1>3. InRange'
  BY <1>1 DEF TypeInv, InRange
<1>4. ASSUME NEW id \in Id, Panel(id)
      PROVE  TypeOK'
  BY <1>1, <1>2, <1>4
     DEF TypeInv, TypeOK, Panel, AddTemplate, EditTemplate, RemoveTemplate
<1>5. ASSUME NEW c \in Columns, NEW r \in Row, NEW id \in Id \cup {NoTemplate}, Bind(c, r, id)
      PROVE  TypeOK'
  <2>1. bound' \in [Columns -> [Row -> Id \cup {NoTemplate}]]
    BY <1>5 DEF TypeInv, TypeOK, Bind
  <2>2. loose' \subseteq Columns \X Row
    BY <1>5 DEF TypeInv, TypeOK, Bind
  <2> QED  BY <1>1, <1>2, <1>5, <2>1, <2>2 DEF TypeInv, TypeOK, Bind
<1> QED  BY <1>1, <1>3, <1>4, <1>5 DEF TypeInv

LEMMA TypeNext ==
  ASSUME TypeInv, [Next]_vars
  PROVE  TypeInv'
<1>1. CASE UNCHANGED vars
  BY <1>1 DEF TypeInv, TypeOK, InRange, vars, database, ghosts
<1> QED  BY <1>1, TypeStep, PanelType DEF Next, Serve

-----------------------------------------------------------------------------
Bindings == FoundKept /\ PassedClean /\ BindingsKept

LEMMA PastFacts ==
  /\ \A c \in Columns : Past(c) \subseteq Columns \cup {"drop"} /\ "drop" \in Past(c)
  /\ \A c \in Columns : "subscription" \notin Past(c)
  /\ \A c, d \in Columns : Then[d] \in Past(c) => c = d \/ d \in Past(c)
BY DEF Past, Columns, Then

(* A step that takes nobody into the clean-up of a pair, and no row away   *)
(* but by the panel.                                                       *)
LEMMA BindingsStay ==
  ASSUME BindInv, UNCHANGED <<bound, loose>>,
         templates \cup removed \subseteq templates' \cup removed',
         \A j \in Isolate : \/ setup'[j] = setup[j]
                            \/ setup'[j].phase \notin Columns \cup {"drop"}
  PROVE  Bindings'
<1>1. FoundKept'
  BY DEF BindInv, FoundKept, Pair
<1>2. PassedClean'
  BY PastFacts DEF BindInv, PassedClean, Pair
<1>3. BindingsKept'
  BY DEF BindInv, BindingsKept
<1> QED  BY <1>1, <1>2, <1>3 DEF Bindings

LEMMA BindFind ==
  ASSUME BindInv, NEW i \in Isolate, Find(i)
  PROVE  Bindings'
<1>1. TypeInv /\ TypeOK /\ setup[i].phase \in Cleaning /\ setup[i].at \in 1..Len(Pairs)
  BY DEF BindInv, TypeInv, InRange, Find, Cleaning
<1>2. CASE NextPair(i)
  <2>1. \A j \in Isolate : \/ setup'[j] = setup[j]
                           \/ setup'[j].phase \notin Columns \cup {"drop"}
    BY <1>1, <1>2, NextPairEffect DEF Columns
  <2> QED  BY <2>1, BindingsStay DEF Find, database, ghosts
<1>3. CASE Pair(i).current \in templates /\ Go(i, "subscription", setup[i].at)
  <2>1. /\ setup'[i].phase = "subscription" /\ setup'[i].at = setup[i].at
        /\ \A j \in Isolate : j # i => setup'[j] = setup[j]
    BY <1>1, <1>3, GoEffect, PhaseFacts DEF Columns
  <2>2. UNCHANGED <<templates, removed, bound, loose>>
    BY DEF Find, database, ghosts
  <2>3. FoundKept'
    BY <1>3, <2>1, <2>2 DEF BindInv, FoundKept, Pair
  <2>4. PassedClean'
    BY <2>1, <2>2, PastFacts DEF BindInv, PassedClean, Pair
  <2>5. BindingsKept'
    BY <2>2 DEF BindInv, BindingsKept
  <2> QED  BY <2>3, <2>4, <2>5 DEF Bindings
<1> QED  BY <1>2, <1>3, PhaseFacts DEF Find

(* Re-pointing leaves the column of the legacy id at this pair's current.  *)
LEMMA BindRepoint ==
  ASSUME BindInv, NEW i \in Isolate, Repoint(i)
  PROVE  Bindings'
<1> DEFINE c == setup[i].phase
           p == Pair(i)
<1>1. /\ TypeInv /\ TypeOK /\ c \in Columns
      /\ setup[i].at \in 1..Len(Pairs) /\ setup[i].at \in Nat
  BY PhaseFacts, PairFacts DEF BindInv, TypeInv, InRange, Repoint
<1>2. /\ setup'[i].phase = Then[c] /\ setup'[i].at = setup[i].at
      /\ \A j \in Isolate : j # i => setup'[j] = setup[j]
  BY <1>1, GoEffect, PhaseFacts DEF Repoint, Cleaning, Phase
<1>3. UNCHANGED <<templates, removed>>
  BY DEF Repoint
<1>4. /\ \A d \in Columns, r \in Row : (d # c \/ bound[d][r] # p.legacy) =>
           /\ bound'[d][r] = bound[d][r]
           /\ <<d, r>> \in loose' <=> <<d, r>> \in loose
      /\ \A r \in Row : bound[c][r] = p.legacy => bound'[c][r] = p.current
  BY <1>1 DEF Repoint, TypeOK, Names
<1>5. p.current \in templates \cup removed
  BY <1>1 DEF BindInv, FoundKept
<1>6. FoundKept'
  BY <1>1, <1>2, <1>3, <1>5 DEF BindInv, FoundKept, Pair
<1>7. PassedClean'
  <2> SUFFICES ASSUME NEW j \in Isolate, NEW d \in Columns, NEW r \in Row,
                      setup'[j].phase \in Past(d), bound'[d][r] = Pair(j)'.legacy
               PROVE  <<d, r>> \in loose'
    BY DEF PassedClean
  <2>1. setup[j].phase \in Cleaning /\ Pair(j)' = Pair(j)
    BY <1>1, <1>2, PastFacts, PhaseFacts DEF Pair, Cleaning
  <2>2. Pair(j).legacy # p.current
    BY <1>1, <2>1, PairFacts DEF Pair, BindInv, InRange
  <2>3. ~(d = c /\ bound[d][r] = p.legacy)
    BY <1>4, <2>1, <2>2
  <2>4. bound[d][r] = Pair(j).legacy /\ (<<d, r>> \in loose' <=> <<d, r>> \in loose)
    BY <1>4, <2>1, <2>3
  <2>5. CASE setup[j].phase \in Past(d)
    BY <2>4, <2>5 DEF BindInv, PassedClean
  <2>6. CASE j = i /\ d = c
    BY <2>3, <2>4, <2>6
  <2> QED  BY <1>1, <1>2, <2>5, <2>6, PastFacts
<1>8. BindingsKept'
  BY <1>3, <1>4, <1>5 DEF BindInv, BindingsKept
<1> QED  BY <1>6, <1>7, <1>8 DEF Bindings

(* The row that goes is one that only late bindings name.                  *)
LEMMA BindDrop ==
  ASSUME BindInv, NEW i \in Isolate, DropLegacy(i)
  PROVE  Bindings'
<1>1. /\ TypeInv /\ setup[i].phase = "drop" /\ setup[i].phase \in Cleaning
      /\ setup[i].at \in 1..Len(Pairs)
  BY DEF BindInv, TypeInv, InRange, DropLegacy, Cleaning
<1>2. \A j \in Isolate : \/ setup'[j] = setup[j]
                         \/ setup'[j].phase \notin Columns \cup {"drop"}
  BY <1>1, NextPairEffect DEF DropLegacy, Columns
<1>3. UNCHANGED <<bound, loose, removed>> /\ templates' = templates \ {Pair(i).legacy}
  BY DEF DropLegacy, ghosts
<1>4. FoundKept'
  <2> SUFFICES ASSUME NEW j \in Isolate, setup'[j].phase \in Columns \cup {"drop"}
               PROVE  Pair(j)'.current \in templates' \cup removed'
    BY DEF FoundKept
  <2>1. setup'[j] = setup[j] /\ setup[j].phase \in Cleaning /\ Pair(j)' = Pair(j)
    BY <1>2 DEF Pair, Cleaning
  <2>2. Pair(j).current # Pair(i).legacy
    BY <1>1, <2>1, PairFacts DEF Pair, BindInv, InRange
  <2> QED  BY <1>3, <2>1, <2>2 DEF BindInv, FoundKept
<1>5. PassedClean'
  BY <1>2, <1>3, PastFacts DEF BindInv, PassedClean, Pair
<1>6. BindingsKept'
  <2> SUFFICES ASSUME NEW c \in Columns, NEW r \in Row
               PROVE  \/ bound[c][r] \in templates' \cup removed' \cup {NoTemplate}
                      \/ <<c, r>> \in loose'
    BY <1>3 DEF BindingsKept
  <2>1. bound[c][r] = Pair(i).legacy => <<c, r>> \in loose
    BY <1>1, PastFacts DEF BindInv, PassedClean
  <2>2. \/ bound[c][r] \in templates \cup removed \cup {NoTemplate}
        \/ <<c, r>> \in loose
    BY DEF BindInv, BindingsKept
  <2> QED  BY <1>3, <2>1, <2>2
<1> QED  BY <1>4, <1>5, <1>6 DEF Bindings

LEMMA BindStep ==
  ASSUME BindInv, NEW i \in Isolate, Step(i)
  PROVE  Bindings'
<1> DEFINE Out == \A j \in Isolate : \/ setup'[j] = setup[j]
                                    \/ setup'[j].phase \notin Columns \cup {"drop"}
<1>1. TypeInv /\ TypeOK
  BY DEF BindInv, TypeInv
<1>2. ASSUME Begin(i) \/ Restart(i)
      PROVE  Out
  <2>1. PICK p \in {"nodes", "none"} : Go(i, p, 1)
    BY <1>2 DEF Begin, Restart
  <2>2. p \in Phase /\ p \notin Columns \cup {"drop"}
    BY DEF Phase, Creating, Tables, Columns
  <2> QED  BY <1>1, <2>1, <2>2, GoEffect
<1>3. ASSUME Create(i) \/ Count(i)
      PROVE  Out
  <2>1. PICK p \in Creating \cup Seeding : Go(i, p, 1)
    BY <1>3, PhaseFacts DEF Create, Count, Seeding
  <2>2. p \in Phase /\ p \notin Columns \cup {"drop"}
    BY <2>1, PhaseFacts DEF Creating, Seeding, Tables, Columns
  <2> QED  BY <1>1, <2>1, <2>2, GoEffect
<1>4. ASSUME SeedFails(i) \/ CleanupFails(i)
      PROVE  Out
  <2>1. PICK p \in {"find", "ready"} : Go(i, p, 1)
    BY <1>4 DEF SeedFails, CleanupFails
  <2>2. p \in Phase /\ p \notin Columns \cup {"drop"}
    BY DEF Phase, Cleaning, Columns
  <2> QED  BY <1>1, <2>1, <2>2, GoEffect
<1>5. ASSUME Refresh(i) \/ Insert(i)
      PROVE  Out
  <2>1. setup[i].phase \in {"refresh", "insert"} /\ setup[i].phase \in Seeding
    BY <1>5 DEF Refresh, Insert, Seeding
  <2>2. CASE NextSeed(i)
    BY <1>1, <2>1, <2>2, NextSeedEffect DEF Columns
  <2>3. CASE Go(i, "find", 1)
    BY <1>1, <2>3, GoEffect, PhaseFacts DEF Cleaning, Columns
  <2> QED  BY <1>5, <2>2, <2>3 DEF Refresh, Insert
<1>6. ASSUME Select(i) \/ Update(i) \/ Write(i) \/ RepairFails(i) \/ StartRepair(i)
      PROVE  Out
  BY <1>6 DEF Select, Update, Write, RepairFails, StartRepair, Change
<1>7. ASSUME ~Find(i), ~Repoint(i), ~DropLegacy(i)
      PROVE  Out /\ UNCHANGED <<bound, loose, removed>> /\ templates \subseteq templates'
  <2>1. Out
    BY <1>2, <1>3, <1>4, <1>5, <1>6, <1>7 DEF Step
  <2>2. ASSUME Begin(i) \/ Create(i) \/ Count(i) \/ Refresh(i) \/ SeedFails(i) \/ CleanupFails(i)
        PROVE  UNCHANGED <<bound, loose, removed, templates>>
    BY <2>2 DEF Begin, Create, Count, Refresh, SeedFails, CleanupFails, database, ghosts
  <2>3. ASSUME Insert(i) \/ Write(i)
        PROVE  UNCHANGED <<bound, loose, removed>> /\ templates \subseteq templates'
    BY <2>3 DEF Insert, Write, AddSeed, GiveUp, database
  <2>4. ASSUME Select(i) \/ Update(i) \/ RepairFails(i) \/ StartRepair(i) \/ Restart(i)
        PROVE  UNCHANGED <<bound, loose, removed, templates>>
    BY <2>4 DEF Select, Update, RepairFails, StartRepair, Restart, Change, database, ghosts
  <2> QED  BY <1>7, <2>1, <2>2, <2>3, <2>4 DEF Step
<1> QED  BY <1>7, BindingsStay, BindFind, BindRepoint, BindDrop

LEMMA BindPanel ==
  ASSUME BindInv, NEW id \in Id, Panel(id)
  PROVE  Bindings'
<1>1. UNCHANGED <<bound, loose, setup>>
  BY DEF Panel, AddTemplate, EditTemplate, RemoveTemplate, Change
<1>2. templates \cup removed \subseteq templates' \cup removed'
  BY DEF Panel, AddTemplate, EditTemplate, RemoveTemplate
<1> QED  BY <1>1, <1>2, BindingsStay

LEMMA BindBind ==
  ASSUME BindInv, NEW c \in Columns, NEW r \in Row, NEW id \in Id \cup {NoTemplate},
         Bind(c, r, id)
  PROVE  Bindings'
<1>1. UNCHANGED <<templates, removed, setup>>
  BY DEF Bind, Change
<1>2. /\ bound'[c][r] = id
      /\ \A d \in Columns, q \in Row : (d # c \/ q # r) =>
           /\ bound'[d][q] = bound[d][q]
           /\ <<d, q>> \in loose' <=> <<d, q>> \in loose
  BY DEF Bind, BindInv, TypeOK
<1>3. (id # NoTemplate /\ (id \notin templates \/ Overtaken(c, id))) => <<c, r>> \in loose'
  BY DEF Bind
<1>4. FoundKept'
  BY <1>1 DEF BindInv, FoundKept, Pair
<1>5. PassedClean'
  <2> SUFFICES ASSUME NEW j \in Isolate, NEW d \in Columns, NEW q \in Row,
                      setup[j].phase \in Past(d), bound'[d][q] = Pair(j).legacy
               PROVE  <<d, q>> \in loose'
    BY <1>1 DEF PassedClean, Pair
  <2>1. Pair(j).legacy # NoTemplate
    BY PastFacts, PairFacts, SetupAssumption
       DEF BindInv, InRange, Pair, Cleaning, SetupAssumption
  <2>2. CASE d = c /\ q = r
    BY <1>2, <1>3, <2>1, <2>2 DEF Overtaken
  <2>3. CASE d # c \/ q # r
    BY <1>2, <2>3 DEF BindInv, PassedClean
  <2> QED  BY <2>2, <2>3
<1>6. BindingsKept'
  BY <1>1, <1>2, <1>3 DEF BindInv, BindingsKept
<1> QED  BY <1>4, <1>5, <1>6 DEF Bindings

(* Every variable keeps its shape, and every loop its bounds.              *)
THEOREM SetupTypeCorrect == Spec => []TypeOK
<1>1. TypeInv => TypeOK
  BY DEF TypeInv
<1> QED  BY <1>1, TypeInit, TypeNext, PTL DEF Spec

(* Every reference names a template that exists, or whose lack the panel   *)
(* answers for (cleanupLegacyTemplates).                                   *)
THEOREM NothingStranded == Spec => []BindingsKept
<1>1. Init => BindInv
  <2> SUFFICES ASSUME Init
               PROVE  BindInv
    OBVIOUS
  <2>1. TypeOK /\ InRange
    BY TypeInit DEF TypeInv
  <2>2. FoundKept /\ PassedClean
    BY PastFacts DEF Init, FoundKept, PassedClean, To, Columns
  <2>3. BindingsKept
    BY DEF Init, BindingsKept
  <2> QED  BY <2>1, <2>2, <2>3 DEF BindInv
<1>2. BindInv /\ [Next]_vars => BindInv'
  <2> SUFFICES ASSUME BindInv, [Next]_vars
               PROVE  BindInv'
    OBVIOUS
  <2>1. TypeInv'
    BY TypeNext DEF BindInv, TypeInv
  <2>2. ASSUME UNCHANGED vars
        PROVE  Bindings'
    BY <2>2, BindingsStay DEF vars, database, ghosts
  <2>3. Bindings'
    BY <2>2, BindStep, BindPanel, BindBind DEF Next, Serve
  <2> QED  BY <2>1, <2>3 DEF BindInv, TypeInv, Bindings
<1>3. BindInv => BindingsKept
  BY DEF BindInv
<1> QED  BY <1>1, <1>2, <1>3, PTL DEF Spec

-----------------------------------------------------------------------------
Order == AllSeeded /\ PassedSettled /\ RestFollows

(* A step that writes no seed and stops no seeding.                        *)
Quiet ==
  /\ \A m \in 1..Len(Seeds) : Seeds[m] \in Settled => Seeds[m] \in Settled'
  /\ \A m \in 1..Len(Seeds) :
       Seeds[m] \in templates' \ Touched' => Seeds[m] \in templates \ Touched
  /\ Known' => Known

Unmoved(j) ==
  /\ setup[j].phase = "insert" => setup'[j] = setup[j]
  /\ setup'[j].phase = "insert" => setup'[j] = setup[j] \/ setup'[j].at = 1
  /\ repair[j].phase # "idle" =>
       repair'[j].phase # "idle" /\ repair'[j].at = repair[j].at
  /\ repair'[j].phase # "idle" =>
       \/ repair[j].phase # "idle" /\ repair'[j].at = repair[j].at
       \/ repair'[j].at = 1
  /\ repair'[j].phase = "update" =>
       \/ repair[j].phase = "update" /\ repair'[j].at = repair[j].at
       \/ Seeds[repair'[j].at] \in Settled'

LEMMA OrderStays ==
  ASSUME SeedInv, Quiet, \A j \in Isolate : Unmoved(j)
  PROVE  Order'
<1>1. \A k, m \in Nat : Due(k, m) => Due(k, m)'
  BY DEF Due, Unmoved
<1>2. AllSeeded'
  BY <1>1, SeedFacts DEF SeedInv, AllSeeded, Quiet
<1>3. PassedSettled'
  BY SeedFacts DEF SeedInv, PassedSettled, Quiet, Unmoved
<1>4. RestFollows'
  BY <1>1, SeedFacts DEF SeedInv, RestFollows, Quiet
<1> QED  BY <1>2, <1>3, <1>4 DEF Order

(* A seeding stops at number n: what another is not past is cut, or the    *)
(* row at n is another's.                                                  *)
Stopped(n) ==
  /\ \A m \in 1..Len(Seeds) : Seeds[m] \in Settled => Seeds[m] \in Settled'
  /\ \A m \in 1..Len(Seeds) : m < n => Seeds[m] \in Settled
  /\ UNCHANGED <<templates, edited, removed>>
  /\ \/ \A m \in n..Len(Seeds) : Seeds[m] \in cut'
     \/ Seeds[n] \in templates \ Touched

Halted(j, n) ==
  /\ setup'[j].phase = "insert" => setup'[j] = setup[j]
  /\ setup[j].phase = "insert" => setup'[j] = setup[j] \/ setup[j].at = n
  /\ repair'[j].phase # "idle" => repair'[j] = repair[j]
  /\ repair[j].phase # "idle" => repair'[j] = repair[j] \/ repair[j].at = n

LEMMA OrderCut ==
  ASSUME SeedInv, NEW n \in 1..Len(Seeds), Stopped(n), \A j \in Isolate : Halted(j, n)
  PROVE  Order'
<1>0. n \in Nat /\ Len(Seeds) \in Nat /\ DOMAIN Seeds = 1..Len(Seeds)
  BY SeedFacts
<1>1. \A m \in 1..Len(Seeds) : Seeds[m] \in Settled => Seeds[m] \in Settled'
  BY DEF Stopped
<1>2. ASSUME NEW k \in Nat, NEW m \in 1..Len(Seeds), k >= n, Due(k, m)
      PROVE  Due(k, m)'
  <2>1. PICK j \in Isolate :
          \/ setup[j].phase = "insert" /\ k < setup[j].at /\ setup[j].at <= m
          \/ repair[j].phase # "idle" /\ k < repair[j].at /\ repair[j].at <= m
    BY <1>2 DEF Due
  <2>2. CASE setup[j].phase = "insert" /\ k < setup[j].at /\ setup[j].at <= m
    <3>1. setup[j].at # n
      BY <1>0, <1>2, <2>2 DEF SeedInv, InRange, Seeding
    <3> QED  BY <2>2, <3>1 DEF Halted, Due
  <2>3. CASE repair[j].phase # "idle" /\ k < repair[j].at /\ repair[j].at <= m
    <3>1. repair[j].at # n
      BY <1>0, <1>2, <2>3 DEF SeedInv, InRange
    <3> QED  BY <2>3, <3>1 DEF Halted, Due
  <2> QED  BY <2>1, <2>2, <2>3
<1>3. ASSUME NEW k \in Nat, NEW m \in 1..Len(Seeds), k < n,
             Seeds[m] \in Settled \/ Due(k, m) \/ m < n \/ Seeds[n] \notin templates \ Touched
      PROVE  Seeds[m] \in Settled' \/ Due(k, m)'
  <2>1. CASE Seeds[m] \in Settled \/ m < n
    BY <1>1, <2>1 DEF Stopped
  <2>2. CASE m >= n /\ \A q \in n..Len(Seeds) : Seeds[q] \in cut'
    BY <1>0, <2>2 DEF Settled
  <2>3. CASE m = n /\ Seeds[n] \in templates
    BY <1>1, <2>3 DEF Settled
  <2>4. CASE m > n /\ Seeds[n] \in templates \ Touched
    <3>1. Seeds[m] \in Settled \/ Due(n, m)
      BY <1>0, <2>4 DEF SeedInv, RestFollows
    <3>2. Due(n, m) => Due(n, m)'
      BY <1>0, <1>2
    <3>3. Due(n, m)' => Due(k, m)'
      <4>1. \A x \in Nat : n < x => k < x
        BY <1>0, <1>3
      <4>2. \A j \in Isolate : /\ setup'[j].phase = "insert" => setup'[j].at \in Nat
                               /\ repair'[j].phase # "idle" => repair'[j].at \in Nat
        BY <1>0 DEF Halted, SeedInv, InRange, Seeding
      <4> QED  BY <4>1, <4>2 DEF Due
    <3> QED  BY <1>1, <3>1, <3>2, <3>3
  <2>5. m < n \/ m = n \/ m > n
    BY <1>0
  <2> QED  BY <1>0, <2>1, <2>2, <2>3, <2>4, <2>5 DEF Stopped
<1>4. AllSeeded'
  <2> SUFFICES ASSUME NEW m \in 1..Len(Seeds)
               PROVE  Seeds[m] \in Settled' \/ Due(0, m)'
    BY <1>0 DEF AllSeeded
  <2>1. Seeds[n] \in templates => Seeds[m] \in Settled \/ Due(0, m)
    BY <1>0 DEF SeedInv, AllSeeded, Known
  <2> QED  BY <1>0, <1>3, <2>1
<1>5. PassedSettled'
  BY <1>0, <1>1 DEF SeedInv, PassedSettled, Halted
<1>6. RestFollows'
  <2> SUFFICES ASSUME NEW k \in 1..Len(Seeds), NEW m \in 1..Len(Seeds), k < m,
                      Seeds[k] \in templates' \ Touched'
               PROVE  Seeds[m] \in Settled' \/ Due(k, m)'
    BY <1>0 DEF RestFollows
  <2>1. k \in Nat /\ (k >= n \/ k < n)
    BY <1>0
  <2>2. Seeds[m] \in Settled \/ Due(k, m)
    BY <1>0 DEF SeedInv, RestFollows, Touched, Stopped
  <2> QED  BY <1>1, <1>2, <1>3, <2>1, <2>2
<1> QED  BY <1>4, <1>5, <1>6 DEF Order

(* A seeding at number n goes on, once the row is there.                   *)
Advance(i, n) ==
  \/ /\ setup[i].phase = "insert" /\ setup[i].at = n /\ repair'[i] = repair[i]
     /\ \/ n = Len(Seeds) /\ setup'[i].phase # "insert"
        \/ n < Len(Seeds) /\ setup'[i].phase = "insert" /\ setup'[i].at = n + 1
  \/ /\ repair[i].phase # "idle" /\ repair[i].at = n /\ setup'[i] = setup[i]
     /\ \/ n = Len(Seeds) /\ repair'[i].phase = "idle"
        \/ n < Len(Seeds) /\ repair'[i].phase = "select" /\ repair'[i].at = n + 1

Goes(i, n) ==
  /\ \A j \in Isolate : j # i => setup'[j] = setup[j] /\ repair'[j] = repair[j]
  /\ Advance(i, n)

Written(n) ==
  /\ \A m \in 1..Len(Seeds) : Seeds[m] \in Settled => Seeds[m] \in Settled'
  /\ \A m \in 1..Len(Seeds) : m < n => Seeds[m] \in Settled
  /\ UNCHANGED <<edited, removed>>
  /\ templates' \subseteq templates \cup {Seeds[n]} /\ Seeds[n] \in Settled'

LEMMA OrderWrite ==
  ASSUME SeedInv, NEW n \in 1..Len(Seeds), NEW i \in Isolate, Goes(i, n), Written(n)
  PROVE  Order'
<1>0. n \in Nat /\ Len(Seeds) \in Nat /\ DOMAIN Seeds = 1..Len(Seeds)
  BY SeedFacts
<1>1. ASSUME NEW k \in Nat, NEW m \in 1..Len(Seeds), k <= n, n < m
      PROVE  Due(k, m)'
  <2>1. n < Len(Seeds) /\ m \in Nat
    BY <1>0, <1>1
  <2>2. \/ setup'[i].phase = "insert" /\ setup'[i].at = n + 1
        \/ repair'[i].phase = "select" /\ repair'[i].at = n + 1
    <3>1. \A a, b \in Nat : a < b => a # b
      OBVIOUS
    <3>2. n # Len(Seeds)
      BY <1>0, <2>1, <3>1, Zenon
    <3> QED  BY <3>2 DEF Goes, Advance
  <2> QED  BY <1>0, <1>1, <2>1, <2>2 DEF Due
<1>2. ASSUME NEW k \in Nat, NEW m \in 1..Len(Seeds), Due(k, m)
      PROVE  Seeds[m] \in Settled' \/ Due(k, m)'
  <2>1. CASE m = n
    BY <2>1 DEF Written
  <2>2. CASE m # n
    <3>1. PICK j \in Isolate :
            \/ setup[j].phase = "insert" /\ k < setup[j].at /\ setup[j].at <= m
            \/ repair[j].phase # "idle" /\ k < repair[j].at /\ repair[j].at <= m
      BY <1>2 DEF Due
    <3>2. CASE setup'[j] = setup[j] /\ repair'[j] = repair[j]
      BY <3>1, <3>2 DEF Due
    <3>3. (k < n /\ n <= m) => Due(k, m)'
      BY <1>0, <1>1, <2>2
    <3>4. CASE j = i /\ setup'[i] = setup[i] /\ repair[i].at = n
      BY <3>1, <3>3, <3>4 DEF Due
    <3>5. CASE j = i /\ repair'[i] = repair[i] /\ setup[i].at = n
      BY <3>1, <3>3, <3>5 DEF Due
    <3> QED  BY <3>2, <3>4, <3>5 DEF Goes, Advance
  <2> QED  BY <2>1, <2>2
<1>3. ASSUME NEW m \in 1..Len(Seeds), m <= n
      PROVE  Seeds[m] \in Settled'
  <2>1. m < n \/ m = n
    BY <1>0, <1>3
  <2> QED  BY <2>1 DEF Written
<1>4. AllSeeded'
  <2>1. ASSUME NEW m \in 1..Len(Seeds)
        PROVE  Seeds[m] \in Settled' \/ Due(0, m)'
    <3>1. m <= n \/ n < m
      BY <1>0
    <3> QED  BY <1>0, <1>1, <1>3, <3>1
  <2> QED  BY <1>0, <2>1 DEF AllSeeded
<1>5. PassedSettled'
  <2> SUFFICES ASSUME NEW j \in Isolate, NEW m \in 1..Len(Seeds)
               PROVE  /\ (setup'[j].phase = "insert" /\ m < setup'[j].at) => Seeds[m] \in Settled'
                      /\ (repair'[j].phase # "idle" /\ m < repair'[j].at) => Seeds[m] \in Settled'
                      /\ (repair'[j].phase = "update" /\ m = repair'[j].at) => Seeds[m] \in Settled'
    BY <1>0 DEF PassedSettled
  <2>1. m < n + 1 => Seeds[m] \in Settled'
    BY <1>0, <1>3
  <2>2. setup'[j] = setup[j] =>
          ((setup'[j].phase = "insert" /\ m < setup'[j].at) => Seeds[m] \in Settled')
    BY <1>0 DEF SeedInv, PassedSettled, Written
  <2>3. repair'[j] = repair[j] =>
          /\ (repair'[j].phase # "idle" /\ m < repair'[j].at) => Seeds[m] \in Settled'
          /\ (repair'[j].phase = "update" /\ m = repair'[j].at) => Seeds[m] \in Settled'
    BY <1>0 DEF SeedInv, PassedSettled, Written
  <2> QED  BY <2>1, <2>2, <2>3 DEF Goes, Advance
<1>6. RestFollows'
  <2> SUFFICES ASSUME NEW k \in 1..Len(Seeds), NEW m \in 1..Len(Seeds), k < m,
                      Seeds[k] \in templates' \ Touched'
               PROVE  Seeds[m] \in Settled' \/ Due(k, m)'
    BY <1>0 DEF RestFollows
  <2>0. k \in Nat
    BY <1>0
  <2>1. CASE k = n
    BY <1>0, <1>1, <2>1
  <2>2. CASE k # n
    <3>1. Seeds[k] \in templates \ Touched
      BY <2>2, SeedFacts DEF Touched, Written
    <3>2. Seeds[m] \in Settled \/ Due(k, m)
      BY <1>0, <3>1 DEF SeedInv, RestFollows
    <3>3. Seeds[m] \in Settled => Seeds[m] \in Settled'
      BY DEF Written
    <3> QED  BY <1>2, <2>0, <3>2, <3>3
  <2> QED  BY <2>1, <2>2
<1> QED  BY <1>4, <1>5, <1>6 DEF Order

-----------------------------------------------------------------------------
(* Steps of a set-up that insert nothing leave every seeding where it was. *)
LEMMA OtherSetup ==
  ASSUME NEW i \in Isolate, UNCHANGED repair, setup[i].phase # "insert",
         \A j \in Isolate : j # i => setup'[j] = setup[j],
         setup'[i].phase = "insert" => setup'[i].at = 1
  PROVE  \A j \in Isolate : Unmoved(j)
BY DEF Unmoved

(* Steps that touch no built-in row.                                       *)
LEMMA SameSeeds ==
  ASSUME UNCHANGED <<edited, removed, cut>>,
         \A m \in 1..Len(Seeds) : Seeds[m] \in templates' <=> Seeds[m] \in templates,
         Known' => Known
  PROVE  Quiet
BY DEF Quiet, Settled, Touched

LEMMA OldStays ==
  ASSUME SeedInv, UNCHANGED <<edited, removed, cut>>, old' \subseteq old,
         \A j \in Isolate :
           \/ setup'[j] = setup[j]
           \/ Seated(j)
           \/ ~Seated(j)' /\ setup'[j].phase \notin {"insert", "refresh"}
  PROVE  OldGone'
BY SeedFacts DEF SeedInv, OldGone, Seated, Touched

LEMMA SeedCreate ==
  ASSUME SeedInv, NEW i \in Isolate, Begin(i) \/ Create(i)
  PROVE  Order' /\ OldGone'
<1>1. TypeOK
  BY DEF SeedInv
<1>2. /\ UNCHANGED <<templates, old, edited, removed, cut, repair>>
      /\ setup[i].phase \notin {"insert", "ready", "refresh"} \cup Cleaning
  BY DEF Begin, Create, database, ghosts, Creating, Tables, Cleaning, Columns
<1>3. PICK p \in Creating \cup {"count"} : Go(i, p, 1)
  BY PhaseFacts DEF Begin, Create, Creating, Tables
<1>4. p \in Phase /\ p \notin {"insert", "ready", "refresh"} \cup Cleaning
  BY <1>3, PhaseFacts DEF Creating, Tables, Cleaning, Columns, Seeding
<1>5. /\ setup'[i].phase = p
      /\ \A j \in Isolate : j # i => setup'[j] = setup[j]
  BY <1>1, <1>3, <1>4, GoEffect
<1>6. Known' => Known
  BY <1>2, <1>4, <1>5 DEF Known, Seated
<1>7. Order'
  BY <1>2, <1>4, <1>5, <1>6, OtherSetup, SameSeeds, OrderStays
<1>8. OldGone'
  BY <1>2, <1>4, <1>5, OldStays DEF Seated
<1> QED  BY <1>7, <1>8

LEMMA SeedCount ==
  ASSUME SeedInv, NEW i \in Isolate, Count(i)
  PROVE  Order' /\ OldGone'
<1>1. TypeOK /\ old \subseteq templates
  BY DEF SeedInv, TypeOK
<1>2. /\ UNCHANGED <<templates, old, edited, removed, cut, repair>>
      /\ setup[i].phase = "count"
  BY DEF Count, database, ghosts
<1>3. PICK p \in {"insert", "refresh"} : Go(i, p, 1) /\ (p = "insert" => templates = {})
                                        /\ (p = "refresh" => templates # {})
  BY DEF Count
<1>4. p \in Phase
  BY PhaseFacts DEF Seeding
<1>5. /\ setup'[i].phase = p /\ setup'[i].at = 1
      /\ \A j \in Isolate : j # i => setup'[j] = setup[j]
  <2>1. Go(i, p, 1) /\ 1 \in Nat
    BY <1>3
  <2> HIDE DEF Count
  <2> QED  BY <1>1, <1>4, <2>1, GoEffect
<1>6. Known' => Known
  BY <1>2, <1>3, <1>5 DEF Known, Seated, Cleaning, Columns
<1>7. Order'
  BY <1>2, <1>5, <1>6, OtherSetup, SameSeeds, OrderStays
<1>8. OldGone'
  <2> SUFFICES ASSUME NEW j \in Isolate, NEW m \in 1..Len(Seeds), Seeds[m] \in old',
                      \/ Seated(j)' \/ setup'[j].phase = "insert"
                      \/ setup'[j].phase = "refresh" /\ m < setup'[j].at
               PROVE  Seeds[m] \in (Touched \cup cut)'
    BY SeedFacts DEF OldGone
  <2>1. CASE j = i
    <3>1. p = "refresh" => FALSE
      BY <1>5, <2>1, SeedFacts DEF Seated, Cleaning, Columns
    <3>2. p = "insert"
      BY <1>3, <3>1
    <3>3. old' = {}
      BY <1>1, <1>2, <1>3, <3>2
    <3> QED  BY <3>3
  <2>2. CASE j # i
    BY <1>2, <1>5, <2>2, SeedFacts DEF SeedInv, OldGone, Seated, Touched
  <2> QED  BY <2>1, <2>2
<1> QED  BY <1>7, <1>8

LEMMA SeedClean ==
  ASSUME SeedInv, NEW i \in Isolate,
         Find(i) \/ Repoint(i) \/ DropLegacy(i) \/ CleanupFails(i)
  PROVE  Order' /\ OldGone'
<1>1. TypeOK /\ TypeInv
  BY DEF SeedInv, TypeInv
<1>2. /\ UNCHANGED <<edited, removed, cut, repair>> /\ old' \subseteq old
      /\ setup[i].phase \in Cleaning
  BY PhaseFacts
     DEF Find, Repoint, DropLegacy, CleanupFails, database, ghosts, Cleaning
<1>3. setup[i].at \in 1..Len(Pairs)
  BY <1>2 DEF SeedInv, InRange
<1>4. \A m \in 1..Len(Seeds) : Seeds[m] \in templates' <=> Seeds[m] \in templates
  BY <1>3, SeedFacts, PairFacts
     DEF Find, Repoint, DropLegacy, CleanupFails, database, Pair
<1>5. /\ setup'[i].phase \in Cleaning \cup {"ready"}
      /\ \A j \in Isolate : j # i => setup'[j] = setup[j]
  <2>1. CASE NextPair(i)
    BY <1>1, <1>2, <2>1, NextPairEffect DEF Cleaning
  <2>2. CASE ~NextPair(i)
    <3>1. PICK p \in Cleaning \cup {"ready"}, n \in Nat : Go(i, p, n)
      <4>1. CASE Repoint(i)
        <5>1. /\ Go(i, Then[setup[i].phase], setup[i].at)
              /\ setup[i].phase \in Columns /\ setup[i].at \in Nat
          BY <1>3, <4>1, PairFacts DEF Repoint
        <5>2. Then[setup[i].phase] \in Cleaning
          BY <5>1, PhaseFacts DEF Cleaning
        <5> QED  BY <5>1, <5>2
      <4>2. CASE CleanupFails(i)
        BY <4>2 DEF CleanupFails
      <4>3. CASE Find(i)
        BY <1>3, <2>2, <4>3, PhaseFacts DEF Find, Cleaning, Columns
      <4> QED  BY <2>2, <4>1, <4>2, <4>3 DEF DropLegacy
    <3>2. p \in Phase
      BY <3>1 DEF Phase
    <3> QED  BY <1>1, <3>1, <3>2, GoEffect
  <2> QED  BY <2>1, <2>2
<1>6. Known
  BY <1>2 DEF Known, Seated
<1>7. Order'
  BY <1>2, <1>4, <1>5, <1>6, OtherSetup, SameSeeds, OrderStays DEF Cleaning, Columns
<1>8. OldGone'
  BY <1>2, <1>5, OldStays DEF Seated
<1> QED  BY <1>7, <1>8

LEMMA SeedRefresh ==
  ASSUME SeedInv, NEW i \in Isolate, Refresh(i)
  PROVE  Order' /\ OldGone'
<1> DEFINE n == setup[i].at
<1>1. /\ TypeInv /\ setup[i].phase = "refresh" /\ setup[i].phase \in Seeding
      /\ n \in 1..Len(Seeds) /\ n \in Nat /\ Len(Seeds) \in Nat
  BY SeedFacts DEF SeedInv, TypeInv, InRange, Refresh, Seeding
<1>2. UNCHANGED <<templates, edited, removed, cut, repair>> /\ old' = old \ {Seeds[n]}
  BY DEF Refresh, ghosts
<1>3. /\ \A j \in Isolate : j # i => setup'[j] = setup[j]
      /\ \/ n = Len(Seeds) /\ setup'[i].phase = "find"
         \/ setup'[i].phase = "refresh" /\ setup'[i].at = n + 1
  BY <1>1, NextSeedEffect DEF Refresh
<1>4. Known
  BY <1>1 DEF Known
<1>5. Order'
  BY <1>1, <1>2, <1>3, <1>4, OtherSetup, SameSeeds, OrderStays
<1>6. OldGone'
  <2> SUFFICES ASSUME NEW j \in Isolate, NEW m \in 1..Len(Seeds), Seeds[m] \in old',
                      \/ Seated(j)' \/ setup'[j].phase = "insert"
                      \/ setup'[j].phase = "refresh" /\ m < setup'[j].at
               PROVE  Seeds[m] \in (Touched \cup cut)'
    BY SeedFacts DEF OldGone
  <2>1. CASE j = i
    <3>1. m # n /\ m \in Nat /\ m <= Len(Seeds)
      BY <1>1, <1>2
    <3>2. m < n
      <4>1. CASE n = Len(Seeds)
        BY <1>1, <3>1, <4>1
      <4>2. CASE setup'[i].phase = "refresh" /\ setup'[i].at = n + 1
        BY <1>1, <2>1, <3>1, <4>2 DEF Seated, Cleaning, Columns
      <4> QED  BY <1>3, <4>1, <4>2
    <3> QED  BY <1>1, <1>2, <3>2, SeedFacts DEF SeedInv, OldGone, Touched
  <2>2. CASE j # i
    BY <1>2, <1>3, <2>2, SeedFacts DEF SeedInv, OldGone, Seated, Touched
  <2> QED  BY <2>1, <2>2
<1> QED  BY <1>5, <1>6

(* What AddSeed and GiveUp do to the rows that count.                      *)
LEMMA WrittenSeed ==
  ASSUME SeedInv, NEW n \in 1..Len(Seeds), AddSeed(Seeds[n]),
         \A m \in 1..Len(Seeds) : m < n => Seeds[m] \in Settled
  PROVE  Written(n) /\ old' = old /\ UNCHANGED <<edited, removed>>
BY SeedFacts DEF AddSeed, Written, Settled, Touched

LEMMA StoppedSeed ==
  ASSUME SeedInv, NEW n \in 1..Len(Seeds), GiveUp(n),
         \A m \in 1..Len(Seeds) : m < n => Seeds[m] \in Settled
  PROVE  Stopped(n) /\ UNCHANGED <<old, edited, removed>> /\ cut \subseteq cut'
<1>1. UNCHANGED <<templates, old, edited, removed>> /\ cut \subseteq cut'
  BY DEF GiveUp, database
<1>2. \/ \A m \in n..Len(Seeds) : Seeds[m] \in cut'
      \/ Seeds[n] \in templates \ Touched
  BY FromFacts, SeedFacts DEF GiveUp, From
<1>3. \A m \in 1..Len(Seeds) : Seeds[m] \in Settled => Seeds[m] \in Settled'
  BY <1>1 DEF Settled, Touched
<1> QED  BY <1>1, <1>2, <1>3 DEF Stopped

LEMMA SeedInsert ==
  ASSUME SeedInv, NEW i \in Isolate, Insert(i)
  PROVE  Order' /\ OldGone'
<1> DEFINE n == setup[i].at
<1>1. /\ TypeInv /\ TypeOK /\ setup[i].phase = "insert" /\ setup[i].phase \in Seeding
      /\ n \in 1..Len(Seeds) /\ UNCHANGED repair /\ old \subseteq templates
  BY DEF SeedInv, TypeInv, InRange, Insert, Seeding, TypeOK
<1>2. \A m \in 1..Len(Seeds) : m < n => Seeds[m] \in Settled
  BY <1>1, SeedFacts DEF SeedInv, PassedSettled
<1>3. CASE AddSeed(Seeds[n]) /\ NextSeed(i)
  <2>1. Goes(i, n)
    BY <1>1, <1>3, NextSeedEffect DEF Goes, Advance
  <2>2. Written(n) /\ old' = old /\ UNCHANGED <<edited, removed>>
    BY <1>1, <1>2, <1>3, WrittenSeed
  <2>3. Order'
    BY <1>1, <2>1, <2>2, OrderWrite
  <2>4. \A s \in old : s \in cut => s \in cut'
    BY <1>1, <1>3 DEF AddSeed
  <2>5. OldGone'
    BY <1>1, <2>1, <2>2, <2>4, SeedFacts
       DEF SeedInv, OldGone, Goes, Seated, Touched
  <2> QED  BY <2>3, <2>5
<1>4. CASE GiveUp(n) /\ Go(i, "find", 1)
  <2>1. /\ setup'[i].phase = "find"
        /\ \A j \in Isolate : j # i => setup'[j] = setup[j]
    BY <1>1, <1>4, GoEffect, PhaseFacts DEF Cleaning
  <2>2. Stopped(n) /\ UNCHANGED <<old, edited, removed>> /\ cut \subseteq cut'
    BY <1>1, <1>2, <1>4, StoppedSeed
  <2>3. \A j \in Isolate : Halted(j, n)
    BY <1>1, <2>1 DEF Halted
  <2>4. Order'
    BY <1>1, <2>2, <2>3, OrderCut
  <2>5. OldGone'
    BY <1>1, <2>1, <2>2, SeedFacts DEF SeedInv, OldGone, Seated, Touched
  <2> QED  BY <2>4, <2>5
<1> QED  BY <1>3, <1>4 DEF Insert

LEMMA SeedStops ==
  ASSUME SeedInv, NEW i \in Isolate, SeedFails(i)
  PROVE  Order' /\ OldGone'
<1> DEFINE n == setup[i].at
<1>1. /\ TypeOK /\ setup[i].phase \in {"count", "refresh"} /\ setup[i].phase \in Seeding
      /\ n \in 1..Len(Seeds) /\ Len(Seeds) \in Nat
      /\ UNCHANGED <<templates, old, edited, removed, repair>>
      /\ cut' = cut \cup From(n)
  BY SeedFacts DEF SeedInv, InRange, SeedFails, Seeding, database
<1>2. /\ setup'[i].phase = "find"
      /\ \A j \in Isolate : j # i => setup'[j] = setup[j]
  BY <1>1, GoEffect, PhaseFacts DEF SeedFails, Cleaning
<1>3. \A m \in 1..Len(Seeds) : n <= m => Seeds[m] \in cut'
  BY <1>1, FromFacts
<1>4. Order'
  <2>1. CASE setup[i].phase = "count"
    <3>1. n = 1 /\ 1 \in 1..Len(Seeds)
      BY <1>1, <2>1 DEF SeedInv, InRange
    <3>2. \A m \in 1..Len(Seeds) : Seeds[m] \in cut'
      BY <1>1, <1>3, <3>1
    <3>3. Stopped(1)
      BY <1>1, <3>2 DEF Stopped, Settled, Touched
    <3>4. \A j \in Isolate : Halted(j, 1)
      BY <1>1, <1>2, <2>1 DEF Halted
    <3> QED  BY <3>1, <3>3, <3>4, OrderCut
  <2>2. CASE setup[i].phase = "refresh"
    <3>1. Known
      BY <2>2 DEF Known
    <3>2. Quiet
      BY <1>1, <3>1 DEF Quiet, Settled, Touched
    <3> QED  BY <1>1, <1>2, <3>2, OtherSetup, OrderStays
  <2> QED  BY <1>1, <2>1, <2>2
<1>5. OldGone'
  <2> SUFFICES ASSUME NEW j \in Isolate, NEW m \in 1..Len(Seeds), Seeds[m] \in old',
                      \/ Seated(j)' \/ setup'[j].phase = "insert"
                      \/ setup'[j].phase = "refresh" /\ m < setup'[j].at
               PROVE  Seeds[m] \in (Touched \cup cut)'
    BY SeedFacts DEF OldGone
  <2>1. CASE j = i
    <3>1. n <= m \/ m < n
      BY <1>1
    <3>2. CASE m < n
      <4>1. setup[i].phase # "count"
        BY <1>1, <3>2 DEF SeedInv, InRange
      <4> QED  BY <1>1, <3>2, <4>1, SeedFacts DEF SeedInv, OldGone, Touched
    <3> QED  BY <1>3, <3>1, <3>2
  <2>2. CASE j # i
    BY <1>1, <1>2, <2>2, SeedFacts DEF SeedInv, OldGone, Seated, Touched
  <2> QED  BY <2>1, <2>2
<1> QED  BY <1>4, <1>5

(* POST /api/admin/seed leaves every set-up where it is.                   *)
LEMMA SeedRepair ==
  ASSUME SeedInv, NEW i \in Isolate,
         StartRepair(i) \/ Select(i) \/ Update(i) \/ Write(i) \/ RepairFails(i)
  PROVE  Order' /\ OldGone'
<1> DEFINE n == repair[i].at
<1>1. /\ TypeInv /\ TypeOK /\ old \subseteq templates
      /\ UNCHANGED <<setup, edited, removed>>
  BY DEF SeedInv, TypeInv, TypeOK, StartRepair, Select, Update, Write, RepairFails,
         Change, ghosts, AddSeed, GiveUp
<1>2. repair[i].phase # "idle" =>
        /\ n \in 1..Len(Seeds) /\ n \in Nat
        /\ \A m \in 1..Len(Seeds) : m < n => Seeds[m] \in Settled
  BY SeedFacts DEF SeedInv, InRange, PassedSettled
<1>3. CASE StartRepair(i) \/ Select(i)
  <2>1. UNCHANGED <<templates, old, edited, removed, cut>>
    BY <1>3 DEF StartRepair, Select, Change, database, ghosts
  <2>2. Quiet
    BY <1>1, <2>1, SameSeeds DEF Known, Seated
  <2>3. \A j \in Isolate : Unmoved(j)
    <3>1. CASE StartRepair(i)
      <4>1. GoRepair(i, "select", 1) /\ repair[i].phase = "idle"
        BY <3>1 DEF StartRepair
      <4>2. /\ repair'[i].phase = "select" /\ repair'[i].at = 1
            /\ \A j \in Isolate : j # i => repair'[j] = repair[j]
        BY <1>1, <4>1, GoRepairEffect DEF RepairPhase
      <4> QED  BY <1>1, <4>1, <4>2 DEF Unmoved
    <3>2. CASE Select(i)
      <4>1. PICK p \in {"update", "write"} :
              GoRepair(i, p, n) /\ (p = "update" => Seeds[n] \in templates)
        BY <3>2 DEF Select
      <4>2. p \in RepairPhase /\ repair[i].phase = "select" /\ n \in Nat
        BY <1>2, <3>2 DEF RepairPhase, Select
      <4>3. /\ repair'[i].phase = p /\ repair'[i].at = n
            /\ \A j \in Isolate : j # i => repair'[j] = repair[j]
        BY <1>1, <4>1, <4>2, GoRepairEffect
      <4> QED  BY <1>1, <2>1, <4>1, <4>2, <4>3 DEF Unmoved, Settled
    <3> QED  BY <1>3, <3>1, <3>2
  <2>4. Order'
    BY <2>2, <2>3, OrderStays
  <2>5. OldGone'
    BY <1>1, <2>1, OldStays
  <2> QED  BY <2>4, <2>5
<1>4. CASE Update(i)
  <2>1. /\ UNCHANGED <<templates, cut>> /\ old' \subseteq old /\ NextRepair(i)
        /\ repair[i].phase = "update" /\ n \in 1..Len(Seeds)
    BY <1>2, <1>4 DEF Update, ghosts
  <2>2. Seeds[n] \in Settled
    BY <2>1, SeedFacts DEF SeedInv, PassedSettled
  <2>3. Goes(i, n)
    BY <1>1, <2>1, NextRepairEffect DEF Goes, Advance
  <2>4. Written(n)
    BY <1>1, <1>2, <2>1, <2>2 DEF Written, Settled, Touched
  <2>5. Order'
    BY <2>1, <2>3, <2>4, OrderWrite
  <2>6. OldGone'
    BY <1>1, <2>1, OldStays
  <2> QED  BY <2>5, <2>6
<1>5. CASE Write(i) /\ AddSeed(Seeds[n]) /\ NextRepair(i)
  <2>1. repair[i].phase # "idle" /\ n \in 1..Len(Seeds)
    BY <1>2, <1>5 DEF Write
  <2>2. Goes(i, n)
    BY <1>1, <1>5, <2>1, NextRepairEffect DEF Goes, Advance
  <2>3. Written(n) /\ old' = old /\ UNCHANGED <<edited, removed>>
    BY <1>2, <1>5, <2>1, WrittenSeed
  <2>4. Order'
    BY <2>1, <2>2, <2>3, OrderWrite
  <2>5. \A s \in old : s \in cut => s \in cut'
    BY <1>1, <1>5 DEF AddSeed
  <2>6. OldGone'
    BY <1>1, <2>3, <2>5, SeedFacts DEF SeedInv, OldGone, Seated, Touched
  <2> QED  BY <2>4, <2>6
<1>6. CASE ((Write(i) /\ GiveUp(n)) \/ RepairFails(i)) /\ GoRepair(i, "idle", 1)
  <2>1. repair[i].phase # "idle" /\ n \in 1..Len(Seeds)
    BY <1>2, <1>6 DEF Write, RepairFails
  <2>2. /\ repair'[i].phase = "idle"
        /\ \A j \in Isolate : j # i => repair'[j] = repair[j]
    BY <1>1, <1>6, GoRepairEffect DEF RepairPhase
  <2>3. Stopped(n) /\ UNCHANGED <<old, edited, removed>> /\ cut \subseteq cut'
    <3>1. CASE GiveUp(n)
      BY <1>2, <2>1, <3>1, StoppedSeed
    <3>2. CASE RepairFails(i)
      <4>1. UNCHANGED <<templates, old, edited, removed>> /\ cut' = cut \cup From(n)
        BY <3>2 DEF RepairFails, database
      <4>2. \A m \in n..Len(Seeds) : Seeds[m] \in cut'
        BY <4>1 DEF From
      <4> QED  BY <1>2, <2>1, <4>1, <4>2 DEF Stopped, Settled, Touched
    <3> QED  BY <1>6, <3>1, <3>2
  <2>4. \A j \in Isolate : Halted(j, n)
    BY <1>1, <2>1, <2>2 DEF Halted
  <2>5. Order'
    BY <2>1, <2>3, <2>4, OrderCut
  <2>6. OldGone'
    BY <1>1, <2>3, SeedFacts DEF SeedInv, OldGone, Seated, Touched
  <2> QED  BY <2>5, <2>6
<1> QED  BY <1>3, <1>4, <1>5, <1>6 DEF Write, RepairFails

LEMMA SeedRestart ==
  ASSUME SeedInv, NEW i \in Isolate, Restart(i)
  PROVE  Order' /\ OldGone'
<1>1. /\ TypeOK /\ UNCHANGED <<templates, old, edited, removed>>
      /\ cut' = cut \cup Todo(i)
  BY DEF SeedInv, Restart, database
<1>2. /\ setup'[i].phase = "none" /\ repair'[i].phase = "idle"
      /\ \A j \in Isolate : j # i => setup'[j] = setup[j] /\ repair'[j] = repair[j]
  BY <1>1, GoEffect, GoRepairEffect DEF Restart, Phase, RepairPhase
<1>3. \A m \in 1..Len(Seeds) : Seeds[m] \in Settled => Seeds[m] \in Settled'
  BY <1>1 DEF Settled, Touched
<1>4. ASSUME NEW k \in Nat, NEW m \in 1..Len(Seeds), Due(k, m)
      PROVE  Seeds[m] \in Settled' \/ Due(k, m)'
  <2>1. PICK j \in Isolate :
          \/ setup[j].phase = "insert" /\ k < setup[j].at /\ setup[j].at <= m
          \/ repair[j].phase # "idle" /\ k < repair[j].at /\ repair[j].at <= m
    BY <1>4 DEF Due
  <2>2. CASE j # i
    BY <1>2, <2>1, <2>2 DEF Due
  <2>3. CASE j = i
    <3>1. Seeds[m] \in Todo(i)
      BY <2>1, <2>3, FromFacts DEF Todo, SeedInv, InRange, Seeding
    <3> QED  BY <1>1, <3>1 DEF Settled
  <2> QED  BY <2>2, <2>3
<1>5. Known' => Known
  BY <1>1, <1>2 DEF Known, Seated, Cleaning, Columns
<1>6. AllSeeded'
  BY <1>3, <1>4, <1>5, SeedFacts DEF SeedInv, AllSeeded
<1>7. PassedSettled'
  BY <1>2, <1>3, SeedFacts DEF SeedInv, PassedSettled
<1>8. RestFollows'
  BY <1>1, <1>3, <1>4, SeedFacts DEF SeedInv, RestFollows, Touched
<1>9. OldGone'
  BY <1>1, <1>2, SeedFacts DEF SeedInv, OldGone, Seated, Touched, Cleaning, Columns
<1> QED  BY <1>6, <1>7, <1>8, <1>9 DEF Order

LEMMA SeedPanel ==
  ASSUME SeedInv, UNCHANGED <<setup, repair, cut>>,
         \/ \E id \in Id : Panel(id)
         \/ \E c \in Columns, r \in Row, id \in Id \cup {NoTemplate} : Bind(c, r, id)
  PROVE  Order' /\ OldGone'
<1>1. /\ edited \subseteq edited' /\ removed \subseteq removed' /\ old' \subseteq old \cup edited'
      /\ templates \subseteq templates' \cup removed'
      /\ templates' \subseteq templates \cup edited' /\ Served
  BY DEF Panel, AddTemplate, EditTemplate, RemoveTemplate, Bind, Change
<1>2. Known
  BY <1>1 DEF Served, Known, Seated
<1>3. Quiet
  BY <1>1, <1>2 DEF Quiet, Settled, Touched
<1>4. Order'
  BY <1>3, OrderStays DEF Unmoved
<1>5. OldGone'
  BY <1>1, SeedFacts DEF SeedInv, OldGone, Seated, Touched
<1> QED  BY <1>4, <1>5

(* An isolate that serves finds the seeds there, or to come from another,  *)
(* or missing for a reason (seedIfEmpty, refreshSeedTemplates).            *)
THEOREM SeedsAreInPlace == Spec => []SeedsInPlace
<1>1. Init => SeedInv
  <2> SUFFICES ASSUME Init
               PROVE  SeedInv
    OBVIOUS
  <2>1. TypeOK /\ InRange
    BY TypeInit DEF TypeInv
  <2>2. /\ \A j \in Isolate : setup[j].phase = "none" /\ repair[j].phase = "idle"
        /\ templates # {} => cut = Seed \ templates
    BY DEF Init, To
  <2>3. AllSeeded /\ RestFollows
    BY <2>2, SeedFacts DEF AllSeeded, RestFollows, Known, Seated, Settled, Cleaning, Columns
  <2>4. PassedSettled /\ OldGone
    BY <2>2 DEF PassedSettled, OldGone, Seated, Cleaning, Columns
  <2> QED  BY <2>1, <2>3, <2>4 DEF SeedInv
<1>2. SeedInv /\ [Next]_vars => SeedInv'
  <2> SUFFICES ASSUME SeedInv, [Next]_vars
               PROVE  SeedInv'
    OBVIOUS
  <2>1. TypeInv /\ TypeInv'
    BY TypeNext DEF SeedInv, TypeInv
  <2>2. ASSUME UNCHANGED vars
        PROVE  Order' /\ OldGone'
    <3>1. /\ UNCHANGED <<templates, old, setup, repair, edited, removed, cut>>
          /\ Known' => Known
      BY <2>2 DEF vars, database, ghosts, Known, Seated
    <3> QED  BY <3>1, SameSeeds, OrderStays, OldStays DEF Unmoved
  <2>3. ASSUME NEW i \in Isolate, Step(i)
        PROVE  Order' /\ OldGone'
    BY <2>3, SeedCreate, SeedCount, SeedClean, SeedRefresh, SeedInsert, SeedStops,
       SeedRepair, SeedRestart DEF Step
  <2>4. Order' /\ OldGone'
    BY <2>1, <2>2, <2>3, PanelType, SeedPanel DEF Next, Serve
  <2> QED  BY <2>1, <2>4 DEF SeedInv, TypeInv, Order
<1>3. SeedInv => SeedsInPlace
  <2> SUFFICES ASSUME SeedInv, NEW i \in Isolate, NEW m \in 1..Len(Seeds),
                      setup[i].phase = "ready"
               PROVE  \/ Seeds[m] \in templates \ old
                      \/ Seeds[m] \in Touched \cup cut
                      \/ \E j \in Isolate : Seeds[m] \in Todo(j)
    BY SeedFacts DEF SeedsInPlace, Seed
  <2>1. Seeds[m] \in Settled \/ Due(0, m)
    BY SeedFacts DEF SeedInv, AllSeeded, Known, Seated
  <2>2. Seeds[m] \in old => Seeds[m] \in Touched \cup cut
    BY SeedFacts DEF SeedInv, OldGone, Seated
  <2>3. Due(0, m) => \E j \in Isolate : Seeds[m] \in Todo(j)
    BY FromFacts DEF Due, Todo, SeedInv, InRange, Seeding
  <2> QED  BY <2>1, <2>2, <2>3 DEF Settled
<1> QED  BY <1>1, <1>2, <1>3, PTL DEF Spec
=============================================================================
