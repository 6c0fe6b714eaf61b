----------------------------- MODULE DebuggerProofs -----------------------------
(* Theorems about the debugger, for every program, every set of points and     *)
(* every number of threads and data bases, when the user is Careful and the    *)
(* program keeps to its code (KeepsToItsCode): code is restored whenever the   *)
(* program stops, stops are in time and have a reason, and no point in force   *)
(* is run through.                                                             *)
(*                                                                             *)
(* The inductive invariant says what may be planted at each place of the       *)
(* command: nothing but a pause in the window, the step breakpoint alone       *)
(* during the first instruction, and the points of one data base, with the     *)
(* step breakpoint of a subroutine, during the rest.                           *)
EXTENDS Debugger, Sequences, TLAPS, FiniteSetTheorems

-------------------------------------------------------------------------------
(* The invariant.                                                              *)

Keys == Ddbs \X (PointVas \cup Data)
Point == [enable : BOOLEAN, expr : BOOLEAN, on : BOOLEAN, ret : BOOLEAN]
Points == UNION {[D -> Point] : D \in SUBSET Keys}
Private == [va : Vas \cup {None}, on : BOOLEAN, ret : BOOLEAN]
Bytes == [rets : SUBSET Vas, points : Points, step : Private, temp : Private]
EE(Regs) == [cur : Threads, regs : [Threads -> Regs], inside : SUBSET Threads, stale : SUBSET Threads]
Commands ==
  [command : {"none", "free", "run", "in", "over"}, at : {"main", "free", "first", "rest"},
   bkpt : Keys \cup {None}, ret : Vas \cup {None}, sub : BOOLEAN, hit : Data \cup {None}, turn : BOOLEAN,
   ran : {0, 1}, paused : BOOLEAN, why : {"none", "step", "point", "nothing"}]
TypeInv(Regs) == ee \in EE(Regs) /\ bytes \in Bytes /\ curDdb \in Ddbs /\ dbg \in Commands

IsOn(b, k) == k \in DOMAIN b.points /\ b.points[k].on
OnAt(b, va) == \E k \in DOMAIN b.points : IsOn(b, k) /\ k[2] = va
SetAt(b, va) == \E k \in DOMAIN b.points : k[2] = va
Holds(p, va) == p.on /\ p.va = va
NoneOn(b) == \A k \in DOMAIN b.points : ~IsOn(b, k)

\* Each ret stands for something planted, and there is one over everything planted.
Matching(b) == \A va \in Vas : va \in b.rets <=> OnAt(b, va) \/ Holds(b.step, va) \/ Holds(b.temp, va)
\* A private breakpoint is lifted or at an instruction.
Good(p) == p = Lifted \/ (p.on /\ p.va \in Vas)
\* The points that are planted belong to one data base and replaced no ret.
OneOwner(b) ==
  \A k \in DOMAIN b.points : IsOn(b, k) =>
     /\ ~b.points[k].ret
     /\ \A l \in DOMAIN b.points : IsOn(b, l) => l[1] = k[1]
Sound(b) == b \in Bytes /\ Matching(b) /\ Good(b.step) /\ Good(b.temp) /\ OneOwner(b)

\* The command goes on after its first instruction.
Resting(d) == d.command = "run" \/ (d.command = "over" /\ d.sub)

\* What the step breakpoint is for, and where it stands.
StepInv(b, d, r) ==
  /\ d.at = "first" => b.step.on /\ ~b.step.ret /\ NoneOn(b) /\ ~b.temp.on
  /\ b.step.on => d.at = "first" \/ (d.at = "rest" /\ d.command = "over")
  /\ b.step.on => (b.step.ret <=> OnAt(b, b.step.va))
  /\ d.at = "first" => /\ d.ran = 0 => ~d.turn /\ b.step.va = Behind(r)
                       /\ d.ran = 1 => b.step.va = r.pc
\* Where the subroutine returns to.
SubInv(d, r) ==
  /\ d.sub => d.command = "over"
  /\ d.at = "first" /\ d.sub /\ d.bkpt = None =>
       IF d.ran = 0 THEN Code[r.pc].k = "jal" ELSE r.pc + 1 \in Vas
  /\ d.sub /\ (d.bkpt # None \/ d.at = "rest") => d.ret \in Vas
\* When points are planted, and which ones the command keeps.
PointsInv(b, d) ==
  /\ NoneOn(b) \/ d.at = "rest"
  /\ d.bkpt # None => d.at = "first" /\ d.bkpt \in DOMAIN b.points /\ Resting(d)
  /\ d.at = "rest" => Resting(d)
  /\ d.hit # None => d.at = "rest" /\ ~d.turn /\ ~b.temp.on /\ SetAt(b, d.hit)
\* A pause stands where the program is, and nothing else does.
PauseInv(b, d, r) ==
  b.temp.on =>
    /\ ~b.temp.ret /\ ~SetAt(b, b.temp.va)
    /\ b.step.on => b.step.va # b.temp.va
    /\ \/ d.at = "main"
       \/ d.at \in {"free", "rest"} /\ ~d.turn /\ d.paused /\ b.temp.va = r.pc

Inv(b, d, r) == Sound(b) /\ StepInv(b, d, r) /\ SubInv(d, r) /\ PointsInv(b, d) /\ PauseInv(b, d, r)
DebugInv(Regs) == TypeInv(Regs) /\ Inv(bytes, dbg, cpu) /\ StopHasReason

-------------------------------------------------------------------------------
(* Keys and points.                                                            *)

LEMMA KeyFacts ==
  ASSUME NEW k \in Keys, NEW l \in Keys
  PROVE  /\ k[1] \in Ddbs /\ k[2] \in PointVas \cup Data /\ k = <<k[1], k[2]>> /\ k # None
         /\ (k[1] = l[1] /\ k[2] = l[2]) => k = l
  <1>1. PointVas \subseteq Vas /\ None \notin Ddbs \X (Vas \cup Data)
    BY DebuggerAssumption
  <1>2. k[1] \in Ddbs /\ k[2] \in PointVas \cup Data /\ k = <<k[1], k[2]>> /\ l = <<l[1], l[2]>>
    BY DEF Keys
  <1>3. k \in Ddbs \X (Vas \cup Data)
    BY <1>1, <1>2
  <1> QED BY <1>1, <1>2, <1>3

\* A set of natural numbers has a least one: the smallest of the intervals from 0.
LEMMA LeastNumber ==
  ASSUME NEW T, T \subseteq Nat, T # {}
  PROVE  \E n \in T : \A m \in T : n <= m
  <1> DEFINE intervals == {0 .. n : n \in T}
  <1>1. intervals \subseteq FiniteSubsetsOf(Nat) /\ intervals # {}
    <2>1. \A n \in T : IsFiniteSet(0 .. n) /\ 0 .. n \subseteq Nat
      BY FS_Interval
    <2> QED BY <2>1 DEF FiniteSubsetsOf
  <1>2. IsWellFoundedOn(StrictSubsetOrdering(Nat), FiniteSubsetsOf(Nat))
    BY FS_StrictSubsetOrderingWellFounded
  <1>3. PICK least \in intervals : \A i \in intervals : ~(<<i, least>> \in StrictSubsetOrdering(Nat))
    <2> HIDE DEF intervals
    <2> QED BY <1>1, <1>2, WFMin
  <1>4. PICK n \in T : least = 0 .. n
    OBVIOUS
  <1>5. ASSUME NEW m \in T, m < n
        PROVE  FALSE
    <2>1. <<0 .. m, 0 .. n>> \in StrictSubsetOrdering(Nat)
      BY <1>5 DEF StrictSubsetOrdering
    <2> QED BY <1>3, <1>4, <2>1
  <1> QED BY <1>5

LEMMA PointsFacts ==
  ASSUME NEW p
  PROVE  p \in Points <=> DOMAIN p \subseteq Keys /\ p \in [DOMAIN p -> Point]
  BY DEF Points

LEMMA BytesFacts ==
  ASSUME NEW b \in Bytes
  PROVE  /\ b.rets \subseteq Vas /\ b.step \in Private /\ b.temp \in Private
         /\ DOMAIN b.points \subseteq Keys /\ b.points \in [DOMAIN b.points -> Point]
         /\ \A k \in DOMAIN b.points : b.points[k] \in Point
  <1>1. b.points \in Points /\ b.rets \subseteq Vas /\ b.step \in Private /\ b.temp \in Private
    BY DEF Bytes
  <1> QED BY <1>1, PointsFacts

\* The breakpoint a judgement finds is one of those at the address.
LEMMA FirstPointFacts ==
  ASSUME NEW b \in Bytes, NEW va
  PROVE  /\ SetAt(b, va) => FirstPoint(b, va) \in DOMAIN b.points
         /\ ~SetAt(b, va) => FirstPoint(b, va) = None
         /\ FirstPoint(b, va) # None => SetAt(b, va)
  <1> DEFINE found == {k \in DOMAIN b.points : k[2] = va}
             owners == {k[1] : k \in found}
  <1>1. CASE ~SetAt(b, va)
    BY <1>1 DEF SetAt, FirstPoint
  <1>2. CASE SetAt(b, va)
    <2>1. DOMAIN b.points \subseteq Keys
      BY BytesFacts
    <2>2. \A k \in found : k[1] \in Nat
      BY <2>1, KeyFacts, DebuggerAssumption
    <2>3. owners \subseteq Nat /\ owners # {}
      BY <1>2, <2>2 DEF SetAt
    <2>4. PICK n \in owners : \A m \in owners : n <= m
      <3> HIDE DEF owners
      <3> QED BY <2>3, LeastNumber
    <2>5. PICK k \in found : k[1] = n
      OBVIOUS
    <2>6. \A l \in found : k[1] <= l[1]
      BY <2>4, <2>5
    <2>7. FirstPoint(b, va) = CHOOSE j \in found : \A l \in found : j[1] <= l[1]
      BY <1>2 DEF SetAt, FirstPoint
    <2>8. FirstPoint(b, va) \in found
      BY <2>6, <2>7
    <2> QED BY <1>2, <2>8
  <1> QED BY <1>1, <1>2

-------------------------------------------------------------------------------
(* Planting and lifting.                                                       *)

LEMMA OnFacts ==
  ASSUME NEW b \in Bytes, OneOwner(b), NEW k \in DOMAIN b.points, NEW l \in DOMAIN b.points,
         IsOn(b, k), IsOn(b, l), k[2] = l[2]
  PROVE  k = l
  BY BytesFacts, KeyFacts DEF OneOwner

LEMMA PrivateFacts ==
  ASSUME NEW va \in Vas, NEW ret \in BOOLEAN, NEW p, p = [va |-> va, on |-> TRUE, ret |-> ret]
  PROVE  p \in Private /\ p.on /\ p.va = va /\ (p.ret <=> ret)
  BY DEF Private

LEMMA PrivateOver ==
  ASSUME NEW va \in Vas, NEW rets, NEW p, p = [va |-> va, on |-> TRUE, ret |-> va \in rets]
  PROVE  p \in Private /\ p.on /\ p.va = va /\ (p.ret <=> va \in rets)
  <1>1. CASE va \in rets
    <2>1. p = [va |-> va, on |-> TRUE, ret |-> TRUE]
      BY <1>1, Zenon
    <2> QED BY <1>1, <2>1, PrivateFacts
  <1>2. CASE va \notin rets
    <2>1. (va \in rets) = FALSE
      BY <1>2
    <2>2. p = [va |-> va, on |-> TRUE, ret |-> FALSE]
      BY <2>1, Zenon
    <2> QED BY <1>2, <2>2, PrivateFacts
  <1> QED BY <1>1, <1>2

LEMMA PlantStep ==
  ASSUME NEW b, Sound(b), ~b.step.on, NEW va \in Vas,
         NEW c, c = Plant(b, "step", va)
  PROVE  /\ Sound(c) /\ c.points = b.points /\ c.temp = b.temp
         /\ c.step.on /\ c.step.va = va /\ (c.step.ret <=> va \in b.rets)
  <1>1. b \in Bytes /\ b.rets \subseteq Vas
    BY BytesFacts DEF Sound
  <1>2. c = [b EXCEPT !.rets = b.rets \cup {va}, !.step = [va |-> va, on |-> TRUE, ret |-> va \in b.rets]]
    BY DEF Plant
  <1>3. /\ c.rets = b.rets \cup {va} /\ c.points = b.points /\ c.temp = b.temp
        /\ c.step = [va |-> va, on |-> TRUE, ret |-> va \in b.rets]
    BY <1>1, <1>2 DEF Bytes
  <1>4. c.step \in Private /\ c.step.on /\ c.step.va = va /\ (c.step.ret <=> va \in b.rets)
    BY <1>3, PrivateOver
  <1>5. c.rets \in SUBSET Vas
    BY <1>1, <1>3
  <1>6. c \in Bytes
    BY <1>1, <1>2, <1>3, <1>4, <1>5 DEF Bytes
  <1>7. Matching(c)
    BY <1>3, <1>4 DEF Sound, Matching, OnAt, IsOn, Holds
  <1>8. Good(c.step) /\ Good(c.temp) /\ OneOwner(c)
    BY <1>3, <1>4 DEF Sound, Good, OneOwner, IsOn
  <1> QED BY <1>3, <1>4, <1>6, <1>7, <1>8 DEF Sound

LEMMA PlantTemp ==
  ASSUME NEW b, Sound(b), ~b.temp.on, NEW va \in Vas,
         NEW c, c = Plant(b, "temp", va)
  PROVE  /\ Sound(c) /\ c.points = b.points /\ c.step = b.step
         /\ c.temp.on /\ c.temp.va = va /\ (c.temp.ret <=> va \in b.rets)
  <1>1. b \in Bytes /\ b.rets \subseteq Vas
    BY BytesFacts DEF Sound
  <1>2. c = [b EXCEPT !.rets = b.rets \cup {va}, !.temp = [va |-> va, on |-> TRUE, ret |-> va \in b.rets]]
    BY DEF Plant
  <1>3. /\ c.rets = b.rets \cup {va} /\ c.points = b.points /\ c.step = b.step
        /\ c.temp = [va |-> va, on |-> TRUE, ret |-> va \in b.rets]
    BY <1>1, <1>2 DEF Bytes
  <1>4. c.temp \in Private /\ c.temp.on /\ c.temp.va = va /\ (c.temp.ret <=> va \in b.rets)
    BY <1>3, PrivateOver
  <1>5. c.rets \in SUBSET Vas
    BY <1>1, <1>3
  <1>6. c \in Bytes
    BY <1>1, <1>2, <1>3, <1>4, <1>5 DEF Bytes
  <1>7. Matching(c)
    BY <1>3, <1>4 DEF Sound, Matching, OnAt, IsOn, Holds
  <1>8. Good(c.step) /\ Good(c.temp) /\ OneOwner(c)
    BY <1>3, <1>4 DEF Sound, Good, OneOwner, IsOn
  <1> QED BY <1>3, <1>4, <1>6, <1>7, <1>8 DEF Sound

\* A private breakpoint that knows whether it replaced a ret is lifted without trace.
LEMMA LiftStep ==
  ASSUME NEW b, Sound(b), NEW c, c = Lift(b, "step"),
         b.step.on => (b.step.ret <=> OnAt(b, b.step.va) \/ Holds(b.temp, b.step.va))
  PROVE  Sound(c) /\ c.points = b.points /\ c.temp = b.temp /\ c.step = Lifted
  <1>1. b \in Bytes /\ b.rets \subseteq Vas
    BY BytesFacts DEF Sound
  <1>2. CASE ~b.step.on
    BY <1>2 DEF Lift, Sound, Good
  <1>3. CASE b.step.on
    <2> DEFINE rets == Restored(b.rets, b.step.va, b.step.ret)
    <2>1. c = [b EXCEPT !.rets = rets, !.step = Lifted]
      BY <1>3 DEF Lift
    <2>2. rets \in SUBSET Vas /\ Lifted \in Private /\ b.step.va \in Vas
      BY <1>1, <1>3 DEF Restored, Lifted, Private, Sound, Good
    <2>3. \A va \in Vas : va \in rets <=> OnAt(b, va) \/ Holds(b.temp, va)
      <3>1. \A va \in Vas : va # b.step.va => (va \in rets <=> va \in b.rets)
        BY DEF Restored
      <3>2. b.step.va \in rets <=> b.step.ret
        BY DEF Restored
      <3> HIDE DEF rets
      <3> QED BY <1>3, <3>1, <3>2 DEF Sound, Matching, Holds
    <2> HIDE DEF rets
    <2>4. c.rets = rets /\ c.points = b.points /\ c.temp = b.temp /\ c.step = Lifted
      BY <1>1, <2>1 DEF Bytes
    <2>5. c \in Bytes
      BY <1>1, <2>1, <2>2 DEF Bytes
    <2>6. ~c.step.on
      BY <2>4 DEF Lifted
    <2>7. Matching(c)
      BY <2>3, <2>4, <2>6 DEF Matching, OnAt, IsOn, Holds
    <2>8. Good(c.step) /\ Good(c.temp) /\ OneOwner(c)
      BY <2>4 DEF Sound, Good, OneOwner, IsOn
    <2> QED BY <2>4, <2>5, <2>7, <2>8 DEF Sound
  <1> QED BY <1>2, <1>3

LEMMA LiftTemp ==
  ASSUME NEW b, Sound(b), NEW c, c = Lift(b, "temp"),
         b.temp.on => (b.temp.ret <=> OnAt(b, b.temp.va) \/ Holds(b.step, b.temp.va))
  PROVE  Sound(c) /\ c.points = b.points /\ c.step = b.step /\ c.temp = Lifted
  <1>1. b \in Bytes /\ b.rets \subseteq Vas
    BY BytesFacts DEF Sound
  <1>2. CASE ~b.temp.on
    BY <1>2 DEF Lift, Sound, Good
  <1>3. CASE b.temp.on
    <2> DEFINE rets == Restored(b.rets, b.temp.va, b.temp.ret)
    <2>1. c = [b EXCEPT !.rets = rets, !.temp = Lifted]
      BY <1>3 DEF Lift
    <2>2. rets \in SUBSET Vas /\ Lifted \in Private /\ b.temp.va \in Vas
      BY <1>1, <1>3 DEF Restored, Lifted, Private, Sound, Good
    <2>3. \A va \in Vas : va \in rets <=> OnAt(b, va) \/ Holds(b.step, va)
      <3>1. \A va \in Vas : va # b.temp.va => (va \in rets <=> va \in b.rets)
        BY DEF Restored
      <3>2. b.temp.va \in rets <=> b.temp.ret
        BY DEF Restored
      <3> HIDE DEF rets
      <3> QED BY <1>3, <3>1, <3>2 DEF Sound, Matching, Holds
    <2> HIDE DEF rets
    <2>4. c.rets = rets /\ c.points = b.points /\ c.step = b.step /\ c.temp = Lifted
      BY <1>1, <2>1 DEF Bytes
    <2>5. c \in Bytes
      BY <1>1, <2>1, <2>2 DEF Bytes
    <2>6. ~c.temp.on
      BY <2>4 DEF Lifted
    <2>7. Matching(c)
      BY <2>3, <2>4, <2>6 DEF Matching, OnAt, IsOn, Holds
    <2>8. Good(c.step) /\ Good(c.temp) /\ OneOwner(c)
      BY <2>4 DEF Sound, Good, OneOwner, IsOn
    <2> QED BY <2>4, <2>5, <2>7, <2>8 DEF Sound
  <1> QED BY <1>2, <1>3

\* Points of one data base are planted when no private breakpoint is.
LEMMA PointsOnFacts ==
  ASSUME NEW b, Sound(b), ~b.step.on, ~b.temp.on, NEW keys, keys \subseteq DOMAIN b.points,
         \A k, l \in DOMAIN b.points : (k \in keys \/ IsOn(b, k)) /\ (l \in keys \/ IsOn(b, l)) => k[1] = l[1],
         NEW c, c = PointsOn(b, keys)
  PROVE  /\ Sound(c) /\ c.step = b.step /\ c.temp = b.temp
         /\ DOMAIN c.points = DOMAIN b.points
         /\ \A k \in DOMAIN b.points : IsOn(c, k) <=> IsOn(b, k) \/ k \in keys
  <1> DEFINE new == {k \in keys : ~b.points[k].on}
             P == [k \in DOMAIN b.points |->
                     IF k \in new THEN [b.points[k] EXCEPT !.on = TRUE, !.ret = k[2] \in b.rets] ELSE b.points[k]]
             R == b.rets \cup ({k[2] : k \in new} \cap Vas)
  <1>1. b \in Bytes /\ b.rets \subseteq Vas /\ DOMAIN b.points \subseteq Keys
        /\ \A k \in DOMAIN b.points : b.points[k] \in Point
    BY BytesFacts DEF Sound
  <1>2. c = [b EXCEPT !.points = P, !.rets = R]
    BY DEF PointsOn
  <1>3. DOMAIN P = DOMAIN b.points /\ new \subseteq keys
    OBVIOUS
  <1>4. \A k \in DOMAIN b.points \ new : P[k] = b.points[k]
    OBVIOUS
  <1>5. \A k \in new : P[k] = [b.points[k] EXCEPT !.on = TRUE, !.ret = k[2] \in b.rets]
    BY <1>3
  <1>6. \A k \in new : P[k] \in Point /\ P[k].on /\ (P[k].ret <=> k[2] \in b.rets)
    <2> TAKE k \in new
    <2>1. b.points[k] \in Point /\ P[k] = [b.points[k] EXCEPT !.on = TRUE, !.ret = k[2] \in b.rets]
      BY <1>1, <1>5
    <2> HIDE DEF P
    <2>2. CASE k[2] \in b.rets
      <3>1. P[k] = [b.points[k] EXCEPT !.on = TRUE, !.ret = TRUE]
        <4>1. (k[2] \in b.rets) = TRUE
          BY <2>2
        <4> QED BY <2>1, <4>1, Zenon
      <3> QED BY <2>1, <2>2, <3>1 DEF Point
    <2>3. CASE k[2] \notin b.rets
      <3>1. P[k] = [b.points[k] EXCEPT !.on = TRUE, !.ret = FALSE]
        <4>1. (k[2] \in b.rets) = FALSE
          BY <2>3
        <4> QED BY <2>1, <4>1, Zenon
      <3> QED BY <2>1, <2>3, <3>1 DEF Point
    <2> QED BY <2>2, <2>3
  <1>7. \A k \in new : k \in DOMAIN b.points /\ ~IsOn(b, k)
    BY DEF IsOn
  <1>8. \A k \in keys \ new : IsOn(b, k)
    BY DEF IsOn
  <1>9. R \subseteq Vas /\ \A va \in Vas : va \in R <=> va \in b.rets \/ \E k \in new : k[2] = va
    BY <1>1
  <1>10. P \in Points
    BY <1>1, <1>3, <1>4, <1>6, PointsFacts
  <1> HIDE DEF new, P, R
  <1>11. c.points = P /\ c.rets = R /\ c.step = b.step /\ c.temp = b.temp
    BY <1>1, <1>2 DEF Bytes
  <1>12. c \in Bytes
    BY <1>1, <1>2, <1>9, <1>10 DEF Bytes
  <1>13. \A k \in DOMAIN b.points : IsOn(c, k) <=> IsOn(b, k) \/ k \in keys
    BY <1>3, <1>4, <1>6, <1>7, <1>8, <1>11 DEF IsOn
  <1>14. \A k \in DOMAIN b.points : IsOn(c, k) <=> IsOn(b, k) \/ k \in new
    BY <1>3, <1>13, <1>8
  <1>15. Matching(c)
    BY <1>3, <1>7, <1>9, <1>11, <1>14 DEF Sound, Matching, OnAt, Holds
  <1>16. \A k \in new : k[2] \notin b.rets
    <2> SUFFICES ASSUME NEW k \in new, k[2] \in b.rets
                 PROVE  FALSE
      OBVIOUS
    <2>1. PICK l \in DOMAIN b.points : IsOn(b, l) /\ l[2] = k[2]
      BY <1>1 DEF Sound, Matching, OnAt, Holds
    <2>2. k[1] = l[1] /\ k \in DOMAIN b.points
      BY <1>3, <1>7, <2>1
    <2>3. k = l
      BY <1>1, <2>1, <2>2, KeyFacts
    <2> QED BY <1>7, <2>1, <2>3
  <1>17. OneOwner(c)
    <2>1. \A k \in DOMAIN c.points : IsOn(c, k) => ~c.points[k].ret
      BY <1>3, <1>4, <1>6, <1>11, <1>14, <1>16 DEF Sound, OneOwner
    <2> QED BY <1>3, <1>11, <1>13, <2>1 DEF OneOwner
  <1> QED BY <1>3, <1>11, <1>12, <1>13, <1>15, <1>17 DEF Sound

\* They are lifted where no private breakpoint stands.
LEMMA PointsOffFacts ==
  ASSUME NEW b, Sound(b), NEW keys, NEW c, c = PointsOff(b, keys),
         \A k \in keys : IsOn(b, k) => ~Holds(b.step, k[2]) /\ ~Holds(b.temp, k[2])
  PROVE  /\ Sound(c) /\ c.step = b.step /\ c.temp = b.temp
         /\ DOMAIN c.points = DOMAIN b.points
         /\ \A k \in DOMAIN b.points : IsOn(c, k) <=> IsOn(b, k) /\ k \notin keys
  <1> DEFINE lifted == {k \in keys \cap DOMAIN b.points : b.points[k].on}
             P == [k \in DOMAIN b.points |->
                     IF k \in lifted THEN [b.points[k] EXCEPT !.on = FALSE, !.ret = FALSE] ELSE b.points[k]]
             R == (b.rets \ {k[2] : k \in lifted}) \cup {k[2] : k \in {l \in lifted : b.points[l].ret}}
  <1>1. b \in Bytes /\ b.rets \subseteq Vas /\ DOMAIN b.points \subseteq Keys
        /\ \A k \in DOMAIN b.points : b.points[k] \in Point
    BY BytesFacts DEF Sound
  <1>2. c = [b EXCEPT !.points = P, !.rets = R]
    BY DEF PointsOff
  <1>3. DOMAIN P = DOMAIN b.points
    OBVIOUS
  <1>4. \A k \in DOMAIN b.points \ lifted : P[k] = b.points[k]
    OBVIOUS
  <1>5. \A k \in lifted : P[k] \in Point /\ ~P[k].on
    <2> TAKE k \in lifted
    <2>1. b.points[k] \in Point /\ P[k] = [b.points[k] EXCEPT !.on = FALSE, !.ret = FALSE]
      BY <1>1
    <2> QED BY <2>1 DEF Point
  <1>6. \A k \in DOMAIN b.points : k \in lifted <=> k \in keys /\ IsOn(b, k)
    BY DEF IsOn
  <1>7. lifted \subseteq DOMAIN b.points
    OBVIOUS
  <1>8. R = b.rets \ {k[2] : k \in lifted}
    <2>1. \A l \in lifted : ~b.points[l].ret
      BY <1>6, <1>7 DEF Sound, OneOwner
    <2> QED BY <2>1
  <1>9. P \in Points
    BY <1>1, <1>3, <1>4, <1>5, PointsFacts
  <1>10. \A va : va \in R <=> va \in b.rets /\ \A k \in lifted : k[2] # va
    BY <1>8
  <1> HIDE DEF lifted, P, R
  <1>11. c.points = P /\ c.rets = R /\ c.step = b.step /\ c.temp = b.temp
    BY <1>1, <1>2 DEF Bytes
  <1>12. c \in Bytes
    BY <1>1, <1>2, <1>9, <1>10 DEF Bytes
  <1>13. \A k \in DOMAIN b.points : IsOn(c, k) <=> IsOn(b, k) /\ k \notin keys
    BY <1>3, <1>4, <1>5, <1>6, <1>11 DEF IsOn
  <1>14. \A va : OnAt(c, va) <=> OnAt(b, va) /\ \A k \in lifted : k[2] # va
    <2> TAKE va
    <2>1. ASSUME OnAt(c, va)
          PROVE  OnAt(b, va) /\ \A k \in lifted : k[2] # va
      <3>1. PICK k \in DOMAIN b.points : IsOn(c, k) /\ k[2] = va
        BY <1>3, <1>11, <2>1 DEF OnAt
      <3>2. IsOn(b, k) /\ k \notin keys
        BY <1>13, <3>1
      <3>3. \A l \in lifted : l[2] = va => l = k
        BY <1>1, <1>6, <1>7, <3>1, <3>2, OnFacts DEF Sound
      <3> QED BY <1>6, <1>7, <3>1, <3>2, <3>3 DEF OnAt
    <2>2. ASSUME OnAt(b, va), \A k \in lifted : k[2] # va
          PROVE  OnAt(c, va)
      BY <1>3, <1>6, <1>11, <1>13, <2>2 DEF OnAt
    <2> QED BY <2>1, <2>2
  <1>15. \A k \in lifted : ~Holds(b.step, k[2]) /\ ~Holds(b.temp, k[2])
    BY <1>6, <1>7
  <1>16. Matching(c)
    BY <1>10, <1>11, <1>14, <1>15 DEF Sound, Matching, Holds
  <1>17. OneOwner(c)
    <2>1. \A k \in DOMAIN c.points : IsOn(c, k) => IsOn(b, k) /\ k \notin lifted
      BY <1>3, <1>6, <1>11, <1>13
    <2> QED BY <1>3, <1>4, <1>11, <2>1 DEF Sound, OneOwner
  <1> QED BY <1>3, <1>11, <1>12, <1>13, <1>16, <1>17 DEF Sound

-------------------------------------------------------------------------------
(* Where the command starts and stops.                                         *)

LEMMA NoneOnFacts ==
  ASSUME NEW b, NoneOn(b)
  PROVE  \A va : ~OnAt(b, va)
  BY DEF NoneOn, OnAt

LEMMA CpuFacts ==
  ASSUME NEW Regs, KeepsToItsCode(Regs), TypeInv(Regs)
  PROVE  /\ ee.cur \in Threads /\ cpu \in Regs /\ cpu.pc \in Vas
         /\ Behind(cpu) \in Vas /\ Behind(cpu) # cpu.pc /\ Executed(cpu) \in Regs
         /\ Code[cpu.pc].k = "jal" => Behind(cpu) + 1 \in Vas
  <1>1. ee.cur \in Threads /\ ee.regs \in [Threads -> Regs]
    BY DEF TypeInv, EE
  <1>2. cpu \in Regs
    BY <1>1 DEF cpu
  <1> QED BY <1>1, <1>2 DEF KeepsToItsCode

LEMMA HomeFacts ==
  ASSUME NEW Regs, TypeInv(Regs), ee' = Home
  PROVE  ee' \in EE(Regs) /\ cpu' = cpu
  <1>1. ee \in EE(Regs)
    BY DEF TypeInv
  <1>2. PICK i \in SUBSET Threads : ee' = [ee EXCEPT !.inside = i]
    BY <1>1 DEF Home, EE
  <1>3. ee' \in EE(Regs) /\ ee'.cur = ee.cur /\ ee'.regs = ee.regs
    BY <1>1, <1>2 DEF EE
  <1> QED BY <1>3 DEF cpu

\* Whatever was planted is lifted, but for a pause.
LEMMA Stopping ==
  ASSUME NEW Regs, TypeInv(Regs), ee' \in EE(Regs), curDdb' = curDdb,
         NEW b, Sound(b), NoneOn(b), ~b.step.on,
         b.temp.on => ~b.temp.ret /\ ~SetAt(b, b.temp.va),
         NEW why \in {"step", "point", "nothing"}, Stop(b, why), why = "nothing" => dbg.paused
  PROVE  DebugInv(Regs)'
  <1>1. dbg \in Commands
    BY DEF TypeInv
  <1>2. bytes' = b /\ b \in Bytes
    BY DEF Stop, Sound
  <1>3. dbg' = [dbg EXCEPT !.at = "main", !.command = "none", !.turn = FALSE, !.bkpt = None, !.hit = None,
                           !.ret = None, !.sub = FALSE, !.ran = 0, !.why = why]
    BY DEF Stop
  <1>4. /\ dbg'.at = "main" /\ dbg'.bkpt = None /\ dbg'.hit = None /\ dbg'.sub = FALSE
        /\ dbg'.why = why /\ dbg'.paused = dbg.paused
    BY <1>1, <1>3 DEF Commands
  <1>5. dbg' \in Commands
    BY <1>1, <1>3 DEF Commands
  <1>6. StopHasReason'
    BY <1>4 DEF StopHasReason
  <1>7. TypeInv(Regs)'
    BY <1>2, <1>5 DEF TypeInv
  <1>8. StepInv(b, dbg', cpu') /\ SubInv(dbg', cpu') /\ PointsInv(b, dbg') /\ PauseInv(b, dbg', cpu')
    BY <1>4 DEF StepInv, SubInv, PointsInv, PauseInv
  <1>9. Inv(bytes', dbg', cpu')
    BY <1>2, <1>8 DEF Inv
  <1> QED BY <1>6, <1>7, <1>9 DEF DebugInv

\* Nothing is planted when the first instruction is about to run.
LEMMA Beginning ==
  ASSUME NEW Regs, KeepsToItsCode(Regs), TypeInv(Regs), ee' \in EE(Regs), cpu' = cpu, curDdb' = curDdb,
         NEW b, Sound(b), NoneOn(b), ~b.step.on, ~b.temp.on,
         NEW d \in Commands, First(b, d), SubInv([d EXCEPT !.at = "first", !.ran = 0], cpu),
         d.bkpt # None => d.bkpt \in DOMAIN b.points /\ Resting(d),
         d.why = "nothing" => d.paused
  PROVE  DebugInv(Regs)'
  <1>1. cpu.pc \in Vas /\ Behind(cpu) \in Vas
    BY CpuFacts
  <1>2. bytes' = Plant(b, "step", Behind(cpu))
    BY DEF First
  <1>3. PICK c : c = Plant(b, "step", Behind(cpu))
    OBVIOUS
  <1>4. /\ Sound(c) /\ c.points = b.points /\ c.temp = b.temp
        /\ c.step.on /\ c.step.va = Behind(cpu) /\ (c.step.ret <=> Behind(cpu) \in b.rets)
    BY <1>1, <1>3, PlantStep
  <1>5. NoneOn(c) /\ ~c.temp.on
    BY <1>4 DEF NoneOn, IsOn
  <1>6. ~c.step.ret
    <2>1. Behind(cpu) \notin b.rets
      BY <1>1, NoneOnFacts DEF Sound, Matching, Holds
    <2> QED BY <1>4, <2>1
  <1>7. dbg' = [d EXCEPT !.at = "first", !.hit = None, !.turn = FALSE, !.ran = 0]
    BY DEF First
  <1>8. /\ dbg'.at = "first" /\ dbg'.hit = None /\ ~dbg'.turn /\ dbg'.ran = 0
        /\ dbg'.command = d.command /\ dbg'.sub = d.sub /\ dbg'.bkpt = d.bkpt /\ dbg'.ret = d.ret
        /\ dbg'.why = d.why /\ dbg'.paused = d.paused
    BY <1>7 DEF Commands
  <1>9. dbg' \in Commands
    BY <1>7 DEF Commands
  <1>10. StepInv(c, dbg', cpu)
    BY <1>4, <1>5, <1>6, <1>8, NoneOnFacts DEF StepInv
  <1>11. SubInv(dbg', cpu)
    <2> DEFINE e == [d EXCEPT !.at = "first", !.ran = 0]
    <2>1. e.at = "first" /\ e.ran = 0 /\ e.sub = d.sub /\ e.command = d.command /\ e.bkpt = d.bkpt /\ e.ret = d.ret
      BY DEF Commands
    <2> HIDE DEF e
    <2>2. SubInv(e, cpu)
      BY DEF e
    <2> QED BY <1>8, <2>1, <2>2 DEF SubInv
  <1>12. PointsInv(c, dbg')
    BY <1>4, <1>5, <1>8 DEF PointsInv, Resting
  <1>13. PauseInv(c, dbg', cpu)
    BY <1>5 DEF PauseInv
  <1>14. Inv(bytes', dbg', cpu')
    BY <1>2, <1>3, <1>4, <1>10, <1>11, <1>12, <1>13 DEF Inv
  <1>15. StopHasReason'
    BY <1>8 DEF StopHasReason
  <1>16. TypeInv(Regs)'
    BY <1>2, <1>3, <1>4, <1>9 DEF TypeInv, Sound
  <1> QED BY <1>14, <1>15, <1>16 DEF DebugInv

\* Nothing but a pause is planted in the window and while the program runs free.
LEMMA QuietFacts ==
  ASSUME Inv(bytes, dbg, cpu), dbg.at \in {"main", "free"}
  PROVE  NoneOn(bytes) /\ ~bytes.step.on /\ dbg.hit = None /\ dbg.bkpt = None
  BY DEF Inv, PointsInv, StepInv

LEMMA InitHolds ==
  ASSUME NEW Regs, KeepsToItsCode(Regs), DebuggerInit
  PROVE  DebugInv(Regs)
  <1>1. ee.cur \in Threads /\ ee \in EE(Regs)
    <2> DEFINE t0 == CHOOSE t \in Threads : \A u \in Threads : t <= u
    <2>1. t0 \in Threads
      BY DebuggerAssumption, LeastNumber
    <2>2. ee = [cur |-> t0, regs |-> [t \in Threads |-> [pc |-> Entry[t], jump |-> None, ra |-> None]],
                inside |-> {}, stale |-> {}]
      BY DEF DebuggerInit
    <2> HIDE DEF t0
    <2>3. [t \in Threads |-> [pc |-> Entry[t], jump |-> None, ra |-> None]] \in [Threads -> Regs]
      BY DEF KeepsToItsCode
    <2> QED BY <2>1, <2>2, <2>3 DEF EE
  <1>2. bytes = [rets |-> {}, points |-> << >>, step |-> Lifted, temp |-> Lifted]
    BY DEF DebuggerInit
  <1>3. bytes.rets = {} /\ bytes.points = << >> /\ bytes.step = Lifted /\ bytes.temp = Lifted
    BY <1>2
  <1>4. DOMAIN bytes.points = {}
    BY <1>3
  <1>5. Lifted \in Private /\ ~Lifted.on
    BY DEF Lifted, Private
  <1>6. bytes.points \in Points
    <2>1. << >> \in Seq(Point)
      OBVIOUS
    <2>2. << >> \in [{} -> Point]
      BY <2>1
    <2>3. bytes.points \in [DOMAIN bytes.points -> Point]
      BY <1>3, <1>4, <2>2
    <2> QED BY <1>4, <2>3, PointsFacts
  <1>7. bytes \in Bytes
    BY <1>2, <1>5, <1>6, <1>3 DEF Bytes
  <1>8. Sound(bytes) /\ NoneOn(bytes) /\ ~bytes.step.on /\ ~bytes.temp.on
    BY <1>3, <1>4, <1>5, <1>7 DEF Sound, Matching, OnAt, Holds, Good, OneOwner, NoneOn
  <1>9. dbg \in Commands /\ dbg.at = "main" /\ dbg.bkpt = None /\ dbg.hit = None /\ ~dbg.sub /\ dbg.why = "none"
    BY DEF DebuggerInit, Commands
  <1>10. Inv(bytes, dbg, cpu)
    BY <1>8, <1>9 DEF Inv, StepInv, SubInv, PointsInv, PauseInv
  <1>11. TypeInv(Regs)
    BY <1>1, <1>7, <1>9 DEF TypeInv, DebuggerInit
  <1> QED BY <1>9, <1>10, <1>11 DEF DebugInv, StopHasReason

-------------------------------------------------------------------------------
(* Running.                                                                    *)

\* Code goes on only where nothing is planted; a pause is where the program is.
LEMMA RunningFacts ==
  ASSUME NEW Regs, KeepsToItsCode(Regs), DebugInv(Regs), ~Idle, ~Blocked
  PROVE  /\ dbg.hit = None /\ ~bytes.temp.on /\ ~OnAt(bytes, cpu.pc) /\ ~Holds(bytes.step, cpu.pc)
         /\ dbg.at = "first" => dbg.ran = 0
  <1>1. cpu.pc \in Vas /\ cpu.pc \notin bytes.rets /\ dbg.hit = None
    BY CpuFacts DEF DebugInv, Blocked
  <1>2. ~OnAt(bytes, cpu.pc) /\ ~Holds(bytes.step, cpu.pc) /\ ~Holds(bytes.temp, cpu.pc)
    BY <1>1 DEF DebugInv, Inv, Sound, Matching
  <1>3. ~bytes.temp.on
    BY <1>2 DEF DebugInv, Inv, PauseInv, Holds, Idle
  <1>4. dbg.at = "first" => dbg.ran # 1
    BY <1>2 DEF DebugInv, Inv, StepInv, Holds
  <1>5. dbg.ran \in {0, 1}
    BY DEF DebugInv, TypeInv, Commands
  <1> QED BY <1>1, <1>2, <1>3, <1>4, <1>5

\* What the step breakpoint becomes while an instruction runs.
LEMMA FollowedFacts ==
  ASSUME NEW b, Sound(b), ~b.temp.on, b.step.on => (b.step.ret <=> OnAt(b, b.step.va)),
         NEW i, NEW behind, NEW goes \in Vas, NEW c, c = Followed(b, i, behind, goes)
  PROVE  /\ Sound(c) /\ c.points = b.points /\ ~c.temp.on /\ (c.step.on <=> b.step.on)
         /\ c.step.on => (c.step.ret <=> OnAt(c, c.step.va))
         /\ c.step.on /\ (i.k = "switch" \/ (i.k = "eret" /\ b.step.va = behind)) => c.step.va = goes
         /\ ~(i.k = "switch" \/ (i.k = "eret" /\ b.step.va = behind)) => c = b
  <1>1. CASE b.step.on /\ (i.k = "switch" \/ (i.k = "eret" /\ b.step.va = behind))
    <2>1. PICK l : l = Lift(b, "step")
      OBVIOUS
    <2>2. Sound(l) /\ l.points = b.points /\ l.temp = b.temp /\ l.step = Lifted
      BY <2>1, LiftStep DEF Holds
    <2>3. ~l.step.on
      BY <2>2 DEF Lifted
    <2>4. c = Plant(l, "step", goes)
      BY <1>1, <2>1 DEF Followed
    <2>5. /\ Sound(c) /\ c.points = l.points /\ c.temp = l.temp
          /\ c.step.on /\ c.step.va = goes /\ (c.step.ret <=> goes \in l.rets)
      BY <2>2, <2>3, <2>4, PlantStep
    <2>6. goes \in l.rets <=> OnAt(l, goes)
      BY <2>2, <2>3 DEF Sound, Matching, Holds
    <2>7. OnAt(l, goes) <=> OnAt(c, goes)
      BY <2>5 DEF OnAt, IsOn
    <2> QED BY <1>1, <2>2, <2>5, <2>6, <2>7
  <1>2. CASE ~(b.step.on /\ (i.k = "switch" \/ (i.k = "eret" /\ b.step.va = behind)))
    BY <1>2 DEF Followed
  <1> QED BY <1>1, <1>2

LEMMA ExecutedFacts ==
  ASSUME NEW r
  PROVE  Executed(r).pc = IF Code[r.pc].k = "eret" THEN Code[r.pc].to ELSE Behind(r)
  BY DEF Executed

LEMMA InstructionMoves ==
  ASSUME NEW Regs, KeepsToItsCode(Regs), TypeInv(Regs), Instruction
  PROVE  /\ ee' \in EE(Regs) /\ cpu' \in Regs /\ cpu'.pc \in Vas
         /\ bytes' = Followed(bytes, Code[cpu.pc], Behind(cpu), cpu'.pc)
         /\ Code[cpu.pc].k # "switch" => cpu' = Executed(cpu)
  <1> DEFINE i == Code[cpu.pc]
             next == IF i.k = "switch" THEN CHOOSE t \in Threads : t # ee.cur ELSE ee.cur
             regs == [ee.regs EXCEPT ![ee.cur] = Executed(cpu)]
  <1>1. /\ ee.cur \in Threads /\ ee.regs \in [Threads -> Regs] /\ ee \in EE(Regs)
        /\ cpu.pc \in Vas /\ Executed(cpu) \in Regs
    BY CpuFacts DEF TypeInv, EE
  <1>2. next \in Threads
    <2>1. CASE i.k = "switch"
      <3>1. Threads # {ee.cur}
        BY <1>1, <2>1, DebuggerAssumption
      <3>2. \E t \in Threads : t # ee.cur
        BY <1>1, <3>1
      <3> QED BY <2>1, <3>2
    <2> QED BY <1>1, <2>1
  <1>3. regs \in [Threads -> Regs] /\ regs[ee.cur] = Executed(cpu)
    BY <1>1
  <1>4. /\ ee' = [ee EXCEPT !.cur = next, !.regs = regs, !.inside = @ \cup {ee.cur}]
        /\ bytes' = Followed(bytes, i, Behind(cpu), regs[next].pc)
    BY DEF Instruction
  <1>5. i.k # "switch" => next = ee.cur
    OBVIOUS
  <1> HIDE DEF next, regs
  <1>6. ee' \in EE(Regs) /\ ee'.cur = next /\ ee'.regs = regs
    BY <1>1, <1>2, <1>3, <1>4 DEF EE
  <1>7. cpu' = regs[next] /\ cpu' \in Regs
    BY <1>2, <1>3, <1>6 DEF cpu
  <1>8. cpu'.pc \in Vas
    BY <1>7 DEF KeepsToItsCode
  <1> QED BY <1>3, <1>4, <1>5, <1>6, <1>7, <1>8

LEMMA InstructionKeeps ==
  ASSUME NEW Regs, KeepsToItsCode(Regs), DebugInv(Regs), Instruction
  PROVE  DebugInv(Regs)'
  <1> DEFINE i == Code[cpu.pc]
  <1> USE DEF Holds
  <1>1. ~Idle /\ ~Blocked /\ curDdb' = curDdb /\ TypeInv(Regs) /\ Inv(bytes, dbg, cpu) /\ dbg \in Commands
        /\ dbg' = [dbg EXCEPT !.turn = TRUE, !.ran = IF dbg.at = "first" /\ @ < 2 THEN @ + 1 ELSE @]
    BY DEF Instruction, DebugInv, TypeInv
  <1>2. dbg.hit = None /\ ~bytes.temp.on /\ (dbg.at = "first" => dbg.ran = 0) /\ dbg.ran \in {0, 1}
    BY <1>1, RunningFacts DEF Commands
  <1>3. PICK m \in {0, 1} : m = IF dbg.at = "first" THEN 1 ELSE dbg.ran
    BY <1>2
  <1>4. dbg' = [dbg EXCEPT !.turn = TRUE, !.ran = m]
    <2>1. (IF dbg.at = "first" /\ dbg.ran < 2 THEN dbg.ran + 1 ELSE dbg.ran) = m
      BY <1>2, <1>3
    <2>2. dbg' = [dbg EXCEPT !.turn = TRUE,
                             !.ran = IF dbg.at = "first" /\ dbg.ran < 2 THEN dbg.ran + 1 ELSE dbg.ran]
      BY <1>1
    <2> QED BY <2>1, <2>2, Zenon
  <1>5. /\ dbg'.at = dbg.at /\ dbg'.command = dbg.command /\ dbg'.sub = dbg.sub /\ dbg'.bkpt = dbg.bkpt
        /\ dbg'.ret = dbg.ret /\ dbg'.hit = None /\ dbg'.why = dbg.why /\ dbg'.paused = dbg.paused /\ dbg'.ran = m
    BY <1>1, <1>2, <1>4 DEF Commands
  <1>6. dbg' \in Commands
    BY <1>1, <1>4 DEF Commands
  <1>7. /\ ee' \in EE(Regs) /\ cpu'.pc \in Vas
        /\ bytes' = Followed(bytes, i, Behind(cpu), cpu'.pc)
        /\ i.k # "switch" => cpu' = Executed(cpu)
    BY <1>1, InstructionMoves
  <1>8. /\ cpu.pc \in Vas /\ (i.k = "jal" => Behind(cpu) + 1 \in Vas)
    BY <1>1, CpuFacts
  <1>9. Sound(bytes) /\ (bytes.step.on => (bytes.step.ret <=> OnAt(bytes, bytes.step.va)))
    BY <1>1 DEF Inv, StepInv
  <1>10. PICK c : c = Followed(bytes, i, Behind(cpu), cpu'.pc)
    OBVIOUS
  <1> HIDE DEF i
  <1>11. /\ Sound(c) /\ c.points = bytes.points /\ ~c.temp.on /\ (c.step.on <=> bytes.step.on)
         /\ c.step.on => (c.step.ret <=> OnAt(c, c.step.va))
         /\ c.step.on /\ (i.k = "switch" \/ (i.k = "eret" /\ bytes.step.va = Behind(cpu))) => c.step.va = cpu'.pc
         /\ ~(i.k = "switch" \/ (i.k = "eret" /\ bytes.step.va = Behind(cpu))) => c = bytes
    BY <1>2, <1>7, <1>9, <1>10, FollowedFacts
  <1>12. NoneOn(c) <=> NoneOn(bytes)
    BY <1>11 DEF NoneOn, IsOn
  <1>13. dbg.at = "first" => NoneOn(bytes) /\ bytes.step.on /\ bytes.step.va = Behind(cpu)
    BY <1>1, <1>2 DEF Inv, StepInv
  <1>14. dbg.at = "first" => c.step.va = cpu'.pc
    <2> SUFFICES ASSUME dbg.at = "first"
                 PROVE  c.step.va = cpu'.pc
      OBVIOUS
    <2>1. CASE i.k \in {"switch", "eret"}
      BY <1>11, <1>13, <2>1
    <2>2. CASE i.k \notin {"switch", "eret"}
      <3>1. cpu'.pc = Behind(cpu)
        BY <1>7, <2>2, ExecutedFacts DEF i
      <3> QED BY <1>11, <1>13, <2>2, <3>1
    <2> QED BY <2>1, <2>2
  <1>15. StepInv(c, dbg', cpu')
    <2>1. dbg.at = "first" => c.step.on /\ ~c.step.ret /\ NoneOn(c) /\ ~c.temp.on
      BY <1>11, <1>12, <1>13, NoneOnFacts
    <2>2. c.step.on => dbg.at = "first" \/ (dbg.at = "rest" /\ dbg.command = "over")
      BY <1>1, <1>11 DEF Inv, StepInv
    <2> QED BY <1>3, <1>5, <1>11, <1>14, <2>1, <2>2 DEF StepInv
  <1>16. SubInv(dbg', cpu')
    <2>1. SubInv(dbg, cpu)
      BY <1>1 DEF Inv
    <2>2. ASSUME dbg.at = "first", dbg.sub, dbg.bkpt = None
          PROVE  cpu'.pc + 1 \in Vas
      <3>1. i.k = "jal"
        BY <1>2, <2>1, <2>2 DEF SubInv, i
      <3>2. cpu'.pc = Behind(cpu)
        BY <1>7, <3>1, ExecutedFacts DEF i
      <3> QED BY <1>8, <3>1, <3>2
    <2> QED BY <1>3, <1>5, <2>1, <2>2 DEF SubInv
  <1>17. PointsInv(c, dbg')
    BY <1>1, <1>5, <1>11, <1>12 DEF Inv, PointsInv, Resting
  <1>18. PauseInv(c, dbg', cpu')
    BY <1>11 DEF PauseInv
  <1>19. Inv(bytes', dbg', cpu')
    BY <1>7, <1>10, <1>11, <1>15, <1>16, <1>17, <1>18 DEF Inv
  <1>20. StopHasReason'
    BY <1>5 DEF StopHasReason, DebugInv
  <1>21. TypeInv(Regs)'
    BY <1>1, <1>6, <1>7, <1>10, <1>11 DEF TypeInv, Sound
  <1> QED BY <1>19, <1>20, <1>21 DEF DebugInv

LEMMA MemoryBreakKeeps ==
  ASSUME NEW Regs, KeepsToItsCode(Regs), DebugInv(Regs), MemoryBreak
  PROVE  DebugInv(Regs)'
  <1> DEFINE i == Code[cpu.pc]
  <1>1. ~Idle /\ ~Blocked /\ Watching(i) # {} /\ TypeInv(Regs) /\ Inv(bytes, dbg, cpu) /\ dbg \in Commands
        /\ dbg' = [dbg EXCEPT !.hit = i.at, !.turn = FALSE]
        /\ ee' = ee /\ bytes' = bytes /\ curDdb' = curDdb
    BY DEF MemoryBreak, DebugInv, TypeInv
  <1>2. dbg.hit = None /\ ~bytes.temp.on /\ cpu.pc \in Vas
    BY <1>1, RunningFacts, CpuFacts
  <1>3. PICK k \in DOMAIN bytes.points : bytes.points[k].on /\ i.k = "mem" /\ k[2] = i.at
    BY <1>1 DEF Watching
  <1>4. i.at \in Data
    BY <1>2, <1>3 DEF Data
  <1> HIDE DEF i
  <1>5. SetAt(bytes, i.at) /\ ~NoneOn(bytes)
    BY <1>3 DEF SetAt, NoneOn, IsOn
  <1>6. dbg.at = "rest"
    BY <1>1, <1>5 DEF Inv, PointsInv
  <1>7. dbg' \in Commands
    BY <1>1, <1>4 DEF Commands
  <1>8. /\ dbg'.at = dbg.at /\ dbg'.command = dbg.command /\ dbg'.sub = dbg.sub /\ dbg'.bkpt = dbg.bkpt
        /\ dbg'.ret = dbg.ret /\ dbg'.hit = i.at /\ dbg'.why = dbg.why /\ dbg'.paused = dbg.paused
        /\ dbg'.ran = dbg.ran /\ ~dbg'.turn
    BY <1>1 DEF Commands
  <1>9. cpu' = cpu
    BY <1>1 DEF cpu
  <1>10. Inv(bytes, dbg', cpu)
    BY <1>1, <1>2, <1>5, <1>6, <1>8 DEF Inv, StepInv, SubInv, PointsInv, PauseInv, Resting
  <1>11. StopHasReason'
    BY <1>8 DEF StopHasReason, DebugInv
  <1>12. TypeInv(Regs)'
    BY <1>1, <1>7 DEF TypeInv
  <1> QED BY <1>1, <1>9, <1>10, <1>11, <1>12 DEF DebugInv

-------------------------------------------------------------------------------
(* The command.                                                                *)

LEMMA BlockedFacts ==
  ASSUME NEW Regs, KeepsToItsCode(Regs), DebugInv(Regs), Blocked, dbg.hit = None
  PROVE  OnAt(bytes, cpu.pc) \/ Holds(bytes.step, cpu.pc) \/ Holds(bytes.temp, cpu.pc)
  <1>1. cpu.pc \in Vas /\ cpu.pc \in bytes.rets
    BY CpuFacts DEF DebugInv, Blocked
  <1> QED BY <1>1 DEF DebugInv, Inv, Sound, Matching

LEMMA CommandKeeps ==
  ASSUME NEW Regs, KeepsToItsCode(Regs), DebugInv(Regs), NEW c \in {"free", "run", "in", "over"}, Command(c)
  PROVE  DebugInv(Regs)'
  <1> DEFINE d == [dbg EXCEPT !.command = c, !.paused = FALSE, !.sub = (c = "over" /\ Code[cpu.pc].k = "jal"), !.why = "none"]
  <1>1. dbg.at = "main" /\ ~bytes.temp.on /\ TypeInv(Regs) /\ Inv(bytes, dbg, cpu) /\ dbg \in Commands
        /\ ee' = ee /\ curDdb' = curDdb
    BY DEF Command, DebugInv, TypeInv, Idle
  <1>2. NoneOn(bytes) /\ ~bytes.step.on /\ dbg.hit = None /\ dbg.bkpt = None /\ Sound(bytes)
    BY <1>1, QuietFacts DEF Inv
  <1>3. cpu' = cpu /\ ee' \in EE(Regs)
    BY <1>1 DEF cpu, TypeInv
  <1>4. PICK sub \in BOOLEAN : sub = (c = "over" /\ Code[cpu.pc].k = "jal")
    OBVIOUS
  <1>5. d = [dbg EXCEPT !.command = c, !.paused = FALSE, !.sub = sub, !.why = "none"]
    BY <1>4, Zenon
  <1>6. sub => c = "over" /\ Code[cpu.pc].k = "jal"
    BY <1>4
  <1>7. IF c = "free" THEN dbg' = [d EXCEPT !.at = "free", !.turn = FALSE] /\ bytes' = bytes
        ELSE First(bytes, d)
    BY DEF Command
  <1> HIDE DEF d
  <1>8. d \in Commands /\ d.bkpt = None /\ d.hit = None /\ d.command = c /\ d.why = "none" /\ (d.sub <=> sub)
    BY <1>1, <1>2, <1>5 DEF Commands
  <1>9. CASE c = "free"
    <2>1. dbg' = [d EXCEPT !.at = "free", !.turn = FALSE] /\ bytes' = bytes
      BY <1>7, <1>9
    <2>2. /\ dbg' \in Commands /\ dbg'.at = "free" /\ dbg'.bkpt = None /\ dbg'.hit = None
          /\ dbg'.why = "none" /\ ~dbg'.sub
      BY <1>6, <1>8, <1>9, <2>1 DEF Commands
    <2>3. Inv(bytes, dbg', cpu)
      BY <1>1, <1>2, <2>2 DEF Inv, StepInv, SubInv, PointsInv, PauseInv
    <2>4. TypeInv(Regs)' /\ StopHasReason'
      BY <1>1, <2>1, <2>2 DEF TypeInv, StopHasReason
    <2> QED BY <1>3, <2>1, <2>3, <2>4 DEF DebugInv
  <1>10. CASE c # "free"
    <2>1. First(bytes, d)
      BY <1>7, <1>10
    <2>2. SubInv([d EXCEPT !.at = "first", !.ran = 0], cpu)
      <3> DEFINE e == [d EXCEPT !.at = "first", !.ran = 0]
      <3>1. e.at = "first" /\ e.ran = 0 /\ e.sub = d.sub /\ e.command = c /\ e.bkpt = None
        BY <1>8 DEF Commands
      <3> HIDE DEF e
      <3>2. SubInv(e, cpu)
        BY <1>6, <1>8, <3>1 DEF SubInv
      <3> QED BY <3>2 DEF e
    <2> QED BY <1>1, <1>2, <1>3, <1>8, <2>1, <2>2, Beginning
  <1> QED BY <1>9, <1>10

LEMMA LeaveFreeKeeps ==
  ASSUME NEW Regs, DebugInv(Regs), LeaveFree
  PROVE  DebugInv(Regs)'
  <1>1. dbg.at = "free" /\ ee' = Home /\ Stop(bytes, "step") /\ curDdb' = curDdb
        /\ TypeInv(Regs) /\ Inv(bytes, dbg, cpu)
    BY DEF LeaveFree, DebugInv
  <1>2. NoneOn(bytes) /\ ~bytes.step.on /\ Sound(bytes)
    BY <1>1, QuietFacts DEF Inv
  <1>3. bytes.temp.on => ~bytes.temp.ret /\ ~SetAt(bytes, bytes.temp.va)
    BY <1>1 DEF Inv, PauseInv
  <1>4. ee' \in EE(Regs)
    BY <1>1, HomeFacts
  <1> QED BY <1>1, <1>2, <1>3, <1>4, Stopping

\* At the end of the first instruction the step breakpoint was alone.
LEMMA LeaveFirstLifts ==
  ASSUME NEW Regs, KeepsToItsCode(Regs), DebugInv(Regs), dbg.at = "first", Blocked,
         NEW b, b = Lift(bytes, "step")
  PROVE  /\ Sound(b) /\ b.points = bytes.points /\ NoneOn(b) /\ ~b.step.on /\ ~b.temp.on
         /\ dbg.ran = 1
  <1>1. TypeInv(Regs) /\ Inv(bytes, dbg, cpu)
    BY DEF DebugInv
  <1>2. Sound(bytes) /\ NoneOn(bytes) /\ ~bytes.temp.on /\ dbg.hit = None
    BY <1>1 DEF Inv, StepInv, PointsInv
  <1>3. bytes.step.on => (bytes.step.ret <=> OnAt(bytes, bytes.step.va) \/ Holds(bytes.temp, bytes.step.va))
    BY <1>1, <1>2 DEF Inv, StepInv, Holds
  <1>4. Sound(b) /\ b.points = bytes.points /\ b.temp = bytes.temp /\ b.step = Lifted
    BY <1>2, <1>3, LiftStep
  <1>5. NoneOn(b) /\ ~b.step.on /\ ~b.temp.on
    BY <1>2, <1>4 DEF NoneOn, IsOn, Lifted
  <1>6. Holds(bytes.step, cpu.pc)
    BY <1>2, BlockedFacts, NoneOnFacts DEF Holds
  <1>7. dbg.ran # 0
    BY <1>1, <1>6, CpuFacts DEF Inv, StepInv, Holds
  <1> QED BY <1>1, <1>4, <1>5, <1>7 DEF TypeInv, Commands

\* Planting the points of the current data base, the one stepped over first.
LEMMA AllOnFacts ==
  ASSUME NEW b, Sound(b), ~b.step.on, ~b.temp.on, \A k \in DOMAIN b.points : IsOn(b, k) => k[1] = curDdb,
         NEW a, a = AllOn(b)
  PROVE  Sound(a) /\ a.step = b.step /\ a.temp = b.temp /\ DOMAIN a.points = DOMAIN b.points
  <1>3. PICK arming : arming = Arming(b, curDdb)
    OBVIOUS
  <1>4. arming \subseteq DOMAIN b.points /\ \A k \in arming : k[1] = curDdb
    BY <1>3 DEF Arming
  <1>5. a = PointsOn(b, arming)
    BY <1>3 DEF AllOn
  <1>6. \A k, l \in DOMAIN b.points : (k \in arming \/ IsOn(b, k)) /\ (l \in arming \/ IsOn(b, l)) => k[1] = l[1]
    BY <1>4
  <1> QED BY <1>4, <1>5, <1>6, PointsOnFacts

LEMMA ArmedFacts ==
  ASSUME NEW b, Sound(b), NoneOn(b), ~b.step.on, ~b.temp.on,
         NEW p, p = b \/ \E over \in DOMAIN b.points : over[1] = curDdb /\ p = PointsOn(b, {over}),
         NEW a, a = AllOn(p)
  PROVE  Sound(a) /\ a.step = b.step /\ a.temp = b.temp /\ DOMAIN a.points = DOMAIN b.points
  <1>1. \A k \in DOMAIN b.points : ~IsOn(b, k)
    BY DEF NoneOn
  <1>2. /\ Sound(p) /\ p.step = b.step /\ p.temp = b.temp /\ DOMAIN p.points = DOMAIN b.points
        /\ \A k \in DOMAIN b.points : IsOn(p, k) => k[1] = curDdb
    <2>1. CASE p = b
      BY <1>1, <2>1
    <2>2. ASSUME NEW over \in DOMAIN b.points, over[1] = curDdb, p = PointsOn(b, {over})
          PROVE  /\ Sound(p) /\ p.step = b.step /\ p.temp = b.temp /\ DOMAIN p.points = DOMAIN b.points
                 /\ \A k \in DOMAIN b.points : IsOn(p, k) => k[1] = curDdb
      <3>1. \A k, l \in DOMAIN b.points :
               (k \in {over} \/ IsOn(b, k)) /\ (l \in {over} \/ IsOn(b, l)) => k[1] = l[1]
        BY <1>1
      <3>2. /\ Sound(p) /\ p.step = b.step /\ p.temp = b.temp /\ DOMAIN p.points = DOMAIN b.points
            /\ \A k \in DOMAIN b.points : IsOn(p, k) <=> IsOn(b, k) \/ k \in {over}
        BY <2>2, <3>1, PointsOnFacts
      <3> QED BY <1>1, <2>2, <3>2
    <2> QED BY <2>1, <2>2
  <1>3. ~p.step.on /\ ~p.temp.on
    BY <1>2
  <1>4. Sound(a) /\ a.step = p.step /\ a.temp = p.temp /\ DOMAIN a.points = DOMAIN p.points
    BY <1>2, <1>3, AllOnFacts
  <1> QED BY <1>2, <1>4

LEMMA LeaveFirstKeeps ==
  ASSUME NEW Regs, KeepsToItsCode(Regs), DebugInv(Regs), LeaveFirst
  PROVE  DebugInv(Regs)'
  <1> DEFINE L == Lift(bytes, "step")
             B == IF dbg.bkpt = None \/ dbg.bkpt[1] # curDdb \/ dbg.bkpt \notin DOMAIN L.points THEN L
                  ELSE PointsOn(L, {dbg.bkpt})
             Ret == IF ~dbg.sub THEN None ELSE IF dbg.bkpt = None THEN cpu.pc + 1 ELSE dbg.ret
             D == [dbg EXCEPT !.at = "rest", !.bkpt = None, !.hit = None, !.turn = FALSE, !.ran = 0, !.ret = Ret]
             Goes == bytes' = AllOn(B) /\ dbg' = D
             Over == bytes' = Plant(AllOn(B), "step", Ret) /\ dbg' = D
  <1>1. /\ dbg.at = "first" /\ Blocked /\ ee' = Home /\ curDdb' = curDdb
        /\ TypeInv(Regs) /\ Inv(bytes, dbg, cpu) /\ dbg \in Commands
    BY DEF LeaveFirst, DebugInv, TypeInv
  <1>2. (CASE dbg.command = "run" -> Goes
           [] dbg.command = "over" /\ dbg.sub -> Over
           [] OTHER -> Stop(B, "step"))
    BY DEF LeaveFirst
  <1>3. /\ dbg.command = "run" => Goes
        /\ dbg.command = "over" /\ dbg.sub => Over
        /\ dbg.command # "run" /\ ~(dbg.command = "over" /\ dbg.sub) => Stop(B, "step")
    <2> HIDE DEF Goes, Over, B
    <2> QED BY <1>2
  <1>4. PICK l : l = L
    OBVIOUS
  <1>5. /\ Sound(l) /\ l.points = bytes.points /\ NoneOn(l) /\ ~l.step.on /\ ~l.temp.on
        /\ dbg.ran = 1
    BY <1>1, <1>4, LeaveFirstLifts
  <1>6. ee' \in EE(Regs) /\ cpu' = cpu
    BY <1>1, HomeFacts
  <1>7. dbg.sub => Ret \in Vas
    BY <1>1, <1>5 DEF Inv, SubInv
  <1>8. Ret \in Vas \cup {None}
    BY <1>7
  <1>9. PICK ret : ret = Ret
    OBVIOUS
  <1>10. CASE ~Resting(dbg)
    <2>1. dbg.bkpt = None
      BY <1>1, <1>10 DEF Inv, PointsInv
    <2>2. B = l
      BY <1>4, <2>1
    <2>3. Stop(l, "step")
      <3> HIDE DEF B
      <3> QED BY <1>3, <1>10, <2>2 DEF Resting
    <2> QED BY <1>1, <1>5, <1>6, <2>3, Stopping
  <1>11. CASE Resting(dbg)
    <2>1. PICK p : p = B
      OBVIOUS
    <2>2. p = l \/ \E over \in DOMAIN l.points : over[1] = curDdb /\ p = PointsOn(l, {over})
      BY <1>4, <2>1
    <2>3. PICK a : a = AllOn(p)
      OBVIOUS
    <2>4. Sound(a) /\ a.step = l.step /\ a.temp = l.temp /\ DOMAIN a.points = DOMAIN l.points
      <3> HIDE DEF B, L, Ret, D
      <3> QED BY <1>5, <2>2, <2>3, ArmedFacts
    <2>5. AllOn(B) = a
      BY <2>1, <2>3
    <2> HIDE DEF B, L, Ret
    <2>6. D \in Commands
      BY <1>1, <1>8 DEF Commands
    <2>7. /\ D.at = "rest" /\ D.bkpt = None /\ D.hit = None /\ D.sub = dbg.sub /\ D.command = dbg.command
          /\ D.ret = Ret /\ D.why = dbg.why /\ D.paused = dbg.paused
      BY <1>1 DEF Commands
    <2>8. dbg.sub => dbg.command = "over"
      BY <1>1 DEF Inv, SubInv
    <2> HIDE DEF D
    <2>9. dbg' = D
      BY <1>3, <1>11 DEF Resting
    <2>10. SubInv(D, cpu)
      BY <1>7, <2>7, <2>8 DEF SubInv
    <2>11. /\ Sound(bytes') /\ ~bytes'.temp.on
           /\ bytes'.step.on => dbg.command = "over" /\ (bytes'.step.ret <=> OnAt(bytes', bytes'.step.va))
      <3>1. CASE dbg.command = "run"
        <4>1. bytes' = a
          BY <1>3, <2>5, <3>1
        <4> QED BY <1>5, <2>4, <4>1
      <3>2. CASE dbg.command = "over" /\ dbg.sub
        <4>1. bytes' = Plant(a, "step", Ret) /\ Ret \in Vas
          BY <1>3, <1>7, <2>5, <3>2
        <4>2. /\ Sound(bytes') /\ bytes'.points = a.points /\ bytes'.temp = a.temp
              /\ bytes'.step.va = Ret /\ (bytes'.step.ret <=> Ret \in a.rets)
          BY <1>5, <2>4, <4>1, PlantStep
        <4>3. Ret \in a.rets <=> OnAt(a, Ret)
          BY <1>5, <2>4, <4>1 DEF Sound, Matching, Holds
        <4>4. OnAt(bytes', Ret) <=> OnAt(a, Ret)
          BY <4>2 DEF OnAt, IsOn
        <4> QED BY <1>5, <2>4, <3>2, <4>2, <4>3, <4>4
      <3> QED BY <1>11, <3>1, <3>2 DEF Resting
    <2>12. StepInv(bytes', D, cpu) /\ PointsInv(bytes', D) /\ PauseInv(bytes', D, cpu)
      BY <1>11, <2>7, <2>11 DEF StepInv, PointsInv, PauseInv, Resting
    <2>13. Inv(bytes', dbg', cpu')
      BY <1>6, <2>9, <2>10, <2>11, <2>12 DEF Inv
    <2>14. TypeInv(Regs)'
      BY <1>1, <1>6, <2>6, <2>9, <2>11 DEF TypeInv, Sound
    <2>15. StopHasReason'
      BY <2>7, <2>9 DEF StopHasReason, DebugInv
    <2> QED BY <2>13, <2>14, <2>15 DEF DebugInv
  <1> QED BY <1>10, <1>11

\* When the program has stopped all points are lifted, and the step breakpoint.
LEMMA LeaveRestLifts ==
  ASSUME NEW Regs, DebugInv(Regs), dbg.at = "rest", NEW b, b = AllOff(Lift(bytes, "step"))
  PROVE  /\ Sound(b) /\ NoneOn(b) /\ ~b.step.on /\ b.temp = bytes.temp
         /\ DOMAIN b.points = DOMAIN bytes.points
  <1>1. Sound(bytes) /\ StepInv(bytes, dbg, cpu) /\ PauseInv(bytes, dbg, cpu)
    BY DEF DebugInv, Inv
  <1>2. bytes.step.on => (bytes.step.ret <=> OnAt(bytes, bytes.step.va) \/ Holds(bytes.temp, bytes.step.va))
    BY <1>1 DEF StepInv, PauseInv, Holds
  <1>3. PICK l : l = Lift(bytes, "step")
    OBVIOUS
  <1>4. Sound(l) /\ l.points = bytes.points /\ l.temp = bytes.temp /\ l.step = Lifted
    BY <1>1, <1>2, <1>3, LiftStep
  <1>5. ~l.step.on
    BY <1>4 DEF Lifted
  <1>6. \A k \in DOMAIN l.points : ~Holds(l.temp, k[2])
    BY <1>1, <1>4 DEF PauseInv, SetAt, Holds
  <1>7. b = PointsOff(l, DOMAIN l.points)
    BY <1>3 DEF AllOff
  <1>8. \A k \in DOMAIN l.points : IsOn(l, k) => ~Holds(l.step, k[2]) /\ ~Holds(l.temp, k[2])
    BY <1>5, <1>6 DEF Holds
  <1>9. PICK keys : keys = DOMAIN l.points
    OBVIOUS
  <1>10. /\ Sound(b) /\ b.step = l.step /\ b.temp = l.temp /\ DOMAIN b.points = DOMAIN l.points
         /\ \A k \in DOMAIN l.points : IsOn(b, k) <=> IsOn(l, k) /\ k \notin keys
    BY <1>4, <1>7, <1>8, <1>9, PointsOffFacts
  <1> QED BY <1>4, <1>5, <1>9, <1>10 DEF NoneOn

LEMMA LeaveRestKeeps ==
  ASSUME NEW Regs, KeepsToItsCode(Regs), DebugInv(Regs), LeaveRest
  PROVE  DebugInv(Regs)'
  <1> DEFINE B == AllOff(Lift(bytes, "step"))
             va == IF dbg.hit # None THEN dbg.hit ELSE cpu.pc
             key == FirstPoint(B, va)
             why == IF dbg.command = "over" /\ cpu.pc = bytes.step.va THEN "step" ELSE "nothing"
  <1>1. /\ dbg.at = "rest" /\ Blocked /\ ee' = Home /\ curDdb' = curDdb
        /\ TypeInv(Regs) /\ Inv(bytes, dbg, cpu) /\ dbg \in Commands
    BY DEF LeaveRest, DebugInv, TypeInv
  <1>2. \/ key = None /\ Stop(B, why)
        \/ key # None /\ Stop(B, "point")
        \/ key # None /\ B.points[key].expr /\ First(B, [dbg EXCEPT !.bkpt = key])
    BY DEF LeaveRest
  <1>3. PICK b : b = B
    OBVIOUS
  <1>4. /\ Sound(b) /\ NoneOn(b) /\ ~b.step.on /\ b.temp = bytes.temp
        /\ DOMAIN b.points = DOMAIN bytes.points
    BY <1>1, <1>3, LeaveRestLifts
  <1>5. ee' \in EE(Regs) /\ cpu' = cpu
    BY <1>1, HomeFacts
  <1>6. b.temp.on => ~b.temp.ret /\ ~SetAt(b, b.temp.va) /\ b.temp.va = cpu.pc /\ dbg.paused
    BY <1>1, <1>4 DEF Inv, PauseInv, SetAt
  <1>7. b \in Bytes /\ bytes \in Bytes
    BY <1>4, <1>1 DEF Sound, Inv
  <1>8. SetAt(b, va) => key \in DOMAIN b.points
    BY <1>3, <1>7, FirstPointFacts
  <1>9. key # None => SetAt(b, va)
    BY <1>3, <1>7, FirstPointFacts
  <1>10. key \in DOMAIN b.points => key # None /\ key \in Keys
    BY <1>7, BytesFacts, KeyFacts
  <1> HIDE DEF B, key
  <1>11. CASE key = None /\ Stop(B, why)
    <2>1. ~SetAt(b, va)
      BY <1>8, <1>10, <1>11
    <2>2. dbg.hit = None /\ va = cpu.pc
      BY <1>1, <1>4, <2>1 DEF Inv, PointsInv, SetAt
    <2>3. ~OnAt(bytes, cpu.pc)
      BY <1>4, <2>1, <2>2 DEF SetAt, OnAt
    <2>4. Holds(bytes.step, cpu.pc) \/ Holds(bytes.temp, cpu.pc)
      BY <1>1, <2>2, <2>3, BlockedFacts
    <2>5. why = "nothing" => dbg.paused
      <3>1. CASE Holds(bytes.temp, cpu.pc)
        BY <1>4, <1>6, <3>1 DEF Holds
      <3>2. CASE Holds(bytes.step, cpu.pc)
        BY <1>1, <3>2 DEF Inv, StepInv, Holds
      <3> QED BY <2>4, <3>1, <3>2
    <2>6. Stop(b, why) /\ why \in {"step", "point", "nothing"}
      BY <1>3, <1>11
    <2> HIDE DEF why
    <2> QED BY <1>1, <1>4, <1>5, <1>6, <2>5, <2>6, Stopping
  <1>12. CASE key # None /\ Stop(B, "point")
    <2>1. Stop(b, "point")
      BY <1>3, <1>12
    <2> QED BY <1>1, <1>4, <1>5, <1>6, <2>1, Stopping
  <1>13. CASE key # None /\ First(B, [dbg EXCEPT !.bkpt = key])
    <2>1. key \in DOMAIN b.points /\ SetAt(b, va)
      BY <1>8, <1>9, <1>13
    <2>2. ~b.temp.on
      BY <1>1, <1>4, <1>6, <2>1 DEF Inv, PointsInv
    <2> DEFINE d == [dbg EXCEPT !.bkpt = key]
    <2>3. First(b, d)
      BY <1>3, <1>13
    <2>4. /\ d \in Commands /\ d.bkpt = key /\ d.command = dbg.command /\ d.sub = dbg.sub
          /\ d.ret = dbg.ret /\ d.why = dbg.why /\ d.paused = dbg.paused
      BY <1>1, <1>10, <2>1 DEF Commands
    <2> HIDE DEF d
    <2>5. Resting(d)
      BY <1>1, <2>4 DEF Inv, PointsInv, Resting
    <2>6. SubInv([d EXCEPT !.at = "first", !.ran = 0], cpu)
      <3> DEFINE e == [d EXCEPT !.at = "first", !.ran = 0]
      <3>1. e.at = "first" /\ e.ran = 0 /\ e.sub = d.sub /\ e.command = d.command /\ e.bkpt = key /\ e.ret = d.ret
        BY <2>4 DEF Commands
      <3> HIDE DEF e
      <3>2. SubInv(dbg, cpu)
        BY <1>1 DEF Inv
      <3>3. SubInv(e, cpu)
        BY <1>1, <1>13, <2>4, <3>1, <3>2 DEF SubInv
      <3> QED BY <3>3 DEF e
    <2>7. d.why = "nothing" => d.paused
      BY <2>4 DEF DebugInv, StopHasReason
    <2> QED BY <1>1, <1>4, <1>5, <2>1, <2>2, <2>3, <2>4, <2>5, <2>6, <2>7, Beginning
  <1> QED BY <1>2, <1>11, <1>12, <1>13

-------------------------------------------------------------------------------
(* The window.                                                                 *)

\* While the window has its turn no pause is planted, the first instruction, if it
\* is that, has run, and no memory point has just stopped the program.
LEMMA TurnFacts ==
  ASSUME NEW Regs, DebugInv(Regs), HasTurn
  PROVE  /\ ~bytes.temp.on /\ dbg.hit = None
         /\ dbg.at = "first" => dbg.ran = 1 /\ bytes.step.va = cpu.pc
  <1>1. ~bytes.temp.on /\ (Idle \/ dbg.turn) /\ Inv(bytes, dbg, cpu) /\ dbg \in Commands
    BY DEF HasTurn, DebugInv, TypeInv
  <1>2. dbg.hit = None
    BY <1>1 DEF Inv, PointsInv, Idle
  <1> QED BY <1>1, <1>2 DEF Inv, StepInv, Idle, Commands

\* What the window does to the points, with the command where it was.
LEMMA PointsChange ==
  ASSUME NEW Regs, DebugInv(Regs), HasTurn, ee' = ee, dbg' = dbg, curDdb' \in Ddbs,
         NEW b, bytes' = b, Sound(b), b.step = bytes.step, b.temp = bytes.temp,
         NoneOn(bytes) => NoneOn(b),
         dbg.bkpt # None => dbg.bkpt \in DOMAIN b.points,
         bytes.step.on => (OnAt(b, bytes.step.va) <=> OnAt(bytes, bytes.step.va))
  PROVE  DebugInv(Regs)'
  <1>1. ~bytes.temp.on /\ dbg.hit = None /\ Inv(bytes, dbg, cpu) /\ TypeInv(Regs)
    BY TurnFacts DEF DebugInv
  <1>2. StepInv(b, dbg, cpu)
    BY <1>1 DEF Inv, StepInv
  <1>3. PointsInv(b, dbg)
    BY <1>1 DEF Inv, PointsInv
  <1>4. PauseInv(b, dbg, cpu)
    BY <1>1 DEF PauseInv
  <1>5. Inv(b, dbg, cpu)
    BY <1>1, <1>2, <1>3, <1>4 DEF Inv
  <1>6. cpu' = cpu
    BY DEF cpu
  <1>7. TypeInv(Regs)'
    BY <1>1 DEF TypeInv, Sound
  <1>8. StopHasReason'
    BY DEF StopHasReason, DebugInv
  <1> QED BY <1>5, <1>6, <1>7, <1>8 DEF DebugInv

\* Points that are not planted may come, go and change.
LEMMA PointsReplaced ==
  ASSUME NEW b, Sound(b), NEW p \in Points, NEW c, c = [b EXCEPT !.points = p],
         \A k \in Keys : (IsOn(b, k) <=> k \in DOMAIN p /\ p[k].on) /\ (IsOn(b, k) => p[k].ret = b.points[k].ret)
  PROVE  /\ Sound(c) /\ c.step = b.step /\ c.temp = b.temp /\ c.points = p
         /\ NoneOn(b) => NoneOn(c)
         /\ \A va : OnAt(c, va) <=> OnAt(b, va)
  <1>1. b \in Bytes /\ DOMAIN b.points \subseteq Keys
    BY BytesFacts DEF Sound
  <1>2. c.points = p /\ c.rets = b.rets /\ c.step = b.step /\ c.temp = b.temp
    BY <1>1 DEF Bytes
  <1>3. c \in Bytes
    BY <1>1, <1>2 DEF Bytes
  <1>4. DOMAIN p \subseteq Keys
    BY PointsFacts
  <1>5. \A k : IsOn(c, k) <=> IsOn(b, k)
    BY <1>1, <1>2, <1>4 DEF IsOn
  <1>6. \A va : OnAt(c, va) <=> OnAt(b, va)
    <2>1. \A k : IsOn(c, k) => k \in DOMAIN c.points
      BY DEF IsOn
    <2>2. \A k : IsOn(b, k) => k \in DOMAIN b.points
      BY DEF IsOn
    <2> QED BY <1>5, <2>1, <2>2 DEF OnAt
  <1>7. NoneOn(b) => NoneOn(c)
    BY <1>5 DEF NoneOn, IsOn
  <1>8. Matching(c)
    BY <1>2, <1>6 DEF Sound, Matching
  <1>9. OneOwner(c)
    <2>1. \A k : IsOn(b, k) => k \in DOMAIN b.points /\ k \in Keys
      BY <1>1 DEF IsOn
    <2>2. \A k \in DOMAIN c.points : IsOn(c, k) => ~c.points[k].ret
      BY <1>2, <1>5, <2>1 DEF Sound, OneOwner
    <2>3. \A k, l \in DOMAIN c.points : IsOn(c, k) /\ IsOn(c, l) => l[1] = k[1]
      BY <1>5, <2>1 DEF Sound, OneOwner
    <2> QED BY <2>2, <2>3 DEF OneOwner
  <1> QED BY <1>2, <1>3, <1>6, <1>7, <1>8, <1>9 DEF Sound

LEMMA CreatePointKeeps ==
  ASSUME NEW Regs, DebugInv(Regs), NEW va \in PointVas \cup Data, NEW expr \in BOOLEAN, CreatePoint(va, expr)
  PROVE  DebugInv(Regs)'
  <1> DEFINE K == <<curDdb, va>>
             P == [k \in DOMAIN bytes.points \cup {K} |->
                     IF k = K THEN [enable |-> TRUE, expr |-> expr, on |-> FALSE, ret |-> FALSE] ELSE bytes.points[k]]
  <1>1. /\ HasTurn /\ K \notin DOMAIN bytes.points /\ bytes' = [bytes EXCEPT !.points = P]
        /\ ee' = ee /\ curDdb' = curDdb /\ dbg' = dbg /\ Sound(bytes) /\ Inv(bytes, dbg, cpu) /\ curDdb \in Ddbs
    BY DEF CreatePoint, DebugInv, TypeInv, Inv
  <1>2. /\ bytes \in Bytes /\ DOMAIN bytes.points \subseteq Keys
        /\ \A k \in DOMAIN bytes.points : bytes.points[k] \in Point
    BY <1>1, BytesFacts DEF Sound
  <1>3. PICK key : key = K
    OBVIOUS
  <1>4. key \in Keys /\ key \notin DOMAIN bytes.points
    BY <1>1, <1>3 DEF Keys
  <1>5. PICK new : new = [enable |-> TRUE, expr |-> expr, on |-> FALSE, ret |-> FALSE]
    OBVIOUS
  <1>6. new \in Point /\ ~new.on
    BY <1>5 DEF Point
  <1>7. P = [k \in DOMAIN bytes.points \cup {key} |-> IF k = key THEN new ELSE bytes.points[k]]
    BY <1>3, <1>5
  <1> HIDE DEF P, K
  <1>8. /\ DOMAIN P = DOMAIN bytes.points \cup {key} /\ P[key] = new
        /\ \A k \in DOMAIN bytes.points : P[k] = bytes.points[k]
    BY <1>4, <1>7
  <1>9. P \in Points
    <2>1. P \in [DOMAIN P -> Point]
      BY <1>2, <1>4, <1>6, <1>7, <1>8
    <2> QED BY <1>2, <1>4, <1>8, <2>1, PointsFacts
  <1>10. \A k \in Keys : /\ IsOn(bytes, k) <=> k \in DOMAIN P /\ P[k].on
                         /\ IsOn(bytes, k) => P[k].ret = bytes.points[k].ret
    BY <1>4, <1>6, <1>8 DEF IsOn
  <1>11. PICK p : p = P
    OBVIOUS
  <1>12. PICK c : c = [bytes EXCEPT !.points = p]
    OBVIOUS
  <1>13. /\ Sound(c) /\ c.step = bytes.step /\ c.temp = bytes.temp /\ c.points = p
         /\ NoneOn(bytes) => NoneOn(c)
         /\ \A v : OnAt(c, v) <=> OnAt(bytes, v)
    BY <1>1, <1>9, <1>10, <1>11, <1>12, PointsReplaced
  <1>14. bytes' = c /\ curDdb' \in Ddbs
    BY <1>1, <1>11, <1>12
  <1>15. dbg.bkpt # None => dbg.bkpt \in DOMAIN c.points
    BY <1>1, <1>8, <1>11, <1>13 DEF Inv, PointsInv
  <1>16. bytes.step.on => (OnAt(c, bytes.step.va) <=> OnAt(bytes, bytes.step.va))
    BY <1>13
  <1> QED BY <1>1, <1>13, <1>14, <1>15, <1>16, PointsChange

LEMMA ToggleStateKeeps ==
  ASSUME NEW Regs, DebugInv(Regs), NEW va, ToggleState(va)
  PROVE  DebugInv(Regs)'
  <1> DEFINE K == <<curDdb, va>>
  <1>1. PICK key : key = K
    OBVIOUS
  <1>2. /\ HasTurn /\ key \in DOMAIN bytes.points /\ bytes' = [bytes EXCEPT !.points[key].enable = ~@]
        /\ ee' = ee /\ curDdb' = curDdb /\ dbg' = dbg /\ Sound(bytes) /\ Inv(bytes, dbg, cpu) /\ curDdb \in Ddbs
    BY <1>1 DEF ToggleState, DebugInv, TypeInv, Inv
  <1> HIDE DEF K
  <1>3. /\ bytes \in Bytes /\ DOMAIN bytes.points \subseteq Keys /\ bytes.points \in [DOMAIN bytes.points -> Point]
        /\ bytes.points[key] \in Point
    BY <1>2, BytesFacts DEF Sound
  <1>4. PICK enable \in BOOLEAN : enable = ~bytes.points[key].enable
    OBVIOUS
  <1>5. PICK new : new = [bytes.points[key] EXCEPT !.enable = enable]
    OBVIOUS
  <1>6. new \in Point /\ new.on = bytes.points[key].on /\ new.ret = bytes.points[key].ret
    BY <1>3, <1>5 DEF Point
  <1>7. PICK p : p = [bytes.points EXCEPT ![key] = new]
    OBVIOUS
  <1>8. /\ DOMAIN p = DOMAIN bytes.points /\ p[key] = new /\ p \in [DOMAIN bytes.points -> Point]
        /\ \A k \in DOMAIN bytes.points \ {key} : p[k] = bytes.points[k]
    BY <1>2, <1>3, <1>6, <1>7
  <1>9. p \in Points
    BY <1>3, <1>8, PointsFacts
  <1>10. PICK c : c = [bytes EXCEPT !.points = p]
    OBVIOUS
  <1>11. bytes' = c
    <2>1. [bytes.points EXCEPT ![key].enable = ~@] = p
      BY <1>4, <1>5, <1>7, Zenon
    <2> QED BY <1>2, <1>10, <2>1, Zenon
  <1>12. \A k \in Keys : /\ IsOn(bytes, k) <=> k \in DOMAIN p /\ p[k].on
                         /\ IsOn(bytes, k) => p[k].ret = bytes.points[k].ret
    BY <1>6, <1>8 DEF IsOn
  <1>13. /\ Sound(c) /\ c.step = bytes.step /\ c.temp = bytes.temp /\ c.points = p
         /\ NoneOn(bytes) => NoneOn(c)
         /\ \A v : OnAt(c, v) <=> OnAt(bytes, v)
    BY <1>2, <1>9, <1>10, <1>12, PointsReplaced
  <1>14. dbg.bkpt # None => dbg.bkpt \in DOMAIN c.points
    BY <1>2, <1>8, <1>13 DEF Inv, PointsInv
  <1> QED BY <1>2, <1>11, <1>13, <1>14, PointsChange

LEMMA DeletePointKeeps ==
  ASSUME Careful, NEW Regs, DebugInv(Regs), NEW va, DeletePoint(va)
  PROVE  DebugInv(Regs)'
  <1> DEFINE K == <<curDdb, va>>
  <1>1. PICK key : key = K
    OBVIOUS
  <1>2. PICK b : b = PointsOff(bytes, {key})
    OBVIOUS
  <1>3. PICK p : p = [l \in DOMAIN b.points \ {key} |-> b.points[l]]
    OBVIOUS
  <1>4. /\ HasTurn /\ key \in DOMAIN bytes.points /\ dbg.at # "first" /\ ~Holds(bytes.step, va)
        /\ bytes' = [b EXCEPT !.points = p]
        /\ ee' = ee /\ curDdb' = curDdb /\ dbg' = dbg /\ Sound(bytes) /\ Inv(bytes, dbg, cpu) /\ curDdb \in Ddbs
        /\ key[2] = va
    BY <1>1, <1>2, <1>3 DEF DeletePoint, DebugInv, TypeInv, Inv, Holds
  <1> HIDE DEF K
  <1>5. ~bytes.temp.on
    BY <1>4, TurnFacts
  <1>6. \A k \in {key} : IsOn(bytes, k) => ~Holds(bytes.step, k[2]) /\ ~Holds(bytes.temp, k[2])
    BY <1>4, <1>5 DEF Holds
  <1>7. /\ Sound(b) /\ b.step = bytes.step /\ b.temp = bytes.temp /\ DOMAIN b.points = DOMAIN bytes.points
        /\ \A k \in DOMAIN bytes.points : IsOn(b, k) <=> IsOn(bytes, k) /\ k \notin {key}
    BY <1>2, <1>4, <1>6, PointsOffFacts
  <1>8. DOMAIN b.points \subseteq Keys /\ \A k \in DOMAIN b.points : b.points[k] \in Point
    BY <1>7, BytesFacts DEF Sound
  <1>9. DOMAIN p = DOMAIN b.points \ {key} /\ \A k \in DOMAIN p : p[k] = b.points[k]
    BY <1>3
  <1>10. p \in Points
    <2>1. p \in [DOMAIN p -> Point]
      BY <1>3, <1>8, <1>9
    <2> QED BY <1>8, <1>9, <2>1, PointsFacts
  <1>11. PICK c : c = [b EXCEPT !.points = p]
    OBVIOUS
  <1>12. \A k \in Keys : /\ IsOn(b, k) <=> k \in DOMAIN p /\ p[k].on
                         /\ IsOn(b, k) => p[k].ret = b.points[k].ret
    BY <1>4, <1>7, <1>9 DEF IsOn
  <1>13. /\ Sound(c) /\ c.step = b.step /\ c.temp = b.temp /\ c.points = p
         /\ NoneOn(b) => NoneOn(c)
         /\ \A v : OnAt(c, v) <=> OnAt(b, v)
    BY <1>7, <1>10, <1>11, <1>12, PointsReplaced
  <1>14. NoneOn(bytes) => NoneOn(b)
    BY <1>7 DEF NoneOn
  <1>15. bytes.step.on => (OnAt(b, bytes.step.va) <=> OnAt(bytes, bytes.step.va))
    BY <1>4, <1>7 DEF OnAt, Holds
  <1>16. dbg.bkpt = None
    BY <1>4 DEF Inv, PointsInv
  <1>17. bytes' = c /\ curDdb' \in Ddbs
    BY <1>4, <1>11
  <1> QED BY <1>4, <1>7, <1>13, <1>14, <1>15, <1>16, <1>17, PointsChange

LEMMA SelectDdbKeeps ==
  ASSUME NEW Regs, DebugInv(Regs), SelectDdb
  PROVE  DebugInv(Regs)'
  <1>1. HasTurn /\ curDdb' \in Ddbs /\ ee' = ee /\ bytes' = bytes /\ dbg' = dbg /\ Inv(bytes, dbg, cpu)
    BY DEF SelectDdb, DebugInv
  <1>2. Sound(bytes) /\ (dbg.bkpt # None => dbg.bkpt \in DOMAIN bytes.points)
    BY <1>1 DEF Inv, PointsInv
  <1> QED BY <1>1, <1>2, PointsChange

LEMMA PauseKeeps ==
  ASSUME Careful, NEW Regs, KeepsToItsCode(Regs), DebugInv(Regs), Pause
  PROVE  DebugInv(Regs)'
  <1>1. /\ dbg.turn /\ ~bytes.temp.on /\ cpu.pc \notin bytes.rets /\ FirstPoint(bytes, cpu.pc) = None
        /\ bytes' = Plant(bytes, "temp", cpu.pc) /\ dbg' = [dbg EXCEPT !.turn = FALSE, !.paused = TRUE]
        /\ ee' = ee /\ curDdb' = curDdb /\ TypeInv(Regs) /\ Inv(bytes, dbg, cpu) /\ Sound(bytes)
        /\ dbg \in Commands /\ bytes \in Bytes
    BY DEF Pause, DebugInv, TypeInv, Inv
  <1>2. cpu.pc \in Vas
    BY <1>1, CpuFacts
  <1>3. ~SetAt(bytes, cpu.pc)
    <2>1. SetAt(bytes, cpu.pc) => FirstPoint(bytes, cpu.pc) \in DOMAIN bytes.points
      BY <1>1, FirstPointFacts
    <2>2. None \notin DOMAIN bytes.points
      BY <1>1, BytesFacts, KeyFacts
    <2> QED BY <1>1, <2>1, <2>2
  <1>4. ~Holds(bytes.step, cpu.pc)
    BY <1>1, <1>2 DEF Sound, Matching
  <1>5. PICK c : c = Plant(bytes, "temp", cpu.pc)
    OBVIOUS
  <1>6. /\ Sound(c) /\ c.points = bytes.points /\ c.step = bytes.step
        /\ c.temp.on /\ c.temp.va = cpu.pc /\ ~c.temp.ret
    BY <1>1, <1>2, <1>5, PlantTemp
  <1>7. /\ dbg'.at = dbg.at /\ dbg'.command = dbg.command /\ dbg'.sub = dbg.sub /\ dbg'.bkpt = dbg.bkpt
        /\ dbg'.ret = dbg.ret /\ dbg'.hit = dbg.hit /\ dbg'.ran = dbg.ran /\ ~dbg'.turn /\ dbg'.paused
    BY <1>1 DEF Commands
  <1>8. dbg' \in Commands
    BY <1>1 DEF Commands
  <1>9. dbg.at # "first" /\ dbg.hit = None
    <2>1. dbg.at = "first" => dbg.ran = 1 /\ bytes.step.on
      BY <1>1 DEF Inv, StepInv, Commands
    <2>2. dbg.at = "first" => Holds(bytes.step, cpu.pc)
      BY <1>1, <2>1 DEF Inv, StepInv, Holds
    <2> QED BY <1>1, <1>4, <2>2 DEF Inv, PointsInv
  <1>10. StepInv(c, dbg', cpu)
    <2>1. OnAt(c, bytes.step.va) <=> OnAt(bytes, bytes.step.va)
      BY <1>6 DEF OnAt, IsOn
    <2> QED BY <1>1, <1>6, <1>7, <1>9, <2>1 DEF Inv, StepInv
  <1>11. SubInv(dbg', cpu)
    BY <1>1, <1>7 DEF Inv, SubInv
  <1>12. PointsInv(c, dbg')
    BY <1>1, <1>6, <1>7, <1>9 DEF Inv, PointsInv, NoneOn, IsOn, Resting
  <1>13. PauseInv(c, dbg', cpu)
    <2>1. ~SetAt(c, c.temp.va)
      BY <1>3, <1>6 DEF SetAt
    <2>2. c.step.on => c.step.va # c.temp.va
      BY <1>4, <1>6 DEF Holds
    <2>3. dbg'.at \in {"main", "free", "rest"}
      BY <1>7, <1>8, <1>9 DEF Commands
    <2> QED BY <1>6, <1>7, <2>1, <2>2, <2>3 DEF PauseInv
  <1>14. cpu' = cpu
    BY <1>1 DEF cpu
  <1>15. Inv(bytes', dbg', cpu')
    BY <1>1, <1>5, <1>6, <1>10, <1>11, <1>12, <1>13, <1>14 DEF Inv
  <1>16. StopHasReason'
    BY <1>7 DEF StopHasReason
  <1>17. TypeInv(Regs)'
    BY <1>1, <1>5, <1>6, <1>8 DEF TypeInv, Sound
  <1> QED BY <1>15, <1>16, <1>17 DEF DebugInv

LEMMA PauseReturnsKeeps ==
  ASSUME NEW Regs, DebugInv(Regs), PauseReturns
  PROVE  DebugInv(Regs)'
  <1>1. /\ bytes.temp.on /\ (Idle \/ dbg.turn) /\ bytes' = Lift(bytes, "temp")
        /\ ee' = ee /\ curDdb' = curDdb /\ dbg' = dbg /\ Inv(bytes, dbg, cpu) /\ TypeInv(Regs) /\ Sound(bytes)
    BY DEF PauseReturns, DebugInv, Inv
  <1>2. dbg.at = "main" /\ ~bytes.temp.ret /\ ~SetAt(bytes, bytes.temp.va)
    BY <1>1 DEF Inv, PauseInv, Idle
  <1>3. NoneOn(bytes) /\ ~bytes.step.on
    BY <1>1, <1>2, QuietFacts
  <1>4. PICK c : c = Lift(bytes, "temp")
    OBVIOUS
  <1>5. bytes.temp.on => (bytes.temp.ret <=> OnAt(bytes, bytes.temp.va) \/ Holds(bytes.step, bytes.temp.va))
    BY <1>2, <1>3, NoneOnFacts DEF Holds
  <1>6. Sound(c) /\ c.points = bytes.points /\ c.step = bytes.step /\ c.temp = Lifted
    BY <1>1, <1>4, <1>5, LiftTemp
  <1>7. NoneOn(c) /\ ~c.step.on /\ ~c.temp.on
    BY <1>3, <1>6 DEF NoneOn, IsOn, Lifted
  <1>8. Inv(c, dbg, cpu)
    BY <1>1, <1>2, <1>6, <1>7 DEF Inv, StepInv, PointsInv, PauseInv
  <1>9. cpu' = cpu
    BY <1>1 DEF cpu
  <1>10. TypeInv(Regs)' /\ StopHasReason'
    BY <1>1, <1>4, <1>6 DEF TypeInv, Sound, StopHasReason, DebugInv
  <1> QED BY <1>1, <1>4, <1>8, <1>9, <1>10 DEF DebugInv

LEMMA TogglePatchKeeps ==
  ASSUME NEW Regs, DebugInv(Regs), TogglePatch
  PROVE  DebugInv(Regs)'
  <1>1. /\ dbg.at = "main" /\ ~bytes.temp.on /\ bytes' = [bytes EXCEPT !.rets = {}]
        /\ ee' = [ee EXCEPT !.stale = @ \cup ee.inside]
        /\ curDdb' = curDdb /\ dbg' = dbg /\ Inv(bytes, dbg, cpu) /\ TypeInv(Regs) /\ Sound(bytes) /\ bytes \in Bytes
    BY DEF TogglePatch, DebugInv, Inv, Idle, TypeInv
  <1>2. NoneOn(bytes) /\ ~bytes.step.on
    BY <1>1, QuietFacts
  <1>3. bytes.rets = {}
    BY <1>1, <1>2, NoneOnFacts, BytesFacts DEF Sound, Matching, Holds
  <1>4. PICK c : c = [bytes EXCEPT !.rets = {}]
    OBVIOUS
  <1>5. c.rets = {} /\ c.points = bytes.points /\ c.step = bytes.step /\ c.temp = bytes.temp
    BY <1>1, <1>4 DEF Bytes
  <1>6. c \in Bytes
    BY <1>1, <1>4, <1>5 DEF Bytes
  <1>7. NoneOn(c)
    BY <1>2, <1>5 DEF NoneOn, IsOn
  <1>8. Sound(c)
    BY <1>1, <1>2, <1>5, <1>6, <1>7, NoneOnFacts DEF Sound, Matching, Holds, OneOwner, NoneOn
  <1>9. Inv(c, dbg, cpu)
    BY <1>1, <1>2, <1>5, <1>7, <1>8 DEF Inv, StepInv, PointsInv, PauseInv, SetAt
  <1>10. ee \in EE(Regs)
    BY <1>1 DEF TypeInv
  <1>11. ee' \in EE(Regs) /\ ee'.cur = ee.cur /\ ee'.regs = ee.regs
    BY <1>1, <1>10 DEF EE
  <1>12. cpu' = cpu
    BY <1>11 DEF cpu
  <1>13. TypeInv(Regs)' /\ StopHasReason'
    BY <1>1, <1>4, <1>6, <1>11 DEF TypeInv, StopHasReason, DebugInv
  <1> QED BY <1>1, <1>4, <1>9, <1>12, <1>13 DEF DebugInv

-------------------------------------------------------------------------------
(* The theorems.                                                               *)

LEMMA StepKeeps ==
  ASSUME Careful, NEW Regs, KeepsToItsCode(Regs), DebugInv(Regs), [Progress \/ Window]_dbgVars
  PROVE  DebugInv(Regs)'
  <1>1. CASE Instruction
    BY <1>1, InstructionKeeps
  <1>2. CASE MemoryBreak
    BY <1>2, MemoryBreakKeeps
  <1>3. CASE Leave
    BY <1>3, LeaveFreeKeeps, LeaveFirstKeeps, LeaveRestKeeps DEF Leave
  <1>4. ASSUME NEW c \in {"free", "run", "in", "over"}, Command(c)
        PROVE  DebugInv(Regs)'
    BY <1>4, CommandKeeps
  <1>5. ASSUME NEW va \in PointVas \cup Data,
               (\E expr \in BOOLEAN : CreatePoint(va, expr)) \/ DeletePoint(va) \/ ToggleState(va)
        PROVE  DebugInv(Regs)'
    BY <1>5, CreatePointKeeps, DeletePointKeeps, ToggleStateKeeps
  <1>6. CASE SelectDdb \/ Pause \/ PauseReturns \/ TogglePatch
    BY <1>6, SelectDdbKeeps, PauseKeeps, PauseReturnsKeeps, TogglePatchKeeps
  <1>7. CASE UNCHANGED dbgVars
    <2>1. ee' = ee /\ bytes' = bytes /\ curDdb' = curDdb /\ dbg' = dbg
      BY <1>7 DEF dbgVars
    <2>2. cpu' = cpu
      BY <2>1 DEF cpu
    <2> QED BY <2>1, <2>2 DEF DebugInv, TypeInv, StopHasReason
  <1> QED BY <1>1, <1>2, <1>3, <1>4, <1>5, <1>6, <1>7 DEF Progress, Window

\* The debugger's own account of what is planted is right at every step.
THEOREM DebuggerInvariant ==
  ASSUME Careful, NEW Regs, KeepsToItsCode(Regs)
  PROVE  DebuggerSpec => []DebugInv(Regs)
  <1>1. DebuggerInit => DebugInv(Regs)
    BY InitHolds
  <1>2. DebugInv(Regs) /\ [Progress \/ Window]_dbgVars => DebugInv(Regs)'
    BY StepKeeps
  <1> QED BY <1>1, <1>2, PTL DEF DebuggerSpec

\* Code is restored (breakOn, breakOff, allBreakOn, allBreakOff and the private
\* breakpoints): no ret is left behind when the program stops, each ret stands for
\* something planted, and the point stepped over is still there.
THEOREM RestoresCode ==
  ASSUME Careful, NEW Regs, KeepsToItsCode(Regs)
  PROVE  DebuggerSpec => []CodeIsRestored
  <1>1. ASSUME DebugInv(Regs)
        PROVE  CodeIsRestored
    <2>1. Sound(bytes) /\ PointsInv(bytes, dbg) /\ StepInv(bytes, dbg, cpu) /\ bytes.rets \subseteq Vas
      BY <1>1, BytesFacts DEF DebugInv, Inv, Sound
    <2>2. Planted(bytes) = {k[2] : k \in {l \in DOMAIN bytes.points : bytes.points[l].on}}
                              \cup {bytes[name].va : name \in {n \in {"step", "temp"} : bytes[n].on}}
      BY DEF Planted
    <2>3. \A va : va \in Planted(bytes) <=> OnAt(bytes, va) \/ Holds(bytes.step, va) \/ Holds(bytes.temp, va)
      BY <2>2 DEF OnAt, IsOn, Holds
    <2>4. bytes.rets = Planted(bytes) \cap Vas
      BY <2>1, <2>3 DEF Sound, Matching
    <2>5. ASSUME Idle
          PROVE  Planted(bytes) = IF bytes.temp.on THEN {bytes.temp.va} ELSE {}
      <3>1. NoneOn(bytes) /\ ~bytes.step.on
        BY <1>1, <2>5, QuietFacts DEF DebugInv, Idle
      <3> QED BY <2>3, <3>1, NoneOnFacts DEF Holds
    <2>6. dbg.bkpt # None => dbg.bkpt \in DOMAIN bytes.points
      BY <2>1 DEF PointsInv
    <2> QED BY <2>4, <2>5, <2>6 DEF CodeIsRestored
  <1> QED BY <1>1, DebuggerInvariant, PTL

\* A step is one instruction, whatever it does, and every stop has a reason
\* (executeProc, switchTo and _eret, which take the step breakpoint along).
THEOREM StopsAreInTime ==
  ASSUME Careful, NEW Regs, KeepsToItsCode(Regs)
  PROVE  DebuggerSpec => []StopsInTime
  <1>1. ASSUME DebugInv(Regs)
        PROVE  StopsInTime
    <2>1. dbg.at = "first" => dbg.ran <= 1
      BY <1>1 DEF DebugInv, TypeInv, Commands
    <2>2. dbg.at = "first" /\ Blocked => dbg.ran = 1
      <3>1. PICK b : b = Lift(bytes, "step")
        OBVIOUS
      <3> QED BY <1>1, <3>1, LeaveFirstLifts
    <2> QED BY <1>1, <2>1, <2>2 DEF StopsInTime, OneInstruction, DebugInv
  <1> QED BY <1>1, DebuggerInvariant, PTL

\* The instruction of a point in force is not executed before the point has been
\* judged (R5900::execute leaves its loop at a planted ret).
THEOREM StopsAtPoints ==
  ASSUME Careful, NEW Regs, KeepsToItsCode(Regs)
  PROVE  DebuggerSpec => StopsWhereTold
  <1>1. ASSUME DebugInv(Regs), Instruction, dbg.at = "rest"
        PROVE  cpu.pc \notin InForce
    <2>1. ~OnAt(bytes, cpu.pc)
      BY <1>1, RunningFacts DEF Instruction
    <2> QED BY <2>1 DEF InForce, OnAt, IsOn
  <1>2. DebugInv(Regs) => [Instruction /\ dbg.at = "rest" => cpu.pc \notin InForce]_dbgVars
    BY <1>1
  <1> QED BY <1>2, DebuggerInvariant, PTL DEF StopsWhereTold

================================================================================
