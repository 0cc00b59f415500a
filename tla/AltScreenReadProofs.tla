------------------------- MODULE AltScreenReadProofs -------------------------
(***************************************************************************)
(* That a traversal brings the viewport back and tells what it left out,   *)
(* for any height of the screen and of the history, any step and any       *)
(* number of rows asked for.  The invariant says, for each phase, which    *)
(* wheel events the application has still to read and where it will be     *)
(* scrolled to when it has read them.  Where the traversal begins above    *)
(* the bottom it rests on redraws that are not late: a step that is over   *)
(* then finds the wheel events read.                                       *)
(***************************************************************************)
EXTENDS AltScreenRead, SequenceTheorems, WellFoundedInduction, TLAPS

-----------------------------------------------------------------------------
(* The invariant *)

Wheel == [dir : {"up", "down"}, n : 1 .. Top]
ScreenType == [at : 0 .. Torn, text : Nat]
ReadType ==
  [phase : Phases, valid : BOOLEAN, lines : Nat,
   initial : ScreenType, previous : ScreenType, reached : 0 .. Torn,
   reachedTop : BOOLEAN,
   ups : 0 .. Top, stepDue : BOOLEAN, quiet : BOOLEAN, seen : BOOLEAN,
   syncPending : BOOLEAN, restoring : {"no", "yes", "expired"}]

\* The types, with those that TypeOK leaves open.
Types ==
  /\ read \in ReadType /\ wheels \in Seq(Wheel)
  /\ view \in 0 .. Top /\ shown \in {view, Torn} /\ text \in Nat
  /\ start \in 0 .. Top /\ late \in BOOLEAN
  /\ answer.kind \in {"none", "success", "fallback"}

\* The first screen is the one the traversal began with.
BeginInv ==
  /\ read.initial.at = start /\ read.initial.text <= text
  /\ read.phase = "SettleInitial" =>
       wheels = <<>> /\ view = start /\ shown = start
  /\ read.phase \in {"SettleInitial", "ProbeBottom"} =>
       read.ups = 0 /\ read.reached = start /\ read.previous.at = start
  /\ read.phase # "done" => answer = NoAnswer

\* All wheel events that are not read go one way.
OneWay(dir) ==
  Len(wheels) <= 1 /\ \A i \in 1 .. Len(wheels) : wheels[i].dir = dir

\* A step that is over finds the wheel events read and the screen whole.
DueInv ==
  ~late /\ read.phase # "done" /\ read.stepDue =>
    wheels = <<>> /\ shown # Torn
ProbeInv ==
  read.phase = "ProbeBottom" =>
    /\ OneWay("down") /\ Final = Scrolled(start, "down", Least(WheelStep, Top))
    /\ start = 0 => view = 0 /\ shown = 0

\* Where a traversal may leave the application.
Back ==
  \/ Final = start
  \/ start \in 1 .. WheelStep - 1 /\ Final = Scrolled(0, "up", WheelStep)
RestoreProbeInv ==
  read.phase = "RestoreProbe" => Back \/ text # read.initial.text

\* The history is traversed only from the bottom, and every step leads
\* further up, or the top is reached.
HarvestInv ==
  read.phase = "Harvest" =>
    /\ start = 0 /\ Final <= read.ups /\ read.previous.at = read.reached
    /\ ~late => OneWay("up") /\ (read.reached < Final \/ Final = Top)
RestoreInv == read.phase = "Restore" => start = 0 /\ Final = 0
TopInv ==
  read.reachedTop =>
    /\ read.phase \in {"Restore", "done"}
    /\ ~late => read.reached = Top
AnswerInv == ViewportComesBack /\ OnlyLatenessHidesTruncation

\* Where the invariant about the view counts.
Sound == late => start = 0

ViewInv ==
  Sound =>
    /\ DueInv /\ ProbeInv /\ RestoreProbeInv /\ HarvestInv /\ RestoreInv
    /\ TopInv /\ AnswerInv

IInv == Types /\ BeginInv /\ ViewInv

-----------------------------------------------------------------------------
(* Where the wheel events lead *)

\* A set of natural numbers that is not empty has a least element.
LEMMA LeastElement ==
  ASSUME NEW T \in SUBSET Nat, T # {}
  PROVE  \E n \in T : \A m \in T : n <= m
<1>1. PICK n \in T : \A m \in T : ~(<<m, n>> \in OpToRel(<, Nat))
  BY NatLessThanWellFounded, WFMin, Zenon
<1>2. ASSUME NEW m \in T PROVE n <= m
  <2>1. ~(m < n)
    BY <1>1, Zenon DEF OpToRel
  <2> QED BY <2>1
<1> QED BY <1>2

\* Induction over the natural numbers, stated of a set.
LEMMA InductionOnNat ==
  ASSUME NEW S, 0 \in S, \A n \in Nat : n \in S => n + 1 \in S
  PROVE  Nat \subseteq S
<1> SUFFICES ASSUME ~(Nat \subseteq S) PROVE FALSE
  OBVIOUS
<1> DEFINE T == Nat \ S
<1>1. T \in SUBSET Nat /\ T # {}
  OBVIOUS
<1> HIDE DEF T
<1>2. PICK n \in T : \A m \in T : n <= m
  BY <1>1, LeastElement
<1>3. n \in Nat /\ n # 0
  BY <1>2, <1>1 DEF T
<1>4. n - 1 \in Nat /\ ~(n <= n - 1)
  BY <1>3
<1>5. n - 1 \in S
  BY <1>4, <1>2 DEF T
<1>6. n \in S
  BY <1>5, <1>4, <1>3
<1> QED BY <1>6, <1>2 DEF T

\* One wheel event more.
Turned(at, w) == Scrolled(at, w.dir, w.n)

\* The recursive function inside Replay, up to the n-th wheel event.
ReplayTo(f, at, ws, n) ==
  f = [i \in 0 .. n |-> IF i = 0 THEN at ELSE Turned(f[i - 1], ws[i])]

\* One step of it.
LEMMA ReplayStep ==
  ASSUME NEW f, NEW at, NEW ws, NEW n \in Nat, ReplayTo(f, at, ws, n)
  PROVE  /\ f[0] = at
         /\ \A i \in 1 .. n : f[i] = Turned(f[i - 1], ws[i])
<1> DEFINE F == [i \in 0 .. n |->
                   IF i = 0 THEN at ELSE Turned(f[i - 1], ws[i])]
<1>1. /\ F[0] = at
      /\ \A i \in 1 .. n : F[i] = Turned(f[i - 1], ws[i])
  OBVIOUS
<1>2. f = F
  BY DEF ReplayTo
<1> HIDE DEF F
<1> QED BY <1>1, <1>2

\* There is such a function.
LEMMA ReplayExists ==
  ASSUME NEW at, NEW ws, NEW n \in Nat
  PROVE  \E f : ReplayTo(f, at, ws, n)
<1> DEFINE S == {m \in Nat : \E f : ReplayTo(f, at, ws, m)}
<1>1. 0 \in S
  <2>1. ReplayTo([i \in 0 .. 0 |-> at], at, ws, 0)
    BY DEF ReplayTo
  <2> QED BY <2>1
<1>2. ASSUME NEW m \in Nat, m \in S PROVE m + 1 \in S
  <2>1. PICK f : ReplayTo(f, at, ws, m)
    BY <1>2
  <2> DEFINE g == [i \in 0 .. m + 1 |->
                     IF i <= m THEN f[i] ELSE Turned(f[i - 1], ws[i])]
  <2>2. /\ f[0] = at
        /\ \A i \in 1 .. m : f[i] = Turned(f[i - 1], ws[i])
    BY <2>1, ReplayStep
  <2>3. ASSUME NEW i \in 0 .. m + 1
        PROVE  g[i] = IF i = 0 THEN at ELSE Turned(g[i - 1], ws[i])
    <3>1. CASE i = 0
      BY <2>2, <3>1
    <3>2. CASE i \in 1 .. m
      BY <2>2, <3>2
    <3>3. CASE i = m + 1
      BY <3>3
    <3> QED BY <3>1, <3>2, <3>3
  <2>4. ReplayTo(g, at, ws, m + 1)
    BY <2>3 DEF ReplayTo
  <2> QED BY <2>4
<1> HIDE DEF S
<1>3. Nat \subseteq S
  BY <1>1, <1>2, InductionOnNat
<1> QED BY <1>3 DEF S

\* Replay is where that function ends.
LEMMA ReplayIs ==
  ASSUME NEW at, NEW ws, Len(ws) \in Nat
  PROVE  \E f : ReplayTo(f, at, ws, Len(ws)) /\ Replay(at, ws) = f[Len(ws)]
<1> DEFINE f == CHOOSE g : ReplayTo(g, at, ws, Len(ws))
<1>1. ReplayTo(f, at, ws, Len(ws))
  BY ReplayExists
<1>2. Replay(at, ws) = f[Len(ws)]
  BY DEF Replay, ReplayTo, Turned
<1> QED BY <1>1, <1>2

\* Without wheel events nothing moves.
LEMMA ReplayNone ==
  ASSUME NEW at
  PROVE  Replay(at, <<>>) = at
<1>1. Len(<<>>) = 0
  OBVIOUS
<1>2. PICK f : ReplayTo(f, at, <<>>, 0) /\ Replay(at, <<>>) = f[0]
  BY <1>1, ReplayIs
<1> QED BY <1>2, ReplayStep

\* The last wheel event is the last step.
LEMMA ReplayAppend ==
  ASSUME NEW S, NEW at, NEW ws \in Seq(S), NEW x \in S
  PROVE  Replay(at, Append(ws, x)) = Turned(Replay(at, ws), x)
<1> DEFINE ys == Append(ws, x)
           n == Len(ws)
           m == Len(ys)
<1>1. /\ n \in Nat /\ m \in Nat /\ m = n + 1 /\ ys[m] = x
      /\ \A i \in 1 .. n : ys[i] = ws[i]
  BY AppendProperties
<1> HIDE DEF ys, m, n
<1>2. PICK f : ReplayTo(f, at, ws, n) /\ Replay(at, ws) = f[n]
  BY <1>1, ReplayIs DEF n
<1>3. PICK g : ReplayTo(g, at, ys, m) /\ Replay(at, ys) = g[m]
  BY <1>1, ReplayIs DEF m
<1>4. f[0] = at /\ \A i \in 1 .. n : f[i] = Turned(f[i - 1], ws[i])
  BY <1>1, <1>2, ReplayStep
<1>5. g[0] = at /\ \A i \in 1 .. m : g[i] = Turned(g[i - 1], ys[i])
  BY <1>1, <1>3, ReplayStep
<1> DEFINE N == {i \in Nat : i <= n => f[i] = g[i]}
<1>6. 0 \in N
  BY <1>4, <1>5
<1>7. ASSUME NEW i \in Nat, i \in N PROVE i + 1 \in N
  <2> SUFFICES ASSUME i + 1 <= n PROVE f[i + 1] = g[i + 1]
    OBVIOUS
  <2> DEFINE j == i + 1
  <2>1. j \in 1 .. n /\ j \in 1 .. m /\ j - 1 = i
    BY <1>1
  <2> HIDE DEF j
  <2>2. f[j] = Turned(f[i], ws[j]) /\ g[j] = Turned(g[i], ys[j])
    BY <1>4, <1>5, <2>1
  <2>3. f[i] = g[i]
    BY <1>7, <1>1
  <2>4. f[j] = g[j]
    BY <1>1, <2>1, <2>2, <2>3
  <2> QED BY <2>4 DEF j
<1> HIDE DEF N
<1>8. Nat \subseteq N
  BY <1>6, <1>7, InductionOnNat
<1>9. f[n] = g[n]
  BY <1>1, <1>8 DEF N
<1>10. m \in 1 .. m /\ m - 1 = n
  BY <1>1
<1>11. g[m] = Turned(g[n], x)
  BY <1>1, <1>5, <1>10
<1> QED BY <1>2, <1>3, <1>9, <1>11 DEF ys

\* The first wheel event is the first step.
LEMMA ReplayFront ==
  ASSUME NEW S, NEW at, NEW ws \in Seq(S), Len(ws) > 0
  PROVE  Replay(at, ws) = Replay(Turned(at, ws[1]), Tail(ws))
<1> DEFINE ys == Tail(ws)
           b == Turned(at, ws[1])
           n == Len(ys)
           m == Len(ws)
<1>1. /\ n \in Nat /\ m \in Nat /\ m = n + 1
      /\ \A i \in 1 .. n : ys[i] = ws[i + 1]
  OBVIOUS
<1> HIDE DEF ys, m, n
<1>2. PICK f : ReplayTo(f, at, ws, m) /\ Replay(at, ws) = f[m]
  BY <1>1, ReplayIs DEF m
<1>3. PICK g : ReplayTo(g, b, ys, n) /\ Replay(b, ys) = g[n]
  BY <1>1, ReplayIs DEF n
<1>4. f[0] = at /\ \A i \in 1 .. m : f[i] = Turned(f[i - 1], ws[i])
  BY <1>1, <1>2, ReplayStep
<1>5. g[0] = b /\ \A i \in 1 .. n : g[i] = Turned(g[i - 1], ys[i])
  BY <1>1, <1>3, ReplayStep
<1> DEFINE N == {i \in Nat : i <= n => f[i + 1] = g[i]}
<1>6. 0 \in N
  <2>1. 1 \in 1 .. m /\ 1 - 1 = 0
    BY <1>1
  <2>2. f[1] = Turned(f[0], ws[1])
    BY <1>4, <2>1
  <2> QED BY <1>4, <1>5, <2>2
<1>7. ASSUME NEW i \in Nat, i \in N PROVE i + 1 \in N
  <2> SUFFICES ASSUME i + 1 <= n PROVE f[(i + 1) + 1] = g[i + 1]
    OBVIOUS
  <2> DEFINE j == i + 1
             k == j + 1
  <2>1. j \in 1 .. n /\ k \in 1 .. m /\ j - 1 = i /\ k - 1 = j /\ i <= n
    BY <1>1
  <2>2. f[j] = g[i]
    BY <1>7, <2>1
  <2>3. ys[j] = ws[k]
    BY <1>1, <2>1
  <2> HIDE DEF j, k
  <2>4. f[k] = Turned(f[j], ws[k]) /\ g[j] = Turned(g[i], ys[j])
    BY <1>4, <1>5, <2>1
  <2>5. f[k] = g[j]
    BY <2>2, <2>3, <2>4
  <2> QED BY <2>5 DEF j, k
<1> HIDE DEF N
<1>8. Nat \subseteq N
  BY <1>6, <1>7, InductionOnNat
<1>9. f[n + 1] = g[n]
  BY <1>1, <1>8 DEF N
<1> QED BY <1>1, <1>2, <1>3, <1>9 DEF ys

\* A wheel event leads to a position.
LEMMA TurnedType ==
  ASSUME NEW at \in 0 .. Top, NEW dir, NEW n \in Nat
  PROVE  Scrolled(at, dir, n) \in 0 .. Top
BY BoundsAssumption DEF Scrolled, Least

\* So do all of them.
LEMMA ReplayType ==
  ASSUME NEW at \in 0 .. Top, NEW ws \in Seq(Wheel)
  PROVE  Replay(at, ws) \in 0 .. Top
<1> DEFINE n == Len(ws)
<1>1. n \in Nat /\ \A i \in 1 .. n : ws[i] \in Wheel
  OBVIOUS
<1> HIDE DEF n
<1>2. PICK f : ReplayTo(f, at, ws, n) /\ Replay(at, ws) = f[n]
  BY <1>1, ReplayIs DEF n
<1>3. f[0] = at /\ \A i \in 1 .. n : f[i] = Turned(f[i - 1], ws[i])
  BY <1>1, <1>2, ReplayStep
<1> DEFINE N == {i \in Nat : i <= n => f[i] \in 0 .. Top}
<1>4. 0 \in N
  BY <1>3
<1>5. ASSUME NEW i \in Nat, i \in N PROVE i + 1 \in N
  <2> SUFFICES ASSUME i + 1 <= n PROVE f[i + 1] \in 0 .. Top
    OBVIOUS
  <2> DEFINE j == i + 1
  <2>1. j \in 1 .. n /\ j - 1 = i /\ i <= n
    BY <1>1
  <2>2. f[i] \in 0 .. Top
    BY <1>5, <2>1
  <2> HIDE DEF j
  <2>3. f[j] = Turned(f[i], ws[j]) /\ ws[j].n \in Nat
    BY <1>1, <1>3, <2>1 DEF Wheel
  <2>4. f[j] \in 0 .. Top
    BY <2>2, <2>3, TurnedType DEF Turned
  <2> QED BY <2>4 DEF j
<1> HIDE DEF N
<1>6. Nat \subseteq N
  BY <1>4, <1>5, InductionOnNat
<1> QED BY <1>1, <1>2, <1>6 DEF N

\* Two batches of events of one direction lead where one batch of both leads.
LEMMA TurnedTwice ==
  ASSUME NEW at \in 0 .. Top, NEW dir \in {"up", "down"},
         NEW m \in Nat, NEW n \in Nat
  PROVE  /\ Scrolled(Scrolled(at, dir, m), dir, n) = Scrolled(at, dir, m + n)
         /\ Scrolled(at, dir, Least(n, Top)) = Scrolled(at, dir, n)
BY BoundsAssumption DEF Scrolled, Least

\* What send_wheel adds is read last, also when it is added to the last batch.
LEMMA PushReplay ==
  ASSUME Types, NEW dir \in {"up", "down"}, NEW n \in Nat, n > 0
  PROVE  /\ Push(dir, n) \in Seq(Wheel)
         /\ Replay(view, Push(dir, n)) = Scrolled(Final, dir, n)
         /\ OneWay(dir) => /\ Len(Push(dir, n)) <= 1
                           /\ \A i \in 1 .. Len(Push(dir, n)) :
                                Push(dir, n)[i].dir = dir
<1>1. wheels \in Seq(Wheel) /\ view \in 0 .. Top /\ Top \in Nat /\ Top > 0
  BY BoundsAssumption DEF Types
<1>2. Final \in 0 .. Top
  BY <1>1, ReplayType DEF Final
<1>3. CASE wheels # <<>> /\ Last(wheels).dir = dir
  <2>1. PICK u \in Seq(Wheel), x \in Wheel : wheels = Append(u, x)
    BY <1>1, <1>3, SequenceEmptyOrAppend
  <2>2. Len(wheels) = Len(u) + 1 /\ wheels[Len(wheels)] = x /\ Len(u) \in Nat
    BY <2>1, AppendProperties
  <2>3. x.dir = dir /\ x.n \in 1 .. Top
    BY <1>3, <2>2 DEF Last, Wheel
  <2> DEFINE k == Least(x.n + n, Top)
             y == [dir |-> dir, n |-> k]
  <2>4. k \in 1 .. Top
    BY <1>1, <2>3 DEF Least
  <2>5. y \in Wheel /\ y = [x EXCEPT !.n = k]
    BY <2>3, <2>4 DEF Wheel
  <2> HIDE DEF k
  <2>6. Push(dir, n) = [wheels EXCEPT ![Len(wheels)] = y]
    <3> DEFINE l == Len(wheels)
               z == [wheels[l] EXCEPT !.n = Least(wheels[l].n + n, Top)]
    <3>1. Push(dir, n) = [wheels EXCEPT ![l] = z]
      BY <1>3 DEF Push
    <3>2. z = y
      BY <2>2, <2>5 DEF k
    <3> QED BY <3>1, <3>2
  <2> HIDE DEF y
  <2>7. [wheels EXCEPT ![Len(wheels)] = y] = Append(u, y)
    <3>1. /\ [wheels EXCEPT ![Len(wheels)] = y] \in Seq(Wheel)
          /\ Len([wheels EXCEPT ![Len(wheels)] = y]) = Len(wheels)
          /\ \A i \in 1 .. Len(wheels) :
               [wheels EXCEPT ![Len(wheels)] = y][i]
                 = IF i = Len(wheels) THEN y ELSE wheels[i]
      BY <1>1, <2>2, <2>5, ExceptSeq
    <3>2. /\ Append(u, y) \in Seq(Wheel) /\ Len(Append(u, y)) = Len(wheels)
          /\ \A i \in 1 .. Len(u) : Append(u, y)[i] = u[i]
          /\ \A i \in 1 .. Len(u) : wheels[i] = u[i]
          /\ Append(u, y)[Len(wheels)] = y
      BY <2>1, <2>2, <2>5, AppendProperties
    <3>3. ASSUME NEW i \in 1 .. Len(wheels)
          PROVE  [wheels EXCEPT ![Len(wheels)] = y][i] = Append(u, y)[i]
      <4>1. CASE i = Len(wheels)
        BY <3>1, <3>2, <4>1
      <4>2. CASE i # Len(wheels)
        <5>1. i \in 1 .. Len(u)
          BY <2>2, <4>2
        <5> QED BY <3>1, <3>2, <4>2, <5>1
      <4> QED BY <4>1, <4>2
    <3> QED BY <3>1, <3>2, <3>3, SeqEqual
  <2>8. Final = Turned(Replay(view, u), x)
    BY <2>1, ReplayAppend DEF Final
  <2>9. Replay(view, Push(dir, n)) = Turned(Replay(view, u), y)
    <3>1. Replay(view, Append(u, y)) = Turned(Replay(view, u), y)
      BY <2>5, ReplayAppend
    <3> QED BY <2>6, <2>7, <3>1
  <2>10. Replay(view, u) \in 0 .. Top
    BY <1>1, ReplayType
  <2>11. Turned(Replay(view, u), y)
           = Scrolled(Turned(Replay(view, u), x), dir, n)
    <3>1. /\ Turned(Replay(view, u), y) = Scrolled(Replay(view, u), dir, k)
          /\ Turned(Replay(view, u), x) = Scrolled(Replay(view, u), dir, x.n)
      BY <2>3 DEF Turned, y
    <3> DEFINE m == x.n
               l == m + n
    <3>2. m \in Nat /\ l \in Nat
      BY <1>1, <2>3
    <3>3. Scrolled(Scrolled(Replay(view, u), dir, m), dir, n)
            = Scrolled(Replay(view, u), dir, m + n)
      <4> HIDE DEF m
      <4> QED BY <3>2, <2>10, TurnedTwice
    <3>4. k = Least(l, Top)
      BY DEF k
    <3> HIDE DEF l
    <3>5. Scrolled(Replay(view, u), dir, k)
            = Scrolled(Replay(view, u), dir, l)
      BY <3>2, <3>4, <2>10, TurnedTwice
    <3> QED BY <3>1, <3>3, <3>5 DEF l
  <2>12. Push(dir, n) \in Seq(Wheel) /\ Len(Push(dir, n)) = Len(wheels)
         /\ Push(dir, n)[Len(wheels)] = y
    <3>1. Append(u, y) \in Seq(Wheel) /\ Len(Append(u, y)) = Len(u) + 1
          /\ Append(u, y)[Len(u) + 1] = y
      BY <2>5, AppendProperties
    <3> QED BY <2>2, <2>6, <2>7, <3>1
  <2>13. ASSUME OneWay(dir), NEW i \in 1 .. Len(wheels) PROVE i = Len(wheels)
    BY <2>2, <2>13 DEF OneWay
  <2> QED BY <2>8, <2>9, <2>11, <2>12, <2>13 DEF OneWay, y
<1>4. CASE ~(wheels # <<>> /\ Last(wheels).dir = dir)
  <2> DEFINE y == [dir |-> dir, n |-> Least(n, Top)]
  <2>1. y \in Wheel /\ Push(dir, n) = Append(wheels, y)
    BY <1>1, <1>4 DEF Wheel, Least, Push
  <2>2. Replay(view, Push(dir, n)) = Turned(Final, y)
    BY <1>1, <2>1, ReplayAppend DEF Final
  <2>3. Turned(Final, y) = Scrolled(Final, dir, n)
    BY <1>2, TurnedTwice DEF Turned
  <2>4. /\ Push(dir, n) \in Seq(Wheel)
        /\ Len(Push(dir, n)) = Len(wheels) + 1
        /\ Push(dir, n)[Len(wheels) + 1] = y
    BY <1>1, <2>1, AppendProperties
  <2>5. OneWay(dir) => Len(wheels) = 0
    <3>1. ASSUME OneWay(dir), Len(wheels) # 0 PROVE FALSE
      <4>1. Len(wheels) = 1 /\ wheels # <<>> /\ wheels[1].dir = dir
        <5>1. Len(wheels) \in Nat /\ Len(wheels) <= 1
          BY <1>1, <3>1 DEF OneWay
        <5> DEFINE l == Len(wheels)
        <5>2. l \in Nat /\ l <= 1 /\ l # 0
          BY <3>1, <5>1
        <5> HIDE DEF l
        <5>3. l = 1
          BY <5>2
        <5>4. Len(wheels) = 1 /\ 1 \in 1 .. Len(wheels)
          BY <5>3 DEF l
        <5> QED BY <1>1, <3>1, <5>4, EmptySeq DEF OneWay
      <4> QED BY <1>4, <4>1 DEF Last
    <3> QED BY <3>1
  <2> QED BY <2>2, <2>3, <2>4, <2>5
<1> QED BY <1>3, <1>4

\* The application reads some of the wheel events: it is nearer to where they
\* lead.
LEMMA ScrollReplay ==
  ASSUME Types, NEW n \in 1 .. Top, Scroll(n)
  PROVE  /\ wheels' \in Seq(Wheel) /\ view' \in 0 .. Top
         /\ Final' = Final /\ Len(wheels) > 0 /\ Len(wheels') <= Len(wheels)
         /\ view' = Scrolled(view, wheels[1].dir, n)
         /\ n <= wheels[1].n /\ wheels[1] \in Wheel
         /\ Len(wheels) = 1 =>
              \A i \in 1 .. Len(wheels') : wheels'[i].dir = wheels[1].dir
<1>1. /\ wheels \in Seq(Wheel) /\ view \in 0 .. Top /\ Top \in Nat
      /\ Len(wheels) > 0 /\ Head(wheels) = wheels[1] /\ n \in Nat
  BY BoundsAssumption, EmptySeq DEF Types, Scroll
<1> DEFINE x == wheels[1]
<1>2. x \in Wheel /\ x.dir \in {"up", "down"} /\ x.n \in 1 .. Top
  <2>1. x \in Wheel
    BY <1>1
  <2> QED BY <2>1 DEF Wheel
<1>3. n <= x.n /\ view' = Scrolled(view, x.dir, n)
  BY <1>1 DEF Scroll
<1>4. view' \in 0 .. Top
  BY <1>1, <1>3, TurnedType
<1>5. Final = Replay(Turned(view, x), Tail(wheels))
  BY <1>1, ReplayFront DEF Final
<1>6. CASE n = x.n
  <2>1. wheels' = Tail(wheels)
    BY <1>1, <1>6 DEF Scroll
  <2>2. Final' = Final
    BY <1>3, <1>5, <1>6, <2>1 DEF Final, Turned
  <2>3. /\ wheels' \in Seq(Wheel) /\ Len(wheels') = Len(wheels) - 1
    BY <1>1, <2>1
  <2>4. Len(wheels) = 1 =>
          \A i \in 1 .. Len(wheels') : wheels'[i].dir = wheels[1].dir
    BY <2>3
  <2> QED BY <1>1, <1>2, <1>3, <1>4, <2>2, <2>3, <2>4
<1>7. CASE n # x.n
  <2> DEFINE k == x.n - n
             y == [x EXCEPT !.n = k]
  <2>1. k \in 1 .. Top
    BY <1>1, <1>2, <1>3, <1>7
  <2>2. y \in Wheel /\ y.dir = x.dir /\ y.n = k
    BY <1>2, <2>1 DEF Wheel
  <2>3. wheels' = [wheels EXCEPT ![1] = y]
    BY <1>1, <1>7 DEF Scroll
  <2> HIDE DEF y
  <2>4. /\ wheels' \in Seq(Wheel) /\ Len(wheels') = Len(wheels)
        /\ wheels'[1] = y
        /\ \A i \in 2 .. Len(wheels) : wheels'[i] = wheels[i]
    BY <1>1, <2>2, <2>3, ExceptSeq
  <2>5. Tail(wheels') = Tail(wheels)
    <3>1. /\ Tail(wheels') \in Seq(Wheel) /\ Tail(wheels) \in Seq(Wheel)
          /\ Len(Tail(wheels')) = Len(Tail(wheels))
          /\ Len(Tail(wheels)) = Len(wheels) - 1
          /\ \A i \in 1 .. Len(wheels) - 1 :
               /\ Tail(wheels')[i] = wheels'[i + 1]
               /\ Tail(wheels)[i] = wheels[i + 1]
      BY <1>1, <2>4
    <3>2. \A i \in 1 .. Len(wheels) - 1 : i + 1 \in 2 .. Len(wheels)
      BY <1>1
    <3>3. \A i \in 1 .. Len(Tail(wheels)) : Tail(wheels')[i] = Tail(wheels)[i]
      BY <2>4, <3>1, <3>2
    <3> QED BY <3>1, <3>3, SeqEqual
  <2>6. Final' = Replay(Turned(view', y), Tail(wheels))
    <3>1. Replay(view', wheels')
            = Replay(Turned(view', wheels'[1]), Tail(wheels'))
      BY <1>1, <2>4, ReplayFront
    <3> QED BY <2>4, <2>5, <3>1 DEF Final
  <2>7. Turned(view', y) = Turned(view, x)
    <3>1. /\ Turned(view', y) = Scrolled(Scrolled(view, x.dir, n), x.dir, k)
          /\ Turned(view, x) = Scrolled(view, x.dir, x.n)
      BY <1>3, <2>2 DEF Turned
    <3>2. Scrolled(Scrolled(view, x.dir, n), x.dir, k)
            = Scrolled(view, x.dir, n + k)
      <4>1. k \in Nat
        BY <2>1
      <4> HIDE DEF k
      <4> QED BY <1>1, <1>2, <4>1, TurnedTwice
    <3>3. n + k = x.n
      BY <1>1, <1>2
    <3> QED BY <3>1, <3>2, <3>3
  <2>8. Final' = Final
    BY <1>5, <2>6, <2>7
  <2>9. Len(wheels) = 1 =>
          \A i \in 1 .. Len(wheels') : wheels'[i].dir = wheels[1].dir
    BY <2>2, <2>4
  <2> QED BY <1>1, <1>2, <1>3, <1>4, <2>4, <2>8, <2>9
<1> QED BY <1>6, <1>7

-----------------------------------------------------------------------------
(* The endings of a poll *)

\* What a poll leaves of the read, apart from its flags.
SameCore(r) ==
  /\ r.phase = read.phase /\ r.initial = read.initial
  /\ r.previous = read.previous /\ r.reached = read.reached
  /\ r.reachedTop = read.reachedTop /\ r.ups = read.ups
  /\ r.stepDue => read.stepDue

\* The application does nothing during a poll.
AppWaits == UNCHANGED <<view, shown, text, start, late>>

\* What poll, abort and note_output change are the flags.
LEMMA NotedIs ==
  ASSUME Types
  PROVE  /\ Polled \in ReadType /\ SameCore(Polled)
         /\ Quieted \in ReadType /\ SameCore(Quieted)
         /\ Noted \in ReadType /\ SameCore(Noted)
         /\ Noted.stepDue = read.stepDue /\ Quieted.stepDue = read.stepDue
         /\ Quieted.seen = Noted.seen
         /\ Quieted.valid => ~Hurry
<1>0. read \in ReadType
  BY DEF Types
<1>1. Polled \in ReadType /\ SameCore(Polled)
      /\ Polled.stepDue = read.stepDue
  BY <1>0 DEF Polled, ReadType, SameCore
<1> DEFINE v == Polled.valid /\ ~Hurry
           s == Polled.seen \/ fresh
           q == ~SyncDone /\ (Polled.quiet \/ fresh)
           y == Polled.syncPending /\ ~SyncDone
<1>2. Noted = [Polled EXCEPT !.valid = v, !.seen = s, !.quiet = q,
                             !.syncPending = y]
  BY DEF Noted
<1>3. v \in BOOLEAN /\ s \in BOOLEAN /\ q \in BOOLEAN /\ y \in BOOLEAN
  OBVIOUS
<1>4. v => ~Hurry
  OBVIOUS
<1> HIDE DEF v, s, q, y
<1>5. Noted \in ReadType /\ SameCore(Noted) /\ Noted.valid = v
      /\ Noted.stepDue = read.stepDue
  BY <1>1, <1>2, <1>3 DEF ReadType, SameCore
<1>6. /\ Quieted \in ReadType /\ SameCore(Quieted) /\ Quieted.valid = v
      /\ Quieted.stepDue = read.stepDue /\ Quieted.seen = Noted.seen
  BY <1>5 DEF Quieted, ReadType, SameCore
<1> QED BY <1>1, <1>4, <1>5, <1>6

\* Still pending: nothing moves.
LEMMA KeepStep ==
  ASSUME IInv, NEW r \in ReadType, SameCore(r), read' = r,
         UNCHANGED <<wheels, answer>>, AppWaits
  PROVE  IInv'
<1> USE DEF AppWaits
<1>1. Types'
  BY DEF IInv, Types
<1>2. Final' = Final
  BY DEF Final
<1>3. BeginInv'
  BY DEF IInv, BeginInv, SameCore
<1>4. ASSUME Sound PROVE ViewInv'
  <2>1. /\ DueInv /\ ProbeInv /\ RestoreProbeInv /\ HarvestInv /\ RestoreInv
        /\ TopInv /\ AnswerInv
    BY <1>4 DEF IInv, ViewInv
  <2>2. DueInv' /\ TopInv'
    BY <2>1 DEF DueInv, TopInv, SameCore
  <2>3. ProbeInv' /\ RestoreProbeInv' /\ HarvestInv' /\ RestoreInv'
    BY <2>1, <1>2 DEF ProbeInv, RestoreProbeInv, HarvestInv, RestoreInv,
       SameCore, OneWay, Back
  <2>4. AnswerInv'
    BY <2>1, <1>2
       DEF AnswerInv, ViewportComesBack,
       OnlyLatenessHidesTruncation, TruncationIsTold, SameCore
  <2> QED BY <2>2, <2>3, <2>4 DEF ViewInv
<1> QED BY <1>1, <1>3, <1>4 DEF IInv, ViewInv, Sound

\* An answer that is due.
LEMMA FinishStep ==
  ASSUME IInv, NEW r \in ReadType, r.initial = read.initial,
         NEW kind \in {"success", "fallback"}, NEW truncated, NEW why,
         Finish(r, kind, truncated, why), AppWaits,
         ~late /\ r.reachedTop => r.reached = Top,
         Sound /\ why \in {"restored", "intact"} => Back,
         kind = "success" /\ ~truncated => r.reachedTop
  PROVE  IInv'
<1> USE DEF AppWaits
<1>0. /\ read' = [ArmStep(r) EXCEPT !.phase = "done"] /\ UNCHANGED wheels
      /\ answer' = [kind |-> kind, truncated |-> truncated, why |-> why]
  BY DEF Finish
<1>1. /\ read' \in ReadType /\ read'.phase = "done"
      /\ read'.initial = read.initial /\ read'.reached = r.reached
      /\ read'.reachedTop = r.reachedTop
  BY <1>0 DEF ReadType, Phases, ArmStep
<1>2. Types'
  BY <1>0, <1>1 DEF IInv, Types
<1>3. BeginInv'
  BY <1>1 DEF IInv, BeginInv
<1>4. Final' = Final
  BY <1>0 DEF Final
<1>5. ASSUME Sound PROVE ViewInv'
  <2>1. DueInv' /\ ProbeInv' /\ RestoreProbeInv' /\ HarvestInv' /\ RestoreInv'
    BY <1>1 DEF DueInv, ProbeInv, RestoreProbeInv, HarvestInv, RestoreInv
  <2>2. TopInv'
    BY <1>1, <1>5 DEF TopInv, Sound
  <2>3. answer'.why = why /\ answer'.kind = kind
        /\ answer'.truncated = truncated
    BY <1>0
  <2>4. ViewportComesBack'
    BY <1>4, <1>5, <2>3 DEF ViewportComesBack, Sound, Back
  <2>5. OnlyLatenessHidesTruncation'
    BY <1>1, <2>3 DEF OnlyLatenessHidesTruncation, TruncationIsTold
  <2> QED BY <2>1, <2>2, <2>4, <2>5 DEF ViewInv, AnswerInv
<1> QED BY <1>2, <1>3, <1>5 DEF IInv, ViewInv, Sound

\* The wheel events are sent.
Sends(dir, n, next) ==
  wheels' = Push(dir, n) /\ read' = ArmStep(next) /\ UNCHANGED answer

\* They lead further.
LEMMA SendStep ==
  ASSUME Types, NEW dir \in {"up", "down"}, NEW n \in Nat, n > 0,
         NEW next \in ReadType, Sends(dir, n, next), AppWaits
  PROVE  /\ Types' /\ Final' = Scrolled(Final, dir, n)
         /\ OneWay(dir) => OneWay(dir)'
         /\ read'.phase = next.phase /\ read'.initial = next.initial
         /\ read'.previous = next.previous /\ read'.reached = next.reached
         /\ read'.reachedTop = next.reachedTop /\ read'.ups = next.ups
         /\ ~read'.stepDue
<1> USE DEF AppWaits, Sends
<1>1. /\ wheels' \in Seq(Wheel)
      /\ Replay(view, wheels') = Scrolled(Final, dir, n)
      /\ OneWay(dir) => /\ Len(wheels') <= 1
                        /\ \A i \in 1 .. Len(wheels') : wheels'[i].dir = dir
  BY PushReplay
<1>2. /\ read' \in ReadType
      /\ read'.phase = next.phase /\ read'.initial = next.initial
      /\ read'.previous = next.previous /\ read'.reached = next.reached
      /\ read'.reachedTop = next.reachedTop /\ read'.ups = next.ups
      /\ ~read'.stepDue
  BY DEF ArmStep, ReadType
<1>3. Types'
  BY <1>1, <1>2 DEF Types
<1>4. Final' = Scrolled(Final, dir, n)
  BY <1>1 DEF Final
<1>5. OneWay(dir) => OneWay(dir)'
  BY <1>1 DEF OneWay
<1> QED BY <1>2, <1>3, <1>4, <1>5

\* What send_wheel may do: fail, or send.
LEMMA SendOrFail ==
  ASSUME IInv, NEW r \in ReadType, r.initial = read.initial,
         ~late /\ r.reachedTop => r.reached = Top, NEW dir, NEW n, NEW next,
         SendWheel(r, dir, n, next), AppWaits
  PROVE  IInv' \/ Sends(dir, n, next)
<1>1. CASE Fallback(r, "failed")
  BY <1>1, FinishStep DEF Fallback
<1> QED BY <1>1 DEF SendWheel, Sends

\* The answers before the end: there are none.
LEMMA NoAnswerYet ==
  ASSUME answer = NoAnswer
  PROVE  AnswerInv
BY
   DEF AnswerInv, ViewportComesBack,
   OnlyLatenessHidesTruncation, TruncationIsTold, NoAnswer

-----------------------------------------------------------------------------
(* The phases *)

\* One step up the history.
LEMMA HarvestSends ==
  ASSUME IInv, NEW r \in ReadType, r.initial = read.initial,
         StartHarvest(r), AppWaits, Running,
         Sound => /\ start = 0 /\ Final <= r.ups /\ ~r.reachedTop
                  /\ r.previous.at = r.reached
                  /\ ~late => OneWay("up") /\ r.reached <= Final
  PROVE  IInv'
<1> DEFINE n == Least(r.ups + WheelStep, Top)
           next == [r EXCEPT !.phase = "Harvest", !.ups = n]
<1>1. /\ WheelStep \in Nat /\ WheelStep > 0 /\ Top \in Nat /\ r.ups \in Nat
      /\ Types /\ BeginInv /\ Final \in 0 .. Top
  BY BoundsAssumption, ReplayType DEF IInv, Types, ReadType, Final
<1>2. n \in 0 .. Top
  BY <1>1 DEF Least
<1> HIDE DEF n
<1>3. /\ next \in ReadType /\ next.phase = "Harvest" /\ next.ups = n
      /\ next.initial = read.initial /\ next.previous = r.previous
      /\ next.reached = r.reached /\ next.reachedTop = r.reachedTop
  BY <1>2 DEF ReadType, Phases
<1>4. SendWheel(r, "up", WheelStep, next)
  BY DEF StartHarvest, n
<1> HIDE DEF next
<1>5. CASE Sends("up", WheelStep, next)
  <2>1. /\ Types' /\ Final' = Scrolled(Final, "up", WheelStep)
        /\ OneWay("up") => OneWay("up")'
        /\ read'.phase = "Harvest" /\ read'.initial = read.initial
        /\ read'.previous = r.previous /\ read'.reached = r.reached
        /\ read'.reachedTop = r.reachedTop /\ read'.ups = n
        /\ ~read'.stepDue /\ answer' = answer /\ answer = NoAnswer
    BY <1>1, <1>3, <1>5, SendStep DEF Sends, BeginInv, Running
  <2>2. BeginInv'
    BY <1>1, <2>1 DEF BeginInv, AppWaits
  <2>3. ASSUME Sound PROVE ViewInv'
    <3>1. /\ start = 0 /\ Final <= r.ups /\ ~r.reachedTop
          /\ r.previous.at = r.reached
          /\ ~late => OneWay("up") /\ r.reached <= Final
      BY <2>3
    <3>2. r.reached \in Nat
      BY BoundsAssumption DEF ReadType, Torn
    <3>3. Final' <= n /\ (~late => r.reached < Final' \/ Final' = Top)
      BY <1>1, <2>1, <3>1, <3>2 DEF Scrolled, Least, n
    <3>4. HarvestInv'
      BY <2>1, <3>1, <3>3 DEF HarvestInv, AppWaits
    <3>5. DueInv' /\ ProbeInv' /\ RestoreProbeInv' /\ RestoreInv' /\ TopInv'
      BY <2>1, <3>1
         DEF DueInv, ProbeInv, RestoreProbeInv, RestoreInv, TopInv
    <3>6. AnswerInv'
      BY <2>1
         DEF AnswerInv, ViewportComesBack,
         OnlyLatenessHidesTruncation, TruncationIsTold, NoAnswer
    <3> QED BY <3>4, <3>5, <3>6 DEF ViewInv
  <2> QED BY <2>1, <2>2, <2>3 DEF IInv, ViewInv, Sound, AppWaits
<1>6. ~late /\ r.reachedTop => r.reached = Top
  BY DEF Sound
<1> QED BY <1>4, <1>5, <1>6, SendOrFail

\* The way back begins: as many events down as went up.
LEMMA RestoreSends ==
  ASSUME IInv, NEW r \in ReadType, r.initial = read.initial,
         r.ups = read.ups, StartRestore(r), AppWaits,
         read.phase = "Harvest", ~late /\ r.reachedTop => r.reached = Top
  PROVE  IInv'
<1>1. /\ r.ups \in 0 .. Top /\ Types /\ BeginInv /\ Final \in 0 .. Top
      /\ Top \in Nat
  BY BoundsAssumption, ReplayType DEF IInv, Types, ReadType, Final
<1>2. Sound => start = 0 /\ Final <= r.ups
  BY DEF Sound, IInv, ViewInv, HarvestInv
<1>3. CASE r.ups = 0
  <2>1. Fallback(r, "intact")
    BY <1>3 DEF StartRestore
  <2>2. Sound => Back
    BY <1>1, <1>2, <1>3 DEF Back
  <2> QED BY <2>1, <2>2, FinishStep DEF Fallback
<1>4. CASE r.ups # 0
  <2> DEFINE next == [r EXCEPT !.phase = "Restore", !.restoring = "yes"]
  <2>1. /\ next \in ReadType /\ next.phase = "Restore"
        /\ next.initial = read.initial
        /\ next.reached = r.reached /\ next.reachedTop = r.reachedTop
    BY DEF ReadType, Phases
  <2>2. SendWheel(r, "down", r.ups, next)
    BY <1>4 DEF StartRestore
  <2> HIDE DEF next
  <2>3. CASE Sends("down", r.ups, next)
    <3>1. r.ups \in Nat /\ r.ups > 0
      BY <1>1, <1>4
    <3>2. /\ Types' /\ Final' = Scrolled(Final, "down", r.ups)
          /\ read'.phase = "Restore" /\ read'.initial = read.initial
          /\ read'.reached = r.reached /\ read'.reachedTop = r.reachedTop
          /\ ~read'.stepDue /\ answer' = answer /\ answer = NoAnswer
      BY <1>1, <2>1, <2>3, <3>1, SendStep DEF Sends, BeginInv
    <3>3. BeginInv'
      BY <1>1, <3>2 DEF BeginInv, AppWaits
    <3>4. ASSUME Sound PROVE ViewInv'
      <4>1. start = 0 /\ Final <= r.ups
        BY <1>2, <3>4 DEF Sound
      <4>2. Final' = 0
        BY <1>1, <3>1, <3>2, <4>1 DEF Scrolled
      <4>3. RestoreInv'
        BY <4>1, <4>2 DEF RestoreInv, AppWaits
      <4>4. TopInv'
        BY <3>2 DEF TopInv, AppWaits
      <4>5. DueInv' /\ ProbeInv' /\ RestoreProbeInv' /\ HarvestInv'
        BY <3>2 DEF DueInv, ProbeInv, RestoreProbeInv, HarvestInv
      <4>6. AnswerInv'
        BY <3>2
           DEF AnswerInv, ViewportComesBack,
           OnlyLatenessHidesTruncation, TruncationIsTold, NoAnswer
      <4> QED BY <4>3, <4>4, <4>5, <4>6 DEF ViewInv
    <3> QED BY <3>2, <3>3, <3>4 DEF IInv, ViewInv, Sound, AppWaits
  <2> QED BY <2>2, <2>3, SendOrFail
<1> QED BY <1>3, <1>4

\* The screen at the start, until it is quiet.
LEMMA SettleStep ==
  ASSUME IInv, NEW r \in ReadType, SameCore(r), Settle(r), AppWaits,
         read.phase = "SettleInitial"
  PROVE  IInv'
<1>1. /\ Types /\ BeginInv /\ wheels = <<>> /\ view = start /\ shown = start
      /\ read.ups = 0 /\ read.reached = start /\ read.previous.at = start
      /\ answer = NoAnswer /\ start \in 0 .. Top /\ text \in Nat
      /\ WheelStep \in Nat /\ WheelStep > 0 /\ Top \in Nat
  BY BoundsAssumption DEF IInv, BeginInv, Types
<1>2. Sound => ~r.reachedTop
  BY DEF Sound, IInv, ViewInv, TopInv, SameCore
<1>3. CASE Keep([r EXCEPT !.initial = Screen, !.previous = Screen,
                          !.reached = shown, !.seen = FALSE,
                          !.stepDue = FALSE])
  <2>1. Screen \in ScreenType /\ Screen.at = start /\ Screen.text = text
    BY <1>1 DEF Screen, ScreenType, Torn
  <2>2. shown \in 0 .. Torn
    BY <1>1 DEF Torn
  <2>3. /\ read' \in ReadType /\ read'.phase = "SettleInitial"
        /\ read'.initial = Screen /\ read'.previous = Screen
        /\ read'.reached = start /\ ~read'.stepDue
        /\ read'.ups = 0 /\ read'.reachedTop = r.reachedTop
        /\ UNCHANGED <<wheels, answer>>
    BY <1>1, <1>3, <2>1, <2>2 DEF Keep, ReadType, SameCore
  <2>4. Types'
    BY <1>1, <2>3 DEF Types, AppWaits
  <2>5. BeginInv'
    BY <1>1, <2>1, <2>3 DEF BeginInv, AppWaits
  <2>6. ASSUME Sound PROVE ViewInv'
    <3>1. ~read'.reachedTop
      BY <1>2, <2>3, <2>6 DEF Sound
    <3>2. DueInv' /\ ProbeInv' /\ RestoreProbeInv' /\ HarvestInv'
          /\ RestoreInv' /\ TopInv'
      BY <2>3, <3>1 DEF DueInv, ProbeInv, RestoreProbeInv, HarvestInv,
         RestoreInv, TopInv
    <3>3. AnswerInv'
      BY <1>1, <2>3
         DEF AnswerInv, ViewportComesBack,
         OnlyLatenessHidesTruncation, TruncationIsTold, NoAnswer
    <3> QED BY <3>2, <3>3 DEF ViewInv
  <2> QED BY <2>4, <2>5, <2>6 DEF IInv, ViewInv, Sound, AppWaits
<1>4. CASE SendWheel(r, "down", WheelStep,
                     [r EXCEPT !.phase = "ProbeBottom"])
  <2> DEFINE next == [r EXCEPT !.phase = "ProbeBottom"]
  <2>1. /\ next \in ReadType /\ next.phase = "ProbeBottom"
        /\ next.initial = read.initial /\ next.ups = 0
        /\ next.previous.at = start
        /\ next.reached = start /\ next.reachedTop = r.reachedTop
        /\ r.initial = read.initial
    BY <1>1 DEF ReadType, Phases, SameCore
  <2> HIDE DEF next
  <2>2. CASE Sends("down", WheelStep, next)
    <3>1. /\ Types' /\ Final' = Scrolled(Final, "down", WheelStep)
          /\ OneWay("down") => OneWay("down")'
          /\ read'.phase = "ProbeBottom" /\ read'.initial = read.initial
          /\ read'.ups = 0 /\ read'.previous.at = start
          /\ read'.reached = start /\ read'.reachedTop = r.reachedTop
          /\ ~read'.stepDue /\ answer' = answer
      BY <1>1, <2>1, <2>2, SendStep DEF Sends
    <3>2. BeginInv'
      BY <1>1, <3>1 DEF BeginInv, AppWaits
    <3>3. ASSUME Sound PROVE ViewInv'
      <4>1. ~read'.reachedTop
        BY <1>2, <3>1, <3>3 DEF Sound
      <4>2. Final = start
        BY <1>1, ReplayNone DEF Final
      <4>3. Final' = Scrolled(start, "down", Least(WheelStep, Top))
        BY <1>1, <3>1, <4>2, TurnedTwice
      <4>4. OneWay("down")'
        BY <1>1, <3>1 DEF OneWay
      <4>5. ProbeInv'
        BY <1>1, <4>3, <4>4 DEF ProbeInv, AppWaits
      <4>6. DueInv' /\ RestoreProbeInv' /\ HarvestInv' /\ RestoreInv'
            /\ TopInv'
        BY <3>1, <4>1 DEF DueInv, RestoreProbeInv, HarvestInv, RestoreInv,
           TopInv
      <4>7. AnswerInv'
        BY <1>1, <3>1
           DEF AnswerInv, ViewportComesBack,
           OnlyLatenessHidesTruncation, TruncationIsTold, NoAnswer
      <4> QED BY <4>5, <4>6, <4>7 DEF ViewInv
    <3> QED BY <3>1, <3>2, <3>3 DEF IInv, ViewInv, Sound, AppWaits
  <2>3. ~late /\ r.reachedTop => r.reached = Top
    BY <1>2 DEF Sound
  <2> QED BY <1>4, <2>1, <2>2, <2>3, SendOrFail DEF next
<1> QED BY <1>3, <1>4 DEF Settle

\* What the terminal shows, as a screen.
LEMMA ScreenIs ==
  ASSUME Types
  PROVE  Screen \in ScreenType /\ Screen.at = shown /\ Screen.text = text
<1>1. Top \in Nat /\ view \in 0 .. Top /\ shown \in {view, Torn}
      /\ text \in Nat
  BY BoundsAssumption DEF Types
<1>2. shown \in 0 .. Torn
  BY <1>1 DEF Torn
<1> QED BY <1>1, <1>2 DEF Screen, ScreenType

\* One step down to find out whether this is the bottom, and one back up when
\* it was not.
LEMMA ProbeStep ==
  ASSUME IInv, NEW r \in ReadType, SameCore(r), NEW hurry, Probe(r, hurry),
         AppWaits, read.phase = "ProbeBottom", r.stepDue \/ r.seen,
         r.valid => ~hurry
  PROVE  IInv'
<1>1. /\ Types /\ BeginInv /\ start \in 0 .. Top /\ text \in Nat
      /\ read.ups = 0 /\ read.reached = start /\ read.previous.at = start
      /\ read.initial.at = start /\ read.initial.text <= text
      /\ answer = NoAnswer
      /\ WheelStep \in Nat /\ WheelStep > 0 /\ Top \in Nat /\ Top > 0
      /\ view \in 0 .. Top
  BY BoundsAssumption DEF IInv, BeginInv, Types
<1>2. /\ r.initial = read.initial /\ r.ups = 0 /\ r.reached = start
      /\ r.previous.at = start /\ r.reachedTop = read.reachedTop
      /\ r.phase = "ProbeBottom"
  BY <1>1 DEF SameCore
<1>3. Sound => ~r.reachedTop
  BY <1>2 DEF Sound, IInv, ViewInv, TopInv
<1>4. Screen.at = shown /\ Screen.text = text
  BY <1>1, ScreenIs
<1>5. ASSUME Sound PROVE
        /\ OneWay("down") /\ DueInv
        /\ Final = Scrolled(start, "down", Least(WheelStep, Top))
        /\ start = 0 => view = 0 /\ shown = 0
  BY <1>5 DEF Sound, IInv, ViewInv, ProbeInv
<1>6. ASSUME Sound, Screen = r.initial, r.stepDue
      PROVE  start = 0 /\ Final = 0 /\ (~late => wheels = <<>>)
  <2>0. CASE late
    <3>1. start = 0
      BY <1>6, <2>0 DEF Sound
    <3> QED BY <1>1, <1>5, <1>6, <2>0, <3>1 DEF Scrolled, Least
  <2> SUFFICES ASSUME ~late PROVE start = 0 /\ Final = 0 /\ wheels = <<>>
    BY <2>0
  <2>1. wheels = <<>> /\ shown # Torn
    BY <1>5, <1>6 DEF DueInv, SameCore
  <2>2. shown = view /\ shown = start
    BY <1>1, <1>2, <1>4, <1>6, <2>1 DEF Types
  <2>3. Final = start
    BY <2>1, <2>2, ReplayNone DEF Final
  <2>4. start = Scrolled(start, "down", Least(WheelStep, Top))
    BY <1>5, <1>6, <2>3
  <2>5. start = 0
    BY <1>1, <2>4 DEF Scrolled, Least
  <2> QED BY <2>1, <2>3, <2>5
<1>7. CASE Screen = r.initial /\ r.seen /\ ~r.stepDue /\ ~hurry
  <2> DEFINE s == [r EXCEPT !.seen = FALSE]
  <2>1. Keep(s)
    BY <1>7 DEF Probe
  <2>2. s \in ReadType /\ SameCore(s)
    BY DEF ReadType, SameCore
  <2> HIDE DEF s
  <2> QED BY <2>1, <2>2, KeepStep DEF Keep
<1>8. CASE Screen = r.initial /\ ~(r.seen /\ ~r.stepDue /\ ~hurry)
           /\ r.valid
  <2>1. StartHarvest(r) /\ r.stepDue
    BY <1>8 DEF Probe
  <2>2. Running
    BY DEF Running
  <2>3. ASSUME Sound
        PROVE  /\ start = 0 /\ Final <= r.ups /\ ~r.reachedTop
               /\ r.previous.at = r.reached
               /\ ~late => OneWay("up") /\ r.reached <= Final
    <3>1. start = 0 /\ Final = 0 /\ (~late => wheels = <<>>)
      BY <1>6, <1>8, <2>1, <2>3
    <3>2. ~late => OneWay("up")
      BY <3>1 DEF OneWay
    <3> QED BY <1>2, <1>3, <2>3, <3>1, <3>2
  <2> QED BY <1>2, <2>1, <2>2, <2>3, HarvestSends
<1>9. CASE Screen = r.initial /\ ~(r.seen /\ ~r.stepDue /\ ~hurry)
           /\ ~r.valid
  <2> DEFINE why == IF hurry THEN "expired" ELSE "intact"
  <2>1. Fallback(r, why)
    BY <1>9 DEF Probe
  <2>2. why \in {"restored", "intact"} => r.stepDue
    BY <1>9
  <2> HIDE DEF why
  <2>3. Sound /\ why \in {"restored", "intact"} => Back
    BY <1>6, <1>9, <2>2 DEF Back
  <2>4. Finish(r, "fallback", FALSE, why)
    BY <2>1 DEF Fallback
  <2>5. ~late /\ r.reachedTop => r.reached = Top
    BY <1>3 DEF Sound
  <2> QED BY <1>2, <2>3, <2>4, <2>5, FinishStep
<1>10. CASE Screen # r.initial
  <2> DEFINE next == [r EXCEPT !.phase = "RestoreProbe",
                               !.restoring = "yes"]
  <2>1. SendWheel(r, "up", WheelStep, next)
    BY <1>10 DEF Probe
  <2>2. /\ next \in ReadType /\ next.phase = "RestoreProbe"
        /\ next.initial = read.initial /\ next.reachedTop = r.reachedTop
    BY <1>2 DEF ReadType, Phases
  <2> HIDE DEF next
  <2>3. CASE Sends("up", WheelStep, next)
    <3>1. /\ Types' /\ Final' = Scrolled(Final, "up", WheelStep)
          /\ read'.phase = "RestoreProbe" /\ read'.initial = read.initial
          /\ read'.reachedTop = r.reachedTop
          /\ ~read'.stepDue /\ answer' = answer
      BY <1>1, <2>2, <2>3, SendStep DEF Sends
    <3>2. BeginInv'
      BY <1>1, <3>1 DEF BeginInv, AppWaits
    <3>3. ASSUME Sound PROVE ViewInv'
      <4>0. Sound
        BY <3>3 DEF Sound
      <4>1. ~read'.reachedTop
        BY <1>3, <3>1, <4>0
      <4>2. ASSUME start = 0 PROVE RestoreProbeInv'
        <5>1. shown = 0
          BY <1>5, <4>0, <4>2
        <5>2. text # read.initial.text
          <6>1. read.initial \in ScreenType /\ r.initial = read.initial
            BY <1>1, <1>2 DEF Types, ReadType
          <6>2. ASSUME text = read.initial.text PROVE FALSE
            <7>1. Screen = read.initial
              BY <1>1, <4>2, <5>1, <6>1, <6>2 DEF Screen, ScreenType
            <7> QED BY <1>10, <6>1, <7>1
          <6> QED BY <6>2
        <5> QED BY <3>1, <5>2 DEF RestoreProbeInv, AppWaits
      <4>3. ASSUME start # 0, start \notin 1 .. WheelStep - 1
            PROVE  RestoreProbeInv'
        <5>1. start >= WheelStep
          BY <1>1, <4>3
        <5>2. Final = start - WheelStep
          BY <1>1, <1>5, <4>0, <5>1 DEF Scrolled, Least
        <5>3. Final' = start
          BY <1>1, <3>1, <5>1, <5>2 DEF Scrolled, Least
        <5> QED BY <5>3 DEF RestoreProbeInv, Back, AppWaits
      <4>4. ASSUME start \in 1 .. WheelStep - 1 PROVE RestoreProbeInv'
        <5>1. Final = 0
          BY <1>1, <1>5, <4>0, <4>4 DEF Scrolled, Least
        <5> QED BY <3>1, <4>4, <5>1 DEF RestoreProbeInv, Back, AppWaits
      <4> HIDE DEF RestoreProbeInv
      <4>5. DueInv' /\ ProbeInv' /\ HarvestInv' /\ RestoreInv' /\ TopInv'
        BY <3>1, <4>1 DEF DueInv, ProbeInv, HarvestInv, RestoreInv, TopInv
      <4>6. AnswerInv'
        BY <1>1, <3>1
           DEF AnswerInv, ViewportComesBack,
           OnlyLatenessHidesTruncation, TruncationIsTold, NoAnswer
      <4> QED BY <4>2, <4>3, <4>4, <4>5, <4>6 DEF ViewInv
    <3> QED BY <3>1, <3>2, <3>3 DEF IInv, ViewInv, Sound, AppWaits
  <2>4. ~late /\ r.reachedTop => r.reached = Top
    BY <1>3 DEF Sound
  <2> QED BY <1>2, <2>1, <2>3, <2>4, SendOrFail
<1> QED BY <1>7, <1>8, <1>9, <1>10

\* The way back from the probe.
LEMMA RestoreProbeStep ==
  ASSUME IInv, NEW r \in ReadType, SameCore(r), RestoreProbe(r), AppWaits,
         read.phase = "RestoreProbe"
  PROVE  IInv'
<1>1. r.initial = read.initial /\ r.reachedTop = read.reachedTop
  BY DEF SameCore
<1>2. Sound => ~r.reachedTop
  BY <1>1 DEF Sound, IInv, ViewInv, TopInv
<1>3. CASE Screen = r.initial
  <2>1. Finish(r, "fallback", FALSE, "restored")
    BY <1>3 DEF RestoreProbe, Fallback
  <2>2. text = read.initial.text
    BY <1>1, <1>3, ScreenIs DEF IInv
  <2>3. Sound => Back
    BY <2>2 DEF IInv, ViewInv, RestoreProbeInv
  <2>4. ~late /\ r.reachedTop => r.reached = Top
    BY <1>2 DEF Sound
  <2> QED BY <1>1, <2>1, <2>3, <2>4, FinishStep
<1>4. CASE Screen # r.initial
  <2> DEFINE s == [r EXCEPT !.seen = FALSE, !.stepDue = FALSE]
  <2>1. Keep(s)
    BY <1>4 DEF RestoreProbe
  <2>2. s \in ReadType /\ SameCore(s)
    BY DEF ReadType, SameCore
  <2> HIDE DEF s
  <2> QED BY <2>1, <2>2, KeepStep DEF Keep
<1> QED BY <1>3, <1>4

\* Wheel events that all go up lead no lower than where the application is.
LEMMA UpLeadsUp ==
  ASSUME Types, OneWay("up")
  PROVE  view <= Final
<1>1. /\ wheels \in Seq(Wheel) /\ view \in 0 .. Top /\ Top \in Nat
      /\ Len(wheels) \in Nat /\ Len(wheels) <= 1
  BY BoundsAssumption DEF Types, OneWay
<1> DEFINE l == Len(wheels)
<1>2. CASE l = 0
  <2>1. wheels = <<>>
    BY <1>1, <1>2, EmptySeq
  <2>2. Final = view
    BY <2>1, ReplayNone DEF Final
  <2> QED BY <1>1, <2>2
<1>3. CASE l = 1
  <2>1. Final = Replay(Turned(view, wheels[1]), Tail(wheels))
    BY <1>1, <1>3, ReplayFront DEF Final
  <2>2. /\ Tail(wheels) \in Seq(Wheel) /\ Len(Tail(wheels)) = 0
        /\ wheels[1] \in Wheel
    BY <1>1, <1>3
  <2>3. Tail(wheels) = <<>>
    BY <2>2, EmptySeq
  <2>4. Final = Turned(view, wheels[1])
    BY <2>1, <2>3, ReplayNone
  <2>5. wheels[1].dir = "up" /\ wheels[1].n \in 1 .. Top
    BY <1>3, <2>2 DEF OneWay, Wheel
  <2> QED BY <1>1, <2>4, <2>5 DEF Turned, Scrolled, Least
<1>4. l = 0 \/ l = 1
  <2>1. l \in Nat /\ l <= 1
    BY <1>1
  <2> HIDE DEF l
  <2> QED BY <2>1
<1> QED BY <1>2, <1>3, <1>4

\* A screen of the history: the rows go on, the top is reached, or the rows
\* cannot be put together.
LEMMA HarvestStep ==
  ASSUME IInv, NEW r \in ReadType, SameCore(r), Harvest(r), AppWaits,
         read.phase = "Harvest"
  PROVE  IInv'
<1>1. /\ Types /\ BeginInv /\ Top \in Nat /\ view \in 0 .. Top
      /\ shown \in {view, Torn} /\ Final \in 0 .. Top
  BY BoundsAssumption, ReplayType DEF IInv, Types, Final
<1>2. /\ r.initial = read.initial /\ r.ups = read.ups
      /\ r.reached = read.reached /\ r.previous = read.previous
      /\ r.reachedTop = read.reachedTop /\ r.phase = "Harvest"
  BY DEF SameCore
<1>3. /\ Sound => ~r.reachedTop
      /\ ~late => ~r.reachedTop
  BY <1>2 DEF Sound, IInv, ViewInv, TopInv
<1>4. Screen \in ScreenType /\ Screen.at = shown /\ Screen.text = text
  BY <1>1, ScreenIs
<1>5. ASSUME Sound PROVE
        /\ start = 0 /\ Final <= r.ups /\ DueInv
        /\ r.previous.at = r.reached
        /\ ~late => OneWay("up") /\ (r.reached < Final \/ Final = Top)
  BY <1>2, <1>5 DEF Sound, IInv, ViewInv, HarvestInv
<1> PICK merge \in Merges(r.previous, Screen) :
          CASE merge = "Advanced" -> Advance(r)
            [] merge = "Unchanged" /\ r.stepDue ->
                 StartRestore([r EXCEPT !.reachedTop = TRUE])
            [] merge = "Unaligned" /\ r.stepDue ->
                 StartRestore([r EXCEPT !.valid = FALSE])
            [] OTHER -> Keep([r EXCEPT !.seen = FALSE])
  BY DEF Harvest
<1>6. CASE merge = "Advanced"
  <2> DEFINE next == [r EXCEPT !.previous = Screen, !.reached = shown]
  <2>1. \/ StartRestore(next)
        \/ StartHarvest(next)
    BY <1>6 DEF Advance
  <2>2. shown # Torn
    BY <1>4, <1>6 DEF Merges
  <2>3. shown = view /\ shown \in 0 .. Torn
    BY <1>1, <2>2 DEF Torn
  <2>4. /\ next \in ReadType /\ next.initial = read.initial
        /\ next.ups = read.ups /\ next.previous = Screen
        /\ next.reached = shown /\ next.reachedTop = r.reachedTop
    BY <1>2, <1>4, <2>3 DEF ReadType
  <2> HIDE DEF next
  <2>5. CASE StartRestore(next)
    BY <1>3, <2>4, <2>5, RestoreSends
  <2>6. CASE StartHarvest(next)
    <3>1. ASSUME Sound
          PROVE  /\ start = 0 /\ Final <= next.ups /\ ~next.reachedTop
                 /\ next.previous.at = next.reached
                 /\ ~late => OneWay("up") /\ next.reached <= Final
      <4>1. ~late => view <= Final
        BY <1>1, <1>5, <3>1, UpLeadsUp
      <4> QED BY <1>2, <1>3, <1>4, <1>5, <2>3, <2>4, <3>1, <4>1
    <3>2. Running
      BY DEF Running
    <3> QED BY <2>4, <2>6, <3>1, <3>2, HarvestSends
  <2> QED BY <2>1, <2>5, <2>6
<1>7. CASE merge = "Unchanged" /\ r.stepDue
  <2> DEFINE next == [r EXCEPT !.reachedTop = TRUE]
  <2>1. StartRestore(next)
    BY <1>7
  <2>2. /\ next \in ReadType /\ next.initial = read.initial
        /\ next.ups = read.ups /\ next.reached = r.reached
    BY <1>2 DEF ReadType
  <2> HIDE DEF next
  <2>3. ASSUME ~late PROVE r.reached = Top
    <3>0. Sound
      BY <2>3 DEF Sound
    <3>1. wheels = <<>> /\ shown # Torn
      BY <1>2, <1>5, <1>7, <2>3, <3>0 DEF DueInv, SameCore
    <3>2. Screen = r.previous
      BY <1>7 DEF Merges
    <3>3. r.reached = view
      BY <1>1, <1>4, <1>5, <2>3, <3>0, <3>1, <3>2
    <3>4. Final = view
      BY <3>1, ReplayNone DEF Final
    <3> QED BY <1>1, <1>5, <2>3, <3>0, <3>3, <3>4
  <2> QED BY <2>1, <2>2, <2>3, RestoreSends
<1>8. CASE merge = "Unaligned" /\ r.stepDue
  <2> DEFINE next == [r EXCEPT !.valid = FALSE]
  <2>1. StartRestore(next)
    BY <1>8
  <2>2. /\ next \in ReadType /\ next.initial = read.initial
        /\ next.ups = read.ups /\ next.reachedTop = r.reachedTop
    BY <1>2 DEF ReadType
  <2> HIDE DEF next
  <2> QED BY <1>3, <2>1, <2>2, RestoreSends
<1>9. CASE merge # "Advanced" /\ ~r.stepDue
  <2> DEFINE s == [r EXCEPT !.seen = FALSE]
  <2>1. Keep(s)
    BY <1>9
  <2>2. s \in ReadType /\ SameCore(s)
    BY DEF ReadType, SameCore
  <2> HIDE DEF s
  <2> QED BY <2>1, <2>2, KeepStep DEF Keep
<1>10. merge \in {"Advanced", "Unchanged", "Unaligned"}
  BY DEF Merges
<1> QED BY <1>6, <1>7, <1>8, <1>9, <1>10

\* The way back down, in halves of a screen when it needs more.
LEMMA RestoreStep ==
  ASSUME IInv, NEW r \in ReadType, SameCore(r), Restore(r), AppWaits,
         read.phase = "Restore"
  PROVE  IInv'
<1>1. /\ Types /\ BeginInv /\ Top \in Nat /\ Height \in Nat /\ Height > 0
      /\ answer = NoAnswer
  BY BoundsAssumption DEF IInv, BeginInv
<1>2. /\ r.initial = read.initial /\ r.reached = read.reached
      /\ r.reachedTop = read.reachedTop /\ r.phase = "Restore"
  BY DEF SameCore
<1>3. ~late /\ r.reachedTop => r.reached = Top
  BY <1>2 DEF Sound, IInv, ViewInv, TopInv
<1>4. Sound => Final = start /\ start = 0 /\ Back
  BY DEF IInv, ViewInv, RestoreInv, Back
<1>5. Screen \in ScreenType
  BY <1>1, ScreenIs
<1>6. CASE Screen = r.initial /\ r.valid
  <2> DEFINE t == ~r.reachedTop \/ r.reached - r.initial.at > r.lines
  <2>1. Finish(r, "success", t, "restored")
    BY <1>6 DEF Restore, Success
  <2>2. ~t => r.reachedTop
    OBVIOUS
  <2> HIDE DEF t
  <2> QED BY <1>2, <1>3, <1>4, <2>1, <2>2, FinishStep
<1>7. CASE Screen = r.initial /\ ~r.valid
  <2>1. Finish(r, "fallback", FALSE, "restored")
    BY <1>7 DEF Restore, Fallback
  <2> QED BY <1>2, <1>3, <1>4, <2>1, FinishStep
<1>8. CASE Screen # r.initial /\ (r.stepDue \/ Screen # r.previous)
  <2> DEFINE n == IF Height > 1 THEN Height \div 2 ELSE 1
             next == [r EXCEPT !.previous = Screen]
  <2>1. SendWheel(r, "down", n, next)
    BY <1>8 DEF Restore
  <2>2. n \in Nat /\ n > 0
    BY <1>1
  <2>3. /\ next \in ReadType /\ next.phase = "Restore"
        /\ next.initial = read.initial /\ next.reached = r.reached
        /\ next.reachedTop = r.reachedTop
    BY <1>2, <1>5 DEF ReadType
  <2> HIDE DEF n, next
  <2>4. CASE Sends("down", n, next)
    <3>1. /\ Types' /\ Final' = Scrolled(Final, "down", n)
          /\ read'.phase = "Restore" /\ read'.initial = read.initial
          /\ read'.reached = r.reached /\ read'.reachedTop = r.reachedTop
          /\ ~read'.stepDue /\ answer' = answer
      BY <1>1, <2>2, <2>3, <2>4, SendStep DEF Sends
    <3>2. BeginInv'
      BY <1>1, <3>1 DEF BeginInv, AppWaits
    <3>3. ASSUME Sound PROVE ViewInv'
      <4>1. Final = 0 /\ start = 0
        BY <1>4, <3>3
      <4>2. Final' = 0
        BY <2>2, <3>1, <4>1 DEF Scrolled
      <4>3. RestoreInv'
        BY <4>1, <4>2 DEF RestoreInv, AppWaits
      <4>4. TopInv'
        BY <1>3, <3>1 DEF TopInv, AppWaits
      <4>5. DueInv' /\ ProbeInv' /\ RestoreProbeInv' /\ HarvestInv'
        BY <3>1 DEF DueInv, ProbeInv, RestoreProbeInv, HarvestInv
      <4>6. AnswerInv'
        BY <1>1, <3>1
           DEF AnswerInv, ViewportComesBack,
           OnlyLatenessHidesTruncation, TruncationIsTold, NoAnswer
      <4> QED BY <4>3, <4>4, <4>5, <4>6 DEF ViewInv
    <3> QED BY <3>1, <3>2, <3>3 DEF IInv, ViewInv, Sound, AppWaits
  <2> QED BY <1>2, <1>3, <2>1, <2>4, SendOrFail
<1>9. CASE Screen # r.initial /\ ~(r.stepDue \/ Screen # r.previous)
  <2> DEFINE s == [r EXCEPT !.seen = FALSE]
  <2>1. Keep(s)
    BY <1>9 DEF Restore
  <2>2. s \in ReadType /\ SameCore(s)
    BY DEF ReadType, SameCore
  <2> HIDE DEF s
  <2> QED BY <2>1, <2>2, KeepStep DEF Keep
<1> QED BY <1>6, <1>7, <1>8, <1>9

-----------------------------------------------------------------------------
(* The polls *)

\* A read that ends before it has sent anything has moved nothing.
LEMMA IntactStep ==
  ASSUME IInv, Fallback(Polled, "intact"), AppWaits,
         read.phase = "SettleInitial"
  PROVE  IInv'
<1>1. Types /\ wheels = <<>> /\ view = start
  BY DEF IInv, BeginInv
<1>2. Back
  BY <1>1, ReplayNone DEF Final, Back
<1>3. Polled \in ReadType /\ SameCore(Polled)
  BY <1>1, NotedIs
<1>4. ~late /\ Polled.reachedTop => Polled.reached = Top
  BY <1>3 DEF Sound, IInv, ViewInv, TopInv, SameCore
<1>5. Polled.initial = read.initial
  BY <1>3 DEF SameCore
<1> QED BY <1>2, <1>3, <1>4, <1>5, FinishStep DEF Fallback

\* A poll that ends, or turns back, before it looks.
LEMMA PollHastensStep ==
  ASSUME IInv, PollHastens
  PROVE  IInv'
<1>1. AppWaits /\ Running /\ Hastens /\ Types
  BY DEF PollHastens, AppWaits, appVars, timeVars, envVars, IInv
<1>2. /\ Polled \in ReadType /\ Polled.initial = read.initial
      /\ Polled.ups = read.ups
      /\ (~late /\ Polled.reachedTop => Polled.reached = Top)
  <2>1. Polled \in ReadType /\ SameCore(Polled)
    BY <1>1, NotedIs
  <2>2. ~late /\ read.reachedTop => read.reached = Top
    BY DEF Sound, IInv, ViewInv, TopInv
  <2> QED BY <2>1, <2>2 DEF SameCore
<1>3. ASSUME NEW why, Fallback(Polled, why), why \notin {"restored", "intact"}
      PROVE  IInv'
  BY <1>1, <1>2, <1>3, FinishStep DEF Fallback
<1>4. CASE read.phase = "SettleInitial"
  BY <1>1, <1>4, IntactStep DEF PollHastens
<1>5. CASE read.phase = "Harvest"
  <2> DEFINE r == [read EXCEPT !.valid = FALSE]
  <2>1. StartRestore(r)
    BY <1>5 DEF PollHastens
  <2>2. /\ r \in ReadType /\ r.initial = read.initial /\ r.ups = read.ups
        /\ r.reachedTop = read.reachedTop /\ r.reached = read.reached
    BY <1>1 DEF Types, ReadType
  <2> HIDE DEF r
  <2>3. ~late /\ r.reachedTop => r.reached = Top
    BY <2>2 DEF Sound, IInv, ViewInv, TopInv
  <2> QED BY <1>1, <1>5, <2>1, <2>2, <2>3, RestoreSends
<1>6. CASE read.phase \notin {"SettleInitial", "Harvest"}
  BY <1>3, <1>6 DEF PollHastens
<1> QED BY <1>4, <1>5, <1>6

\* A poll that finds the pane closed.
LEMMA PollGoneStep ==
  ASSUME IInv, PollGone
  PROVE  IInv'
<1>1. AppWaits /\ Types
  BY DEF PollGone, AppWaits, appVars, timeVars, envVars, IInv
<1>2. Polled \in ReadType /\ SameCore(Polled)
  BY <1>1, NotedIs
<1>3. ~late /\ Polled.reachedTop => Polled.reached = Top
  BY <1>2 DEF Sound, IInv, ViewInv, TopInv, SameCore
<1>4. Polled.initial = read.initial
  BY <1>2 DEF SameCore
<1> QED BY <1>1, <1>2, <1>3, <1>4, FinishStep DEF PollGone, Fallback

\* A poll that finds the output not over, or nothing new.
LEMMA PollWaitsStep ==
  ASSUME IInv, PollWaits
  PROVE  IInv'
<1>1. AppWaits /\ Types
  BY DEF PollWaits, AppWaits, appVars, timeVars, envVars, IInv
<1>2. Noted \in ReadType /\ SameCore(Noted)
  BY <1>1, NotedIs
<1> DEFINE s == [Noted EXCEPT !.syncPending = TRUE]
           q == [Noted EXCEPT !.quiet = FALSE]
<1>3. s \in ReadType /\ SameCore(s) /\ q \in ReadType /\ SameCore(q)
  BY <1>2 DEF ReadType, SameCore
<1>4. Keep(Noted) \/ Keep(s) \/ Keep(q)
  BY DEF PollWaits
<1> HIDE DEF s, q
<1>5. ASSUME NEW r \in ReadType, SameCore(r), Keep(r) PROVE IInv'
  BY <1>1, <1>5, KeepStep DEF Keep
<1> QED BY <1>2, <1>3, <1>4, <1>5

\* A poll that looks at the screen.
LEMMA PollLooksStep ==
  ASSUME IInv, PollLooks
  PROVE  IInv'
<1>1. AppWaits /\ Types /\ Looks
  BY DEF PollLooks, AppWaits, appVars, timeVars, envVars, IInv
<1>2. /\ Quieted \in ReadType /\ SameCore(Quieted)
      /\ Quieted.valid => ~Hurry
      /\ Quieted.stepDue \/ Quieted.seen
  BY <1>1, NotedIs DEF Looks
<1> DEFINE r == Quieted
<1> HIDE DEF r
<1>3. CASE Fallback(r, "gone")
  <2>1. Finish(r, "fallback", FALSE, "gone")
    BY <1>3 DEF Fallback
  <2>2. ~late /\ r.reachedTop => r.reached = Top
    BY <1>2 DEF Sound, IInv, ViewInv, TopInv, SameCore, r
  <2>3. r \in ReadType /\ r.initial = read.initial
    BY <1>2 DEF r, SameCore
  <2> QED BY <1>1, <2>1, <2>2, <2>3, FinishStep
<1>4. CASE ByPhase(r, Hurry)
  <2>1. ByPhase(r, Hurry) /\ r \in ReadType /\ SameCore(r)
        /\ (r.valid => ~Hurry) /\ (r.stepDue \/ r.seen)
    BY <1>2, <1>4 DEF r
  <2>2. CASE read.phase = "SettleInitial"
    <3>1. Settle(r)
      BY <2>1, <2>2 DEF ByPhase
    <3> QED BY <1>1, <2>1, <2>2, <3>1, SettleStep
  <2>3. CASE read.phase = "ProbeBottom"
    <3>1. Probe(r, Hurry)
      BY <2>1, <2>3 DEF ByPhase
    <3> QED BY <1>1, <2>1, <2>3, <3>1, ProbeStep
  <2>4. CASE read.phase = "RestoreProbe"
    <3>1. RestoreProbe(r)
      BY <2>1, <2>4 DEF ByPhase
    <3> QED BY <1>1, <2>1, <2>4, <3>1, RestoreProbeStep
  <2>5. CASE read.phase = "Harvest"
    <3>1. Harvest(r)
      BY <2>1, <2>5 DEF ByPhase
    <3> QED BY <1>1, <2>1, <2>5, <3>1, HarvestStep
  <2>6. CASE read.phase = "Restore"
    <3>1. Restore(r)
      BY <2>1, <2>6 DEF ByPhase
    <3> QED BY <1>1, <2>1, <2>6, <3>1, RestoreStep
  <2>7. read.phase \in Phases /\ read.phase # "done"
    BY <1>1 DEF Types, ReadType, Looks, Running
  <2> QED BY <2>2, <2>3, <2>4, <2>5, <2>6, <2>7 DEF Phases
<1> QED BY <1>3, <1>4 DEF PollLooks, r

\* A poll whose look is overtaken by output.
LEMMA PollRacedStep ==
  ASSUME IInv, PollRaced
  PROVE  IInv'
<1>1. AppWaits /\ Types
  BY DEF PollRaced, AppWaits, appVars, timeVars, envVars, IInv
<1>2. Quieted \in ReadType /\ SameCore(Quieted)
  BY <1>1, NotedIs
<1> DEFINE s == [Quieted EXCEPT !.seen = FALSE]
<1>3. s \in ReadType /\ SameCore(s)
  BY <1>2 DEF ReadType, SameCore
<1>4. \/ Fallback(Quieted, "expired")
      \/ read' = s /\ UNCHANGED <<wheels, answer>>
  BY DEF PollRaced, Keep
<1> HIDE DEF s
<1>5. CASE Fallback(Quieted, "expired")
  <2>1. ~late /\ Quieted.reachedTop => Quieted.reached = Top
    BY <1>2 DEF Sound, IInv, ViewInv, TopInv, SameCore
  <2>2. Quieted.initial = read.initial
    BY <1>2 DEF SameCore
  <2> QED BY <1>1, <1>2, <1>5, <2>1, <2>2, FinishStep DEF Fallback
<1>6. CASE read' = s /\ UNCHANGED <<wheels, answer>>
  BY <1>1, <1>3, <1>6, KeepStep
<1> QED BY <1>4, <1>5, <1>6

-----------------------------------------------------------------------------
(* Time, the application, the agent and the pane *)

\* A flag of the read that time lowers or raises; StepTimeout is not one.
LEMMA TimeStep ==
  ASSUME IInv, QuietOver \/ TraversalExpires \/ RestoreExpires \/ Noise
               \/ BecomeBusy \/ UNCHANGED vars
  PROVE  IInv'
<1>1. AppWaits /\ UNCHANGED <<wheels, answer>>
  BY DEF QuietOver, TraversalExpires, RestoreExpires, Noise, BecomeBusy, vars,
     AppWaits, appVars, timeVars, envVars
<1>2. read \in ReadType
  BY DEF IInv, Types
<1>3. read' \in ReadType /\ SameCore(read')
  <2>1. CASE QuietOver
    BY <1>2, <2>1 DEF QuietOver, ReadType, SameCore
  <2>2. CASE RestoreExpires
    BY <1>2, <2>2 DEF RestoreExpires, ReadType, SameCore
  <2>3. CASE TraversalExpires \/ Noise \/ BecomeBusy \/ UNCHANGED vars
    BY <1>2, <2>3 DEF TraversalExpires, Noise, BecomeBusy, vars, SameCore
  <2> QED BY <2>1, <2>2, <2>3
<1> DEFINE r == read'
<1>4. r \in ReadType /\ SameCore(r) /\ read' = r
  BY <1>3
<1> HIDE DEF r
<1> QED BY <1>1, <1>4, KeepStep

\* A step is over: the application has read its wheel events and redrawn, or
\* is late from now on.
LEMMA StepTimeoutStep ==
  ASSUME IInv, StepTimeout
  PROVE  IInv'
<1>1. /\ UNCHANGED <<view, shown, text, start, wheels, answer>>
      /\ read \in ReadType /\ read' = [read EXCEPT !.stepDue = TRUE]
      /\ late' \in BOOLEAN
      /\ ~late' => ~late /\ wheels = <<>> /\ shown # Torn
      /\ Types /\ BeginInv
  BY DEF StepTimeout, appVars, envVars, IInv, Types
<1>2. /\ read' \in ReadType /\ read'.phase = read.phase
      /\ read'.initial = read.initial /\ read'.previous = read.previous
      /\ read'.reached = read.reached /\ read'.ups = read.ups
      /\ read'.reachedTop = read.reachedTop
  BY <1>1 DEF ReadType
<1>3. Types'
  BY <1>1, <1>2 DEF Types
<1>4. BeginInv'
  BY <1>1, <1>2 DEF BeginInv
<1>5. ASSUME Sound' PROVE ViewInv'
  <2>0. Sound
    BY <1>1, <1>5 DEF Sound
  <2>1. /\ ProbeInv /\ RestoreProbeInv /\ HarvestInv /\ RestoreInv
        /\ TopInv /\ AnswerInv
    BY <2>0 DEF IInv, ViewInv
  <2>2. Final' = Final
    BY <1>1 DEF Final
  <2>3. Back' <=> Back
    BY <1>1, <2>2 DEF Back
  <2>4. DueInv'
    BY <1>1 DEF DueInv, Torn
  <2>5. ProbeInv' /\ RestoreInv'
    BY <1>1, <1>2, <2>1, <2>2 DEF ProbeInv, RestoreInv, OneWay
  <2>6. RestoreProbeInv'
    BY <1>1, <1>2, <2>1, <2>3 DEF RestoreProbeInv
  <2>7. HarvestInv' /\ TopInv'
    BY <1>1, <1>2, <2>1, <2>2 DEF HarvestInv, TopInv, OneWay
  <2>8. AnswerInv'
    BY <1>1, <1>2, <2>0, <2>1, <2>2
       DEF AnswerInv, ViewportComesBack, OnlyLatenessHidesTruncation,
       TruncationIsTold, Sound
  <2> QED BY <2>4, <2>5, <2>6, <2>7, <2>8 DEF ViewInv
<1> QED BY <1>3, <1>4, <1>5 DEF IInv, ViewInv

\* The application reads wheel events.
LEMMA ScrollStep ==
  ASSUME IInv, NEW n \in 1 .. Top, Scroll(n)
  PROVE  IInv'
<1>1. /\ Types /\ BeginInv /\ Running
      /\ wheels # <<>> /\ UNCHANGED <<read, answer, text, start, late>>
      /\ shown' \in {view', Torn} /\ shown # Torn
      /\ (view' = view => shown' = view')
  BY DEF IInv, Scroll, timeVars, envVars, Torn
<1>2. /\ wheels' \in Seq(Wheel) /\ view' \in 0 .. Top
      /\ Final' = Final /\ Len(wheels) > 0 /\ Len(wheels') <= Len(wheels)
      /\ view' = Scrolled(view, wheels[1].dir, n)
      /\ Len(wheels) = 1 =>
           \A i \in 1 .. Len(wheels') : wheels'[i].dir = wheels[1].dir
  BY <1>1, ScrollReplay
<1>3. Types'
  BY <1>1, <1>2 DEF Types, Torn
<1>4. read.phase # "SettleInitial" /\ answer = NoAnswer
  BY <1>1 DEF BeginInv, Running
<1>5. BeginInv'
  BY <1>1, <1>4 DEF BeginInv
<1>6. ASSUME NEW dir, OneWay(dir) PROVE OneWay(dir)' /\ wheels[1].dir = dir
  <2>1. Len(wheels) \in Nat /\ Len(wheels') \in Nat
    BY <1>1, <1>2 DEF Types
  <2>2. Len(wheels) <= 1
    BY <1>6 DEF OneWay
  <2> DEFINE l == Len(wheels)
  <2>3. l = 1
    <3>1. l \in Nat /\ l <= 1 /\ l > 0
      BY <1>2, <2>1, <2>2
    <3> HIDE DEF l
    <3> QED BY <3>1
  <2>4. wheels[1].dir = dir
    BY <1>6, <2>3 DEF OneWay
  <2>5. Len(wheels') <= 1
    BY <1>2, <2>1, <2>3
  <2> QED BY <1>2, <2>3, <2>4, <2>5 DEF OneWay
<1>7. ASSUME Sound PROVE ViewInv'
  <2>1. /\ DueInv /\ ProbeInv /\ RestoreProbeInv /\ HarvestInv /\ RestoreInv
        /\ TopInv
    BY <1>1, <1>7 DEF IInv, ViewInv
  <2>2. ~late => ~read.stepDue
    BY <1>1, <2>1 DEF DueInv, Running
  <2>3. DueInv' /\ TopInv'
    BY <1>1, <2>1, <2>2 DEF DueInv, TopInv
  <2>4. ProbeInv'
    <3> SUFFICES ASSUME read.phase = "ProbeBottom" PROVE ProbeInv'
      BY <1>1 DEF ProbeInv
    <3>1. OneWay("down")' /\ wheels[1].dir = "down"
      BY <1>6, <2>1 DEF ProbeInv
    <3>2. start = 0 => view' = 0 /\ shown' = 0
      <4> SUFFICES ASSUME start = 0 PROVE view' = 0 /\ shown' = 0
        OBVIOUS
      <4>1. view = 0
        BY <2>1 DEF ProbeInv
      <4>2. view' = 0
        BY <1>2, <3>1, <4>1 DEF Scrolled
      <4> QED BY <1>1, <4>1, <4>2
    <3> QED BY <1>1, <1>2, <2>1, <3>1, <3>2 DEF ProbeInv
  <2>5. RestoreProbeInv' /\ RestoreInv'
    BY <1>1, <1>2, <2>1 DEF RestoreProbeInv, RestoreInv, Back
  <2>6. HarvestInv'
    BY <1>1, <1>2, <1>6, <2>1 DEF HarvestInv
  <2>7. AnswerInv'
    BY <1>1, <1>4
       DEF AnswerInv, ViewportComesBack,
       OnlyLatenessHidesTruncation, TruncationIsTold, NoAnswer
  <2> QED BY <2>3, <2>4, <2>5, <2>6, <2>7 DEF ViewInv
<1> QED BY <1>1, <1>3, <1>5, <1>7 DEF IInv, ViewInv, Sound

\* The application ends a redraw, or prints.
LEMMA ShowStep ==
  ASSUME IInv, EndRedraw \/ ShowText
  PROVE  IInv'
<1>1. /\ Types /\ BeginInv /\ Running /\ answer = NoAnswer
      /\ UNCHANGED <<read, answer, view, wheels, start, late>>
      /\ text' \in Nat /\ text <= text'
      /\ shown' \in {view, Torn} /\ (shown' = shown \/ shown' = view)
      /\ read.initial \in ScreenType /\ text \in Nat
  BY DEF IInv, EndRedraw, ShowText, timeVars, envVars, Types, BeginInv,
     Running, ReadType
<1>2. Types'
  BY <1>1 DEF Types, Torn
<1>3. BeginInv'
  BY <1>1 DEF BeginInv, ScreenType
<1>4. Final' = Final
  BY <1>1 DEF Final
<1>5. ASSUME Sound PROVE ViewInv'
  <2>1. /\ DueInv /\ ProbeInv /\ RestoreProbeInv /\ HarvestInv /\ RestoreInv
        /\ TopInv
    BY <1>5 DEF IInv, ViewInv
  <2>2. view # Torn
    BY <1>1, BoundsAssumption DEF Types, Torn
  <2>3. DueInv' /\ TopInv'
    BY <1>1, <2>1, <2>2 DEF DueInv, TopInv, Torn
  <2>4. ProbeInv' /\ HarvestInv' /\ RestoreInv'
    BY <1>1, <1>4, <2>1 DEF ProbeInv, HarvestInv, RestoreInv, OneWay
  <2>5. RestoreProbeInv'
    BY <1>1, <1>4, <2>1 DEF RestoreProbeInv, Back, BeginInv, ScreenType
  <2>6. AnswerInv'
    BY <1>1
       DEF AnswerInv, ViewportComesBack,
       OnlyLatenessHidesTruncation, TruncationIsTold, NoAnswer
  <2> QED BY <2>3, <2>4, <2>5, <2>6 DEF ViewInv
<1> QED BY <1>1, <1>2, <1>3, <1>5 DEF IInv, ViewInv, Sound

-----------------------------------------------------------------------------
(* The theorems *)

\* The invariant holds at the start.
LEMMA InitInvariant ==
  ASSUME Init
  PROVE  IInv
<1>1. /\ view \in 0 .. Top /\ shown = view /\ start = view /\ text = 0
      /\ wheels = <<>> /\ late = FALSE /\ answer = NoAnswer
      /\ Top \in Nat
  BY BoundsAssumption DEF Init
<1>2. Screen \in ScreenType /\ Screen.at = view /\ Screen.text = 0
  BY <1>1 DEF Screen, ScreenType, Torn
<1>3. /\ read \in ReadType /\ read.phase = "SettleInitial"
      /\ read.initial = Screen /\ read.previous = Screen
      /\ read.reached = view /\ read.ups = 0
      /\ ~read.stepDue /\ ~read.reachedTop
  <2>1. view \in 0 .. Torn /\ 0 \in 0 .. Top
    BY <1>1 DEF Torn
  <2>2. Lines \subseteq Nat
    BY BoundsAssumption
  <2>3. PICK lines \in Lines :
          read = [phase |-> "SettleInitial", valid |-> TRUE, lines |-> lines,
                  initial |-> Screen, previous |-> Screen, reached |-> view,
                  reachedTop |-> FALSE, ups |-> 0, stepDue |-> FALSE,
                  quiet |-> FALSE, seen |-> FALSE, syncPending |-> FALSE,
                  restoring |-> "no"]
    BY DEF Init
  <2>4. lines \in Nat
    BY <2>2
  <2> DEFINE x == Screen
             v == view
  <2>5. x \in ScreenType /\ v \in 0 .. Torn
    BY <1>2, <2>1
  <2>6. read = [phase |-> "SettleInitial", valid |-> TRUE, lines |-> lines,
                initial |-> x, previous |-> x, reached |-> v,
                reachedTop |-> FALSE, ups |-> 0, stepDue |-> FALSE,
                quiet |-> FALSE, seen |-> FALSE, syncPending |-> FALSE,
                restoring |-> "no"]
    BY <2>3
  <2> HIDE DEF x, v
  <2>7. /\ read \in ReadType /\ read.phase = "SettleInitial"
        /\ read.initial = x /\ read.previous = x
        /\ read.reached = v /\ read.ups = 0
        /\ ~read.stepDue /\ ~read.reachedTop
    BY <2>1, <2>4, <2>5, <2>6 DEF ReadType, Phases
  <2> QED BY <2>7 DEF x, v
<1>4. Types
  <2>1. late \in BOOLEAN
    BY <1>1, Zenon
  <2>2. start \in 0 .. Top /\ shown \in {view, Torn} /\ text \in Nat
    BY <1>1
  <2>3. wheels \in Seq(Wheel) /\ answer.kind = "none"
    BY <1>1 DEF NoAnswer
  <2> QED BY <1>1, <1>3, <2>1, <2>2, <2>3 DEF Types
<1>5. BeginInv
  BY <1>1, <1>2, <1>3 DEF BeginInv
<1>6. ViewInv
  <2>1. DueInv /\ ProbeInv /\ RestoreProbeInv /\ HarvestInv /\ RestoreInv
        /\ TopInv
    BY <1>3 DEF DueInv, ProbeInv, RestoreProbeInv, HarvestInv, RestoreInv,
       TopInv
  <2>2. AnswerInv
    BY <1>1, NoAnswerYet
  <2> QED BY <2>1, <2>2 DEF ViewInv
<1> QED BY <1>4, <1>5, <1>6 DEF IInv

\* The invariant is kept by every step of the traversal and of everything
\* around it.
THEOREM Invariance == Spec => []IInv
<1>1. Init => IInv
  BY InitInvariant
<1>2. IInv /\ [Next]_vars => IInv'
  <2> SUFFICES ASSUME IInv, [Next]_vars PROVE IInv'
    OBVIOUS
  <2>1. CASE Poll
    BY <2>1, PollHastensStep, PollGoneStep, PollWaitsStep, PollLooksStep,
       PollRacedStep DEF Poll
  <2>2. CASE QuietOver \/ TraversalExpires \/ RestoreExpires \/ Noise
             \/ BecomeBusy \/ UNCHANGED vars
    BY <2>2, TimeStep
  <2>3. CASE StepTimeout
    BY <2>3, StepTimeoutStep
  <2>4. CASE Redraw
    BY <2>4, ScrollStep, ShowStep DEF Redraw
  <2>5. CASE ShowText
    BY <2>5, ShowStep
  <2> QED BY <2>1, <2>2, <2>3, <2>4, <2>5 DEF Next
<1> QED BY <1>1, <1>2, PTL DEF Spec

\* Type correctness: the positions stay inside the history, and no batch of
\* wheel events is empty or longer than it (PendingAltScreenRead).
THEOREM TypeCorrect == Spec => []TypeOK
<1>1. IInv => TypeOK
  <2> SUFFICES ASSUME IInv PROVE TypeOK
    OBVIOUS
  <2>1. /\ read \in ReadType /\ wheels \in Seq(Wheel) /\ view \in 0 .. Top
        /\ shown \in {view, Torn}
        /\ answer.kind \in {"none", "success", "fallback"}
    BY DEF IInv, Types
  <2>2. ASSUME NEW i \in DOMAIN wheels
        PROVE  wheels[i].dir \in {"up", "down"} /\ wheels[i].n \in 1 .. Top
    <3>1. wheels[i] \in Wheel
      BY <2>1
    <3> QED BY <3>1 DEF Wheel
  <2> QED BY <2>1, <2>2 DEF TypeOK, ReadType
<1> QED BY <1>1, Invariance, PTL

\* A traversal that has not run out of time, failed to send or lost its screen
\* leaves the application scrolled to where it found it, or, begun less than a
\* step above the bottom, a step above it (complete_fallback,
\* complete_success), for any height, step and length of the history: from the
\* bottom whatever the application does, from further up unless a redraw comes
\* after STEP_TIMEOUT.
THEOREM ComesBack == Spec => []ViewportComesBack
<1>1. IInv => ViewportComesBack
  BY DEF IInv, ViewInv, Sound, AnswerInv, ViewportComesBack
<1> QED BY <1>1, Invariance, PTL

\* A result without the truncation mark that does not reach the oldest rows has
\* one cause, a redraw after STEP_TIMEOUT: apart from it reached_top is set
\* only at the top.
THEOREM OnlyLateness == Spec => []OnlyLatenessHidesTruncation
<1>1. IInv => OnlyLatenessHidesTruncation
  BY DEF IInv, ViewInv, Sound, AnswerInv, OnlyLatenessHidesTruncation
<1> QED BY <1>1, Invariance, PTL

=============================================================================
