---------------------------- MODULE PtyActorProofs ----------------------------
(***************************************************************************)
(* That input is conserved and a handoff is clean, for any number of       *)
(* tasks, any size of the data queue and any bounds.  The invariant has    *)
(* four parts besides the types: which commands the actor has still to     *)
(* handle while the caller waits, what is empty once the actor is quiet,   *)
(* the conservation of input, and where the report of an appearance is.    *)
(* What FlattenSeq computes is proved by induction over the length, with   *)
(* the least-element principle in the place of an induction rule.          *)
(***************************************************************************)
EXTENDS PtyActor, FiniteSetTheorems, SequenceTheorems, WellFoundedInduction,
        TLAPS

-----------------------------------------------------------------------------
(* The invariant *)

Commands == {"BeginHandoff", "DuplicateForHandoff", "RollbackHandoff",
             "ReleaseAfterCommit", "Shutdown"}
Command == [id : 1 .. MaxInputs, kind : {"plain", "delayed"}]
Item == [src : {"user", "terminal"},
         what : {"input", "report", "answer", "size"},
         id : Nat, part : {1, 2}, due : BOOLEAN]
Sent == [src : {"terminal"}, what : {"report", "answer", "size"},
         id : Nat, part : {1, 2}, due : BOOLEAN]
Byte == Nat \X {1, 2} \X {1, 2}
Keys == {"inputs", "handoffs", "reads", "schemes", "resizes", "faults"}

\* The types of the queues and the histories, which TypeOK leaves open.
QueueTypes ==
  /\ controls \in [resize : 0 .. 2, nudge : 0 .. 2, responses : Seq(Sent)]
  /\ pending \in Seq(Item) /\ replies \in Seq(Sent)
  /\ accepted \in Seq(Byte) /\ written \in Seq(Byte)
  /\ call \in Nat /\ scheme \in Nat /\ counts \in [Keys -> Nat]

\* What the caller waits for.
Asked == [begin |-> "BeginHandoff", dup |-> "DuplicateForHandoff",
          rollback |-> "RollbackHandoff"]
Waits == {"begin", "dup", "rollback"}
Idle == ctlQ = <<>> /\ pc # "drain"

\* Commands are numbered in the order of the queue: only the last one can be
\* the one whose answer is awaited.
Numbered ==
  caller # "done" => \A i \in 1 .. Len(ctlQ) - 1 : ctlQ[i][2] < call

\* A BeginHandoff or a drain whose answer is awaited.
BeginAwaited ==
  ~Exited => \A i \in 1 .. Len(ctlQ) :
    ctlQ[i][1] = "BeginHandoff" /\ ctlQ[i][2] = call =>
      caller = "begin" /\ reply = "none" /\ i = Len(ctlQ)
DrainAwaited ==
  pc = "drain" /\ draining = call =>
    caller = "begin" /\ reply = "none" /\ ctlQ = <<>>

\* A caller that waits has its command in the queue, as the last one, or the
\* actor is at it; once answered, the actor has nothing else to do.
Awaited ==
  caller \in Waits /\ reply = "none" /\ ~Exited =>
    \/ /\ Len(ctlQ) > 0
       /\ ctlQ[Len(ctlQ)] = <<Asked[caller], call>>
    \/ caller = "begin" /\ ctlQ = <<>> /\ pc = "drain" /\ draining = call
Settled ==
  caller \in Waits /\ reply # "none" /\ ~Exited => Idle
Acknowledged ==
  /\ caller = "begin" /\ reply = "ok" /\ ~Exited => state = "Quiesced"
  /\ caller = "rollback" /\ reply = "ok" /\ ~Exited => state = "Running"

\* While the server holds the actor, it is quiet and has at most the duplicate
\* to make.
Held ==
  /\ caller \in {"held", "import"} /\ ~Exited => state = "Quiesced" /\ Idle
  /\ caller = "dup" /\ ~Exited =>
       state = "Quiesced" /\ pc # "drain" /\ Len(ctlQ) <= 1

\* The gate is open exactly when no handoff is under way and none is left
\* over; then the actor has no command.
GateInv ==
  /\ gate /\ ~Exited => caller = "idle" /\ ~deaf
  /\ caller = "idle" /\ ~Exited /\ ~deaf =>
       gate /\ state = "Running" /\ Idle
Released == state = "Released" => Exited

CallInv ==
  /\ Numbered /\ BeginAwaited /\ DrainAwaited /\ Awaited /\ Settled
  /\ Acknowledged /\ Held /\ GateInv /\ Released

\* A quiet actor has no input left, and gets none.
QuietInv ==
  /\ state = "Quiesced" /\ ~Exited => dataQ = <<>> /\ Bytes(pending) = <<>>
  /\ pc = "drain" => dataQ = <<>> /\ ~gate

\* The offset is into a piece that is pending.
InputInv ==
  /\ ~Exited /\ offset = 1 => pending # <<>>
  /\ InputConserved

IsReport(x) == x.what = "report" /\ x.id = scheme

\* The report of the appearance that queries are answered with is queued or
\* written before response_order is free again.
ReportInv ==
  /\ ReportPrecedesAnswer
  /\ \A i \in DOMAIN controls.responses :
       controls.responses[i].what = "report"
  /\ order = "free" /\ scheme > 0 =>
       \/ \E j \in DOMAIN replies : IsReport(replies[j])
       \/ \E j \in DOMAIN controls.responses : IsReport(controls.responses[j])

IInv ==
  TypeOK /\ QueueTypes /\ CallInv /\ QuietInv /\ InputInv /\ ReportInv

-----------------------------------------------------------------------------
(* Induction, and what FlattenSeq computes *)

\* A set of natural numbers that is not empty has a least element.
LEMMA LeastElement ==
  ASSUME NEW T \in SUBSET Nat, T # {}
  PROVE  \E n \in T : \A m \in T : n <= m
<1>1. PICK n \in T : \A m \in T : ~(<<m, n>> \in OpToRel(<, Nat))
  BY NatLessThanWellFounded, WFMin, Zenon
<1>2. ASSUME NEW m \in T PROVE n <= m
  <2>1. ~(m < n)
    BY <1>1, Zenon DEF OpToRel
  <2> QED BY <2>1
<1> QED BY <1>2

\* Induction over the natural numbers, stated of a set.
LEMMA InductionOnNat ==
  ASSUME NEW S, 0 \in S, \A n \in Nat : n \in S => n + 1 \in S
  PROVE  Nat \subseteq S
<1> SUFFICES ASSUME ~(Nat \subseteq S) PROVE FALSE
  OBVIOUS
<1> DEFINE T == Nat \ S
<1>1. T \in SUBSET Nat /\ T # {}
  OBVIOUS
<1> HIDE DEF T
<1>2. PICK n \in T : \A m \in T : n <= m
  BY <1>1, LeastElement
<1>3. n \in Nat /\ n # 0
  BY <1>2, <1>1 DEF T
<1>4. n - 1 \in Nat /\ ~(n <= n - 1)
  BY <1>3
<1>5. n - 1 \in S
  BY <1>4, <1>2 DEF T
<1>6. n \in S
  BY <1>5, <1>4, <1>3
<1> QED BY <1>6, <1>2 DEF T

\* The recursive function inside FlattenSeq, up to its n-th element.
FlatTo(f, ss, n) ==
  f = [i \in 1 .. n |-> IF i = 1 THEN ss[i] ELSE f[i - 1] \o ss[i]]

\* One step of that function.
LEMMA FlatStep ==
  ASSUME NEW f, NEW ss, NEW n, FlatTo(f, ss, n), NEW i \in 1 .. n
  PROVE  f[i] = IF i = 1 THEN ss[i] ELSE f[i - 1] \o ss[i]
<1> DEFINE F == [j \in 1 .. n |-> IF j = 1 THEN ss[j] ELSE f[j - 1] \o ss[j]]
<1>1. F[i] = IF i = 1 THEN ss[i] ELSE f[i - 1] \o ss[i]
  OBVIOUS
<1>2. f = F
  BY DEF FlatTo
<1> HIDE DEF F
<1> QED BY <1>1, <1>2

\* The recursive definition inside FlattenSeq has a solution.
LEMMA FlatExists ==
  ASSUME NEW ss, NEW n \in Nat
  PROVE  \E f : FlatTo(f, ss, n)
<1> DEFINE S == {m \in Nat : \E f : FlatTo(f, ss, m)}
<1>1. 0 \in S
  <2>1. FlatTo([i \in 1 .. 0 |-> ss[i]], ss, 0)
    BY DEF FlatTo
  <2> QED BY <2>1
<1>2. ASSUME NEW m \in Nat, m \in S PROVE m + 1 \in S
  <2>1. PICK f : FlatTo(f, ss, m)
    BY <1>2
  <2> DEFINE g == [i \in 1 .. m + 1 |->
                     IF i <= m THEN f[i]
                     ELSE IF i = 1 THEN ss[i] ELSE f[i - 1] \o ss[i]]
  <2>2. ASSUME NEW i \in 1 .. m + 1
        PROVE  g[i] = IF i = 1 THEN ss[i] ELSE g[i - 1] \o ss[i]
    <3>1. CASE i <= m
      <4>1. f[i] = IF i = 1 THEN ss[i] ELSE f[i - 1] \o ss[i]
        BY <3>1, <2>1, FlatStep
      <4> QED BY <4>1, <3>1
    <3>2. CASE i = m + 1
      BY <3>2
    <3> QED BY <3>1, <3>2
  <2>3. FlatTo(g, ss, m + 1)
    BY <2>2 DEF FlatTo
  <2> QED BY <2>3
<1> HIDE DEF S
<1>3. Nat \subseteq S
  BY <1>1, <1>2, InductionOnNat
<1> QED BY <1>3 DEF S

\* What FlattenSeq is: the last element of that function.
LEMMA FlatIs ==
  ASSUME NEW ss, Len(ss) \in Nat, Len(ss) # 0
  PROVE  \E f : FlatTo(f, ss, Len(ss)) /\ FlattenSeq(ss) = f[Len(ss)]
<1> DEFINE f == CHOOSE g : FlatTo(g, ss, Len(ss))
<1>1. FlatTo(f, ss, Len(ss))
  BY FlatExists
<1>2. FlattenSeq(ss) = f[Len(ss)]
  BY DEF FlattenSeq, FlatTo
<1> QED BY <1>1, <1>2

\* Two sequences have the same first n elements.
Agree(ss, tt, n) == \A i \in 1 .. n : ss[i] = tt[i]

\* The recursive function depends only on the elements it has passed.
LEMMA FlatPrefix ==
  ASSUME NEW ss, NEW tt, NEW n \in Nat, NEW m \in Nat, n <= m,
         Agree(ss, tt, n),
         NEW f, FlatTo(f, ss, n), NEW g, FlatTo(g, tt, m)
  PROVE  Agree(f, g, n)
<1> USE DEF Agree
<1> DEFINE S == {j \in Nat : j \in 1 .. n => f[j] = g[j]}
<1>1. 0 \in S
  OBVIOUS
<1>2. ASSUME NEW j \in Nat, j \in S PROVE j + 1 \in S
  <2> SUFFICES ASSUME j + 1 \in 1 .. n PROVE f[j + 1] = g[j + 1]
    OBVIOUS
  <2>1. f[j + 1] = IF j + 1 = 1 THEN ss[j + 1] ELSE f[j] \o ss[j + 1]
    <3>1. j + 1 \in 1 .. n /\ (j + 1) - 1 = j
      OBVIOUS
    <3> QED BY <3>1, FlatStep
  <2>2. g[j + 1] = IF j + 1 = 1 THEN tt[j + 1] ELSE g[j] \o tt[j + 1]
    <3>1. j + 1 \in 1 .. m /\ (j + 1) - 1 = j
      OBVIOUS
    <3> QED BY <3>1, FlatStep
  <2>3. CASE j = 0
    BY <2>1, <2>2, <2>3
  <2>4. CASE j # 0
    <3>1. f[j] = g[j]
      BY <2>4, <1>2
    <3> QED BY <3>1, <2>1, <2>2, <2>4
  <2> QED BY <2>3, <2>4
<1> HIDE DEF S
<1>3. Nat \subseteq S
  BY <1>1, <1>2, InductionOnNat
<1> QED BY <1>3 DEF S

\* One more sequence is put behind.
LEMMA FlatAppend ==
  ASSUME NEW S, NEW ss \in Seq(Seq(S)), NEW x \in Seq(S)
  PROVE  FlattenSeq(Append(ss, x)) = FlattenSeq(ss) \o x
<1> DEFINE tt == Append(ss, x)
           n == Len(ss)
           m == Len(tt)
<1>1. /\ n \in Nat /\ m \in Nat /\ m = n + 1 /\ tt[m] = x
      /\ \A i \in 1 .. n : ss[i] = tt[i]
  BY AppendProperties
<1> HIDE DEF tt, m
<1>2. PICK g : FlatTo(g, tt, m) /\ FlattenSeq(tt) = g[m]
  BY <1>1, FlatIs DEF m
<1>3. g[m] = IF m = 1 THEN tt[m] ELSE g[m - 1] \o tt[m]
  BY <1>1, <1>2, FlatStep
<1>4. CASE n = 0
  <2>1. ss = <<>>
    BY <1>4
  <2>2. FlattenSeq(ss) \o x = x
    BY <2>1, ConcatEmptySeq DEF FlattenSeq
  <2> QED BY <2>2, <1>1, <1>2, <1>3, <1>4 DEF tt
<1>5. CASE n # 0
  <2>1. PICK f : FlatTo(f, ss, n) /\ FlattenSeq(ss) = f[n]
    BY <1>1, <1>5, FlatIs
  <2> HIDE DEF n
  <2>2. n <= m /\ m - 1 = n /\ m # 1 /\ n \in 1 .. n
    BY <1>1, <1>5
  <2>3. Agree(ss, tt, n)
    BY <1>1 DEF Agree
  <2>4. Agree(f, g, n)
    BY <2>1, <2>2, <2>3, <1>1, <1>2, FlatPrefix
  <2>5. f[n] = g[n]
    BY <2>2, <2>4 DEF Agree
  <2> QED BY <2>1, <2>2, <2>5, <1>1, <1>2, <1>3 DEF tt
<1> QED BY <1>4, <1>5

\* Nothing is made of nothing.
LEMMA FlatEmpty == FlattenSeq(<<>>) = <<>>
BY DEF FlattenSeq

\* A sequence of sequences is empty or has a last one.
LEMMA LastOne ==
  ASSUME NEW S, NEW ss \in Seq(S), NEW n \in Nat, Len(ss) = n + 1
  PROVE  \E tt \in Seq(S), x \in S : ss = Append(tt, x) /\ Len(tt) = n
<1>1. ss # <<>>
  OBVIOUS
<1>2. PICK tt \in Seq(S), x \in S : ss = Append(tt, x)
  BY <1>1, SequenceEmptyOrAppend
<1>3. Len(ss) = Len(tt) + 1
  BY <1>2, AppendProperties
<1> QED BY <1>2, <1>3

\* FlattenSeq gives a sequence of the same elements.
LEMMA FlatType ==
  ASSUME NEW S, NEW ss \in Seq(Seq(S))
  PROVE  FlattenSeq(ss) \in Seq(S)
<1> DEFINE N == {n \in Nat : \A tt \in Seq(Seq(S)) :
                               Len(tt) = n => FlattenSeq(tt) \in Seq(S)}
<1>1. 0 \in N
  <2>1. ASSUME NEW tt \in Seq(Seq(S)), Len(tt) = 0
        PROVE  FlattenSeq(tt) \in Seq(S)
    <3>1. tt = <<>>
      BY <2>1
    <3> QED BY <3>1, FlatEmpty, EmptySeq
  <2> QED BY <2>1
<1>2. ASSUME NEW n \in Nat, n \in N PROVE n + 1 \in N
  <2>1. ASSUME NEW tt \in Seq(Seq(S)), Len(tt) = n + 1
        PROVE  FlattenSeq(tt) \in Seq(S)
    <3>1. PICK uu \in Seq(Seq(S)), x \in Seq(S) :
            tt = Append(uu, x) /\ Len(uu) = n
      BY <2>1, LastOne
    <3>2. FlattenSeq(uu) \in Seq(S)
      BY <3>1, <1>2
    <3>3. FlattenSeq(tt) = FlattenSeq(uu) \o x
      BY <3>1, FlatAppend
    <3> QED BY <3>2, <3>3, ConcatProperties
  <2> QED BY <2>1
<1> HIDE DEF N
<1>3. Nat \subseteq N
  BY <1>1, <1>2, InductionOnNat
<1> QED BY <1>3 DEF N

\* FlattenSeq distributes over concatenation.
LEMMA FlatConcat ==
  ASSUME NEW S, NEW ss \in Seq(Seq(S)), NEW tt \in Seq(Seq(S))
  PROVE  FlattenSeq(ss \o tt) = FlattenSeq(ss) \o FlattenSeq(tt)
<1> DEFINE Claim(uu) ==
             FlattenSeq(ss \o uu) = FlattenSeq(ss) \o FlattenSeq(uu)
           N == {n \in Nat : \A uu \in Seq(Seq(S)) : Len(uu) = n => Claim(uu)}
<1>0. FlattenSeq(ss) \in Seq(S)
  BY FlatType
<1>1. 0 \in N
  <2>1. ASSUME NEW uu \in Seq(Seq(S)), Len(uu) = 0
        PROVE  Claim(uu)
    <3>1. uu = <<>>
      BY <2>1
    <3>2. ss \o uu = ss
      BY <3>1, ConcatEmptySeq
    <3>3. FlattenSeq(ss) \o <<>> = FlattenSeq(ss)
      BY <1>0, ConcatEmptySeq
    <3> QED BY <3>1, <3>2, <3>3, FlatEmpty
  <2> QED BY <2>1
<1>2. ASSUME NEW n \in Nat, n \in N PROVE n + 1 \in N
  <2>1. ASSUME NEW uu \in Seq(Seq(S)), Len(uu) = n + 1
        PROVE  Claim(uu)
    <3>1. PICK vv \in Seq(Seq(S)), x \in Seq(S) :
            uu = Append(vv, x) /\ Len(vv) = n
      BY <2>1, LastOne
    <3>2. FlattenSeq(ss \o vv) = FlattenSeq(ss) \o FlattenSeq(vv)
      BY <3>1, <1>2
    <3>3. ss \o uu = Append(ss \o vv, x)
      <4>1. ss \o vv \in Seq(Seq(S)) /\ <<x>> \in Seq(Seq(S))
        BY ConcatProperties
      <4>2. uu = vv \o <<x>> /\ Append(ss \o vv, x) = (ss \o vv) \o <<x>>
        BY <3>1, <4>1, AppendIsConcat
      <4> QED BY <4>1, <4>2, ConcatAssociative
    <3>4. FlattenSeq(ss \o uu) = FlattenSeq(ss \o vv) \o x
      BY <3>3, ConcatProperties, FlatAppend
    <3>5. FlattenSeq(uu) = FlattenSeq(vv) \o x
      BY <3>1, FlatAppend
    <3>6. FlattenSeq(vv) \in Seq(S)
      BY FlatType
    <3> HIDE DEF Claim
    <3>7. (FlattenSeq(ss) \o FlattenSeq(vv)) \o x
            = FlattenSeq(ss) \o (FlattenSeq(vv) \o x)
      <4> DEFINE a == FlattenSeq(ss)
                 b == FlattenSeq(vv)
      <4>1. a \in Seq(S) /\ b \in Seq(S)
        BY <1>0, <3>6
      <4> HIDE DEF a, b
      <4>2. (a \o b) \o x = a \o (b \o x)
        BY <4>1, ConcatAssociative
      <4> QED BY <4>2 DEF a, b
    <3> QED BY <3>2, <3>4, <3>5, <3>7 DEF Claim
  <2> QED BY <2>1
<1> HIDE DEF N, Claim
<1>3. Nat \subseteq N
  BY <1>1, <1>2, InductionOnNat
<1> QED BY <1>3 DEF N, Claim

\* A single sequence is itself.
LEMMA FlatOne ==
  ASSUME NEW S, NEW x \in Seq(S)
  PROVE  FlattenSeq(<<x>>) = x
<1>1. <<>> \in Seq(Seq(S)) /\ <<x>> = Append(<<>>, x)
  OBVIOUS
<1>2. FlattenSeq(<<x>>) = <<>> \o x
  BY <1>1, FlatAppend, FlatEmpty
<1> QED BY <1>2, ConcatEmptySeq

-----------------------------------------------------------------------------
(* The bytes of pending writes and of queued commands *)

\* The bytes of a piece are two, or none.
LEMMA UserBytesType ==
  ASSUME NEW x \in Item
  PROVE  /\ UserBytes(x) \in Seq(Byte)
         /\ x.src = "user" => UserBytes(x) = << <<x.id, x.part, 1>>,
                                                <<x.id, x.part, 2>> >>
         /\ x.src # "user" => UserBytes(x) = <<>>
<1>1. x.id \in Nat /\ x.part \in {1, 2}
  BY DEF Item
<1>2. <<x.id, x.part, 1>> \in Byte /\ <<x.id, x.part, 2>> \in Byte
  BY <1>1 DEF Byte
<1> HIDE DEF Byte
<1> QED BY <1>2 DEF UserBytes

\* The bytes of each piece of a sequence.
BytesOf(items) == [i \in DOMAIN items |-> UserBytes(items[i])]

\* They are a sequence of sequences of bytes, of the same length.
LEMMA BytesOfType ==
  ASSUME NEW a \in Seq(Item)
  PROVE  /\ BytesOf(a) \in Seq(Seq(Byte)) /\ Len(BytesOf(a)) = Len(a)
         /\ \A i \in 1 .. Len(a) : BytesOf(a)[i] = UserBytes(a[i])
<1>1. \A i \in 1 .. Len(a) : a[i] \in Item
  OBVIOUS
<1>2. \A i \in 1 .. Len(a) : UserBytes(a[i]) \in Seq(Byte)
  BY <1>1, UserBytesType
<1> QED BY <1>2 DEF BytesOf

\* Bytes are bytes.
LEMMA BytesType ==
  ASSUME NEW a \in Seq(Item)
  PROVE  Bytes(a) \in Seq(Byte)
<1>1. FlattenSeq(BytesOf(a)) \in Seq(Byte)
  BY BytesOfType, FlatType
<1> QED BY <1>1 DEF Bytes, BytesOf

\* The bytes of a concatenation.
LEMMA BytesConcat ==
  ASSUME NEW a \in Seq(Item), NEW b \in Seq(Item)
  PROVE  Bytes(a \o b) = Bytes(a) \o Bytes(b)
<1>1. a \o b \in Seq(Item) /\ Len(a \o b) = Len(a) + Len(b)
  BY ConcatProperties
<1> DEFINE u == BytesOf(a)
           v == BytesOf(b)
           x == BytesOf(a \o b)
<1>2. /\ u \in Seq(Seq(Byte)) /\ v \in Seq(Seq(Byte))
      /\ x \in Seq(Seq(Byte))
      /\ Len(u) = Len(a) /\ Len(v) = Len(b) /\ Len(x) = Len(a) + Len(b)
  BY <1>1, BytesOfType
<1>3. /\ u \o v \in Seq(Seq(Byte)) /\ Len(u \o v) = Len(a) + Len(b)
  BY <1>2, ConcatProperties
<1>4. ASSUME NEW i \in 1 .. Len(x) PROVE x[i] = (u \o v)[i]
  <2>1. x[i] = UserBytes((a \o b)[i])
    BY <1>1, <1>2, BytesOfType
  <2>2. (u \o v)[i] = IF i <= Len(u) THEN u[i] ELSE v[i - Len(u)]
    BY <1>2, ConcatProperties
  <2>3. (a \o b)[i] = IF i <= Len(a) THEN a[i] ELSE b[i - Len(a)]
    BY <1>2, ConcatProperties
  <2>4. CASE i <= Len(a)
    <3>1. i \in 1 .. Len(a)
      BY <2>4
    <3>2. u[i] = UserBytes(a[i])
      BY <3>1, BytesOfType
    <3> HIDE DEF u, v, x
    <3> QED BY <2>1, <2>2, <2>3, <2>4, <3>2, <1>2
  <2>5. CASE ~(i <= Len(a))
    <3>1. i - Len(a) \in 1 .. Len(b)
      BY <2>5, <1>2
    <3>2. v[i - Len(a)] = UserBytes(b[i - Len(a)])
      BY <3>1, BytesOfType
    <3> HIDE DEF u, v, x
    <3> QED BY <2>1, <2>2, <2>3, <2>5, <3>2, <1>2
  <2> QED BY <2>4, <2>5
<1>5. x = u \o v
  <2> HIDE DEF u, v, x
  <2> QED BY <1>2, <1>3, <1>4, SeqEqual
<1>6. FlattenSeq(x) = FlattenSeq(u) \o FlattenSeq(v)
  <2> HIDE DEF u, v, x
  <2> QED BY <1>5, <1>2, FlatConcat
<1> QED BY <1>6 DEF Bytes, BytesOf

\* No piece has no bytes.
LEMMA BytesNone == Bytes(<<>>) = <<>>
<1>1. BytesOf(<<>>) = <<>>
  BY DEF BytesOf
<1> QED BY <1>1, FlatEmpty DEF Bytes, BytesOf

\* The bytes of one piece.
LEMMA BytesOne ==
  ASSUME NEW x \in Item
  PROVE  Bytes(<<x>>) = UserBytes(x)
<1>1. UserBytes(x) \in Seq(Byte)
  BY UserBytesType
<1>2. BytesOf(<<x>>) = <<UserBytes(x)>>
  BY DEF BytesOf
<1>3. FlattenSeq(<<UserBytes(x)>>) = UserBytes(x)
  BY <1>1, FlatOne
<1> QED BY <1>2, <1>3 DEF Bytes, BytesOf

\* The bytes of the front, and the bytes behind it.
LEMMA BytesFront ==
  ASSUME NEW a \in Seq(Item), Len(a) > 0
  PROVE  /\ Head(a) \in Item /\ Tail(a) \in Seq(Item)
         /\ Bytes(a) = UserBytes(Head(a)) \o Bytes(Tail(a))
<1>1. Head(a) \in Item /\ Tail(a) \in Seq(Item) /\ a = <<Head(a)>> \o Tail(a)
  OBVIOUS
<1>2. <<Head(a)>> \in Seq(Item)
  BY <1>1
<1>3. Bytes(<<Head(a)>> \o Tail(a)) = Bytes(<<Head(a)>>) \o Bytes(Tail(a))
  BY <1>1, <1>2, BytesConcat
<1> QED BY <1>1, <1>3, BytesOne

\* What the terminal answers has no bytes of the user.
LEMMA NoUserBytes ==
  ASSUME NEW a \in Seq(Item), \A i \in 1 .. Len(a) : a[i].src # "user"
  PROVE  Bytes(a) = <<>>
<1> DEFINE N == {n \in Nat : \A b \in Seq(Item) :
                   Len(b) = n /\ (\A i \in 1 .. Len(b) : b[i].src # "user")
                     => Bytes(b) = <<>>}
<1>1. 0 \in N
  <2>1. ASSUME NEW b \in Seq(Item), Len(b) = 0 PROVE Bytes(b) = <<>>
    <3>1. b = <<>>
      BY <2>1
    <3>2. BytesOf(b) = <<>>
      BY <3>1 DEF BytesOf
    <3> QED BY <3>2, FlatEmpty DEF Bytes, BytesOf
  <2> QED BY <2>1
<1>2. ASSUME NEW n \in Nat, n \in N PROVE n + 1 \in N
  <2>1. ASSUME NEW b \in Seq(Item), Len(b) = n + 1,
               \A i \in 1 .. Len(b) : b[i].src # "user"
        PROVE  Bytes(b) = <<>>
    <3>1. PICK c \in Seq(Item), x \in Item : b = Append(c, x) /\ Len(c) = n
      BY <2>1, LastOne
    <3>2. /\ \A i \in 1 .. n : b[i] = c[i]
          /\ b[n + 1] = x
      BY <3>1, AppendProperties
    <3>3. x.src # "user" /\ \A i \in 1 .. Len(c) : c[i].src # "user"
      BY <2>1, <3>1, <3>2
    <3>4. Bytes(c) = <<>>
      BY <3>1, <3>3, <1>2
    <3>5. Bytes(b) = Bytes(c) \o Bytes(<<x>>)
      <4>1. b = c \o <<x>> /\ <<x>> \in Seq(Item)
        BY <3>1, AppendIsConcat
      <4> QED BY <4>1, BytesConcat
    <3>6. Bytes(<<x>>) = <<>>
      BY <3>3, BytesOne, UserBytesType
    <3> QED BY <3>4, <3>5, <3>6
  <2> QED BY <2>1
<1> HIDE DEF N
<1>3. Nat \subseteq N
  BY <1>1, <1>2, InductionOnNat
<1> QED BY <1>3 DEF N

\* What a command becomes when the actor takes it.
LEMMA PartsType ==
  ASSUME NEW cmd \in Command
  PROVE  Parts(cmd) \in Seq(Item)
<1>1. cmd.id \in Nat
  BY BoundsAssumption DEF Command
<1>2. ASSUME NEW n \in {1, 2}, NEW d \in BOOLEAN
      PROVE  Input(cmd.id, n, d) \in Item
  BY <1>1 DEF Input, Item
<1> DEFINE x == Input(cmd.id, 1, TRUE)
           y == Input(cmd.id, 2, FALSE)
<1>3. x \in Item /\ y \in Item
  BY <1>2
<1>4. Parts(cmd) = IF cmd.kind = "plain" THEN <<x>> ELSE <<x, y>>
  BY Zenon DEF Parts
<1> HIDE DEF x, y
<1>5. <<x>> \in Seq(Item) /\ <<x, y>> \in Seq(Item)
  BY <1>3
<1> QED BY <1>4, <1>5, Zenon

\* The parts of each command of a queue.
PartsOf(q) == [i \in DOMAIN q |-> Parts(q[i])]

\* They are a sequence of sequences of pieces, of the same length.
LEMMA PartsOfType ==
  ASSUME NEW q \in Seq(Command)
  PROVE  /\ PartsOf(q) \in Seq(Seq(Item)) /\ Len(PartsOf(q)) = Len(q)
         /\ \A i \in 1 .. Len(q) : PartsOf(q)[i] = Parts(q[i])
<1>1. \A i \in 1 .. Len(q) : q[i] \in Command
  OBVIOUS
<1>2. \A i \in 1 .. Len(q) : Parts(q[i]) \in Seq(Item)
  BY <1>1, PartsType
<1> QED BY <1>2 DEF PartsOf

\* What is queued is a sequence of pieces.
LEMMA QueuedType ==
  ASSUME NEW q \in Seq(Command)
  PROVE  QueuedParts(q) \in Seq(Item)
<1>1. FlattenSeq(PartsOf(q)) \in Seq(Item)
  BY PartsOfType, FlatType
<1> QED BY <1>1 DEF QueuedParts, PartsOf

\* The pieces of two queues.
LEMMA QueuedConcat ==
  ASSUME NEW a \in Seq(Command), NEW b \in Seq(Command)
  PROVE  QueuedParts(a \o b) = QueuedParts(a) \o QueuedParts(b)
<1>1. a \o b \in Seq(Command) /\ Len(a \o b) = Len(a) + Len(b)
  BY ConcatProperties
<1> DEFINE u == PartsOf(a)
           v == PartsOf(b)
           x == PartsOf(a \o b)
<1>2. /\ u \in Seq(Seq(Item)) /\ v \in Seq(Seq(Item))
      /\ x \in Seq(Seq(Item))
      /\ Len(u) = Len(a) /\ Len(v) = Len(b) /\ Len(x) = Len(a) + Len(b)
  BY <1>1, PartsOfType
<1>3. /\ u \o v \in Seq(Seq(Item)) /\ Len(u \o v) = Len(a) + Len(b)
  BY <1>2, ConcatProperties
<1>4. ASSUME NEW i \in 1 .. Len(x) PROVE x[i] = (u \o v)[i]
  <2>1. x[i] = Parts((a \o b)[i])
    BY <1>1, <1>2, PartsOfType
  <2>2. (u \o v)[i] = IF i <= Len(u) THEN u[i] ELSE v[i - Len(u)]
    BY <1>2, ConcatProperties
  <2>3. (a \o b)[i] = IF i <= Len(a) THEN a[i] ELSE b[i - Len(a)]
    BY <1>2, ConcatProperties
  <2>4. CASE i <= Len(a)
    <3>1. i \in 1 .. Len(a)
      BY <2>4
    <3>2. u[i] = Parts(a[i])
      BY <3>1, PartsOfType
    <3> HIDE DEF u, v, x
    <3> QED BY <2>1, <2>2, <2>3, <2>4, <3>2, <1>2
  <2>5. CASE ~(i <= Len(a))
    <3>1. i - Len(a) \in 1 .. Len(b)
      BY <2>5, <1>2
    <3>2. v[i - Len(a)] = Parts(b[i - Len(a)])
      BY <3>1, PartsOfType
    <3> HIDE DEF u, v, x
    <3> QED BY <2>1, <2>2, <2>3, <2>5, <3>2, <1>2
  <2> QED BY <2>4, <2>5
<1>5. x = u \o v
  <2> HIDE DEF u, v, x
  <2> QED BY <1>2, <1>3, <1>4, SeqEqual
<1>6. FlattenSeq(x) = FlattenSeq(u) \o FlattenSeq(v)
  <2> HIDE DEF u, v, x
  <2> QED BY <1>5, <1>2, FlatConcat
<1> QED BY <1>6 DEF QueuedParts, PartsOf

\* The pieces of one command, and of none.
LEMMA QueuedOne ==
  ASSUME NEW cmd \in Command
  PROVE  QueuedParts(<<cmd>>) = Parts(cmd) /\ QueuedParts(<<>>) = <<>>
<1>1. Parts(cmd) \in Seq(Item)
  BY PartsType
<1>2. PartsOf(<<cmd>>) = <<Parts(cmd)>> /\ PartsOf(<<>>) = <<>>
  BY DEF PartsOf
<1>3. FlattenSeq(<<Parts(cmd)>>) = Parts(cmd)
  BY <1>1, FlatOne
<1> QED BY <1>2, <1>3, FlatEmpty DEF QueuedParts, PartsOf

\* The bytes that are queued.
Queued(q) == Bytes(QueuedParts(q))

\* The queued bytes are bytes; an empty queue has none.
LEMMA QueuedBytes ==
  ASSUME NEW q \in Seq(Command)
  PROVE  Queued(q) \in Seq(Byte) /\ Queued(<<>>) = <<>>
<1>1. Queued(q) \in Seq(Byte)
  BY QueuedType, BytesType DEF Queued
<1>2. PartsOf(<<>>) = <<>> /\ BytesOf(<<>>) = <<>>
  BY DEF PartsOf, BytesOf
<1>3. Queued(<<>>) = <<>>
  BY <1>2, FlatEmpty DEF Queued, QueuedParts, Bytes, PartsOf, BytesOf
<1> QED BY <1>1, <1>3

\* A command put into the queue adds its bytes at the end.
LEMMA QueuedAdd ==
  ASSUME NEW q \in Seq(Command), NEW cmd \in Command
  PROVE  /\ CommandBytes(cmd) \in Seq(Byte)
         /\ Queued(Append(q, cmd)) = Queued(q) \o CommandBytes(cmd)
<1>1. Append(q, cmd) = q \o <<cmd>> /\ <<cmd>> \in Seq(Command)
  BY AppendIsConcat
<1>2. QueuedParts(Append(q, cmd)) = QueuedParts(q) \o Parts(cmd)
  BY <1>1, QueuedConcat, QueuedOne
<1> QED
  BY <1>2, PartsType, QueuedType, BytesConcat, BytesType
     DEF Queued, CommandBytes

\* The first command of the queue, and those behind it.
LEMMA QueuedFront ==
  ASSUME NEW q \in Seq(Command), Len(q) > 0
  PROVE  /\ Head(q) \in Command /\ Tail(q) \in Seq(Command)
         /\ Queued(q) = Bytes(Parts(Head(q))) \o Queued(Tail(q))
<1>1. /\ Head(q) \in Command /\ Tail(q) \in Seq(Command)
      /\ q = <<Head(q)>> \o Tail(q)
  OBVIOUS
<1>2. <<Head(q)>> \in Seq(Command)
  BY <1>1
<1>3. QueuedParts(<<Head(q)>> \o Tail(q))
        = QueuedParts(<<Head(q)>>) \o QueuedParts(Tail(q))
  BY <1>1, <1>2, QueuedConcat
<1>4. QueuedParts(q) = Parts(Head(q)) \o QueuedParts(Tail(q))
  BY <1>1, <1>3, QueuedOne
<1> QED
  BY <1>1, <1>4, PartsType, QueuedType, BytesConcat DEF Queued

-----------------------------------------------------------------------------
(* The types, in groups of variables that change together *)

FlagsOK ==
  /\ gate \in BOOLEAN /\ repaint \in BOOLEAN
  /\ dup \in BOOLEAN /\ deaf \in BOOLEAN
  /\ order \in {"free", "held"}
  /\ state \in {"Running", "Quiesced", "Released"}
  /\ pc \in {"control", "data", "flush", "poll", "tail", "drain", "exited"}
  /\ caller \in {"idle", "import", "begin", "held", "dup", "rollback", "done"}
  /\ reply \in {"none", "ok", "err"}
  /\ current \in 1 .. 2

CallsOK ==
  /\ call \in Nat /\ draining \in 0 .. call
  /\ ctlQ \in Seq(Commands \X (0 .. call))

InputsOK ==
  /\ dataQ \in Seq(Command)
  /\ writer \in [Writers -> {"idle", "reserving", "permit"}]
  /\ Len(dataQ) + Permits <= Buffer
CountsOK ==
  /\ counts \in [Keys -> Nat]
  /\ \A k \in Keys : counts[k] <= Bounds[k]

ItemsOK ==
  /\ controls \in [resize : 0 .. 2, nudge : 0 .. 2, responses : Seq(Sent)]
  /\ pending \in Seq(Item) /\ replies \in Seq(Sent)
  /\ scheme \in Nat /\ offset \in 0 .. 1 /\ size \in 1 .. 2
BytesOK == accepted \in Seq(Byte) /\ written \in Seq(Byte)

\* The bounded counters and their bounds.
LEMMA BoundsKeys == DOMAIN Bounds = Keys /\ \A k \in Keys : Bounds[k] \in Nat
BY BoundsAssumption DEF Bounds, Keys

\* The groups together are the types, before a step and after it.
LEMMA TypesSplit ==
  /\ (TypeOK /\ QueueTypes)
       <=> (FlagsOK /\ CallsOK /\ InputsOK /\ CountsOK /\ ItemsOK /\ BytesOK)
  /\ (TypeOK /\ QueueTypes)'
       <=> (FlagsOK /\ CallsOK /\ InputsOK /\ CountsOK /\ ItemsOK
            /\ BytesOK)'
<1>1. /\ (\A k \in DOMAIN Bounds : counts[k] \in 0 .. Bounds[k])
           /\ counts \in [Keys -> Nat] <=> CountsOK
      /\ ((\A k \in DOMAIN Bounds : counts[k] \in 0 .. Bounds[k])
           /\ counts \in [Keys -> Nat])' <=> CountsOK'
  BY BoundsKeys DEF CountsOK, Bounds
<1>2. (TypeOK /\ QueueTypes)
       <=> (FlagsOK /\ CallsOK /\ InputsOK /\ CountsOK /\ ItemsOK /\ BytesOK)
  BY <1>1, Zenon DEF TypeOK, QueueTypes, FlagsOK, CallsOK, InputsOK, ItemsOK,
     BytesOK, Commands, Command
<1>3. (TypeOK /\ QueueTypes)'
       <=> (FlagsOK /\ CallsOK /\ InputsOK /\ CountsOK /\ ItemsOK
            /\ BytesOK)'
  BY <1>1, Zenon DEF TypeOK, QueueTypes, FlagsOK, CallsOK, InputsOK, ItemsOK,
     BytesOK, Commands, Command
<1> QED BY <1>2, <1>3

\* The flags keep their values.
LEMMA FlagsStep ==
  ASSUME FlagsOK, [Next]_vars
  PROVE  FlagsOK'
<1> USE DEF FlagsOK
<1>1. ASSUME NEW kind \in {"plain", "delayed"}, TryWrite(kind)
      PROVE  FlagsOK'
  BY <1>1 DEF TryWrite, actorVars, callVars
<1>2. ASSUME NEW w \in Writers, WriteStart(w) \/ WriteReserve(w)
      PROVE  FlagsOK'
  BY <1>2 DEF WriteStart, WriteReserve, handleVars, actorVars, callVars
<1>3. ASSUME NEW w \in Writers, WriteFinish(w)
      PROVE  FlagsOK'
  BY <1>3 DEF WriteFinish, actorVars, callVars
<1>4. ASSUME NEW s \in {1, 2}, Resize(s)
      PROVE  FlagsOK'
  BY <1>4 DEF Resize, actorVars, callVars
<1>5. CASE Nudge \/ ChangeScheme \/ ReportScheme
  BY <1>5 DEF Nudge, ChangeScheme, ReportScheme, actorVars, callVars
<1>6. CASE BeginHandoff \/ BeginHandoffClosed \/ BeginAcknowledged
  BY <1>6 DEF BeginHandoff, BeginHandoffClosed, BeginAcknowledged, Ask,
     handleVars, actorVars, callVars, envVars
<1>7. CASE Duplicate \/ Duplicated \/ RollbackHandoff
  BY <1>7 DEF Duplicate, Duplicated, RollbackHandoff, Ask,
     handleVars, actorVars, callVars, envVars
<1>8. CASE RollbackAnswered \/ RollbackTimesOut \/ ReleaseAfterCommit
           \/ Shutdown
  BY <1>8 DEF RollbackAnswered, RollbackTimesOut, ReleaseAfterCommit,
     Shutdown, Ask, handleVars, actorVars, callVars, envVars
<1>9. CASE HandleBeginHandoff \/ Drained \/ DrainFails
  BY <1>9 DEF HandleBeginHandoff, Drained, DrainFails, Answer,
     handleVars, callVars, envVars
<1>10. CASE HandleDuplicate \/ HandleRollback \/ HandleExit
  BY <1>10 DEF HandleDuplicate, HandleRollback, HandleExit, Answer,
     actorVars, callVars, envVars
<1>11. CASE HandleData \/ ApplyPendingControls \/ WriteByte \/ BecomeDue
            \/ ActorFails
  BY <1>11 DEF HandleData, ApplyPendingControls, WriteByte, BecomeDue,
     ActorFails, handleVars, callVars, envVars
<1>12. CASE StopFlush
  <2>1. pc' \in {"poll", "control"}
    BY <1>12 DEF StopFlush, Return
  <2> QED BY <1>12, <2>1 DEF StopFlush, handleVars, callVars, envVars
<1>13. CASE Poll
  BY <1>13 DEF Poll, handleVars, callVars, envVars
<1>14. CASE WriteFails
  <2>1. pc' \in {"poll", "drain", "control"}
    BY <1>14 DEF WriteFails, Flushing, Return
  <2> QED BY <1>14, <2>1 DEF WriteFails, handleVars, callVars
<1>15. ASSUME NEW query \in BOOLEAN, ReadOnce(query)
       PROVE  FlagsOK'
  BY <1>15 DEF ReadOnce, callVars
<1>16. CASE UNCHANGED vars
  BY <1>16 DEF vars, handleVars, actorVars, callVars, envVars
<1> QED
  BY <1>1, <1>2, <1>3, <1>4, <1>5, <1>6, <1>7, <1>8, <1>9, <1>10, <1>11,
     <1>12, <1>13, <1>14, <1>15, <1>16 DEF Next, Handoff, ActorStep

\* A queue is of what it was of, when the calls go on.
LEMMA WiderQueue ==
  ASSUME NEW n \in Nat, NEW q \in Seq(Commands \X (0 .. n)),
         NEW cmd \in Commands, NEW k \in 0 .. n + 1
  PROVE  Append(q, <<cmd, k>>) \in Seq(Commands \X (0 .. n + 1))
<1>1. q \in Seq(Commands \X (0 .. n + 1))
  <2>1. Commands \X (0 .. n) \subseteq Commands \X (0 .. n + 1)
    OBVIOUS
  <2> HIDE DEF Commands
  <2> QED BY <2>1, SeqMonotonic
<1>2. <<cmd, k>> \in Commands \X (0 .. n + 1)
  OBVIOUS
<1> QED BY <1>1, <1>2, AppendProperties

\* What is in the control queue, and the rest of it.
LEMMA QueueFront ==
  ASSUME NEW n \in Nat, NEW q \in Seq(Commands \X (0 .. n)), Len(q) > 0
  PROVE  /\ Head(q)[1] \in Commands /\ Head(q)[2] \in 0 .. n
         /\ Tail(q) \in Seq(Commands \X (0 .. n))
         /\ Len(Tail(q)) = Len(q) - 1 /\ Head(q) = q[1]
         /\ \A i \in 1 .. Len(q) - 1 : Tail(q)[i] = q[i + 1]
<1>1. Head(q) \in Commands \X (0 .. n)
  OBVIOUS
<1> QED BY <1>1

\* Calls are numbered upwards, and the queue holds commands of calls made.
LEMMA CallsStep ==
  ASSUME CallsOK, [Next]_vars
  PROVE  CallsOK'
<1> USE DEF CallsOK
<1>0. ASSUME NEW cmd \in Commands, Ask(cmd, ctlQ), UNCHANGED draining
      PROVE  CallsOK'
  BY <1>0, WiderQueue DEF Ask
<1>1. CASE BeginHandoff
  BY <1>1, <1>0 DEF BeginHandoff, actorVars, Commands
<1>2. CASE Duplicate
  BY <1>2, <1>0 DEF Duplicate, actorVars, Commands
<1>3. CASE RollbackHandoff
  BY <1>3, <1>0 DEF RollbackHandoff, actorVars, Commands
<1>4. CASE ReleaseAfterCommit
  BY <1>4, <1>0 DEF ReleaseAfterCommit, actorVars, Commands
<1>5. CASE Shutdown
  <2>1. <<"Shutdown", 0>> \in Commands \X (0 .. call)
    BY DEF Commands
  <2> QED BY <1>5, <2>1, AppendProperties DEF Shutdown, actorVars
<1>6. CASE HandleBeginHandoff
  BY <1>6, QueueFront DEF HandleBeginHandoff, callVars
<1>7. CASE Drained \/ DrainFails
  BY <1>7 DEF Drained, DrainFails, handleVars
<1>8. CASE HandleDuplicate
  BY <1>8, QueueFront DEF HandleDuplicate, actorVars
<1>9. CASE HandleRollback
  BY <1>9, QueueFront DEF HandleRollback
<1>10. CASE HandleExit
  BY <1>10, QueueFront DEF HandleExit, callVars
<1>11. CASE UNCHANGED <<call, draining, ctlQ>>
  BY <1>11
<1>12. ASSUME NEW kind \in {"plain", "delayed"}, TryWrite(kind)
       PROVE  UNCHANGED <<call, draining, ctlQ>>
  BY <1>12 DEF TryWrite, actorVars, callVars
<1>13. ASSUME NEW w \in Writers,
              WriteStart(w) \/ WriteReserve(w) \/ WriteFinish(w)
       PROVE  UNCHANGED <<call, draining, ctlQ>>
  BY <1>13 DEF WriteStart, WriteReserve, WriteFinish, handleVars, actorVars,
     callVars
<1>14. ASSUME NEW s \in {1, 2}, Resize(s)
       PROVE  UNCHANGED <<call, draining, ctlQ>>
  BY <1>14 DEF Resize, actorVars, callVars
<1>15. CASE Nudge \/ ChangeScheme \/ ReportScheme
  BY <1>15 DEF Nudge, ChangeScheme, ReportScheme, actorVars, callVars
<1>16. CASE BeginHandoffClosed \/ BeginAcknowledged \/ Duplicated
            \/ RollbackAnswered \/ RollbackTimesOut
  BY <1>16 DEF BeginHandoffClosed, BeginAcknowledged, Duplicated,
     RollbackAnswered, RollbackTimesOut, handleVars, actorVars, callVars
<1>17. CASE HandleData \/ ApplyPendingControls \/ WriteByte \/ BecomeDue
            \/ ActorFails \/ StopFlush \/ Poll \/ WriteFails
  BY <1>17 DEF HandleData, ApplyPendingControls, WriteByte, BecomeDue,
     ActorFails, StopFlush, Poll, WriteFails, handleVars, callVars
<1>18. ASSUME NEW query \in BOOLEAN, ReadOnce(query)
       PROVE  UNCHANGED <<call, draining, ctlQ>>
  BY <1>18 DEF ReadOnce, callVars
<1>19. CASE UNCHANGED vars
  BY <1>19 DEF vars, handleVars, actorVars, callVars
<1> QED
  BY <1>1, <1>2, <1>3, <1>4, <1>5, <1>6, <1>7, <1>8, <1>9, <1>10, <1>11,
     <1>12, <1>13, <1>14, <1>15, <1>16, <1>17, <1>18, <1>19
     DEF Next, Handoff, ActorStep

\* No task but those with a permit counts; a task more or less is one more or
\* less.
LEMMA PermitsIs ==
  /\ Permits \in Nat
  /\ UNCHANGED writer => Permits' = Permits
<1>1. IsFiniteSet({w \in Writers : writer[w] = "permit"})
  BY WritersAssumption, FS_Subset
<1> QED BY <1>1, FS_CardinalityType DEF Permits

\* A task gets a permit, or gives it back.
LEMMA PermitsMove ==
  ASSUME writer \in [Writers -> {"idle", "reserving", "permit"}],
         NEW w \in Writers, NEW p \in {"idle", "reserving", "permit"},
         writer' = [writer EXCEPT ![w] = p]
  PROVE  /\ p = "permit" /\ writer[w] # "permit" => Permits' = Permits + 1
         /\ p # "permit" /\ writer[w] = "permit" => Permits' = Permits - 1
         /\ p # "permit" /\ writer[w] # "permit" => Permits' = Permits
<1> DEFINE P == {v \in Writers : writer[v] = "permit"}
           Q == {v \in Writers : writer'[v] = "permit"}
<1>1. IsFiniteSet(P) /\ IsFiniteSet(Q)
  BY WritersAssumption, FS_Subset
<1>2. p = "permit" /\ writer[w] # "permit" => Q = P \cup {w} /\ w \notin P
  OBVIOUS
<1>3. p # "permit" /\ writer[w] = "permit" => Q = P \ {w} /\ w \in P
  OBVIOUS
<1>4. p # "permit" /\ writer[w] # "permit" => Q = P
  OBVIOUS
<1>5. Permits = Cardinality(P) /\ Permits' = Cardinality(Q)
  BY DEF Permits
<1> HIDE DEF P, Q
<1> QED BY <1>1, <1>2, <1>3, <1>4, <1>5, FS_AddElement, FS_RemoveElement

\* A counter below its bound goes up by one.
LEMMA CountStep ==
  ASSUME CountsOK, NEW k \in Keys, Count(k)
  PROVE  CountsOK' /\ counts[k] + 1 <= Bounds[k]
<1>1. /\ counts \in [Keys -> Nat] /\ counts[k] < Bounds[k]
      /\ counts' = [counts EXCEPT ![k] = @ + 1]
  BY DEF CountsOK, Count
<1>2. \A j \in Keys : Bounds[j] \in Nat
  BY BoundsKeys
<1>3. \A j \in Keys : Bounds'[j] = Bounds[j]
  BY DEF Bounds
<1> HIDE DEF Bounds
<1> QED BY <1>1, <1>2, <1>3 DEF CountsOK

\* An accepted command has a number within the bound.
LEMMA AcceptStep ==
  ASSUME CountsOK, InputsOK, NEW kind \in {"plain", "delayed"}, Accept(kind)
  PROVE  \E cmd \in Command :
           /\ dataQ' = Append(dataQ, cmd)
           /\ accepted' = accepted \o CommandBytes(cmd)
<1> DEFINE cmd == [id |-> counts.inputs + 1, kind |-> kind]
<1>1. Count("inputs") /\ dataQ' = Append(dataQ, cmd)
      /\ accepted' = accepted \o CommandBytes(cmd)
  BY DEF Accept
<1>2. counts.inputs \in Nat /\ counts.inputs + 1 <= Bounds.inputs
  <2>1. "inputs" \in Keys
    BY DEF Keys
  <2> QED BY <2>1, <1>1, CountStep DEF CountsOK
<1>3. Bounds.inputs = MaxInputs
  BY DEF Bounds
<1>4. counts.inputs + 1 \in 1 .. MaxInputs
  BY <1>2, <1>3, BoundsAssumption
<1>5. cmd \in Command
  BY <1>4 DEF Command
<1> HIDE DEF cmd
<1> QED BY <1>1, <1>5

\* The data queue, with the permits for it, stays within its size.
LEMMA InputsStep ==
  ASSUME InputsOK, CountsOK, [Next]_vars
  PROVE  InputsOK'
<1> HIDE DEF Command
<1>0. Buffer \in Nat /\ Permits \in Nat /\ Len(dataQ) \in Nat
      /\ dataQ \in Seq(Command)
  BY BoundsAssumption, PermitsIs DEF InputsOK
<1>1. ASSUME NEW kind \in {"plain", "delayed"}, TryWrite(kind)
      PROVE  InputsOK'
  <2>1. UNCHANGED writer /\ Room /\ Accept(kind)
    BY <1>1 DEF TryWrite
  <2>2. PICK cmd \in Command : dataQ' = Append(dataQ, cmd)
    BY <2>1, AcceptStep
  <2>3. dataQ' \in Seq(Command) /\ Len(dataQ') = Len(dataQ) + 1
    BY <2>2, <1>0, AppendProperties
  <2>4. Permits' = Permits /\ Len(dataQ) + Permits < Buffer
    BY <2>1, PermitsIs DEF Room
  <2> QED BY <2>1, <2>3, <2>4, <1>0 DEF InputsOK
<1>2. ASSUME NEW w \in Writers, WriteStart(w)
      PROVE  InputsOK'
  <2>1. /\ writer[w] # "permit" /\ UNCHANGED dataQ
        /\ writer' = [writer EXCEPT ![w] = "reserving"]
    BY <1>2 DEF WriteStart, handleVars
  <2>2. Permits' = Permits
    BY <2>1, PermitsMove DEF InputsOK
  <2> QED BY <2>1, <2>2 DEF InputsOK
<1>3. ASSUME NEW w \in Writers, WriteReserve(w)
      PROVE  InputsOK'
  <2>1. writer[w] # "permit" /\ UNCHANGED dataQ
    BY <1>3 DEF WriteReserve, handleVars
  <2>2. CASE Exited
    <3>1. writer' = [writer EXCEPT ![w] = "idle"]
      BY <1>3, <2>2 DEF WriteReserve
    <3>2. Permits' = Permits
      BY <2>1, <3>1, PermitsMove DEF InputsOK
    <3> QED BY <2>1, <3>1, <3>2 DEF InputsOK
  <2>3. CASE ~Exited
    <3>1. writer' = [writer EXCEPT ![w] = "permit"] /\ Room
      BY <1>3, <2>3 DEF WriteReserve
    <3>2. Permits' = Permits + 1
      BY <2>1, <3>1, PermitsMove DEF InputsOK
    <3>3. Len(dataQ) + Permits < Buffer
      BY <3>1 DEF Room
    <3> QED BY <2>1, <3>1, <3>2, <3>3, <1>0 DEF InputsOK
  <2> QED BY <2>2, <2>3
<1>4. ASSUME NEW w \in Writers, WriteFinish(w)
      PROVE  InputsOK'
  <2>1. /\ writer[w] = "permit"
        /\ writer' = [writer EXCEPT ![w] = "idle"]
        /\ Accept("plain") \/ UNCHANGED dataQ
    BY <1>4 DEF WriteFinish
  <2>2. Permits' = Permits - 1
    BY <2>1, PermitsMove DEF InputsOK
  <2>3. \/ dataQ' = dataQ
        \/ \E cmd \in Command : dataQ' = Append(dataQ, cmd)
    BY <2>1, AcceptStep
  <2>4. dataQ' \in Seq(Command) /\ Len(dataQ') <= Len(dataQ) + 1
    BY <2>3, <1>0, AppendProperties
  <2> QED BY <2>1, <2>2, <2>4, <1>0 DEF InputsOK
<1>5. CASE HandleBeginHandoff
  <2>1. UNCHANGED writer /\ dataQ' = <<>>
    BY <1>5 DEF HandleBeginHandoff, envVars
  <2>2. Permits' = Permits
    BY <2>1, PermitsIs
  <2> QED BY <2>1, <2>2, <1>0 DEF InputsOK
<1>6. CASE HandleData
  <2>1. UNCHANGED writer /\ dataQ # <<>> /\ dataQ' = Tail(dataQ)
    BY <1>6 DEF HandleData, envVars
  <2>2. Permits' = Permits
    BY <2>1, PermitsIs
  <2>3. dataQ' \in Seq(Command) /\ Len(dataQ') = Len(dataQ) - 1
    BY <2>1, <1>0
  <2> QED BY <2>1, <2>2, <2>3, <1>0 DEF InputsOK
<1>7. CASE UNCHANGED <<dataQ, writer>>
  BY <1>7, PermitsIs DEF InputsOK
<1>8. ASSUME NEW s \in {1, 2}, Resize(s)
      PROVE  UNCHANGED <<dataQ, writer>>
  BY <1>8 DEF Resize
<1>9. CASE Nudge \/ ChangeScheme \/ ReportScheme
  BY <1>9, <1>7 DEF Nudge, ChangeScheme, ReportScheme
<1>10. CASE Handoff
  BY <1>10, <1>7 DEF Handoff, BeginHandoff, BeginHandoffClosed,
     BeginAcknowledged, Duplicate, Duplicated, RollbackHandoff,
     RollbackAnswered, RollbackTimesOut, ReleaseAfterCommit, Shutdown,
     handleVars, envVars
<1>11. CASE Drained \/ DrainFails \/ HandleDuplicate \/ HandleRollback
            \/ HandleExit \/ ApplyPendingControls
  BY <1>11, <1>7 DEF Drained, DrainFails, HandleDuplicate, HandleRollback,
     HandleExit, ApplyPendingControls, handleVars, envVars
<1>12. CASE WriteByte \/ BecomeDue \/ ActorFails \/ StopFlush \/ Poll
            \/ WriteFails
  BY <1>12, <1>7 DEF WriteByte, BecomeDue, ActorFails, StopFlush, Poll,
     WriteFails, handleVars, envVars
<1>13. ASSUME NEW query \in BOOLEAN, ReadOnce(query)
       PROVE  UNCHANGED <<dataQ, writer>>
  BY <1>13 DEF ReadOnce
<1>14. CASE UNCHANGED vars
  BY <1>14, <1>7 DEF vars, handleVars, envVars
<1> QED
  BY <1>1, <1>2, <1>3, <1>4, <1>5, <1>6, <1>7, <1>8, <1>9, <1>10, <1>11,
     <1>12, <1>13, <1>14 DEF Next, ActorStep

\* No counter passes its bound.
LEMMA CountsStep ==
  ASSUME CountsOK, [Next]_vars
  PROVE  CountsOK'
<1>1. ASSUME NEW k \in Keys, Count(k) PROVE CountsOK'
  BY <1>1, CountStep
<1>2. CASE UNCHANGED counts
  BY <1>2 DEF CountsOK, Bounds
<1>3. (\E k \in Keys : Count(k)) \/ UNCHANGED counts
  <2> USE DEF Keys
  <2>1. ASSUME NEW kind \in {"plain", "delayed"}, TryWrite(kind)
        PROVE  Count("inputs")
    BY <2>1 DEF TryWrite, Accept
  <2>2. ASSUME NEW w \in Writers, WriteStart(w) \/ WriteReserve(w)
        PROVE  UNCHANGED counts
    BY <2>2 DEF WriteStart, WriteReserve
  <2>3. ASSUME NEW w \in Writers, WriteFinish(w)
        PROVE  Count("inputs") \/ UNCHANGED counts
    BY <2>3 DEF WriteFinish, Accept
  <2>4. ASSUME NEW s \in {1, 2}, Resize(s)
        PROVE  Count("resizes")
    BY <2>4 DEF Resize
  <2>5. ASSUME Nudge \/ ReportScheme
        PROVE  UNCHANGED counts
    BY <2>5 DEF Nudge, ReportScheme
  <2>6. ASSUME ChangeScheme PROVE Count("schemes")
    BY <2>6 DEF ChangeScheme
  <2>7. ASSUME Handoff PROVE Count("handoffs") \/ UNCHANGED counts
    BY <2>7 DEF Handoff, BeginHandoff, BeginHandoffClosed,
       BeginAcknowledged, Duplicate, Duplicated, RollbackHandoff,
       RollbackAnswered, RollbackTimesOut, ReleaseAfterCommit, Shutdown,
       envVars
  <2>8. ASSUME ActorStep \/ DrainFails \/ BecomeDue \/ ActorFails
        PROVE  UNCHANGED counts
    BY <2>8 DEF ActorStep, HandleBeginHandoff, Drained, DrainFails,
       HandleDuplicate, HandleRollback, HandleExit, HandleData,
       ApplyPendingControls, WriteByte, StopFlush, Poll, BecomeDue, ActorFails,
       envVars
  <2>9. ASSUME WriteFails PROVE Count("faults")
    BY <2>9 DEF WriteFails
  <2>10. ASSUME NEW query \in BOOLEAN, ReadOnce(query)
         PROVE  Count("reads")
    BY <2>10 DEF ReadOnce
  <2>11. ASSUME UNCHANGED vars PROVE UNCHANGED counts
    BY <2>11 DEF vars, envVars
  <2> HIDE DEF Keys
  <2>12. {"inputs", "resizes", "schemes", "handoffs", "faults", "reads"}
           \subseteq Keys
    BY DEF Keys
  <2> QED
    BY <2>1, <2>2, <2>3, <2>4, <2>5, <2>6, <2>7, <2>8, <2>9, <2>10, <2>11,
       <2>12 DEF Next
<1> QED BY <1>1, <1>2, <1>3

\* What the terminal answers is a piece to write, none of the user's.
LEMMA SentIsItem ==
  ASSUME NEW rs \in Seq(Sent)
  PROVE  rs \in Seq(Item) /\ Bytes(rs) = <<>>
<1>1. Sent \subseteq Item
  BY DEF Sent, Item
<1>2. rs \in Seq(Item)
  BY <1>1, SeqMonotonic
<1>3. \A i \in 1 .. Len(rs) : rs[i] \in Sent
  OBVIOUS
<1>4. \A x \in Sent : x.src # "user"
  BY DEF Sent
<1> QED BY <1>2, <1>3, <1>4, NoUserBytes

\* A response is one.
LEMMA ResponseType ==
  ASSUME NEW what \in {"report", "answer", "size"}, NEW n \in Nat
  PROVE  /\ Response(what, n) \in Sent
         /\ Response(what, n).what = what /\ Response(what, n).id = n
BY DEF Response, Sent

\* What apply_pending_controls writes and answers with.
SizeReport ==
  IF controls.resize # None THEN <<Response("size", controls.resize)>>
  ELSE <<>>
Responses == SizeReport \o controls.responses

\* apply_pending_controls sends the responses and leaves no control.
LEMMA ApplyStep ==
  ASSUME ItemsOK, NEW before, ApplyControls(before)
  PROVE  /\ controls' = NoControls /\ size' \in 1 .. 2
         /\ SizeReport \in Seq(Sent)
         /\ controls.responses \in Seq(Sent) /\ Responses \in Seq(Sent)
         /\ pending' = before \o Responses
         /\ replies' = replies \o Responses
<1>1. /\ controls.resize \in 0 .. 2 /\ controls.nudge \in 0 .. 2
      /\ controls.responses \in Seq(Sent) /\ size \in 1 .. 2
  BY DEF ItemsOK
<1>2. controls' = NoControls /\ size' \in 1 .. 2
  BY <1>1 DEF ApplyControls, None
<1>3. pending' = before \o Responses /\ replies' = replies \o Responses
  BY DEF ApplyControls, Responses, SizeReport
<1>4. SizeReport \in Seq(Sent)
  <2>1. Response("size", controls.resize) \in Sent
    BY <1>1, ResponseType
  <2>2. <<Response("size", controls.resize)>> \in Seq(Sent)
    BY <2>1
  <2> QED BY <2>2, EmptySeq DEF SizeReport
<1>5. Responses \in Seq(Sent)
  BY <1>1, <1>4, ConcatProperties DEF Responses
<1> QED BY <1>1, <1>2, <1>3, <1>4, <1>5

\* What a read of the PTY makes the terminal send.
Answers(query) ==
  IF query THEN <<Response("answer", scheme)>> ELSE <<>>

\* A read sends the responses that wait, and then the terminal's answer.
LEMMA ReadStep ==
  ASSUME ItemsOK, NEW query \in BOOLEAN, ReadOnce(query)
  PROVE  /\ controls' = [controls EXCEPT !.responses = <<>>]
         /\ controls.responses \in Seq(Sent) /\ Answers(query) \in Seq(Sent)
         /\ controls.responses \o Answers(query) \in Seq(Sent)
         /\ pending' = pending \o (controls.responses \o Answers(query))
         /\ replies' = replies \o (controls.responses \o Answers(query))
<1>1. controls.responses \in Seq(Sent) /\ scheme \in Nat
  BY DEF ItemsOK
<1>2. Answers(query) \in Seq(Sent)
  <2>1. Response("answer", scheme) \in Sent
    BY <1>1, ResponseType
  <2>2. <<Response("answer", scheme)>> \in Seq(Sent)
    BY <2>1
  <2> QED BY <2>2, EmptySeq DEF Answers
<1>3. controls.responses \o Answers(query) \in Seq(Sent)
  BY <1>1, <1>2, ConcatProperties
<1> QED BY <1>1, <1>2, <1>3 DEF ReadOnce, Answers

\* What becomes due is the same piece.
LEMMA DueStep ==
  ASSUME NEW p \in Seq(Item), Len(p) > 0
  PROVE  /\ [p EXCEPT ![1].due = TRUE] \in Seq(Item)
         /\ Len([p EXCEPT ![1].due = TRUE]) = Len(p)
         /\ Head([p EXCEPT ![1].due = TRUE]).src = Head(p).src
         /\ Bytes([p EXCEPT ![1].due = TRUE]) = Bytes(p)
<1> DEFINE q == [p EXCEPT ![1].due = TRUE]
<1>1. p[1] \in Item /\ p[1] = Head(p)
  OBVIOUS
<1> DEFINE x == [p[1] EXCEPT !.due = TRUE]
<1>2. /\ x \in Item /\ x.src = p[1].src
      /\ x.id = p[1].id /\ x.part = p[1].part
  BY <1>1 DEF Item
<1>3. q = [p EXCEPT ![1] = x]
  OBVIOUS
<1> HIDE DEF x, q
<1>4. /\ q \in Seq(Item) /\ Len(q) = Len(p) /\ q[1] = x
      /\ \A i \in 2 .. Len(p) : q[i] = p[i]
  BY <1>2, <1>3, ExceptSeq
<1>5. Head(q) = x
  BY <1>4
<1>6. UserBytes(x) = UserBytes(p[1])
  BY <1>2 DEF UserBytes
<1>7. BytesOf(q) = BytesOf(p)
  <2>1. DOMAIN q = DOMAIN p
    BY <1>4
  <2>2. \A i \in DOMAIN p : UserBytes(q[i]) = UserBytes(p[i])
    BY <1>4, <1>6
  <2> QED BY <2>1, <2>2 DEF BytesOf
<1>8. Bytes(q) = Bytes(p)
  BY <1>7 DEF Bytes, BytesOf
<1>9. Head(q).src = Head(p).src
  BY <1>1, <1>2, <1>5
<1> QED BY <1>4, <1>8, <1>9 DEF q

\* What is pending and what was sent are pieces.
LEMMA ItemsStep ==
  ASSUME ItemsOK, FlagsOK, InputsOK, [Next]_vars
  PROVE  ItemsOK'
<1>0. /\ controls \in [resize : 0 .. 2, nudge : 0 .. 2,
                       responses : Seq(Sent)]
      /\ pending \in Seq(Item) /\ replies \in Seq(Sent)
      /\ scheme \in Nat /\ offset \in 0 .. 1 /\ size \in 1 .. 2
  BY DEF ItemsOK
<1>1. ASSUME NEW s \in {1, 2}, Resize(s)
      PROVE  ItemsOK'
  <2>1. controls' \in [resize : 0 .. 2, nudge : 0 .. 2,
                       responses : Seq(Sent)]
    BY <1>0, <1>1 DEF Resize
  <2> QED BY <1>0, <1>1, <2>1 DEF Resize, ItemsOK, actorVars, histVars
<1>2. CASE Nudge
  <2>1. controls' \in [resize : 0 .. 2, nudge : 0 .. 2,
                       responses : Seq(Sent)]
    BY <1>0, <1>2 DEF Nudge, FlagsOK
  <2> QED BY <1>0, <1>2, <2>1 DEF Nudge, ItemsOK, actorVars, histVars
<1>3. CASE ChangeScheme
  BY <1>0, <1>3 DEF ChangeScheme, ItemsOK, actorVars, histVars
<1>4. CASE ReportScheme
  <2>1. Response("report", scheme) \in Sent
    BY <1>0, ResponseType
  <2>2. Append(controls.responses, Response("report", scheme)) \in Seq(Sent)
    BY <1>0, <2>1, AppendProperties
  <2>3. controls' \in [resize : 0 .. 2, nudge : 0 .. 2,
                       responses : Seq(Sent)]
    BY <1>0, <1>4, <2>2 DEF ReportScheme
  <2> QED BY <1>0, <1>4, <2>3 DEF ReportScheme, ItemsOK, actorVars, histVars
<1>5. ASSUME NEW before \in Seq(Item), ApplyControls(before),
             UNCHANGED <<offset, scheme>>
      PROVE  ItemsOK'
  <2>1. /\ controls' = NoControls /\ size' \in 1 .. 2
        /\ Responses \in Seq(Sent)
        /\ pending' = before \o Responses /\ replies' = replies \o Responses
    BY <1>5, ApplyStep
  <2>2. controls' \in [resize : 0 .. 2, nudge : 0 .. 2,
                       responses : Seq(Sent)]
    BY <2>1 DEF NoControls, None
  <2>3. pending' \in Seq(Item)
    BY <2>1, <1>5, SentIsItem, ConcatProperties
  <2>4. replies' \in Seq(Sent)
    BY <2>1, <1>0, ConcatProperties
  <2> QED BY <1>0, <1>5, <2>1, <2>2, <2>3, <2>4 DEF ItemsOK
<1>6. CASE HandleBeginHandoff
  <2>1. pending \o QueuedParts(dataQ) \in Seq(Item)
    BY <1>0, QueuedType, ConcatProperties DEF InputsOK
  <2> QED BY <1>5, <1>6, <2>1 DEF HandleBeginHandoff, envVars
<1>7. CASE ApplyPendingControls
  BY <1>0, <1>5, <1>7 DEF ApplyPendingControls, envVars
<1>8. CASE HandleExit
  <2>1. pending' \in Seq(Item)
    BY <1>0, <1>8, EmptySeq DEF HandleExit
  <2> QED BY <1>0, <1>8, <2>1 DEF HandleExit, ItemsOK, histVars, envVars
<1>9. CASE HandleData
  <2>1. dataQ \in Seq(Command) /\ dataQ # <<>>
    BY <1>9 DEF HandleData, InputsOK
  <2>2. Parts(Head(dataQ)) \in Seq(Item)
    BY <2>1, PartsType, HeadTailProperties
  <2>3. pending' \in Seq(Item)
    BY <1>0, <1>9, <2>2, ConcatProperties DEF HandleData
  <2> QED BY <1>0, <1>9, <2>3 DEF HandleData, ItemsOK, histVars, envVars
<1>10. CASE WriteByte
  <2>1. pending' \in Seq(Item)
    BY <1>0, <1>10, HeadTailProperties DEF WriteByte, Ready
  <2>2. offset' \in 0 .. 1
    BY <1>0, <1>10 DEF WriteByte
  <2> QED BY <1>0, <1>10, <2>1, <2>2
          DEF WriteByte, ItemsOK, handleVars, envVars
<1>11. CASE WriteFails
  <2>1. pending' \in Seq(Item)
    BY <1>11, EmptySeq DEF WriteFails
  <2> QED BY <1>0, <1>11, <2>1 DEF WriteFails, ItemsOK, handleVars
<1>12. CASE BecomeDue
  <2>1. Len(pending) > 0 /\ pending' = [pending EXCEPT ![1].due = TRUE]
    BY <1>0, <1>12, EmptySeq DEF BecomeDue
  <2>2. pending' \in Seq(Item)
    BY <1>0, <2>1, DueStep
  <2> QED BY <1>0, <1>12, <2>2
          DEF BecomeDue, ItemsOK, handleVars, histVars, envVars
<1>13. ASSUME NEW query \in BOOLEAN, ReadOnce(query)
       PROVE  ItemsOK'
  <2> DEFINE rs == controls.responses \o Answers(query)
  <2>1. /\ controls' = [controls EXCEPT !.responses = <<>>]
        /\ rs \in Seq(Sent) /\ pending' = pending \o rs
        /\ replies' = replies \o rs
    BY <1>13, ReadStep
  <2> HIDE DEF rs
  <2>2. controls' \in [resize : 0 .. 2, nudge : 0 .. 2,
                       responses : Seq(Sent)]
    BY <1>0, <2>1, EmptySeq
  <2>3. pending' \in Seq(Item)
    BY <1>0, <2>1, SentIsItem, ConcatProperties
  <2>4. replies' \in Seq(Sent)
    BY <1>0, <2>1, ConcatProperties
  <2>5. UNCHANGED <<scheme, offset, size>>
    BY <1>13 DEF ReadOnce
  <2> QED BY <1>0, <2>2, <2>3, <2>4, <2>5 DEF ItemsOK
<1> DEFINE itemVars == <<controls, pending, replies, scheme, offset, size>>
<1>14. CASE UNCHANGED itemVars
  BY <1>0, <1>14 DEF ItemsOK
<1>15. ASSUME NEW kind \in {"plain", "delayed"}, TryWrite(kind)
       PROVE  UNCHANGED itemVars
  BY <1>15 DEF TryWrite, actorVars
<1>16. ASSUME NEW w \in Writers,
              WriteStart(w) \/ WriteReserve(w) \/ WriteFinish(w)
       PROVE  UNCHANGED itemVars
  BY <1>16 DEF WriteStart, WriteReserve, WriteFinish, handleVars, actorVars,
     histVars
<1>17. ASSUME Handoff PROVE UNCHANGED itemVars
  BY <1>17 DEF Handoff, BeginHandoff, BeginHandoffClosed,
     BeginAcknowledged, Duplicate, Duplicated, RollbackHandoff,
     RollbackAnswered, RollbackTimesOut, ReleaseAfterCommit, Shutdown,
     handleVars, actorVars, histVars, envVars
<1>18. ASSUME Drained \/ DrainFails \/ HandleDuplicate \/ HandleRollback
              \/ ActorFails \/ StopFlush \/ Poll
       PROVE  UNCHANGED itemVars
  BY <1>18 DEF Drained, DrainFails, HandleDuplicate, HandleRollback, ActorFails,
     StopFlush, Poll, handleVars, actorVars, histVars, envVars
<1>19. ASSUME UNCHANGED vars PROVE UNCHANGED itemVars
  BY <1>19 DEF vars, handleVars, actorVars, histVars, envVars
<1> HIDE DEF itemVars
<1> QED
  BY <1>1, <1>2, <1>3, <1>4, <1>6, <1>7, <1>8, <1>9, <1>10, <1>11, <1>12,
     <1>13, <1>14, <1>15, <1>16, <1>17, <1>18, <1>19 DEF Next, ActorStep

-----------------------------------------------------------------------------
(* The conservation of input *)

\* What is left to write of p after o bytes of its front.
Left(p, o) ==
  IF p # <<>> /\ o > 0 /\ Head(p).src = "user"
  THEN SubSeq(Bytes(p), o + 1, Len(Bytes(p))) ELSE Bytes(p)

\* The property, in those terms.
Conserved(p, o, q) == accepted = (written \o Left(p, o)) \o Queued(q)

\* InputConserved, before a step and after it.
LEMMA ConservedIs ==
  /\ InputConserved <=> (~Exited => Conserved(pending, offset, dataQ))
  /\ InputConserved' <=>
       (~Exited' => accepted' = (written' \o Left(pending', offset'))
                                  \o Queued(dataQ'))
BY Zenon DEF InputConserved, Unwritten, Conserved, Left, Queued

\* With the offset at the start everything is left.
LEMMA LeftWhole ==
  ASSUME NEW p \in Seq(Item)
  PROVE  Left(p, 0) = Bytes(p) /\ Left(p, 0) \in Seq(Byte)
BY BytesType DEF Left

\* What the first byte leaves: the second byte and what is behind, or all that
\* is behind when the front is not the user's.
LEMMA LeftAfterOne ==
  ASSUME NEW p \in Seq(Item), Len(p) > 0
  PROVE  /\ Head(p).src = "user" =>
              LET b == <<Head(p).id, Head(p).part, 1>>
                  c == <<Head(p).id, Head(p).part, 2>>
              IN  /\ b \in Byte /\ c \in Byte
                  /\ Left(p, 1) = <<c>> \o Bytes(Tail(p))
                  /\ Bytes(p) = <<b>> \o Left(p, 1)
         /\ Head(p).src # "user" =>
              Left(p, 1) = Bytes(p) /\ Bytes(p) = Bytes(Tail(p))
         /\ Left(p, 1) \in Seq(Byte)
<1> DEFINE x == Head(p)
           b == <<x.id, x.part, 1>>
           c == <<x.id, x.part, 2>>
           r == Bytes(Tail(p))
<1>0. p # <<>>
  OBVIOUS
<1>1. /\ x \in Item /\ Tail(p) \in Seq(Item) /\ p # <<>>
      /\ Bytes(p) = UserBytes(x) \o r /\ r \in Seq(Byte)
  BY <1>0, BytesFront, BytesType
<1>2. CASE x.src = "user"
  <2>1. UserBytes(x) = <<b, c>>
    BY <1>1, <1>2, UserBytesType
  <2>2. b \in Byte /\ c \in Byte
    <3>1. x.id \in Nat /\ x.part \in {1, 2}
      BY <1>1 DEF Item
    <3> QED BY <3>1 DEF Byte
  <2>3. Left(p, 1) = SubSeq(Bytes(p), 2, Len(Bytes(p)))
    BY <1>1, <1>2 DEF Left
  <2> HIDE DEF x, b, c, r
  <2>4. SubSeq(<<b, c>> \o r, 2, Len(<<b, c>> \o r)) = <<c>> \o r
    BY <1>1, <2>2
  <2>5. <<b, c>> \o r = <<b>> \o (<<c>> \o r)
    <3>1. <<b>> \in Seq(Byte) /\ <<c>> \in Seq(Byte)
      BY <2>2
    <3>2. <<b, c>> = Append(<<b>>, c)
      OBVIOUS
    <3>3. <<b, c>> = <<b>> \o <<c>>
      BY <2>2, <3>1, <3>2, AppendIsConcat
    <3> QED BY <1>1, <3>1, <3>3, ConcatAssociative
  <2>6. <<c>> \o r \in Seq(Byte)
    BY <1>1, <2>2
  <2>7. Left(p, 1) = <<c>> \o r /\ Bytes(p) = <<b>> \o Left(p, 1)
    BY <2>1, <2>3, <2>4, <2>5, <1>1
  <2> QED BY <1>2, <2>2, <2>6, <2>7 DEF x, b, c, r
<1>3. CASE x.src # "user"
  <2>1. UserBytes(x) = <<>>
    BY <1>1, <1>3, UserBytesType
  <2>2. Bytes(p) = r
    BY <1>1, <2>1, ConcatEmptySeq
  <2>3. Left(p, 1) = Bytes(p)
    BY <1>3 DEF Left
  <2> QED BY <1>1, <1>3, <2>2, <2>3
<1> QED BY <1>2, <1>3

\* What is left is bytes.
LEMMA LeftType ==
  ASSUME NEW p \in Seq(Item), NEW o \in 0 .. 1, o = 1 => Len(p) > 0
  PROVE  Left(p, o) \in Seq(Byte)
<1>1. CASE o = 0
  BY <1>1, LeftWhole
<1>2. CASE o = 1
  BY <1>2, LeftAfterOne
<1> QED BY <1>1, <1>2

\* What is put behind the pending writes is left, too.
LEMMA LeftConcat ==
  ASSUME NEW p \in Seq(Item), NEW o \in 0 .. 1, o = 1 => Len(p) > 0,
         NEW x \in Seq(Item)
  PROVE  Left(p \o x, o) = Left(p, o) \o Bytes(x)
<1>1. Bytes(p \o x) = Bytes(p) \o Bytes(x) /\ p \o x \in Seq(Item)
  BY BytesConcat, ConcatProperties
<1>2. CASE o = 0
  BY <1>1, <1>2, LeftWhole
<1>3. CASE o = 1
  <2>1. Len(p) > 0 /\ Len(p \o x) > 0 /\ Head(p \o x) = Head(p)
    BY <1>3, ConcatProperties
  <2>2. Head(p) \in Item /\ Tail(p) \in Seq(Item)
    BY <2>1
  <2>3. Tail(p \o x) = Tail(p) \o x
    BY <2>1
  <2>4. /\ Bytes(Tail(p \o x)) = Bytes(Tail(p)) \o Bytes(x)
        /\ Bytes(Tail(p)) \in Seq(Byte) /\ Bytes(x) \in Seq(Byte)
    BY <2>2, <2>3, BytesConcat, BytesType
  <2>5. CASE Head(p).src = "user"
    <3> DEFINE c == <<Head(p).id, Head(p).part, 2>>
               r == Bytes(Tail(p))
               y == Bytes(x)
    <3>1. /\ c \in Byte /\ Left(p, 1) = <<c>> \o r
          /\ Left(p \o x, 1) = <<c>> \o Bytes(Tail(p \o x))
      BY <1>1, <2>1, <2>5, LeftAfterOne
    <3>2. r \in Seq(Byte) /\ y \in Seq(Byte) /\ <<c>> \in Seq(Byte)
      BY <2>4, <3>1
    <3>3. Bytes(Tail(p \o x)) = r \o y
      BY <2>4
    <3> HIDE DEF c, r, y
    <3>4. (<<c>> \o r) \o y = <<c>> \o (r \o y)
      BY <3>2, ConcatAssociative
    <3> QED BY <1>3, <3>1, <3>3, <3>4 DEF y
  <2>6. CASE Head(p).src # "user"
    BY <1>1, <1>3, <2>1, <2>6, LeftAfterOne
  <2> QED BY <2>5, <2>6
<1> QED BY <1>2, <1>3

\* Brackets can be moved.
SameAll(a, b, c, d) ==
  /\ ((a \o b) \o c) \o d = (a \o b) \o (c \o d)
  /\ (a \o (b \o c)) \o d = ((a \o b) \o c) \o d
  /\ (a \o b) \o (c \o d) = (a \o (b \o c)) \o d

\* Concatenation is associative, also of four.
LEMMA Regroup ==
  ASSUME NEW a \in Seq(Byte), NEW b \in Seq(Byte), NEW c \in Seq(Byte),
         NEW d \in Seq(Byte)
  PROVE  SameAll(a, b, c, d)
<1>1. a \o b \in Seq(Byte)
  BY ConcatProperties
<1>2. ((a \o b) \o c) \o d = (a \o b) \o (c \o d)
  BY <1>1, ConcatAssociative
<1>3. (a \o b) \o c = a \o (b \o c)
  BY ConcatAssociative
<1> QED BY <1>2, <1>3 DEF SameAll

\* The types a proof about the queues uses.
Types == FlagsOK /\ CallsOK /\ InputsOK /\ CountsOK /\ ItemsOK /\ BytesOK

\* One accepted command more.
LEMMA AcceptConserves ==
  ASSUME Types, InputInv, NEW kind \in {"plain", "delayed"}, Accept(kind),
         UNCHANGED <<pending, offset, written, pc>>
  PROVE  InputInv' /\ accepted' \in Seq(Byte)
<1>1. PICK cmd \in Command : /\ dataQ' = Append(dataQ, cmd)
                             /\ accepted' = accepted \o CommandBytes(cmd)
  BY AcceptStep DEF Types
<1>2. /\ CommandBytes(cmd) \in Seq(Byte) /\ Queued(dataQ) \in Seq(Byte)
      /\ Queued(dataQ') = Queued(dataQ) \o CommandBytes(cmd)
  BY <1>1, QueuedAdd, QueuedBytes DEF Types, InputsOK
<1>3. accepted' \in Seq(Byte)
  BY <1>1, <1>2, ConcatProperties DEF Types, BytesOK
<1>4. ASSUME ~Exited
      PROVE  accepted' = (written' \o Left(pending', offset'))
                           \o Queued(dataQ')
  <2> DEFINE a == written
             b == Left(pending, offset)
             c == Queued(dataQ)
             d == CommandBytes(cmd)
  <2>1. accepted = (a \o b) \o c
    BY <1>4, ConservedIs DEF InputInv, Conserved
  <2>2. b \in Seq(Byte)
    <3>1. offset = 1 => Len(pending) > 0
      BY <1>4, EmptySeq DEF InputInv, Types, ItemsOK
    <3> QED BY <3>1, LeftType DEF Types, ItemsOK
  <2>3. a \in Seq(Byte) /\ c \in Seq(Byte) /\ d \in Seq(Byte)
    BY <1>2 DEF Types, BytesOK
  <2>4. accepted' = ((a \o b) \o c) \o d /\ Queued(dataQ') = c \o d
    BY <1>1, <1>2, <2>1
  <2>5. written' = a /\ Left(pending', offset') = b
    OBVIOUS
  <2> HIDE DEF a, b, c, d
  <2>6. ((a \o b) \o c) \o d = (a \o b) \o (c \o d)
    <3>1. SameAll(a, b, c, d)
      BY <2>2, <2>3, Regroup
    <3> QED BY <3>1 DEF SameAll
  <2> QED BY <2>4, <2>5, <2>6
<1>5. Exited' <=> Exited
  BY DEF Exited
<1>6. InputConserved'
  BY <1>4, <1>5, ConservedIs
<1> QED BY <1>3, <1>5, <1>6 DEF InputInv

\* Pieces are put behind the pending writes, with the user's bytes coming from
\* the queue, if any.
LEMMA PutConserves ==
  ASSUME Types, InputInv, ~Exited, NEW x \in Seq(Item), NEW q,
         Queued(dataQ) = Bytes(x) \o Queued(q), Queued(q) \in Seq(Byte),
         pending' = pending \o x, dataQ' = q,
         UNCHANGED <<offset, written, accepted>>
  PROVE  InputInv'
<1> DEFINE a == written
           b == Left(pending, offset)
           c == Bytes(x)
           d == Queued(q)
<1>1. accepted = (a \o b) \o (c \o d)
  BY ConservedIs DEF InputInv, Conserved
<1>2. pending \in Seq(Item) /\ offset \in 0 .. 1
      /\ (offset = 1 => Len(pending) > 0)
  BY EmptySeq DEF InputInv, Types, ItemsOK
<1>3. /\ a \in Seq(Byte) /\ b \in Seq(Byte) /\ c \in Seq(Byte)
      /\ d \in Seq(Byte)
  BY <1>2, LeftType, BytesType DEF Types, BytesOK
<1>4. Left(pending', offset') = b \o c
  BY <1>2, LeftConcat
<1>5. written' = a /\ Queued(dataQ') = d /\ accepted' = accepted
  OBVIOUS
<1>6. offset' = 1 => pending' # <<>>
  BY <1>2, ConcatProperties
<1> HIDE DEF a, b, c, d
<1>7. (a \o b) \o (c \o d) = (a \o (b \o c)) \o d
  <2>1. SameAll(a, b, c, d)
    BY <1>3, Regroup
  <2> QED BY <2>1 DEF SameAll
<1>8. accepted' = (written' \o Left(pending', offset')) \o Queued(dataQ')
  BY <1>1, <1>4, <1>5, <1>7
<1> QED BY <1>6, <1>8, ConservedIs DEF InputInv

\* What the terminal sends is no input.
LEMMA SendConserves ==
  ASSUME Types, InputInv, ~Exited, NEW rs \in Seq(Sent),
         pending' = pending \o rs,
         UNCHANGED <<dataQ, offset, written, accepted>>
  PROVE  InputInv'
<1>1. rs \in Seq(Item) /\ Bytes(rs) = <<>> /\ Queued(dataQ) \in Seq(Byte)
  BY SentIsItem, QueuedBytes DEF Types, InputsOK
<1>2. Queued(dataQ) = Bytes(rs) \o Queued(dataQ)
  BY <1>1, ConcatEmptySeq
<1> QED BY <1>1, <1>2, PutConserves

\* A byte that is written is the next one that was accepted.
LEMMA WriteConserves ==
  ASSUME Types, InputInv, WriteByte
  PROVE  InputInv' /\ written' \in Seq(Byte)
<1> DEFINE front == Head(pending)
           a == written
           c == Queued(dataQ)
           r == Bytes(Tail(pending))
           b1 == <<front.id, front.part, 1>>
           b2 == <<front.id, front.part, 2>>
<1>1. /\ ~Exited /\ pending # <<>>
      /\ written' = IF front.src = "user"
                    THEN Append(written, <<front.id, front.part, offset + 1>>)
                    ELSE written
      /\ offset' = (offset + 1) % 2
      /\ pending' = IF offset = 1 THEN Tail(pending) ELSE pending
      /\ UNCHANGED <<dataQ, accepted, pc>>
  BY DEF WriteByte, Flushing, Ready, Exited, handleVars
<1>2. pending \in Seq(Item) /\ offset \in {0, 1} /\ Len(pending) > 0
      /\ front \in Item
  BY <1>1, EmptySeq, HeadTailProperties DEF Types, ItemsOK
<1>3. a \in Seq(Byte) /\ c \in Seq(Byte) /\ Tail(pending) \in Seq(Item)
      /\ r \in Seq(Byte)
  BY <1>2, QueuedBytes, BytesFront, BytesType DEF Types, BytesOK, InputsOK
<1>4. accepted = (a \o Left(pending, offset)) \o c
  BY <1>1, ConservedIs DEF InputInv, Conserved
<1>5. /\ Left(pending, 0) = Bytes(pending)
      /\ Left(Tail(pending), 0) = r
  BY <1>2, <1>3, LeftWhole
<1>6. CASE front.src = "user"
  <2>1. /\ b1 \in Byte /\ b2 \in Byte
        /\ Left(pending, 1) = <<b2>> \o r
        /\ Bytes(pending) = <<b1>> \o Left(pending, 1)
        /\ Left(pending, 1) \in Seq(Byte)
    BY <1>2, <1>6, LeftAfterOne
  <2>2. CASE offset = 0
    <3>1. /\ written' = a \o <<b1>> /\ offset' = 1 /\ pending' = pending
      <4>1. offset' = 1 /\ pending' = pending /\ offset + 1 = 1
        BY <1>1, <2>2
      <4>2. written' = Append(a, b1)
        BY <1>1, <1>6, <4>1
      <4>3. Append(a, b1) = a \o <<b1>>
        BY <2>1, <1>3, AppendIsConcat
      <4> QED BY <4>1, <4>2, <4>3
    <3> DEFINE l == Left(pending, 1)
               x == <<b1>>
    <3>2. x \in Seq(Byte) /\ l \in Seq(Byte)
          /\ accepted = (a \o (x \o l)) \o c
      <4>1. x \in Seq(Byte) /\ l \in Seq(Byte)
        BY <2>1
      <4>2. Left(pending, offset) = x \o l
        BY <2>1, <2>2, <1>5
      <4> QED BY <4>1, <4>2, <1>4
    <3>3. written' = a \o x /\ Left(pending', offset') = l
      BY <3>1
    <3> HIDE DEF l, x, a, c
    <3>4. (a \o (x \o l)) \o c = ((a \o x) \o l) \o c
      <4>1. SameAll(a, x, l, c)
        BY <3>2, <1>3, Regroup
      <4> QED BY <4>1 DEF SameAll
    <3>5. a \o x \in Seq(Byte)
      BY <3>2, <1>3, ConcatProperties
    <3>6. accepted' = (written' \o Left(pending', offset')) \o c
      BY <1>1, <3>2, <3>3, <3>4
    <3> QED BY <1>1, <3>1, <3>3, <3>5, <3>6, ConservedIs DEF InputInv, c
  <2>3. CASE offset = 1
    <3>1. /\ written' = a \o <<b2>> /\ offset' = 0
          /\ pending' = Tail(pending)
      <4>1. offset' = 0 /\ pending' = Tail(pending) /\ offset + 1 = 2
        BY <1>1, <2>3
      <4>2. written' = Append(a, b2)
        BY <1>1, <1>6, <4>1
      <4>3. Append(a, b2) = a \o <<b2>>
        BY <2>1, <1>3, AppendIsConcat
      <4> QED BY <4>1, <4>2, <4>3
    <3> DEFINE x == <<b2>>
    <3>2. x \in Seq(Byte) /\ accepted = (a \o (x \o r)) \o c
      <4>1. x \in Seq(Byte)
        BY <2>1
      <4>2. Left(pending, offset) = x \o r
        BY <2>1, <2>3
      <4> QED BY <4>1, <4>2, <1>4
    <3>3. written' = a \o x /\ Left(pending', offset') = r
      BY <3>1, <1>5
    <3> HIDE DEF x, a, c, r
    <3>4. (a \o (x \o r)) \o c = ((a \o x) \o r) \o c
      <4>1. SameAll(a, x, r, c)
        BY <3>2, <1>3, Regroup
      <4> QED BY <4>1 DEF SameAll
    <3>5. a \o x \in Seq(Byte)
      BY <3>2, <1>3, ConcatProperties
    <3>6. accepted' = (written' \o Left(pending', offset')) \o c
      BY <1>1, <3>2, <3>3, <3>4
    <3>7. InputConserved'
      BY <1>1, <3>6, ConservedIs DEF c
    <3>8. ~(offset' = 1)
      BY <3>1
    <3> QED BY <3>3, <3>5, <3>7, <3>8 DEF InputInv
  <2> QED BY <1>2, <2>2, <2>3
<1>7. CASE front.src # "user"
  <2>1. Left(pending, 1) = Bytes(pending) /\ Bytes(pending) = r
    BY <1>2, <1>7, LeftAfterOne
  <2>2. written' = a /\ Left(pending', offset') = Left(pending, offset)
    <3>1. CASE offset = 0
      <4>1. offset' = 1 /\ pending' = pending
        BY <1>1, <3>1
      <4> QED BY <1>1, <1>5, <1>7, <2>1, <3>1, <4>1
    <3>2. CASE offset = 1
      <4>1. offset' = 0 /\ pending' = Tail(pending)
        BY <1>1, <3>2
      <4> QED BY <1>1, <1>5, <1>7, <2>1, <3>2, <4>1
    <3> QED BY <1>2, <3>1, <3>2
  <2>3. offset' = 1 => pending' # <<>>
    BY <1>1, <1>2
  <2>4. accepted' = (written' \o Left(pending', offset')) \o Queued(dataQ')
    BY <1>1, <1>4, <2>2
  <2>5. InputConserved'
    BY <2>4, ConservedIs
  <2> QED BY <1>3, <2>2, <2>3, <2>5 DEF InputInv
<1> QED BY <1>6, <1>7

\* A failed write gives up what is pending, and nothing else.
LEMMA FailConserves ==
  ASSUME Types, WriteFails
  PROVE  InputInv' /\ accepted' \in Seq(Byte)
<1>1. /\ pending' = <<>> /\ offset' = 0 /\ UNCHANGED <<written, dataQ>>
      /\ accepted' = written \o Queued(dataQ)
  BY DEF WriteFails, Queued, handleVars
<1>2. written \in Seq(Byte) /\ Queued(dataQ) \in Seq(Byte)
  BY QueuedBytes DEF Types, BytesOK, InputsOK
<1>3. Left(pending', offset') = <<>>
  <2>1. <<>> \in Seq(Item)
    BY EmptySeq
  <2> QED BY <1>1, <2>1, BytesNone, LeftWhole
<1>4. written \o <<>> = written /\ accepted' \in Seq(Byte)
  BY <1>1, <1>2, ConcatEmptySeq, ConcatProperties
<1>5. accepted' = (written' \o Left(pending', offset')) \o Queued(dataQ')
  BY <1>1, <1>3, <1>4
<1>6. InputConserved'
  BY <1>5, ConservedIs
<1> QED BY <1>1, <1>4, <1>6 DEF InputInv

\* Nothing of the input moves.
LEMMA QuietConserves ==
  ASSUME InputInv, UNCHANGED <<accepted, written, pending, offset, dataQ>>,
         Exited => Exited'
  PROVE  InputInv'
<1>1. CASE Exited'
  BY <1>1 DEF InputInv, InputConserved
<1>2. CASE ~Exited'
  <2>1. ~Exited
    BY <1>2
  <2>2. accepted = (written \o Left(pending, offset)) \o Queued(dataQ)
    BY <2>1, ConservedIs DEF InputInv, Conserved
  <2>3. accepted' = (written' \o Left(pending', offset')) \o Queued(dataQ')
    BY <2>2
  <2>4. InputConserved'
    BY <2>3, ConservedIs
  <2> QED BY <2>1, <2>4 DEF InputInv
<1> QED BY <1>1, <1>2

\* Input is conserved, and the histories are of bytes.
LEMMA InputStep ==
  ASSUME Types, QuietInv, Released, InputInv, [Next]_vars
  PROVE  InputInv' /\ BytesOK'
<1>0. accepted \in Seq(Byte) /\ written \in Seq(Byte)
  BY DEF Types, BytesOK
<1>1. ASSUME NEW kind \in {"plain", "delayed"}, TryWrite(kind)
      PROVE  InputInv' /\ BytesOK'
  <2>1. Accept(kind) /\ UNCHANGED <<pending, offset, written, pc>>
    BY <1>1 DEF TryWrite, actorVars
  <2> QED BY <1>0, <2>1, AcceptConserves DEF BytesOK
<1> DEFINE Kept == /\ UNCHANGED <<accepted, written, pending, offset, dataQ>>
                   /\ Exited => Exited'
<1>2. ASSUME Kept PROVE InputInv' /\ BytesOK'
  BY <1>0, <1>2, QuietConserves DEF BytesOK
<1>3. ASSUME NEW w \in Writers, WriteFinish(w)
      PROVE  InputInv' /\ BytesOK'
  <2>1. UNCHANGED <<pending, offset, written, pc>>
    BY <1>3 DEF WriteFinish, actorVars
  <2>2. CASE Accept("plain")
    BY <1>0, <2>1, <2>2, AcceptConserves DEF BytesOK
  <2>3. CASE UNCHANGED <<dataQ, accepted>>
    BY <1>2, <2>1, <2>3 DEF Exited
  <2> QED BY <1>3, <2>2, <2>3 DEF WriteFinish
<1>4. CASE HandleBeginHandoff
  <2>1. /\ ~Exited /\ dataQ' = <<>> /\ UNCHANGED <<offset, written, accepted>>
        /\ ApplyControls(pending \o QueuedParts(dataQ))
    BY <1>4 DEF HandleBeginHandoff, Exited
  <2> DEFINE x == QueuedParts(dataQ)
             y == Responses
  <2>2. y \in Seq(Sent) /\ pending' = (pending \o x) \o y
    BY <2>1, ApplyStep DEF Types
  <2>3. x \in Seq(Item) /\ y \in Seq(Item) /\ Bytes(y) = <<>>
        /\ pending \in Seq(Item)
    BY <2>2, QueuedType, SentIsItem DEF Types, InputsOK, ItemsOK
  <2>4. Queued(dataQ) = Bytes(x) /\ Bytes(x) \in Seq(Byte)
        /\ Queued(<<>>) = <<>>
    BY <2>3, BytesType, QueuedBytes DEF Queued, Types, InputsOK
  <2> HIDE DEF x, y
  <2>5. pending' = pending \o (x \o y) /\ x \o y \in Seq(Item)
    BY <2>2, <2>3, ConcatAssociative, ConcatProperties
  <2>6. Bytes(x \o y) = Bytes(x)
    <3>1. Bytes(x \o y) = Bytes(x) \o <<>>
      BY <2>3, BytesConcat
    <3> QED BY <2>4, <3>1, ConcatEmptySeq
  <2>7. Queued(dataQ) = Bytes(x \o y) \o Queued(<<>>)
    BY <2>4, <2>6, ConcatEmptySeq
  <2>8. Queued(<<>>) \in Seq(Byte)
    BY <2>4, EmptySeq
  <2>9. InputInv'
    BY <2>1, <2>5, <2>7, <2>8, PutConserves
  <2> QED BY <1>0, <2>1, <2>9 DEF BytesOK
<1>5. CASE HandleData
  <2>1. /\ ~Exited /\ dataQ # <<>> /\ dataQ' = Tail(dataQ)
        /\ UNCHANGED <<offset, written, accepted>>
    BY <1>5 DEF HandleData, Exited, histVars
  <2>2. state = "Running"
    BY <2>1 DEF QuietInv, Released, Types, FlagsOK
  <2>3. pending' = pending \o Parts(Head(dataQ))
    BY <1>5, <2>2 DEF HandleData
  <2>4. dataQ \in Seq(Command) /\ Len(dataQ) > 0
    BY <2>1, EmptySeq DEF Types, InputsOK
  <2>5. /\ Head(dataQ) \in Command /\ Tail(dataQ) \in Seq(Command)
        /\ Queued(dataQ) = Bytes(Parts(Head(dataQ))) \o Queued(Tail(dataQ))
    BY <2>4, QueuedFront
  <2>6. /\ Parts(Head(dataQ)) \in Seq(Item)
        /\ Queued(Tail(dataQ)) \in Seq(Byte)
    BY <2>5, PartsType, QueuedBytes
  <2>7. InputInv'
    BY <2>1, <2>3, <2>5, <2>6, PutConserves
  <2> QED BY <1>0, <2>1, <2>7 DEF BytesOK
<1>6. CASE ApplyPendingControls
  <2>1. /\ ~Exited /\ UNCHANGED <<dataQ, offset, written, accepted>>
        /\ ApplyControls(pending)
    BY <1>6 DEF ApplyPendingControls, Exited
  <2>2. Responses \in Seq(Sent) /\ pending' = pending \o Responses
    BY <2>1, ApplyStep DEF Types
  <2>3. InputInv'
    BY <2>1, <2>2, SendConserves
  <2> QED BY <1>0, <2>1, <2>3 DEF BytesOK
<1>7. ASSUME NEW query \in BOOLEAN, ReadOnce(query)
      PROVE  InputInv' /\ BytesOK'
  <2>1. ~Exited /\ UNCHANGED <<dataQ, offset, written, accepted>>
    BY <1>7 DEF ReadOnce, Exited
  <2> DEFINE rs == controls.responses \o Answers(query)
  <2>2. rs \in Seq(Sent) /\ pending' = pending \o rs
    BY <1>7, ReadStep DEF Types
  <2>3. InputInv'
    BY <2>1, <2>2, SendConserves
  <2> QED BY <1>0, <2>1, <2>3 DEF BytesOK
<1>8. CASE WriteByte
  BY <1>0, <1>8, WriteConserves DEF WriteByte, BytesOK
<1>9. CASE WriteFails
  BY <1>0, <1>9, FailConserves DEF WriteFails, BytesOK
<1>10. CASE BecomeDue
  <2>1. /\ Len(pending) > 0 /\ pending' = [pending EXCEPT ![1].due = TRUE]
        /\ UNCHANGED <<dataQ, offset, written, accepted, pc>>
    BY <1>10, EmptySeq
       DEF BecomeDue, Types, ItemsOK, handleVars, histVars
  <2>2. /\ pending' \in Seq(Item) /\ Len(pending') = Len(pending)
        /\ Head(pending').src = Head(pending).src
        /\ Bytes(pending') = Bytes(pending)
    BY <2>1, DueStep DEF Types, ItemsOK
  <2>3. pending' # <<>> /\ pending # <<>>
    BY <2>1, <2>2
  <2>4. Left(pending', offset') = Left(pending, offset)
    BY <2>1, <2>2, <2>3 DEF Left
  <2>5. ASSUME ~Exited'
        PROVE  accepted' = (written' \o Left(pending', offset'))
                             \o Queued(dataQ')
    BY <2>1, <2>4, <2>5, ConservedIs DEF InputInv, Conserved, Exited
  <2>6. InputConserved'
    BY <2>5, ConservedIs
  <2> QED BY <1>0, <2>1, <2>3, <2>6 DEF InputInv, BytesOK
<1>11. CASE HandleExit \/ ActorFails
  <2>1. Exited' /\ UNCHANGED <<accepted, written>>
    BY <1>11 DEF HandleExit, ActorFails, Exited, histVars
  <2> QED BY <1>0, <2>1 DEF InputInv, InputConserved, BytesOK
<1>12. ASSUME NEW w \in Writers, WriteStart(w) \/ WriteReserve(w)
       PROVE  Kept
  BY <1>12 DEF WriteStart, WriteReserve, handleVars, actorVars, histVars,
     Exited
<1>13. ASSUME NEW s \in {1, 2}, Resize(s)
       PROVE  Kept
  BY <1>13 DEF Resize, actorVars, histVars, Exited
<1>14. ASSUME Nudge \/ ChangeScheme \/ ReportScheme PROVE Kept
  BY <1>14 DEF Nudge, ChangeScheme, ReportScheme, actorVars, histVars, Exited
<1>15. ASSUME Handoff PROVE Kept
  BY <1>15 DEF Handoff, BeginHandoff, BeginHandoffClosed,
     BeginAcknowledged, Duplicate, Duplicated, RollbackHandoff,
     RollbackAnswered, RollbackTimesOut, ReleaseAfterCommit, Shutdown,
     handleVars, actorVars, histVars, Exited
<1>16. ASSUME Drained \/ DrainFails \/ HandleDuplicate \/ HandleRollback
              \/ StopFlush \/ Poll
       PROVE  Kept
  BY <1>16 DEF Drained, DrainFails, HandleDuplicate, HandleRollback,
     StopFlush, Poll, handleVars, actorVars, histVars, Exited
<1>17. ASSUME UNCHANGED vars PROVE Kept
  BY <1>17 DEF vars, handleVars, actorVars, histVars, Exited
<1> HIDE DEF Kept
<1> QED
  BY <1>1, <1>2, <1>3, <1>4, <1>5, <1>6, <1>7, <1>8, <1>9, <1>10, <1>11,
     <1>12, <1>13, <1>14, <1>15, <1>16, <1>17 DEF Next, ActorStep

-----------------------------------------------------------------------------
(* The calls of a handoff *)

\* Nothing that the calls are about changes.
CallsKept ==
  /\ UNCHANGED <<ctlQ, caller, call, reply, draining, state, gate, deaf>>
  /\ pc = "drain" <=> pc' = "drain"
  /\ Exited => Exited'

\* Then the invariant is kept.
LEMMA CallsKeptStep ==
  ASSUME CallInv, CallsKept
  PROVE  CallInv'
<1> USE DEF CallsKept, Exited
<1>1. Numbered' /\ BeginAwaited' /\ DrainAwaited'
  BY DEF CallInv, Numbered, BeginAwaited, DrainAwaited
<1>2. Awaited' /\ Settled' /\ Acknowledged'
  BY DEF CallInv, Awaited, Settled, Acknowledged, Idle
<1>3. Held' /\ GateInv' /\ Released'
  BY DEF CallInv, Held, GateInv, Released, Idle
<1> QED BY <1>1, <1>2, <1>3 DEF CallInv

\* A new call: its command is the last one, and all others are older.
LEMMA AskStep ==
  ASSUME CallsOK, NEW cmd \in Commands, Ask(cmd, ctlQ),
         UNCHANGED <<draining, pc>>
  PROVE  /\ call' = call + 1 /\ reply' = "none" /\ Len(ctlQ') > 0
         /\ Len(ctlQ') = Len(ctlQ) + 1 /\ Len(ctlQ) \in Nat
         /\ ctlQ'[Len(ctlQ')] = <<cmd, call'>>
         /\ \A i \in 1 .. Len(ctlQ') - 1 : ctlQ'[i][2] < call'
         /\ draining' < call'
<1>1. /\ call' = call + 1 /\ reply' = "none"
      /\ ctlQ' = Append(ctlQ, <<cmd, call + 1>>)
  BY DEF Ask
<1>2. call \in Nat /\ draining \in 0 .. call
      /\ ctlQ \in Seq(Commands \X (0 .. call))
  BY DEF CallsOK
<1>3. /\ Len(ctlQ') = Len(ctlQ) + 1 /\ Len(ctlQ) \in Nat
      /\ ctlQ'[Len(ctlQ) + 1] = <<cmd, call + 1>>
      /\ \A i \in 1 .. Len(ctlQ) : ctlQ'[i] = ctlQ[i]
  BY <1>1, <1>2
<1>4. ASSUME NEW i \in 1 .. Len(ctlQ) PROVE ctlQ[i][2] \in 0 .. call
  <2>1. ctlQ[i] \in Commands \X (0 .. call)
    BY <1>2, ElementOfSeq
  <2> QED BY <2>1
<1>5. \A i \in 1 .. Len(ctlQ') - 1 : ctlQ'[i][2] < call'
  BY <1>1, <1>2, <1>3, <1>4
<1> QED BY <1>1, <1>2, <1>3, <1>5

\* The actor takes the first command.
LEMMA TakeStep ==
  ASSUME CallsOK, Len(ctlQ) > 0, ctlQ' = Tail(ctlQ), UNCHANGED call
  PROVE  /\ Head(ctlQ) = ctlQ[1] /\ Len(ctlQ) \in Nat
         /\ Len(ctlQ') = Len(ctlQ) - 1 /\ Len(ctlQ') \in Nat
         /\ \A i \in 1 .. Len(ctlQ') : ctlQ'[i] = ctlQ[i + 1]
         /\ Len(ctlQ) > 1 => ctlQ'[Len(ctlQ')] = ctlQ[Len(ctlQ)]
         /\ Len(ctlQ) = 1 => ctlQ' = <<>>
         /\ ctlQ # <<>>
<1>1. call \in Nat /\ ctlQ \in Seq(Commands \X (0 .. call))
  BY DEF CallsOK
<1>2. /\ Head(ctlQ) = ctlQ[1] /\ Len(ctlQ) \in Nat
      /\ Len(ctlQ') = Len(ctlQ) - 1 /\ Len(ctlQ') \in Nat
      /\ \A i \in 1 .. Len(ctlQ') : ctlQ'[i] = ctlQ[i + 1]
      /\ ctlQ' \in Seq(Commands \X (0 .. call)) /\ ctlQ # <<>>
  BY <1>1, QueueFront, EmptySeq
<1>3. Len(ctlQ) > 1 => ctlQ'[Len(ctlQ')] = ctlQ[Len(ctlQ)]
  <2>1. ASSUME Len(ctlQ) > 1
        PROVE  Len(ctlQ') \in 1 .. Len(ctlQ') /\ Len(ctlQ') + 1 = Len(ctlQ)
    BY <1>2, <2>1
  <2> QED BY <1>2, <2>1
<1>4. Len(ctlQ) = 1 => ctlQ' = <<>>
  BY <1>2, EmptySeq
<1> QED BY <1>2, <1>3, <1>4

\* Older commands stay older, and none more is awaited.
LEMMA TakeKeeps ==
  ASSUME CallsOK, CallInv, Len(ctlQ) > 0, ctlQ' = Tail(ctlQ), ~Exited,
         UNCHANGED <<caller, call>>,
         reply' = reply \/ Head(ctlQ)[2] = call
  PROVE  Numbered' /\ BeginAwaited'
<1>1. /\ Head(ctlQ) = ctlQ[1] /\ Len(ctlQ) \in Nat
      /\ Len(ctlQ') = Len(ctlQ) - 1 /\ Len(ctlQ') \in Nat
      /\ \A i \in 1 .. Len(ctlQ') : ctlQ'[i] = ctlQ[i + 1]
  BY TakeStep
<1>2. Numbered'
  <2> SUFFICES ASSUME caller # "done", NEW i \in 1 .. Len(ctlQ') - 1
               PROVE  ctlQ'[i][2] < call'
    BY DEF Numbered
  <2>1. i + 1 \in 1 .. Len(ctlQ) - 1 /\ i \in 1 .. Len(ctlQ')
    BY <1>1
  <2>2. ctlQ[i + 1][2] < call
    BY <2>1 DEF CallInv, Numbered
  <2> QED BY <1>1, <2>1, <2>2
<1>3. BeginAwaited'
  <2> SUFFICES ASSUME NEW i \in 1 .. Len(ctlQ'),
                      ctlQ'[i][1] = "BeginHandoff", ctlQ'[i][2] = call
               PROVE  caller' = "begin" /\ reply' = "none" /\ i = Len(ctlQ')
    BY DEF BeginAwaited
  <2>1. /\ i + 1 \in 1 .. Len(ctlQ) /\ ctlQ'[i] = ctlQ[i + 1]
    BY <1>1
  <2>2. caller = "begin" /\ reply = "none" /\ i + 1 = Len(ctlQ)
    BY <2>1 DEF CallInv, BeginAwaited
  <2>3. 1 \in 1 .. Len(ctlQ) - 1
    BY <1>1, <2>2
  <2>4. ctlQ[1][2] < call
    BY <2>2, <2>3 DEF CallInv, Numbered
  <2>5. reply' = reply
    BY <1>1, <2>4, CallsOK DEF CallsOK
  <2> QED BY <1>1, <2>2, <2>5
<1> QED BY <1>2, <1>3

\* A command that is not handled yet keeps the gate shut, and the caller that
\* waits has the last one.
LEMMA Outstanding ==
  ASSUME Types, CallInv, Len(ctlQ) > 0, pc = "control"
  PROVE  /\ ~Exited /\ ~gate /\ caller \notin {"held", "import"}
         /\ caller = "idle" => deaf
         /\ caller \in Waits =>
              reply = "none" /\ ctlQ[Len(ctlQ)] = <<Asked[caller], call>>
         /\ caller = "dup" => Len(ctlQ) = 1 /\ state = "Quiesced"
         /\ caller \in Waits /\ ctlQ[1][2] = call => Len(ctlQ) = 1
         /\ state # "Released"
<1>1. ctlQ # <<>> /\ Len(ctlQ) \in Nat /\ call \in Nat
  BY DEF Types, CallsOK
<1>2. ~Exited /\ pc # "drain" /\ ~Idle
  BY <1>1 DEF Exited, Idle
<1>3. ~gate /\ caller \notin {"held", "import"} /\ (caller = "idle" => deaf)
  BY <1>2 DEF CallInv, Held, GateInv
<1>4. caller \in Waits =>
        reply = "none" /\ ctlQ[Len(ctlQ)] = <<Asked[caller], call>>
  BY <1>2 DEF CallInv, Settled, Awaited
<1>5. caller = "dup" => Len(ctlQ) = 1 /\ state = "Quiesced"
  <2>1. caller = "dup" => Len(ctlQ) <= 1 /\ state = "Quiesced"
    BY <1>2, Zenon DEF CallInv, Held
  <2> QED BY <1>1, <2>1
<1>6. caller \in Waits /\ ctlQ[1][2] = call => Len(ctlQ) = 1
  <2>1. ASSUME caller \in Waits, Len(ctlQ) # 1 PROVE ctlQ[1][2] < call
    <3>1. 1 \in 1 .. Len(ctlQ) - 1
      BY <1>1, <2>1
    <3>2. caller # "done"
      BY <2>1 DEF Waits
    <3> QED BY <3>1, <3>2, Zenon DEF CallInv, Numbered
  <2>2. ~(call < call)
    BY <1>1
  <2> QED BY <2>1, <2>2
<1>7. state # "Released"
  BY <1>2 DEF CallInv, Released
<1> QED BY <1>2, <1>3, <1>4, <1>5, <1>6, <1>7

\* The caller's side keeps the invariant.
LEMMA HandoffCalls ==
  ASSUME Types, CallInv, Handoff
  PROVE  CallInv'
<1>0. CallsOK /\ FlagsOK
  BY DEF Types
<1> DEFINE Asks(cmd) ==
      /\ call' = call + 1 /\ reply' = "none" /\ Len(ctlQ') > 0
      /\ Len(ctlQ') = Len(ctlQ) + 1 /\ Len(ctlQ) \in Nat
      /\ ctlQ'[Len(ctlQ')] = <<cmd, call'>>
      /\ \A i \in 1 .. Len(ctlQ') - 1 : ctlQ'[i][2] < call'
      /\ draining' < call' /\ UNCHANGED <<draining, pc, state>>
      /\ ~Exited /\ call' \in Nat
<1>1. ASSUME NEW cmd \in Commands, Asks(cmd),
             cmd = "BeginHandoff" => caller' = "begin"
      PROVE  Numbered' /\ BeginAwaited' /\ DrainAwaited' /\ Released'
  <2>1. ASSUME NEW i \in 1 .. Len(ctlQ'), ctlQ'[i][2] = call'
        PROVE  i = Len(ctlQ')
    BY <1>1, <2>1
  <2>2. BeginAwaited'
    BY <1>1, <2>1 DEF BeginAwaited
  <2>3. DrainAwaited'
    BY <1>1 DEF DrainAwaited
  <2>4. Numbered' /\ Released'
    BY <1>1 DEF Numbered, Released, CallInv, Exited
  <2> QED BY <2>2, <2>3, <2>4
<1>2. CASE BeginHandoff
  <2>1. Asks("BeginHandoff") /\ caller' = "begin" /\ ~gate'
    BY <1>0, <1>2, AskStep DEF BeginHandoff, actorVars, Commands, CallsOK
  <2>2. Numbered' /\ BeginAwaited' /\ DrainAwaited' /\ Released'
    BY <1>1, <2>1 DEF Commands
  <2>3. Awaited' /\ Settled' /\ Acknowledged'
    BY <2>1 DEF Awaited, Settled, Acknowledged, Asked
  <2>4. Held' /\ GateInv'
    BY <2>1 DEF Held, GateInv
  <2> QED BY <2>2, <2>3, <2>4 DEF CallInv
<1>3. CASE Duplicate
  <2>1. Asks("DuplicateForHandoff") /\ caller = "held" /\ caller' = "dup"
        /\ UNCHANGED <<gate, deaf>>
    BY <1>0, <1>3, AskStep DEF Duplicate, actorVars, Commands, CallsOK
  <2>2. Numbered' /\ BeginAwaited' /\ DrainAwaited' /\ Released'
    BY <1>1, <2>1 DEF Commands
  <2>3. Awaited' /\ Settled' /\ Acknowledged'
    BY <2>1 DEF Awaited, Settled, Acknowledged, Asked
  <2>4. state = "Quiesced" /\ ctlQ = <<>> /\ pc # "drain"
    BY <2>1 DEF CallInv, Held, Idle
  <2>5. Len(ctlQ') <= 1
    BY <2>1, <2>4, EmptySeq
  <2>6. Held' /\ GateInv'
    BY <2>1, <2>4, <2>5 DEF CallInv, Held, GateInv, Exited
  <2> QED BY <2>2, <2>3, <2>6 DEF CallInv
<1>4. CASE RollbackHandoff /\ ~Exited
  <2>1. Asks("RollbackHandoff") /\ caller' = "rollback"
        /\ UNCHANGED <<gate, deaf>> /\ caller # "idle"
    BY <1>0, <1>4, AskStep DEF RollbackHandoff, actorVars, Commands, CallsOK
  <2>2. Numbered' /\ BeginAwaited' /\ DrainAwaited' /\ Released'
    BY <1>1, <2>1 DEF Commands
  <2>3. Awaited' /\ Settled' /\ Acknowledged'
    BY <2>1 DEF Awaited, Settled, Acknowledged, Asked
  <2>4. Held' /\ GateInv'
    BY <2>1 DEF Held, GateInv, CallInv, Exited
  <2> QED BY <2>2, <2>3, <2>4 DEF CallInv
<1>5. CASE ReleaseAfterCommit /\ ~Exited
  <2>1. Asks("ReleaseAfterCommit") /\ caller' = "done" /\ ~gate'
    BY <1>0, <1>5, AskStep DEF ReleaseAfterCommit, actorVars, Commands,
       CallsOK
  <2>2. Numbered' /\ BeginAwaited' /\ DrainAwaited' /\ Released'
    BY <1>1, <2>1 DEF Commands
  <2>3. Awaited' /\ Settled' /\ Acknowledged'
    BY <2>1 DEF Awaited, Settled, Acknowledged, Waits
  <2>4. Held' /\ GateInv'
    BY <2>1 DEF Held, GateInv
  <2> QED BY <2>2, <2>3, <2>4 DEF CallInv
<1> HIDE DEF Asks
<1>6. CASE Shutdown
  <2>1. /\ caller \in {"idle", "import"} /\ caller' = "done" /\ ~gate'
        /\ ctlQ' = Append(ctlQ, <<"Shutdown", 0>>) /\ ~Exited
        /\ UNCHANGED <<call, reply, pc, draining, state>>
    BY <1>6 DEF Shutdown, actorVars, MainFree
  <2>2. /\ Len(ctlQ') = Len(ctlQ) + 1 /\ Len(ctlQ) \in Nat
        /\ ctlQ'[Len(ctlQ) + 1] = <<"Shutdown", 0>>
        /\ \A i \in 1 .. Len(ctlQ) : ctlQ'[i] = ctlQ[i]
    BY <1>0, <2>1 DEF CallsOK
  <2>3. ASSUME NEW i \in 1 .. Len(ctlQ'), ctlQ'[i][1] = "BeginHandoff",
               ctlQ'[i][2] = call
        PROVE  FALSE
    <3>1. i \in 1 .. Len(ctlQ) /\ ctlQ'[i] = ctlQ[i]
      BY <2>2, <2>3
    <3> QED BY <2>1, <2>3, <3>1 DEF CallInv, BeginAwaited
  <2>4. BeginAwaited'
    BY <2>1, <2>3 DEF BeginAwaited
  <2>5. Numbered' /\ DrainAwaited' /\ Released'
    BY <2>1 DEF Numbered, DrainAwaited, Released, CallInv, Exited
  <2>6. Awaited' /\ Settled' /\ Acknowledged' /\ Held' /\ GateInv'
    BY <2>1 DEF Awaited, Settled, Acknowledged, Waits, Held, GateInv
  <2> QED BY <2>4, <2>5, <2>6 DEF CallInv
<1>7. CASE BeginHandoffClosed
           \/ (Exited /\ (RollbackHandoff \/ ReleaseAfterCommit))
  <2>1. /\ UNCHANGED <<call, ctlQ, pc>> /\ Exited' /\ pc # "drain"
        /\ caller # "done"
    BY <1>7 DEF BeginHandoffClosed, RollbackHandoff, ReleaseAfterCommit,
       actorVars, callVars, Exited
  <2>2. Numbered' /\ BeginAwaited' /\ DrainAwaited' /\ Released'
    BY <2>1 DEF Numbered, BeginAwaited, DrainAwaited, Released, CallInv
  <2>3. Awaited' /\ Settled' /\ Acknowledged' /\ Held' /\ GateInv'
    BY <2>1 DEF Awaited, Settled, Acknowledged, Held, GateInv
  <2> QED BY <2>2, <2>3 DEF CallInv
<1>8. CASE BeginAcknowledged \/ Duplicated
  <2>1. /\ UNCHANGED <<call, reply, ctlQ, pc, draining, state, gate, deaf>>
        /\ caller \in {"begin", "dup"} /\ caller' = "held" /\ reply = "ok"
    BY <1>8 DEF BeginAcknowledged, Duplicated, actorVars, handleVars
  <2>2. Numbered' /\ BeginAwaited' /\ DrainAwaited' /\ Released'
    BY <2>1 DEF Numbered, BeginAwaited, DrainAwaited, Released, CallInv,
       Exited
  <2>3. ~Exited => state = "Quiesced" /\ Idle
    BY <2>1 DEF CallInv, Settled, Acknowledged, Held, Waits
  <2>4. Awaited' /\ Settled' /\ Acknowledged' /\ Held' /\ GateInv'
    BY <2>1, <2>3 DEF Awaited, Settled, Acknowledged, Held, GateInv, CallInv,
       Waits, Exited, Idle
  <2> QED BY <2>2, <2>4 DEF CallInv
<1>9. CASE RollbackAnswered
  <2>1. /\ UNCHANGED <<call, reply, ctlQ, pc, draining, state>>
        /\ caller = "rollback" /\ caller' = "idle" /\ reply = "ok"
        /\ gate' /\ ~deaf'
    BY <1>9 DEF RollbackAnswered, actorVars
  <2>2. Numbered' /\ BeginAwaited' /\ DrainAwaited' /\ Released'
    BY <2>1 DEF Numbered, BeginAwaited, DrainAwaited, Released, CallInv,
       Exited
  <2>3. ~Exited => state = "Running" /\ Idle
    BY <2>1 DEF CallInv, Settled, Acknowledged, Waits
  <2>4. Awaited' /\ Settled' /\ Acknowledged' /\ Held' /\ GateInv'
    BY <2>1, <2>3 DEF Awaited, Settled, Acknowledged, Held, GateInv,
       Waits, Exited, Idle
  <2> QED BY <2>2, <2>4 DEF CallInv
<1>10. CASE RollbackTimesOut
  <2>1. /\ UNCHANGED <<call, reply, ctlQ, pc, draining, state, gate>>
        /\ caller = "rollback" /\ caller' = "idle" /\ deaf'
    BY <1>10 DEF RollbackTimesOut, actorVars, handleVars
  <2>2. Numbered' /\ BeginAwaited' /\ DrainAwaited' /\ Released'
    BY <2>1 DEF Numbered, BeginAwaited, DrainAwaited, Released, CallInv,
       Exited
  <2>3. gate => Exited
    BY <2>1 DEF CallInv, GateInv
  <2>4. Awaited' /\ Settled' /\ Acknowledged' /\ Held' /\ GateInv'
    BY <2>1, <2>3 DEF Awaited, Settled, Acknowledged, Held, GateInv,
       Waits, Exited
  <2> QED BY <2>2, <2>4 DEF CallInv
<1> QED
  BY <1>2, <1>3, <1>4, <1>5, <1>6, <1>7, <1>8, <1>9, <1>10 DEF Handoff

\* The actor's side keeps the invariant.
LEMMA ActorCalls ==
  ASSUME Types, CallInv,
         \/ HandleBeginHandoff \/ HandleDuplicate \/ HandleRollback
         \/ HandleExit \/ Drained \/ DrainFails \/ ActorFails
  PROVE  CallInv'
<1>0. CallsOK /\ FlagsOK
  BY DEF Types
<1> DEFINE Takes ==
      /\ pc = "control" /\ Len(ctlQ) > 0 /\ ctlQ' = Tail(ctlQ)
      /\ UNCHANGED <<call, caller, gate, deaf>>
<1>1. ASSUME ctlQ # <<>> PROVE Len(ctlQ) > 0
  BY <1>0, <1>1, EmptySeq DEF CallsOK
<1>2. ASSUME Takes
      PROVE  /\ Head(ctlQ) = ctlQ[1] /\ Len(ctlQ) \in Nat
             /\ Len(ctlQ') = Len(ctlQ) - 1 /\ Len(ctlQ') \in Nat
             /\ Len(ctlQ) > 1 => ctlQ'[Len(ctlQ')] = ctlQ[Len(ctlQ)]
             /\ Len(ctlQ) = 1 => ctlQ' = <<>>
             /\ Len(ctlQ) # 1 => Len(ctlQ) > 1 /\ Len(ctlQ') > 0
  <2>1. /\ Head(ctlQ) = ctlQ[1] /\ Len(ctlQ) \in Nat
        /\ Len(ctlQ') = Len(ctlQ) - 1 /\ Len(ctlQ') \in Nat
        /\ Len(ctlQ) > 1 => ctlQ'[Len(ctlQ')] = ctlQ[Len(ctlQ)]
        /\ Len(ctlQ) = 1 => ctlQ' = <<>>
    BY <1>0, <1>2, TakeStep
  <2>2. Len(ctlQ) > 0
    BY <1>2
  <2>3. Len(ctlQ) # 1 => Len(ctlQ) > 1 /\ Len(ctlQ') > 0
    BY <2>1, <2>2
  <2> QED BY <2>1, <2>3
<1>3. ASSUME Takes
      PROVE  /\ ~Exited /\ ~gate /\ caller \notin {"held", "import"}
             /\ caller = "idle" => deaf
             /\ caller \in Waits =>
                  reply = "none" /\ ctlQ[Len(ctlQ)] = <<Asked[caller], call>>
             /\ caller = "dup" => Len(ctlQ) = 1 /\ state = "Quiesced"
             /\ caller \in Waits /\ ctlQ[1][2] = call => Len(ctlQ) = 1
             /\ state # "Released"
  BY <1>3, Outstanding
<1>4. ASSUME Takes PROVE GateInv'
  BY <1>3, <1>4 DEF GateInv
<1>5. ASSUME Takes, reply' = reply \/ Head(ctlQ)[2] = call
      PROVE  Numbered' /\ BeginAwaited'
  BY <1>0, <1>3, <1>5, TakeKeeps
<1>6. ASSUME Takes, caller \in Waits, Len(ctlQ) = 1
      PROVE  Head(ctlQ)[1] = Asked[caller] /\ Head(ctlQ)[2] = call
  <2>1. Head(ctlQ) = <<Asked[caller], call>>
    BY <1>2, <1>3, <1>6
  <2> QED BY <2>1
<1>7. CASE HandleBeginHandoff
  <2>1. Takes
    BY <1>1, <1>7 DEF HandleBeginHandoff, callVars
  <2>2. /\ Head(ctlQ)[1] = "BeginHandoff" /\ draining' = Head(ctlQ)[2]
        /\ pc' = "drain" /\ UNCHANGED <<reply, state>>
    BY <1>7 DEF HandleBeginHandoff, callVars
  <2>3. Numbered' /\ BeginAwaited' /\ GateInv'
    BY <1>4, <1>5, <2>1, <2>2
  <2>4. DrainAwaited'
    <3>1. ASSUME draining' = call
          PROVE  caller = "begin" /\ reply = "none" /\ 1 = Len(ctlQ)
      <4>1. /\ ctlQ[1][1] = "BeginHandoff" /\ ctlQ[1][2] = call
            /\ 1 \in 1 .. Len(ctlQ) /\ ~Exited
        BY <1>2, <1>3, <2>1, <2>2, <3>1
      <4> QED BY <4>1, Zenon DEF CallInv, BeginAwaited
    <3> QED BY <1>2, <2>1, <2>2, <3>1 DEF DrainAwaited
  <2>5. Awaited'
    <3> SUFFICES ASSUME caller' \in Waits, reply' = "none"
                 PROVE  \/ /\ Len(ctlQ') > 0
                           /\ ctlQ'[Len(ctlQ')] = <<Asked[caller'], call'>>
                        \/ /\ caller' = "begin" /\ ctlQ' = <<>>
                           /\ pc' = "drain" /\ draining' = call'
      BY DEF Awaited
    <3>1. caller' = caller /\ call' = call
      BY <2>1
    <3>2. CASE Len(ctlQ) = 1
      BY <1>2, <1>6, <2>1, <2>2, <3>1, <3>2 DEF Waits, Asked
    <3>3. CASE Len(ctlQ) # 1
      <4>1. Len(ctlQ) > 1 /\ Len(ctlQ') > 0
        BY <1>2, <2>1, <3>3
      <4> QED BY <1>2, <1>3, <2>1, <3>1, <4>1
    <3> QED BY <3>2, <3>3
  <2>6. Settled' /\ Acknowledged'
    BY <1>3, <2>1, <2>2 DEF Settled, Acknowledged, Waits
  <2>7. Held'
    <3>1. caller # "dup"
      BY <1>3, <1>6, <2>1, <2>2 DEF Waits, Asked
    <3> QED BY <1>3, <2>1, <3>1 DEF Held
  <2>8. Released'
    BY <1>3, <2>1, <2>2 DEF Released
  <2> QED BY <2>3, <2>4, <2>5, <2>6, <2>7, <2>8 DEF CallInv
<1>8. CASE HandleDuplicate \/ HandleRollback
  <2>1. Takes /\ pc' = "control" /\ ~Exited'
    BY <1>1, <1>8 DEF HandleDuplicate, HandleRollback, actorVars, Exited
  <2>2. /\ Head(ctlQ)[2] # call => reply' = reply
        /\ Head(ctlQ)[2] = call => reply' # "none"
    BY <1>8 DEF HandleDuplicate, HandleRollback, Answer
  <2>3. Numbered' /\ BeginAwaited' /\ GateInv' /\ DrainAwaited'
    BY <1>4, <1>5, <2>1, <2>2 DEF DrainAwaited
  <2>4. caller' = caller /\ call' = call
    BY <2>1
  <2>5. Awaited'
    <3> SUFFICES ASSUME caller' \in Waits, reply' = "none"
                 PROVE  /\ Len(ctlQ') > 0
                        /\ ctlQ'[Len(ctlQ')] = <<Asked[caller'], call'>>
      BY DEF Awaited
    <3>1. Len(ctlQ) # 1
      BY <1>6, <2>1, <2>2, <2>4
    <3>2. Len(ctlQ) > 1 /\ Len(ctlQ') > 0
      BY <1>2, <2>1, <3>1
    <3> QED BY <1>2, <1>3, <2>1, <2>4, <3>2
  <2>6. Settled'
    <3> SUFFICES ASSUME caller' \in Waits, reply' # "none"
                 PROVE  ctlQ' = <<>>
      BY <2>1 DEF Settled, Idle
    <3>1. Head(ctlQ)[2] = call
      BY <1>3, <2>1, <2>2, <2>4
    <3> QED BY <1>2, <1>3, <2>1, <2>4, <3>1
  <2>7. ASSUME caller \in Waits, reply' # "none"
        PROVE  Head(ctlQ)[1] = Asked[caller]
    <3>1. Head(ctlQ)[2] = call
      BY <1>3, <2>1, <2>2, <2>7
    <3> QED BY <1>2, <1>3, <1>6, <2>1, <2>7, <3>1
  <2>8. CASE HandleDuplicate
    <3>1. Head(ctlQ)[1] = "DuplicateForHandoff" /\ state' = state
      BY <2>8 DEF HandleDuplicate, actorVars
    <3>2. Acknowledged'
      BY <2>4, <2>7, <3>1 DEF Acknowledged, Waits, Asked
    <3>3. Len(ctlQ) = 1 => Len(ctlQ') <= 1
      BY <1>2, <2>1
    <3>4. Held' /\ Released'
      BY <1>3, <2>1, <3>1, <3>3 DEF Held, Released
    <3> QED BY <2>3, <2>5, <2>6, <3>2, <3>4 DEF CallInv
  <2>9. CASE HandleRollback
    <3>1. Head(ctlQ)[1] = "RollbackHandoff" /\ state' = "Running"
      BY <2>9 DEF HandleRollback
    <3>2. Acknowledged'
      BY <2>4, <2>7, <3>1 DEF Acknowledged, Waits, Asked
    <3>3. caller # "dup"
      BY <1>3, <1>6, <2>1, <3>1 DEF Waits, Asked
    <3>4. Held' /\ Released'
      BY <1>3, <2>1, <3>1, <3>3 DEF Held, Released
    <3> QED BY <2>3, <2>5, <2>6, <3>2, <3>4 DEF CallInv
  <2> QED BY <1>8, <2>8, <2>9
<1>9. CASE HandleExit \/ ActorFails
  <2>1. Exited' /\ pc' # "drain"
    BY <1>9 DEF HandleExit, ActorFails, Exited
  <2>2. CASE HandleExit
    <3>1. Takes /\ reply' = reply
      BY <1>1, <2>2 DEF HandleExit, callVars
    <3>2. Numbered'
      BY <1>5, <3>1
    <3> QED BY <2>1, <3>2 DEF CallInv, BeginAwaited, DrainAwaited, Awaited,
            Settled, Acknowledged, Held, GateInv, Released
  <2>3. CASE ActorFails
    <3>1. Numbered'
      BY <2>3 DEF ActorFails, handleVars, callVars, CallInv, Numbered
    <3> QED BY <2>1, <3>1 DEF CallInv, BeginAwaited, DrainAwaited, Awaited,
            Settled, Acknowledged, Held, GateInv, Released
  <2> QED BY <1>9, <2>2, <2>3
<1>10. CASE Drained \/ DrainFails
  <2>1. /\ pc = "drain" /\ pc' = "control" /\ ~Exited /\ ~Exited' /\ ~Idle
        /\ UNCHANGED <<ctlQ, caller, call, gate, deaf>>
        /\ draining # call => reply' = reply
        /\ draining = call => reply' # "none"
    BY <1>10 DEF Drained, DrainFails, Answer, handleVars, Exited, Idle
  <2>2. draining = call => caller = "begin" /\ reply = "none" /\ ctlQ = <<>>
    BY <2>1, Zenon DEF CallInv, DrainAwaited
  <2>3. Numbered' /\ BeginAwaited' /\ DrainAwaited'
    <3>1. Numbered' /\ DrainAwaited'
      BY <2>1 DEF CallInv, Numbered, DrainAwaited
    <3>2. CASE draining = call
      <4>1. Len(ctlQ') = 0
        BY <2>1, <2>2, <3>2
      <4> QED BY <3>1, <4>1 DEF BeginAwaited
    <3>3. CASE draining # call
      BY <2>1, <3>1, <3>3 DEF CallInv, BeginAwaited
    <3> QED BY <3>2, <3>3
  <2>4. caller \in Waits => reply = "none"
    BY <2>1 DEF CallInv, Settled
  <2>5. caller \notin {"held", "import", "dup"} /\ ~gate
        /\ (caller = "idle" => deaf)
    BY <2>1 DEF CallInv, Held, GateInv
  <2>6. Awaited'
    BY <2>1, <2>2 DEF CallInv, Awaited
  <2>7. Settled'
    BY <2>1, <2>2, <2>4 DEF Settled, Idle
  <2>8. Held' /\ GateInv'
    BY <2>1, <2>5 DEF Held, GateInv
  <2>9. CASE Drained
    <3>1. state' = "Quiesced"
      BY <2>9 DEF Drained
    <3>2. Acknowledged' /\ Released'
      BY <2>1, <2>2, <2>4, <3>1 DEF Acknowledged, Released, Waits
    <3> QED BY <2>3, <2>6, <2>7, <2>8, <3>2 DEF CallInv
  <2>10. CASE DrainFails
    <3>1. state' = state /\ (draining = call => reply' = "err")
      BY <2>10 DEF DrainFails, Answer
    <3>2. Acknowledged' /\ Released'
      BY <2>1, <2>2, <2>4, <3>1
         DEF CallInv, Acknowledged, Released, Waits
    <3> QED BY <2>3, <2>6, <2>7, <2>8, <3>2 DEF CallInv
  <2> QED BY <1>10, <2>9, <2>10
<1> QED BY <1>7, <1>8, <1>9, <1>10

\* The calls of a handoff and the actor agree.
LEMMA CallStep ==
  ASSUME Types, CallInv, [Next]_vars
  PROVE  CallInv'
<1>1. CASE Handoff
  BY <1>1, HandoffCalls
<1>2. CASE \/ HandleBeginHandoff \/ HandleDuplicate \/ HandleRollback
           \/ HandleExit \/ Drained \/ DrainFails \/ ActorFails
  BY <1>2, ActorCalls
<1>3. CASE CallsKept
  BY <1>3, CallsKeptStep
<1>4. ASSUME NEW kind \in {"plain", "delayed"}, TryWrite(kind)
      PROVE  CallsKept
  BY <1>4 DEF TryWrite, CallsKept, actorVars, callVars, Exited
<1>5. ASSUME NEW w \in Writers,
             WriteStart(w) \/ WriteReserve(w) \/ WriteFinish(w)
      PROVE  CallsKept
  BY <1>5 DEF WriteStart, WriteReserve, WriteFinish, CallsKept, handleVars,
     actorVars, callVars, Exited
<1>6. ASSUME NEW s \in {1, 2}, Resize(s)
      PROVE  CallsKept
  BY <1>6 DEF Resize, CallsKept, actorVars, callVars, Exited
<1>7. ASSUME Nudge \/ ChangeScheme \/ ReportScheme PROVE CallsKept
  BY <1>7 DEF Nudge, ChangeScheme, ReportScheme, CallsKept, actorVars,
     callVars, Exited
<1>8. ASSUME HandleData \/ ApplyPendingControls PROVE CallsKept
  BY <1>8 DEF HandleData, ApplyPendingControls, CallsKept, callVars, Exited
<1>9. ASSUME WriteByte \/ BecomeDue \/ Poll PROVE CallsKept
  BY <1>9 DEF WriteByte, BecomeDue, Poll, CallsKept, handleVars, callVars,
     Exited
<1>10. ASSUME StopFlush \/ WriteFails PROVE CallsKept
  <2>1. pc \in {"flush", "tail", "drain"} /\ pc' = Return
    BY <1>10 DEF StopFlush, WriteFails, Flushing
  <2>2. ~Exited /\ (pc = "drain" <=> pc' = "drain")
    BY <2>1 DEF Return, Exited
  <2> QED BY <1>10, <2>2
          DEF StopFlush, WriteFails, CallsKept, handleVars, callVars
<1>11. ASSUME NEW query \in BOOLEAN, ReadOnce(query)
       PROVE  CallsKept
  BY <1>11 DEF ReadOnce, CallsKept, callVars, Exited
<1>12. ASSUME UNCHANGED vars PROVE CallsKept
  BY <1>12 DEF vars, CallsKept, handleVars, actorVars, callVars, Exited
<1> QED
  BY <1>1, <1>2, <1>3, <1>4, <1>5, <1>6, <1>7, <1>8, <1>9, <1>10, <1>11,
     <1>12 DEF Next, ActorStep

-----------------------------------------------------------------------------
(* What a quiet actor has left *)

\* Nothing that a quiet actor has left changes.
QuietKept ==
  /\ UNCHANGED <<state, dataQ, pending, gate>>
  /\ pc' = "drain" => pc = "drain"
  /\ Exited => Exited'

\* More responses are no input.
LEMMA QuietSend ==
  ASSUME Types, QuietInv, NEW rs \in Seq(Sent), pending' = pending \o rs,
         UNCHANGED <<state, dataQ, gate>>, ~Exited,
         pc' = "drain" => pc = "drain"
  PROVE  QuietInv'
<1>1. pending \in Seq(Item) /\ rs \in Seq(Item) /\ Bytes(rs) = <<>>
  BY SentIsItem DEF Types, ItemsOK
<1>2. Bytes(pending') = Bytes(pending) \o <<>>
  BY <1>1, BytesConcat
<1>3. Bytes(pending) = <<>> => Bytes(pending') = <<>>
  BY <1>2
<1> QED BY <1>3, Zenon DEF QuietInv

\* A quiet actor stays without input.
LEMMA QuietStep ==
  ASSUME Types, CallInv, QuietInv, [Next]_vars
  PROVE  QuietInv'
<1>0. dataQ \in Seq(Command) /\ pending \in Seq(Item)
  BY DEF Types, InputsOK, ItemsOK
<1>1. ASSUME gate, ~Exited PROVE state = "Running" /\ Idle
  BY <1>1 DEF CallInv, GateInv
<1>2. CASE QuietKept
  BY <1>2 DEF QuietKept, QuietInv
<1>3. ASSUME gate, UNCHANGED <<pc, state>>
      PROVE  QuietInv'
  BY <1>1, <1>3 DEF QuietInv, Idle, Exited
<1>4. ASSUME NEW kind \in {"plain", "delayed"}, TryWrite(kind)
      PROVE  QuietInv'
  BY <1>3, <1>4 DEF TryWrite, actorVars
<1>5. ASSUME NEW w \in Writers, WriteFinish(w)
      PROVE  QuietInv'
  <2>1. UNCHANGED <<state, pending, gate, pc>>
    BY <1>5 DEF WriteFinish, actorVars
  <2>2. gate \/ UNCHANGED dataQ
    BY <1>5 DEF WriteFinish
  <2> QED BY <1>2, <1>3, <2>1, <2>2 DEF QuietKept, Exited
<1>6. CASE BeginHandoff \/ ReleaseAfterCommit \/ Shutdown
  <2>1. UNCHANGED <<state, pending, dataQ, pc>> /\ ~gate'
    BY <1>6 DEF BeginHandoff, ReleaseAfterCommit, Shutdown, actorVars
  <2> QED BY <2>1 DEF QuietInv, Exited
<1>7. CASE BeginHandoffClosed
  <2>1. Exited' /\ pc' # "drain"
    BY <1>7 DEF BeginHandoffClosed, Exited, actorVars
  <2> QED BY <2>1 DEF QuietInv
<1>8. CASE RollbackAnswered
  <2>1. /\ UNCHANGED <<state, pending, dataQ, pc>>
        /\ caller = "rollback" /\ reply = "ok"
    BY <1>8 DEF RollbackAnswered, actorVars
  <2>2. ~Exited => pc # "drain"
    BY <2>1 DEF CallInv, Settled, Waits, Idle
  <2> QED BY <2>1, <2>2 DEF QuietInv, Exited
<1>9. CASE HandleBeginHandoff
  <2>1. /\ pc = "control" /\ ctlQ # <<>> /\ ~Exited
        /\ dataQ' = <<>> /\ UNCHANGED <<gate, state>>
        /\ ApplyControls(pending \o QueuedParts(dataQ))
    BY <1>9 DEF HandleBeginHandoff, Exited
  <2>2. ~gate
    BY <1>1, <2>1 DEF Idle
  <2>3. CASE state # "Quiesced"
    BY <2>1, <2>2, <2>3 DEF QuietInv
  <2>4. CASE state = "Quiesced"
    <3>1. dataQ = <<>> /\ Bytes(pending) = <<>>
      BY <2>1, <2>4 DEF QuietInv
    <3>2. QueuedParts(dataQ) = <<>>
      <4>1. PartsOf(<<>>) = <<>>
        BY DEF PartsOf
      <4> QED BY <3>1, <4>1, FlatEmpty DEF QueuedParts, PartsOf
    <3>3. pending' = pending \o Responses /\ Responses \in Seq(Sent)
      <4>1. pending \o <<>> = pending
        BY <1>0, ConcatEmptySeq
      <4> QED BY <2>1, <3>2, <4>1, ApplyStep DEF Types
    <3>4. Bytes(pending') = Bytes(pending) \o Bytes(Responses)
      BY <1>0, <3>3, SentIsItem, BytesConcat
    <3>5. Bytes(pending') = <<>>
      BY <3>1, <3>3, <3>4, SentIsItem
    <3> QED BY <2>1, <2>2, <3>5 DEF QuietInv
  <2> QED BY <2>3, <2>4
<1>10. CASE Drained
  <2>1. /\ pc = "drain" /\ pending' = <<>> /\ dataQ' = dataQ
        /\ pc' = "control"
    BY <1>10 DEF Drained, handleVars
  <2>2. dataQ = <<>>
    BY <2>1 DEF QuietInv
  <2> QED BY <2>1, <2>2, BytesNone DEF QuietInv
<1>11. CASE HandleRollback
  BY <1>11 DEF HandleRollback, QuietInv
<1>12. CASE HandleExit \/ ActorFails
  <2>1. Exited' /\ pc' # "drain"
    BY <1>12 DEF HandleExit, ActorFails, Exited
  <2> QED BY <2>1 DEF QuietInv
<1>13. CASE HandleData
  <2>1. /\ dataQ # <<>> /\ state' = state /\ pc' = "data" /\ ~Exited
    BY <1>13 DEF HandleData, Exited
  <2>2. state # "Quiesced"
    BY <2>1 DEF QuietInv
  <2> QED BY <2>1, <2>2 DEF QuietInv
<1>14. CASE ApplyPendingControls
  <2>1. /\ ~Exited /\ UNCHANGED <<state, dataQ, gate>> /\ pc' = "flush"
        /\ ApplyControls(pending)
    BY <1>14 DEF ApplyPendingControls, Exited
  <2>2. pending' = pending \o Responses /\ Responses \in Seq(Sent)
    BY <2>1, ApplyStep DEF Types
  <2> QED BY <2>1, <2>2, QuietSend
<1>15. ASSUME NEW query \in BOOLEAN, ReadOnce(query)
       PROVE  QuietInv'
  <2>1. ~Exited /\ UNCHANGED <<state, dataQ, gate>>
        /\ (pc' = "drain" => pc = "drain")
    BY <1>15 DEF ReadOnce, Exited
  <2> DEFINE rs == controls.responses \o Answers(query)
  <2>2. rs \in Seq(Sent) /\ pending' = pending \o rs
    BY <1>15, ReadStep DEF Types
  <2> QED BY <2>1, <2>2, QuietSend
<1>16. CASE WriteByte
  <2>1. /\ Len(pending) > 0 /\ UNCHANGED <<state, dataQ, gate, pc>>
        /\ pending' = pending \/ pending' = Tail(pending)
    BY <1>0, <1>16, EmptySeq DEF WriteByte, Ready, handleVars
  <2>2. /\ Head(pending) \in Item /\ Tail(pending) \in Seq(Item)
        /\ Bytes(pending) = UserBytes(Head(pending)) \o Bytes(Tail(pending))
    BY <1>0, <2>1, BytesFront
  <2>3. /\ UserBytes(Head(pending)) \in Seq(Byte)
        /\ Bytes(Tail(pending)) \in Seq(Byte)
    BY <2>2, UserBytesType, BytesType
  <2>4. Bytes(pending) = <<>> => Bytes(Tail(pending)) = <<>>
    BY <2>2, <2>3
  <2> QED BY <2>1, <2>4 DEF QuietInv, Exited
<1>17. CASE WriteFails
  <2>1. /\ pending' = <<>> /\ UNCHANGED <<state, dataQ, gate>>
        /\ pc \in {"flush", "tail", "drain"} /\ pc' = Return
    BY <1>17 DEF WriteFails, Flushing, handleVars
  <2>2. ~Exited /\ (pc' = "drain" => pc = "drain")
    BY <2>1 DEF Return, Exited
  <2> QED BY <2>1, <2>2, BytesNone DEF QuietInv
<1>18. CASE BecomeDue
  <2>1. /\ Len(pending) > 0 /\ UNCHANGED <<state, dataQ, gate, pc>>
        /\ pending' = [pending EXCEPT ![1].due = TRUE]
    BY <1>0, <1>18, EmptySeq DEF BecomeDue, handleVars
  <2>2. Bytes(pending') = Bytes(pending)
    BY <1>0, <2>1, DueStep
  <2> QED BY <2>1, <2>2 DEF QuietInv, Exited
<1>19. ASSUME NEW w \in Writers, WriteStart(w) \/ WriteReserve(w)
       PROVE  QuietKept
  BY <1>19 DEF WriteStart, WriteReserve, QuietKept, handleVars, actorVars,
     Exited
<1>20. ASSUME NEW s \in {1, 2}, Resize(s)
       PROVE  QuietKept
  BY <1>20 DEF Resize, QuietKept, actorVars, Exited
<1>21. ASSUME Nudge \/ ChangeScheme \/ ReportScheme PROVE QuietKept
  BY <1>21 DEF Nudge, ChangeScheme, ReportScheme, QuietKept, actorVars,
     Exited
<1>22. ASSUME \/ BeginAcknowledged \/ Duplicate \/ Duplicated
              \/ RollbackHandoff \/ RollbackTimesOut
       PROVE  QuietKept
  BY <1>22 DEF BeginAcknowledged, Duplicate, Duplicated, RollbackHandoff,
     RollbackTimesOut, QuietKept, handleVars, actorVars, Exited
<1>23. ASSUME DrainFails \/ HandleDuplicate \/ Poll PROVE QuietKept
  BY <1>23 DEF DrainFails, HandleDuplicate, Poll, QuietKept, handleVars,
     actorVars, Exited
<1>24. ASSUME StopFlush PROVE QuietKept
  <2>1. pc \in {"flush", "tail"} /\ pc' = Return
    BY <1>24 DEF StopFlush
  <2>2. ~Exited /\ pc' # "drain"
    BY <2>1 DEF Return, Exited
  <2> QED BY <1>24, <2>2 DEF StopFlush, QuietKept, handleVars
<1>25. ASSUME UNCHANGED vars PROVE QuietKept
  BY <1>25 DEF vars, QuietKept, handleVars, actorVars, Exited
<1> QED
  BY <1>2, <1>4, <1>5, <1>6, <1>7, <1>8, <1>9, <1>10, <1>11, <1>12, <1>13,
     <1>14, <1>15, <1>16, <1>17, <1>18, <1>19, <1>20, <1>21, <1>22, <1>23,
     <1>24, <1>25 DEF Next, Handoff, ActorStep

-----------------------------------------------------------------------------
(* The report of an appearance and the answers that show it *)

\* The n-th appearance is reported in s.
Reported(s, n) ==
  \E j \in 1 .. Len(s) : s[j].what = "report" /\ s[j].id = n

\* Where the elements of a concatenation come from.
LEMMA ConcatAt ==
  ASSUME NEW a \in Seq(Sent), NEW b \in Seq(Sent)
  PROVE  /\ a \o b \in Seq(Sent) /\ Len(a \o b) = Len(a) + Len(b)
         /\ Len(a) \in Nat /\ Len(b) \in Nat
         /\ \A i \in 1 .. Len(a) : (a \o b)[i] = a[i]
         /\ \A i \in 1 .. Len(b) : (a \o b)[Len(a) + i] = b[i]
BY ConcatProperties

\* What is reported in a part is reported in the whole.
LEMMA ReportedConcat ==
  ASSUME NEW a \in Seq(Sent), NEW b \in Seq(Sent), NEW n,
         Reported(a, n) \/ Reported(b, n)
  PROVE  Reported(a \o b, n)
<1>1. /\ a \o b \in Seq(Sent) /\ Len(a \o b) = Len(a) + Len(b)
      /\ Len(a) \in Nat /\ Len(b) \in Nat
      /\ \A i \in 1 .. Len(a) : (a \o b)[i] = a[i]
      /\ \A i \in 1 .. Len(b) : (a \o b)[Len(a) + i] = b[i]
  BY ConcatAt
<1>2. CASE Reported(a, n)
  <2>1. PICK j \in 1 .. Len(a) : a[j].what = "report" /\ a[j].id = n
    BY <1>2 DEF Reported
  <2>2. j \in 1 .. Len(a \o b)
    BY <1>1
  <2> QED BY <1>1, <2>1, <2>2 DEF Reported
<1>3. CASE Reported(b, n)
  <2>1. PICK j \in 1 .. Len(b) : b[j].what = "report" /\ b[j].id = n
    BY <1>3 DEF Reported
  <2>2. Len(a) + j \in 1 .. Len(a \o b)
    BY <1>1
  <2> QED BY <1>1, <2>1, <2>2 DEF Reported
<1> QED BY <1>2, <1>3

\* More is sent, and each answer in it shows a reported appearance.
LEMMA ReportExtend ==
  ASSUME replies \in Seq(Sent), NEW rs \in Seq(Sent),
         replies' = replies \o rs, ReportPrecedesAnswer,
         \A k \in 1 .. Len(rs) : rs[k].what = "answer" /\ rs[k].id > 0 =>
           \/ Reported(replies, rs[k].id)
           \/ \E j \in 1 .. k - 1 : rs[j].what = "report"
                                    /\ rs[j].id = rs[k].id
  PROVE  ReportPrecedesAnswer'
<1> DEFINE n == Len(replies)
<1>1. /\ n \in Nat /\ Len(rs) \in Nat /\ Len(replies') = n + Len(rs)
      /\ \A i \in 1 .. n : replies'[i] = replies[i]
      /\ \A i \in 1 .. Len(rs) : replies'[n + i] = rs[i]
      /\ replies' \in Seq(Sent)
  BY ConcatAt
<1>2. DOMAIN replies = 1 .. n /\ DOMAIN replies' = 1 .. n + Len(rs)
  BY <1>1
<1> HIDE DEF n
<1>3. SUFFICES ASSUME NEW i \in 1 .. n + Len(rs),
                      replies'[i].what = "answer", replies'[i].id > 0
               PROVE  \E j \in 1 .. i - 1 : replies'[j].what = "report"
                        /\ replies'[j].id = replies'[i].id
  BY <1>2 DEF ReportPrecedesAnswer
<1>4. CASE i \in 1 .. n
  <2>1. PICK j \in 1 .. i - 1 : replies[j].what = "report"
                                /\ replies[j].id = replies[i].id
    BY <1>1, <1>2, <1>3, <1>4 DEF ReportPrecedesAnswer
  <2>2. j \in 1 .. n
    BY <1>1, <1>4
  <2> QED BY <1>1, <1>4, <2>1, <2>2
<1>5. CASE ~(i \in 1 .. n)
  <2> DEFINE k == i - n
  <2>1. k \in 1 .. Len(rs) /\ n + k = i
    BY <1>1, <1>5
  <2> HIDE DEF k
  <2>2. replies'[i] = rs[k]
    BY <1>1, <2>1
  <2>3. CASE Reported(replies, rs[k].id)
    <3>1. PICK j \in 1 .. n : replies[j].what = "report"
                              /\ replies[j].id = rs[k].id
      BY <2>3 DEF Reported, n
    <3>2. j \in 1 .. i - 1
      BY <1>1, <2>1
    <3> QED BY <1>1, <2>2, <3>1, <3>2
  <2>4. CASE \E j \in 1 .. k - 1 : rs[j].what = "report"
                                   /\ rs[j].id = rs[k].id
    <3>1. PICK j \in 1 .. k - 1 : rs[j].what = "report"
                                  /\ rs[j].id = rs[k].id
      BY <2>4
    <3>2. n + j \in 1 .. i - 1 /\ j \in 1 .. Len(rs)
      BY <1>1, <2>1
    <3>3. replies'[n + j] = rs[j]
      BY <1>1, <3>2
    <3> QED BY <2>2, <3>1, <3>2, <3>3
  <2> QED BY <1>3, <2>1, <2>2, <2>3, <2>4
<1> QED BY <1>4, <1>5

\* The invariant in these terms.
ReportIs ==
  /\ ReportPrecedesAnswer
  /\ \A i \in 1 .. Len(controls.responses) :
       controls.responses[i].what = "report"
  /\ order = "free" /\ scheme > 0 =>
       Reported(replies, scheme) \/ Reported(controls.responses, scheme)

\* It is the same.
LEMMA ReportSame ==
  /\ ItemsOK => (ReportInv <=> ReportIs)
  /\ ItemsOK' => (ReportInv' <=> ReportIs')
<1>1. ASSUME ItemsOK
      PROVE  /\ DOMAIN replies = 1 .. Len(replies)
             /\ DOMAIN controls.responses = 1 .. Len(controls.responses)
  <2>1. replies \in Seq(Sent) /\ controls.responses \in Seq(Sent)
    BY <1>1 DEF ItemsOK
  <2> QED BY <2>1
<1>2. ASSUME ItemsOK'
      PROVE  /\ DOMAIN replies' = 1 .. Len(replies')
             /\ DOMAIN controls'.responses = 1 .. Len(controls'.responses)
  <2>1. replies' \in Seq(Sent) /\ controls'.responses \in Seq(Sent)
    BY <1>2 DEF ItemsOK
  <2> QED BY <2>1
<1>3. ItemsOK => (ReportInv <=> ReportIs)
  BY <1>1, Zenon DEF ReportInv, ReportIs, Reported, IsReport
<1>4. ItemsOK' => (ReportInv' <=> ReportIs')
  BY <1>2, Zenon DEF ReportInv, ReportIs, Reported, IsReport
<1> QED BY <1>3, <1>4

\* An answer is sent behind the report of the appearance it shows.
LEMMA ReportStep ==
  ASSUME Types, ItemsOK', ReportInv, [Next]_vars
  PROVE  ReportInv'
<1> DEFINE rs == controls.responses
<1>0. /\ replies \in Seq(Sent) /\ rs \in Seq(Sent) /\ scheme \in Nat
      /\ ItemsOK
  BY DEF Types, ItemsOK
<1>1. ReportIs
  BY <1>0, ReportSame
<1>2. SUFFICES ReportIs'
  BY ReportSame
<1>3. /\ ReportPrecedesAnswer
      /\ \A i \in 1 .. Len(rs) : rs[i].what = "report"
      /\ order = "free" /\ scheme > 0 =>
           Reported(replies, scheme) \/ Reported(rs, scheme)
  BY <1>1 DEF ReportIs
<1> DEFINE Kept == UNCHANGED <<replies, rs, scheme, order>>
<1>4. ASSUME Kept PROVE ReportIs'
  BY <1>1, <1>4 DEF ReportIs, Reported, ReportPrecedesAnswer
<1>5. ASSUME NEW s \in {1, 2}, Resize(s)
      PROVE  Kept
  BY <1>5 DEF Resize, histVars, ItemsOK, Types
<1>6. ASSUME Nudge PROVE Kept
  BY <1>6 DEF Nudge, histVars, ItemsOK, Types
<1>7. CASE ChangeScheme
  <2>1. UNCHANGED <<replies, controls>> /\ order' # "free"
    BY <1>7 DEF ChangeScheme, histVars
  <2> QED BY <1>3, <2>1 DEF ReportIs, ReportPrecedesAnswer
<1>8. CASE ReportScheme
  <2> DEFINE r == Response("report", scheme)
  <2>1. /\ UNCHANGED <<replies, scheme>>
        /\ controls' = [controls EXCEPT !.responses = Append(rs, r)]
    BY <1>8 DEF ReportScheme, histVars
  <2>2. r \in Sent /\ r.what = "report" /\ r.id = scheme
    BY <1>0, ResponseType
  <2> HIDE DEF r, rs
  <2>3. controls'.responses = Append(rs, r)
    BY <2>1 DEF Types, ItemsOK
  <2>4. /\ Len(Append(rs, r)) = Len(rs) + 1 /\ Len(rs) \in Nat
        /\ Append(rs, r)[Len(rs) + 1] = r
        /\ \A i \in 1 .. Len(rs) : Append(rs, r)[i] = rs[i]
    BY <1>0, <2>2, AppendProperties
  <2>5. \A i \in 1 .. Len(Append(rs, r)) : Append(rs, r)[i].what = "report"
    BY <1>3, <2>2, <2>4
  <2>6. Reported(Append(rs, r), scheme)
    <3>1. Len(rs) + 1 \in 1 .. Len(Append(rs, r))
      BY <2>4
    <3> QED BY <2>2, <2>4, <3>1 DEF Reported
  <2>7. ReportPrecedesAnswer'
    BY <1>3, <2>1 DEF ReportPrecedesAnswer
  <2> QED BY <2>1, <2>3, <2>5, <2>6, <2>7 DEF ReportIs
<1>9. ASSUME NEW before, ApplyControls(before), UNCHANGED <<scheme, order>>
      PROVE  ReportIs'
  <2>1. /\ controls' = NoControls /\ SizeReport \in Seq(Sent)
        /\ Responses \in Seq(Sent) /\ replies' = replies \o Responses
    BY <1>0, <1>9, ApplyStep
  <2>2. controls'.responses = <<>>
    BY <2>1 DEF NoControls
  <2>3. ASSUME NEW k \in 1 .. Len(Responses) PROVE Responses[k].what # "answer"
    <3>1. /\ Responses[k] = IF k <= Len(SizeReport) THEN SizeReport[k]
                            ELSE rs[k - Len(SizeReport)]
          /\ Len(Responses) = Len(SizeReport) + Len(rs)
      BY <1>0, <2>1, ConcatProperties DEF Responses
    <3>2. CASE k <= Len(SizeReport)
      <4>1. SizeReport[k].what = "size"
        <5>1. controls.resize \in Nat
          BY DEF Types, ItemsOK
        <5>2. controls.resize # None
          BY <3>2 DEF SizeReport
        <5>3. SizeReport = <<Response("size", controls.resize)>> /\ k = 1
          BY <3>2, <5>2 DEF SizeReport
        <5> QED BY <5>1, <5>3, ResponseType
      <4> QED BY <3>1, <3>2, <4>1
    <3>3. CASE ~(k <= Len(SizeReport))
      <4>1. k - Len(SizeReport) \in 1 .. Len(rs)
        BY <1>0, <2>1, <3>1, <3>3
      <4> QED BY <1>3, <3>1, <3>3, <4>1
    <3> QED BY <3>2, <3>3
  <2>4. ReportPrecedesAnswer'
    BY <1>0, <1>3, <2>1, <2>3, ReportExtend
  <2>5. ASSUME Reported(replies, scheme) \/ Reported(rs, scheme)
        PROVE  Reported(replies', scheme)
    <3>1. CASE Reported(replies, scheme)
      BY <1>0, <2>1, <3>1, ReportedConcat
    <3>2. CASE Reported(rs, scheme)
      <4>1. Reported(Responses, scheme)
        BY <1>0, <2>1, <3>2, ReportedConcat DEF Responses
      <4> QED BY <1>0, <2>1, <4>1, ReportedConcat
    <3> QED BY <2>5, <3>1, <3>2
  <2>6. \A i \in 1 .. Len(controls'.responses) :
          controls'.responses[i].what = "report"
    BY <2>2
  <2> QED BY <1>3, <1>9, <2>4, <2>5, <2>6 DEF ReportIs
<1>10. CASE HandleBeginHandoff
  BY <1>9, <1>10 DEF HandleBeginHandoff, envVars
<1>11. CASE ApplyPendingControls
  BY <1>9, <1>11 DEF ApplyPendingControls, envVars
<1>12. ASSUME NEW query \in BOOLEAN, ReadOnce(query)
       PROVE  ReportIs'
  <2> DEFINE as == Answers(query)
             xs == rs \o as
  <2>1. /\ controls' = [controls EXCEPT !.responses = <<>>]
        /\ as \in Seq(Sent) /\ xs \in Seq(Sent) /\ replies' = replies \o xs
        /\ order = "free" /\ UNCHANGED <<scheme, order>>
    BY <1>0, <1>12, ReadStep DEF ReadOnce
  <2>2. controls'.responses = <<>>
    BY <2>1 DEF Types, ItemsOK
  <2>3. Len(as) \in 0 .. 1 /\ \A k \in 1 .. Len(as) : as[k].id = scheme
    <3>1. Response("answer", scheme).id = scheme
      BY <1>0, ResponseType
    <3> QED BY <3>1 DEF Answers
  <2> HIDE DEF as, rs
  <2>4. /\ Len(xs) = Len(rs) + Len(as) /\ Len(rs) \in Nat
        /\ \A i \in 1 .. Len(rs) : xs[i] = rs[i]
        /\ \A i \in 1 .. Len(as) : xs[Len(rs) + i] = as[i]
    BY <1>0, <2>1, ConcatAt
  <2> HIDE DEF xs
  <2>5. ASSUME NEW k \in 1 .. Len(xs), xs[k].what = "answer", xs[k].id > 0
        PROVE  \/ Reported(replies, xs[k].id)
               \/ \E j \in 1 .. k - 1 : xs[j].what = "report"
                                        /\ xs[j].id = xs[k].id
    <3>1. ~(k \in 1 .. Len(rs))
      BY <1>3, <2>4, <2>5
    <3>2. k = Len(rs) + 1 /\ 1 \in 1 .. Len(as)
      <4> DEFINE m == Len(rs)
                 n == Len(as)
      <4>1. n \in 0 .. 1 /\ m \in Nat /\ k \in 1 .. m + n
        BY <2>3, <2>4
      <4>2. ~(k \in 1 .. m)
        BY <3>1
      <4> HIDE DEF m, n
      <4>3. n = 1 /\ k = m + 1
        BY <4>1, <4>2
      <4> QED BY <4>3 DEF m, n
    <3>3. xs[k].id = scheme
      BY <2>3, <2>4, <3>2
    <3>4. Reported(replies, scheme) \/ Reported(rs, scheme)
      BY <1>3, <2>1, <2>5, <3>3
    <3>5. CASE Reported(rs, scheme)
      <4>1. PICK j \in 1 .. Len(rs) : rs[j].what = "report"
                                      /\ rs[j].id = scheme
        BY <3>5 DEF Reported
      <4>2. j \in 1 .. k - 1
        BY <2>4, <3>2
      <4> QED BY <2>4, <3>3, <4>1, <4>2
    <3> QED BY <3>3, <3>4, <3>5
  <2>6. ReportPrecedesAnswer'
    BY <1>0, <1>3, <2>1, <2>5, ReportExtend
  <2>7. ASSUME Reported(replies, scheme) \/ Reported(rs, scheme)
        PROVE  Reported(replies', scheme)
    <3>1. CASE Reported(replies, scheme)
      BY <1>0, <2>1, <3>1, ReportedConcat
    <3>2. CASE Reported(rs, scheme)
      <4>1. Reported(xs, scheme)
        BY <1>0, <2>1, <3>2, ReportedConcat DEF xs
      <4> QED BY <1>0, <2>1, <4>1, ReportedConcat
    <3> QED BY <2>7, <3>1, <3>2
  <2>8. \A i \in 1 .. Len(controls'.responses) :
          controls'.responses[i].what = "report"
    BY <2>2
  <2> QED BY <1>3, <2>1, <2>6, <2>7, <2>8 DEF ReportIs
<1>13. ASSUME NEW kind \in {"plain", "delayed"}, TryWrite(kind)
       PROVE  Kept
  BY <1>13 DEF TryWrite
<1>14. ASSUME NEW w \in Writers,
              WriteStart(w) \/ WriteReserve(w) \/ WriteFinish(w)
       PROVE  Kept
  BY <1>14 DEF WriteStart, WriteReserve, WriteFinish, handleVars, histVars
<1>15. ASSUME Handoff PROVE Kept
  BY <1>15 DEF Handoff, BeginHandoff, BeginHandoffClosed,
     BeginAcknowledged, Duplicate, Duplicated, RollbackHandoff,
     RollbackAnswered, RollbackTimesOut, ReleaseAfterCommit, Shutdown,
     handleVars, histVars, envVars
<1>16. ASSUME \/ Drained \/ DrainFails \/ HandleDuplicate \/ HandleRollback
              \/ HandleExit \/ HandleData \/ ActorFails
       PROVE  Kept
  BY <1>16 DEF Drained, DrainFails, HandleDuplicate, HandleRollback, ActorFails,
     HandleExit, HandleData, handleVars, histVars, envVars
<1>17. ASSUME StopFlush \/ Poll \/ WriteByte \/ WriteFails \/ BecomeDue
       PROVE  Kept
  BY <1>17 DEF StopFlush, Poll, WriteByte, WriteFails, BecomeDue, handleVars,
     histVars, envVars
<1>18. ASSUME UNCHANGED vars PROVE Kept
  BY <1>18 DEF vars, handleVars, histVars, envVars
<1> HIDE DEF Kept
<1> QED
  BY <1>4, <1>5, <1>6, <1>7, <1>8, <1>10, <1>11, <1>12, <1>13, <1>14, <1>15,
     <1>16, <1>17, <1>18 DEF Next, ActorStep

-----------------------------------------------------------------------------
(* The theorems *)

\* The invariant holds at the start, for a pane that the server opens and for
\* one that a replacement imports.
LEMMA InitInv == Init => IInv
<1> SUFFICES ASSUME Init PROVE IInv
  OBVIOUS
<1>0. /\ dataQ = <<>> /\ ctlQ = <<>> /\ controls = NoControls
      /\ pending = <<>> /\ accepted = <<>> /\ written = <<>>
      /\ replies = <<>> /\ call = 0 /\ draining = 0 /\ offset = 0
      /\ pc = "control" /\ reply = "none" /\ scheme = 0
  BY DEF Init
<1>1. FlagsOK
  <2>1. /\ gate \in BOOLEAN /\ repaint \in BOOLEAN
        /\ state \in {"Running", "Quiesced"}
        /\ caller \in {"idle", "import"}
    BY DEF Init
  <2>2. /\ dup \in BOOLEAN /\ deaf \in BOOLEAN
        /\ order = "free" /\ current = 1
    BY DEF Init
  <2> QED BY <1>0, <2>1, <2>2 DEF FlagsOK
<1>2. CallsOK
  BY <1>0 DEF CallsOK
<1>3. InputsOK
  <2>1. writer = [w \in Writers |-> "idle"]
    BY DEF Init
  <2>2. {w \in Writers : writer[w] = "permit"} = {}
    BY <2>1
  <2>3. Permits = 0
    BY <2>2, FS_EmptySet DEF Permits
  <2> QED BY <1>0, <2>1, <2>3, BoundsAssumption DEF InputsOK
<1>4. CountsOK
  BY BoundsKeys DEF Init, CountsOK
<1>5. ItemsOK
  BY <1>0 DEF Init, ItemsOK, NoControls, None
<1>6. BytesOK
  BY <1>0 DEF BytesOK
<1>7. TypeOK /\ QueueTypes
  BY <1>1, <1>2, <1>3, <1>4, <1>5, <1>6, TypesSplit
<1>8. Numbered /\ BeginAwaited /\ DrainAwaited
  BY <1>0 DEF Numbered, BeginAwaited, DrainAwaited
<1>9. Awaited /\ Settled /\ Acknowledged /\ Held /\ GateInv /\ Released
  BY <1>0 DEF Init, Awaited, Settled, Acknowledged, Held, GateInv, Released,
     Waits, Idle
<1>10. QuietInv
  BY <1>0, BytesNone DEF QuietInv
<1>11. InputInv
  <2>1. <<>> \in Seq(Command)
    OBVIOUS
  <2>2. Queued(dataQ) = <<>>
    BY <1>0, <2>1, QueuedBytes
  <2>3. Left(pending, offset) = <<>>
    BY <1>0, BytesNone DEF Left
  <2>4. accepted = (written \o Left(pending, offset)) \o Queued(dataQ)
    BY <1>0, <2>2, <2>3
  <2>5. InputConserved
    BY <2>4, ConservedIs DEF Conserved
  <2> QED BY <1>0, <2>5 DEF InputInv
<1>12. ReportInv
  BY <1>0 DEF ReportInv, ReportPrecedesAnswer, NoControls
<1> QED BY <1>7, <1>8, <1>9, <1>10, <1>11, <1>12 DEF IInv, CallInv

\* Every step keeps the invariant.
LEMMA NextInv == IInv /\ [Next]_vars => IInv'
<1> SUFFICES ASSUME IInv, [Next]_vars PROVE IInv'
  OBVIOUS
<1>1. Types
  BY TypesSplit DEF IInv, Types
<1>2. /\ FlagsOK /\ CallsOK /\ InputsOK /\ CountsOK /\ ItemsOK
      /\ CallInv /\ QuietInv /\ InputInv /\ ReportInv /\ Released
  BY <1>1 DEF IInv, CallInv, Types
<1>3. FlagsOK'
  BY <1>2, FlagsStep
<1>4. CallsOK'
  BY <1>2, CallsStep
<1>5. InputsOK'
  BY <1>2, InputsStep
<1>6. CountsOK'
  BY <1>2, CountsStep
<1>7. ItemsOK'
  BY <1>2, ItemsStep
<1>8. InputInv' /\ BytesOK'
  BY <1>1, <1>2, InputStep
<1>9. CallInv' /\ QuietInv'
  BY <1>1, <1>2, CallStep, QuietStep
<1>10. ReportInv'
  BY <1>1, <1>2, <1>7, ReportStep
<1>11. TypeOK' /\ QueueTypes'
  BY <1>3, <1>4, <1>5, <1>6, <1>7, <1>8, TypesSplit
<1> QED BY <1>8, <1>9, <1>10, <1>11 DEF IInv

\* The invariant holds of every behaviour of the actor and its handle.
THEOREM Invariance == Spec => []IInv
BY InitInv, NextInv, PTL DEF Spec

\* Every variable has its type; the data queue with its permits never
\* outgrows ACTOR_COMMAND_BUFFER.
THEOREM TypeCorrect == Spec => []TypeOK
<1>1. IInv => TypeOK
  BY DEF IInv
<1> QED BY <1>1, Invariance, PTL

\* Accepted input is written whole, once and in order, and the report of an
\* appearance comes before the answers that show it: write_user_input, the
\* loop of the actor and the response_order lock, for any number of tasks.
THEOREM KeepsOrder == Spec => []OrderIsKept
<1>1. IInv => OrderIsKept
  BY DEF IInv, InputInv, ReportInv, OrderIsKept
<1> QED BY <1>1, Invariance, PTL

\* When begin_handoff has returned Ok the actor is quiet and all accepted
\* input is written; after a rollback that is answered in time it runs and
\* takes input again.
THEOREM HandoffClean == Spec => []HandoffIsClean
<1>1. IInv => HandoffIsClean
  <2> SUFFICES ASSUME IInv PROVE HandoffIsClean
    OBVIOUS
  <2>1. Types /\ CallInv /\ QuietInv /\ InputInv
    BY TypesSplit DEF IInv, Types
  <2>2. GateFollowsHandoff
    BY <2>1 DEF CallInv, GateInv, GateFollowsHandoff
  <2>3. ASSUME caller \in {"held", "dup", "import"}, ~Exited
        PROVE  state = "Quiesced" /\ written = accepted
    <3>1. state = "Quiesced"
      BY <2>1, <2>3 DEF CallInv, Held
    <3>2. dataQ = <<>> /\ Bytes(pending) = <<>>
      BY <2>1, <2>3, <3>1 DEF QuietInv
    <3>3. Queued(dataQ) = <<>>
      BY <2>1, <3>2, QueuedBytes DEF Types, InputsOK
    <3>4. Left(pending, offset) = <<>>
      <4>1. pending \in Seq(Item) /\ offset \in 0 .. 1
        BY <2>1 DEF Types, ItemsOK
      <4> QED BY <3>2, <4>1 DEF Left
    <3>5. accepted = (written \o <<>>) \o <<>>
      BY <2>1, <2>3, <3>3, <3>4, ConservedIs DEF InputInv, Conserved
    <3>6. written \in Seq(Byte)
      BY <2>1 DEF Types, BytesOK
    <3> QED BY <3>1, <3>5, <3>6, ConcatEmptySeq
  <2> QED BY <2>2, <2>3 DEF HandoffIsClean, QuiescedIsClean
<1> QED BY <1>1, Invariance, PTL

=============================================================================
