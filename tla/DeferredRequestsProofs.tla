------------------------ MODULE DeferredRequestsProofs ------------------------
(***************************************************************************)
(* Proofs about the deferral of requests: no request is lost, none is      *)
(* answered twice, nothing waits without something that will release it,   *)
(* and what was put aside is carried out in its turn and on the terminal   *)
(* it was meant for.                                                       *)
(*                                                                         *)
(* The argument goes through one queue per terminal, Queue(t): what a      *)
(* release has taken out, or else what is stored.  Taking a queue and      *)
(* putting its rest back leave it alone, so requests only join it at the   *)
(* end and leave it at the front.                                          *)
(***************************************************************************)
EXTENDS DeferredRequests, FiniteSetTheorems, FunctionTheorems,
        SequenceTheorems, WellFoundedInduction, TLAPS

ItemType == [what : {"request", "barrier"}, id : Nat]
RequestType == [kind : Kinds, name : Names \cup {NoTerminal}]
HandoffType == [request : Nat, waiting : SUBSET Terminals,
                terminals : SUBSET Terminals]
Places == Terminals \cup {NoTerminal}

Has(q, x) == \E i \in 1 .. Len(q) : q[i] = x
Ids(l) == {l[i][1] : i \in DOMAIN l}
BeingRead == {reads[i][2] : i \in DOMAIN reads}
Waiters(hs, t) == {h \in DOMAIN hs : t \in hs[h].terminals}
Queue(t) == IF taken.terminal = t THEN taken.queue ELSE queues[t]

-----------------------------------------------------------------------------
(* The inductive invariant *)

Typed ==
  /\ request \in Seq(RequestType) /\ Len(request) <= MaxRequests
  /\ seen \in Seq(Places) /\ Len(seen) = Len(request)
  /\ captured \in Seq(SUBSET Terminals) /\ Len(captured) = Len(request)
  /\ bind \in [Names -> Places]
  /\ queues \in [Terminals -> Seq(ItemType)]
  /\ taken \in [terminal : Places, queue : Seq(ItemType)]
  /\ work \in Seq(Terminals)
  /\ nextId \in Nat \ {0}
  /\ releasing \in BOOLEAN /\ stopped \in BOOLEAN
  /\ \A r \in 1 .. Len(request) :
       request[r].kind # "handoff" => request[r].name \in Names

\* The log: what is in it was a request, is there once, and was carried out
\* as meant.
LogOk ==
  /\ log \in Seq(Nat \X Outcomes \X Places)
  /\ \A i \in 1 .. Len(log) : log[i][1] \in 1 .. Len(request)
  /\ \A i, j \in 1 .. Len(log) : log[i][1] = log[j][1] => i = j

\* A traversal answers a read that arrived for its terminal and has no answer
\* yet; a terminal has one traversal.
ReadsOk ==
  /\ reads \in Seq(Terminals \X Nat)
  /\ \A i \in 1 .. Len(reads) :
       /\ reads[i][2] \in 1 .. Len(request)
       /\ seen[reads[i][2]] = reads[i][1]
       /\ request[reads[i][2]].kind = "read"
       /\ reads[i][2] \notin Ids(log)
  /\ \A i, j \in 1 .. Len(reads) : reads[i][1] = reads[j][1] => i = j

\* A handoff that waits: once it need not wait for a terminal any more, what
\* arrived for that terminal before the handoff is answered.
HandoffOk(h) ==
  LET it == handoffs[h] IN
  /\ h \in 1 .. nextId - 1 /\ it \in HandoffType
  /\ it.waiting \subseteq it.terminals
  /\ it.request \in 1 .. Len(request) /\ request[it.request].kind = "handoff"
  /\ it.request \notin Ids(log)
  /\ \A s \in 1 .. it.request - 1 :
       /\ seen[s] \in captured[it.request] \ it.waiting
       /\ request[s].kind # "handoff"
       => s \in Ids(log)

HandoffsOk ==
  /\ \A h \in DOMAIN handoffs : HandoffOk(h)
  /\ \A g, h \in DOMAIN handoffs :
       handoffs[g].request = handoffs[h].request => g = h

\* What may be in the queue of a terminal: a request that arrived for it, or
\* the barrier of a handoff that still waits for it.
Waits(x, t) ==
  /\ x.what = "request" =>
       /\ x.id \in 1 .. Len(request) /\ seen[x.id] = t
       /\ request[x.id].kind # "handoff"
       /\ x.id \notin Ids(log) /\ x.id \notin BeingRead
  /\ x.what = "barrier" =>
       x.id \in DOMAIN handoffs /\ t \in handoffs[x.id].waiting

\* The order in a queue.
Before(x, y) ==
  /\ x.what = y.what => x.id < y.id
  /\ x.what = "barrier" /\ y.what = "request" =>
       handoffs[x.id].request < y.id

QueueOk(q, t) ==
  /\ q \in Seq(ItemType)
  /\ \A i \in 1 .. Len(q) : Waits(q[i], t)
  /\ \A i, j \in 1 .. Len(q) : i < j => Before(q[i], q[j])

QueuesOk == \A t \in Terminals : QueueOk(Queue(t), t)

\* Where a request may be.
InQueue(r, t) == Has(Queue(t), Item("request", r))
Accounted(r) ==
  \/ r \in Ids(log)
  \/ r \in BeingRead
  \/ \E h \in DOMAIN handoffs : handoffs[h].request = r
  \/ seen[r] \in Terminals /\ InQueue(r, seen[r])

AllAccounted == \A r \in 1 .. Len(request) : Accounted(r)

\* What waits in a queue arrived after all input its terminal was given.
QueueIsLater ==
  \A i \in 1 .. Len(log) : IsPerformed(i, "input") =>
    \A t \in Terminals : t = log[i][3] =>
      \A k \in 1 .. Len(Queue(t)) :
        Queue(t)[k].what = "request" => log[i][1] < Queue(t)[k].id

\* A release takes one queue at a time and leaves nothing to do behind.
ReleaseOk ==
  /\ ~releasing => work = <<>> /\ ~Holding
  /\ releasing => ~stopped
  /\ ~Holding => taken.queue = <<>>
  /\ Holding => queues[taken.terminal] = <<>>

\* A queue that is not empty will be looked at.
HasSource(t) ==
  \/ Reading(t) \/ BlockedByHandoff(t)
  \/ \E i \in 1 .. Len(work) : work[i] = t
  \/ taken.terminal = t
SourcesOk == \A t \in Terminals : Queue(t) # <<>> => HasSource(t)

\* The barrier counts.
CountsOk ==
  /\ barriers \in [Terminals -> Nat]
  /\ \A t \in Terminals : barriers[t] = Cardinality(Waiters(handoffs, t))

\* What holds of the books the server keeps of its requests.
Books ==
  /\ LogOk /\ ReadsOk /\ HandoffsOk /\ QueuesOk /\ CountsOk
  /\ AllAccounted /\ QueueIsLater /\ CarriedOutAsMeant

IInv == Typed /\ ReleaseOk /\ SourcesOk /\ Books

-----------------------------------------------------------------------------
(* Sequences, and the operators of the model *)

\* A set of natural numbers that is not empty has a least element.
LEMMA LeastElement ==
  ASSUME NEW T \in SUBSET Nat, T # {}
  PROVE  \E n \in T : \A m \in T : n <= m
<1>1. PICK n \in T : \A m \in T : ~(<<m, n>> \in OpToRel(<, Nat))
  BY NatLessThanWellFounded, WFMin, Zenon
<1>2. ASSUME NEW m \in T PROVE n <= m
  <2>1. ~(m < n)
    BY <1>1, Zenon DEF OpToRel
  <2> QED BY <2>1
<1> QED BY <1>2

\* Induction over the natural numbers, stated of a set.
LEMMA InductionOnNat ==
  ASSUME NEW S, 0 \in S, \A n \in Nat : n \in S => n + 1 \in S
  PROVE  Nat \subseteq S
<1> SUFFICES ASSUME ~(Nat \subseteq S) PROVE FALSE
  OBVIOUS
<1> DEFINE T == Nat \ S
<1>1. T \in SUBSET Nat /\ T # {}
  OBVIOUS
<1> HIDE DEF T
<1>2. PICK n \in T : \A m \in T : n <= m
  BY <1>1, LeastElement
<1>3. n \in Nat /\ n # 0
  BY <1>2, <1>1 DEF T
<1>4. n - 1 \in Nat /\ ~(n <= n - 1)
  BY <1>3
<1>5. n - 1 \in S
  BY <1>4, <1>2 DEF T
<1>6. n \in S
  BY <1>5, <1>4, <1>3
<1> QED BY <1>6, <1>2 DEF T

\* SetToSeq lists every element of a finite set once.
LEMMA SetToSeqIs ==
  ASSUME NEW S, IsFiniteSet(S), NEW s, s = SetToSeq(S)
  PROVE  /\ s \in Seq(S)
         /\ \A x \in S : Has(s, x)
         /\ \A i, j \in 1 .. Len(s) : s[i] = s[j] => i = j
<1> DEFINE n == Cardinality(S)
<1>1. n \in Nat /\ ExistsBijection(1 .. n, S)
  BY FS_CardinalityType
<1>2. \E f \in [1 .. n -> S] : IsInjective(f)
  BY <1>1, Zenon DEF ExistsBijection, Bijection, Injection
<1>3. s \in [1 .. n -> S] /\ IsInjective(s)
  BY <1>2, Zenon DEF SetToSeq
<1>4. s \in Injection(1 .. n, S)
  BY <1>3, Zenon DEF Injection
<1>5. IsFiniteSet(1 .. n) /\ Cardinality(1 .. n) = n
  <2>1. n \in Int /\ 1 \in Int
    BY <1>1
  <2> HIDE DEF n
  <2>2. /\ IsFiniteSet(1 .. n)
        /\ Cardinality(1 .. n) = IF 1 > n THEN 0 ELSE n - 1 + 1
    BY <2>1, FS_Interval
  <2> QED BY <1>1, <2>2
<1>6. s \in Surjection(1 .. n, S)
  BY <1>4, <1>5, FS_Injection
<1>7. \A x \in S : \E i \in 1 .. n : s[i] = x
  BY <1>6, Zenon DEF Surjection
<1> HIDE DEF n
<1>8. s \in Seq(S) /\ Len(s) = n
  BY <1>1, <1>3
<1>9. \A i, j \in 1 .. n : s[i] = s[j] => i = j
  BY <1>3 DEF IsInjective
<1> QED BY <1>7, <1>8, <1>9 DEF Has

\* The function behind ReadsOf.
UpTo(f, S, k) ==
  f = [i \in 0 .. k |->
         IF i = 0 THEN <<>>
         ELSE IF reads[i][1] \in S THEN Append(f[i - 1], reads[i])
         ELSE f[i - 1]]

\* One step of it.
LEMMA UpToStep ==
  ASSUME NEW f, NEW S, NEW k \in Nat, UpTo(f, S, k)
  PROVE  /\ f[0] = <<>>
         /\ \A i \in 1 .. k :
              f[i] = IF reads[i][1] \in S THEN Append(f[i - 1], reads[i])
                     ELSE f[i - 1]
<1> DEFINE F == [i \in 0 .. k |->
                   IF i = 0 THEN <<>>
                   ELSE IF reads[i][1] \in S THEN Append(f[i - 1], reads[i])
                   ELSE f[i - 1]]
<1>1. /\ F[0] = <<>>
      /\ \A i \in 1 .. k :
           F[i] = IF reads[i][1] \in S THEN Append(f[i - 1], reads[i])
                  ELSE f[i - 1]
  OBVIOUS
<1>2. f = F
  BY DEF UpTo
<1> HIDE DEF F
<1> QED BY <1>1, <1>2

\* There is such a function.
LEMMA UpToExists ==
  ASSUME NEW S, NEW k \in Nat
  PROVE  \E f : UpTo(f, S, k)
<1> DEFINE N == {m \in Nat : \E f : UpTo(f, S, m)}
<1>1. 0 \in N
  <2>1. UpTo([i \in 0 .. 0 |-> <<>>], S, 0)
    BY DEF UpTo
  <2> QED BY <2>1
<1>2. ASSUME NEW m \in Nat, m \in N PROVE m + 1 \in N
  <2>1. PICK f : UpTo(f, S, m)
    BY <1>2
  <2> DEFINE g == [i \in 0 .. m + 1 |->
                     IF i <= m THEN f[i]
                     ELSE IF reads[i][1] \in S THEN Append(f[i - 1], reads[i])
                     ELSE f[i - 1]]
  <2>2. /\ f[0] = <<>>
        /\ \A i \in 1 .. m :
             f[i] = IF reads[i][1] \in S THEN Append(f[i - 1], reads[i])
                    ELSE f[i - 1]
    BY <2>1, UpToStep
  <2>3. ASSUME NEW i \in 0 .. m + 1
        PROVE  g[i] = IF i = 0 THEN <<>>
                      ELSE IF reads[i][1] \in S THEN Append(g[i - 1], reads[i])
                      ELSE g[i - 1]
    <3>1. CASE i = 0
      BY <2>2, <3>1
    <3>2. CASE i \in 1 .. m
      BY <2>2, <3>2
    <3>3. CASE i = m + 1
      BY <3>3
    <3> QED BY <3>1, <3>2, <3>3
  <2>4. UpTo(g, S, m + 1)
    BY <2>3 DEF UpTo
  <2> QED BY <2>4
<1> HIDE DEF N
<1>3. Nat \subseteq N
  BY <1>1, <1>2, InductionOnNat
<1> QED BY <1>3 DEF N

\* b holds the traversals of the terminals in S among the first k, once each.
Picks(b, S, k) ==
  /\ b \in Seq(Terminals \X Nat)
  /\ \A i \in 1 .. Len(b) :
       b[i][1] \in S /\ \E j \in 1 .. k : b[i] = reads[j]
  /\ \A j \in 1 .. k : reads[j][1] \in S => Has(b, reads[j])
  /\ \A i, j \in 1 .. Len(b) : b[i][1] = b[j][1] => i = j

\* One more traversal that is not of S.
LEMMA PickSkips ==
  ASSUME NEW b, NEW S, NEW k \in Nat, Picks(b, S, k), reads[k + 1][1] \notin S
  PROVE  Picks(b, S, k + 1)
<1>1. \A j \in 1 .. k + 1 : j \in 1 .. k \/ j = k + 1
  OBVIOUS
<1>2. \A j \in 1 .. k : j \in 1 .. k + 1
  OBVIOUS
<1> QED BY <1>1, <1>2 DEF Picks

\* One more traversal that is.
LEMMA PickTakes ==
  ASSUME ReadsOk, NEW b, NEW S, NEW k \in Nat, k + 1 <= Len(reads),
         Picks(b, S, k), reads[k + 1][1] \in S
  PROVE  Picks(Append(b, reads[k + 1]), S, k + 1)
<1>1. PICK x, c : x = reads[k + 1] /\ c = Append(b, x)
  OBVIOUS
<1>2. PICK m : m = k + 1
  OBVIOUS
<1>3. x \in Terminals \X Nat /\ m \in 1 .. Len(reads) /\ x = reads[m]
  BY <1>1, <1>2 DEF ReadsOk
<1>4. b \in Seq(Terminals \X Nat) /\ Len(b) \in Nat
  BY DEF Picks
<1>5. /\ c \in Seq(Terminals \X Nat) /\ Len(c) = Len(b) + 1
      /\ c[Len(b) + 1] = x
      /\ \A i \in 1 .. Len(b) : c[i] = b[i]
  BY <1>1, <1>3, <1>4, AppendProperties
<1>6. \A j \in 1 .. m : j \in 1 .. k \/ j = m
  BY <1>2
<1>7. \A j \in 1 .. k : j \in 1 .. m /\ j # m /\ j \in 1 .. Len(reads)
  BY <1>2, <1>3
<1>8. \A i \in 1 .. Len(c) : i \in 1 .. Len(b) \/ i = Len(b) + 1
  BY <1>4, <1>5
<1>9. /\ \A i \in 1 .. Len(b) : i \in 1 .. Len(c)
      /\ Len(b) + 1 \in 1 .. Len(c) /\ m \in 1 .. m
  BY <1>2, <1>4, <1>5
<1>10. \A i \in 1 .. Len(c) :
         c[i][1] \in S /\ \E j \in 1 .. m : c[i] = reads[j]
  <2>1. \A i \in 1 .. Len(b) :
          c[i][1] \in S /\ \E j \in 1 .. m : c[i] = reads[j]
    BY <1>5, <1>7 DEF Picks
  <2>2. c[Len(b) + 1] = reads[m] /\ c[Len(b) + 1][1] \in S
    BY <1>2, <1>3, <1>5
  <2> QED BY <1>8, <1>9, <2>1, <2>2
<1>11. \A j \in 1 .. m : reads[j][1] \in S => Has(c, reads[j])
  <2>1. Has(c, x)
    BY <1>5, <1>9 DEF Has
  <2>2. \A j \in 1 .. k : reads[j][1] \in S => Has(c, reads[j])
    BY <1>5, <1>9 DEF Picks, Has
  <2> QED BY <1>3, <1>6, <2>1, <2>2
<1>12. ASSUME NEW i \in 1 .. Len(b) PROVE b[i][1] # x[1]
  <2>1. PICK j \in 1 .. k : b[i] = reads[j]
    BY DEF Picks
  <2> QED BY <1>3, <1>7, <2>1 DEF ReadsOk
<1>13. \A i, j \in 1 .. Len(c) : c[i][1] = c[j][1] => i = j
  <2> SUFFICES ASSUME NEW i \in 1 .. Len(c), NEW j \in 1 .. Len(c),
                      c[i][1] = c[j][1]
               PROVE  i = j
    OBVIOUS
  <2>1. CASE i \in 1 .. Len(b) /\ j \in 1 .. Len(b)
    BY <1>5, <2>1 DEF Picks
  <2>2. CASE i = Len(b) + 1 /\ j \in 1 .. Len(b)
    BY <1>5, <1>12, <2>2
  <2>3. CASE j = Len(b) + 1 /\ i \in 1 .. Len(b)
    BY <1>5, <1>12, <2>3
  <2> QED BY <1>8, <2>1, <2>2, <2>3
<1> QED BY <1>1, <1>2, <1>5, <1>10, <1>11, <1>13 DEF Picks

\* ReadsOf does what it says.
LEMMA ReadsOfIs ==
  ASSUME ReadsOk, NEW S, NEW b, b = ReadsOf(S)
  PROVE  Picks(b, S, Len(reads))
<1> DEFINE m == Len(reads)
           f == CHOOSE g : UpTo(g, S, m)
<1>1. m \in Nat
  BY DEF ReadsOk
<1>2. UpTo(f, S, m)
  BY <1>1, UpToExists
<1>3. b = f[m]
  BY DEF ReadsOf, UpTo
<1> HIDE DEF f, m
<1>4. /\ f[0] = <<>>
      /\ \A i \in 1 .. m :
           f[i] = IF reads[i][1] \in S THEN Append(f[i - 1], reads[i])
                  ELSE f[i - 1]
  BY <1>1, <1>2, UpToStep
<1> DEFINE N == {i \in Nat : i <= m => Picks(f[i], S, i)}
<1>5. 0 \in N
  <2>1. <<>> \in Seq(Terminals \X Nat) /\ Len(<<>>) = 0
    BY EmptySeq
  <2>2. Picks(<<>>, S, 0)
    BY <2>1 DEF Picks
  <2> QED BY <1>4, <2>2
<1>6. ASSUME NEW i \in Nat, i \in N PROVE i + 1 \in N
  <2> SUFFICES ASSUME i + 1 <= m PROVE Picks(f[i + 1], S, i + 1)
    OBVIOUS
  <2>1. Picks(f[i], S, i) /\ i + 1 \in 1 .. m /\ i + 1 - 1 = i
    BY <1>1, <1>6
  <2>2. f[i + 1] = IF reads[i + 1][1] \in S
                   THEN Append(f[i], reads[i + 1]) ELSE f[i]
    BY <1>4, <2>1
  <2>3. CASE reads[i + 1][1] \in S
    BY <2>1, <2>2, <2>3, PickTakes DEF m
  <2>4. CASE reads[i + 1][1] \notin S
    BY <2>1, <2>2, <2>4, PickSkips
  <2> QED BY <2>3, <2>4
<1> HIDE DEF N
<1>7. Nat \subseteq N
  BY <1>5, <1>6, InductionOnNat
<1>8. m \in N
  BY <1>1, <1>7
<1>9. Picks(f[m], S, m)
  BY <1>1, <1>8 DEF N
<1> QED BY <1>3, <1>9 DEF m

-----------------------------------------------------------------------------
(* What every step does: requests may arrive, and the log grows *)

Entries == Nat \X Outcomes \X Places

Grows ==
  /\ Typed'
  /\ Len(request) <= Len(request')
  /\ \A r \in 1 .. Len(request) :
       /\ request'[r] = request[r] /\ seen'[r] = seen[r]
       /\ captured'[r] = captured[r]

\* xs is what the step adds to the log.
Logs(xs) ==
  /\ xs \in Seq(Entries) /\ log' = log \o xs
  /\ \A i \in 1 .. Len(xs) :
       xs[i][1] \in 1 .. Len(request') /\ xs[i][1] \notin Ids(log)
  /\ \A i, j \in 1 .. Len(xs) : xs[i][1] = xs[j][1] => i = j

\* Where the entries of the log are afterwards.
LogShape(xs) ==
  /\ log' \in Seq(Entries) /\ Len(log) \in Nat /\ Len(xs) \in Nat
  /\ Len(log') = Len(log) + Len(xs)
  /\ \A i \in 1 .. Len(log) : i \in 1 .. Len(log') /\ log'[i] = log[i]
  /\ \A i \in 1 .. Len(xs) :
       Len(log) + i \in 1 .. Len(log') /\ log'[Len(log) + i] = xs[i]
  /\ \A i \in 1 .. Len(log') :
       \/ i \in 1 .. Len(log)
       \/ \E j \in 1 .. Len(xs) : i = Len(log) + j

\* They are at their places before, or among the new ones.
LEMMA LogIs ==
  ASSUME LogOk, NEW xs, Logs(xs)
  PROVE  LogShape(xs)
<1>1. log \in Seq(Entries) /\ xs \in Seq(Entries) /\ log' = log \o xs
  BY DEF LogOk, Logs, Entries
<1>2. Len(log) \in Nat /\ Len(xs) \in Nat
  BY <1>1
<1>3. /\ log' \in Seq(Entries) /\ Len(log') = Len(log) + Len(xs)
      /\ \A i \in 1 .. Len(log) + Len(xs) :
           log'[i] = IF i <= Len(log) THEN log[i] ELSE xs[i - Len(log)]
  BY <1>1, ConcatProperties
<1>4. PICK n, m : n = Len(log) /\ m = Len(xs)
  OBVIOUS
<1>5. ASSUME NEW i \in 1 .. m
      PROVE  n + i \in 1 .. n + m /\ ~(n + i <= n) /\ n + i - n = i
  BY <1>2, <1>4
<1>6. ASSUME NEW i \in 1 .. n + m, i \notin 1 .. n
      PROVE  i - n \in 1 .. m /\ i = n + (i - n)
  BY <1>2, <1>4, <1>6
<1>7. ASSUME NEW i \in 1 .. n
      PROVE  i \in 1 .. n + m /\ i <= n
  BY <1>2, <1>4
<1>8. Len(log') = n + m
  BY <1>3, <1>4
<1>9. \A i \in 1 .. n : i \in 1 .. Len(log') /\ log'[i] = log[i]
  BY <1>3, <1>4, <1>7, <1>8
<1>10. \A i \in 1 .. m :
         n + i \in 1 .. Len(log') /\ log'[n + i] = xs[i]
  BY <1>3, <1>4, <1>5, <1>8
<1>11. \A i \in 1 .. Len(log') :
         i \in 1 .. n \/ \E j \in 1 .. m : i = n + j
  BY <1>6, <1>8
<1> QED BY <1>2, <1>3, <1>4, <1>9, <1>10, <1>11 DEF LogShape

\* What is new in the log is what the step adds.
LEMMA NewIs ==
  ASSUME LogOk, NEW xs, Logs(xs), NEW i \in DOMAIN log' \ DOMAIN log
  PROVE  \E j \in 1 .. Len(xs) : log'[i] = xs[j]
<1>1. LogShape(xs)
  BY LogIs
<1>2. DOMAIN log = 1 .. Len(log) /\ DOMAIN log' = 1 .. Len(log')
  BY <1>1, LenProperties DEF LogShape, LogOk
<1>3. PICK j \in 1 .. Len(xs) : i = Len(log) + j
  BY <1>1, <1>2 DEF LogShape
<1> QED BY <1>1, <1>3 DEF LogShape

\* The identities in a log that is a sequence.
LEMMA IdsAre ==
  ASSUME NEW S, NEW l \in Seq(S)
  PROVE  \A r : r \in Ids(l) <=> \E i \in 1 .. Len(l) : l[i][1] = r
<1>1. DOMAIN l = 1 .. Len(l)
  BY LenProperties
<1> QED BY <1>1 DEF Ids

\* The log after a step: in order, with the new answers in it.
LEMMA LogGrows ==
  ASSUME LogOk, Grows, Typed, NEW xs, Logs(xs)
  PROVE  /\ LogOk'
         /\ \A r : r \in Ids(log)' <=> r \in Ids(log) \/ r \in Ids(xs)
<1>1. /\ log \in Seq(Entries) /\ xs \in Seq(Entries)
      /\ Len(request) \in Nat /\ Len(request') \in Nat
      /\ Len(request) <= Len(request')
  BY DEF LogOk, Logs, Grows, Typed, Entries
<1>s. LogShape(xs)
  BY LogIs
<1> USE <1>s DEF LogShape
<1>2. \A r : r \in Ids(log') <=> \E i \in 1 .. Len(log') : log'[i][1] = r
  BY IdsAre
<1>3. \A r : r \in Ids(log) <=> \E i \in 1 .. Len(log) : log[i][1] = r
  BY <1>1, IdsAre
<1>4. \A r : r \in Ids(xs) <=> \E i \in 1 .. Len(xs) : xs[i][1] = r
  BY <1>1, IdsAre
<1>5. \A r : r \in Ids(log') <=> r \in Ids(log) \/ r \in Ids(xs)
  <2> SUFFICES ASSUME NEW r
               PROVE  r \in Ids(log') <=> r \in Ids(log) \/ r \in Ids(xs)
    OBVIOUS
  <2>1. ASSUME r \in Ids(log') PROVE r \in Ids(log) \/ r \in Ids(xs)
    <3>1. PICK i \in 1 .. Len(log') : log'[i][1] = r
      BY <1>2, <2>1
    <3>2. CASE i \in 1 .. Len(log)
      BY <1>3, <3>1, <3>2
    <3>3. CASE \E j \in 1 .. Len(xs) : i = Len(log) + j
      <4>1. PICK j \in 1 .. Len(xs) : i = Len(log) + j
        BY <3>3
      <4>2. xs[j][1] = r
        BY <3>1, <4>1
      <4> QED BY <1>4, <4>2
    <3> QED BY <3>2, <3>3
  <2>2. ASSUME r \in Ids(log) PROVE r \in Ids(log')
    BY <1>2, <1>3, <2>2
  <2>3. ASSUME r \in Ids(xs) PROVE r \in Ids(log')
    BY <1>2, <1>4, <2>3
  <2> QED BY <2>1, <2>2, <2>3
<1>6. ASSUME NEW i \in 1 .. Len(log') PROVE log'[i][1] \in 1 .. Len(request')
  <2>1. CASE i \in 1 .. Len(log)
    <3>1. log'[i][1] \in 1 .. Len(request)
      BY <2>1 DEF LogOk
    <3> QED BY <1>1, <3>1
  <2>2. CASE \E j \in 1 .. Len(xs) : i = Len(log) + j
    BY <2>2 DEF Logs
  <2> QED BY <2>1, <2>2
<1>7. ASSUME NEW i \in 1 .. Len(log'), NEW j \in 1 .. Len(log'),
             log'[i][1] = log'[j][1]
      PROVE  i = j
  <2>1. CASE i \in 1 .. Len(log) /\ j \in 1 .. Len(log)
    BY <1>7, <2>1 DEF LogOk
  <2>2. ASSUME NEW k \in 1 .. Len(xs), NEW l \in 1 .. Len(log)
        PROVE  log'[l][1] # xs[k][1]
    <3>1. log[l][1] \in Ids(log)
      BY <1>3
    <3> QED BY <3>1 DEF Logs
  <2>3. CASE /\ \E k \in 1 .. Len(xs) : i = Len(log) + k
             /\ \E k \in 1 .. Len(xs) : j = Len(log) + k
    <3>1. PICK k \in 1 .. Len(xs), l \in 1 .. Len(xs) :
            i = Len(log) + k /\ j = Len(log) + l
      BY <2>3
    <3>2. xs[k][1] = xs[l][1]
      BY <1>7, <3>1
    <3> QED BY <3>1, <3>2 DEF Logs
  <2>4. CASE /\ i \in 1 .. Len(log)
             /\ \E k \in 1 .. Len(xs) : j = Len(log) + k
    <3>1. PICK k \in 1 .. Len(xs) : j = Len(log) + k
      BY <2>4
    <3>2. log'[i][1] # xs[k][1] /\ log'[j] = xs[k]
      BY <2>2, <2>4, <3>1
    <3> QED BY <1>7, <3>2
  <2>5. CASE /\ \E k \in 1 .. Len(xs) : i = Len(log) + k
             /\ j \in 1 .. Len(log)
    <3>1. PICK k \in 1 .. Len(xs) : i = Len(log) + k
      BY <2>5
    <3>2. log'[j][1] # xs[k][1] /\ log'[i] = xs[k]
      BY <2>2, <2>5, <3>1
    <3> QED BY <1>7, <3>2
  <2>6. /\ i \in 1 .. Len(log) \/ \E k \in 1 .. Len(xs) : i = Len(log) + k
        /\ j \in 1 .. Len(log) \/ \E k \in 1 .. Len(xs) : j = Len(log) + k
    OBVIOUS
  <2> QED BY <2>1, <2>3, <2>4, <2>5, <2>6, Zenon
<1> QED BY <1>5, <1>6, <1>7 DEF LogOk, Entries

\* What a step that carries out requests must respect.
AsMeant(xs) ==
  \A i \in 1 .. Len(xs) : xs[i][2] = "performed" =>
    LET r == xs[i][1]
        kind == request'[r].kind
    IN
    /\ kind # "handoff" => xs[i][3] = seen'[r]
    /\ kind = "input" =>
         /\ Len(xs) = 1
         /\ \A j \in 1 .. Len(log) :
              IsPerformed(j, "input") /\ log[j][3] = xs[i][3] => log[j][1] < r
    /\ kind = "handoff" =>
         \A s \in 1 .. r - 1 :
           seen'[s] \in captured'[r] /\ request'[s].kind # "handoff" =>
             s \in Ids(log)

\* Then the log stays as meant.
LEMMA MeantStays ==
  ASSUME Typed, LogOk, Grows, CarriedOutAsMeant, NEW xs, Logs(xs), AsMeant(xs)
  PROVE  CarriedOutAsMeant'
<1>1. /\ log \in Seq(Entries) /\ DOMAIN log = 1 .. Len(log)
      /\ DOMAIN log' = 1 .. Len(log')
      /\ Len(request) \in Nat
  <2>1. log \in Seq(Entries) /\ log' \in Seq(Entries) /\ Len(request) \in Nat
    BY LogIs DEF LogShape, LogOk, Entries, Typed
  <2> QED BY <2>1, LenProperties
<1>s. LogShape(xs)
  BY LogIs
<1> USE <1>s DEF LogShape
<1>2. ASSUME NEW i \in 1 .. Len(log), NEW k
      PROVE  IsPerformed(i, k)' <=> IsPerformed(i, k)
  <2>1. log[i][1] \in 1 .. Len(request) /\ log'[i] = log[i]
    BY DEF LogOk
  <2> QED BY <2>1 DEF IsPerformed, Grows
<1>3. ASSUME NEW i \in 1 .. Len(xs), NEW k, NEW j, j = Len(log) + i
      PROVE  /\ log'[j] = xs[i]
             /\ IsPerformed(j, k)' <=>
                  xs[i][2] = "performed" /\ request'[xs[i][1]].kind = k
  BY <1>3 DEF IsPerformed
<1>4. InputInArrivalOrder'
  <2> SUFFICES ASSUME NEW i \in 1 .. Len(log'), NEW j \in 1 .. Len(log'),
                      i < j, IsPerformed(i, "input")',
                      IsPerformed(j, "input")', log'[i][3] = log'[j][3]
               PROVE  log'[i][1] < log'[j][1]
    BY <1>1 DEF InputInArrivalOrder
  <2>1. CASE j \in 1 .. Len(log)
    <3>1. i \in 1 .. Len(log)
      BY <2>1
    <3> QED
      BY <1>1, <1>2, <2>1, <3>1
      DEF CarriedOutAsMeant, InputInArrivalOrder
  <2>2. ASSUME NEW k \in 1 .. Len(xs), j = Len(log) + k
        PROVE  log'[i][1] < log'[j][1]
    <3>1. /\ log'[j] = xs[k] /\ xs[k][2] = "performed"
          /\ request'[xs[k][1]].kind = "input"
      BY <1>3, <2>2
    <3>2. Len(xs) = 1
      BY <3>1 DEF AsMeant
    <3>3. i \in 1 .. Len(log)
      BY <2>2, <3>2
    <3>4. log[i] = log'[i] /\ IsPerformed(i, "input") /\ log[i][3] = xs[k][3]
      BY <1>2, <3>1, <3>3
    <3> QED BY <3>1, <3>3, <3>4 DEF AsMeant
  <2> QED BY <2>1, <2>2
<1>5. HandoffAfterEarlier'
  <2> SUFFICES ASSUME NEW i \in 1 .. Len(log'), IsPerformed(i, "handoff")',
                      NEW r \in 1 .. log'[i][1] - 1,
                      seen'[r] \in captured'[log'[i][1]],
                      request'[r].kind # "handoff"
               PROVE  \E j \in 1 .. i - 1 : log'[j][1] = r
    BY <1>1 DEF HandoffAfterEarlier
  <2>1. CASE i \in 1 .. Len(log)
    <3>1. /\ log'[i] = log[i] /\ log[i][1] \in 1 .. Len(request)
          /\ IsPerformed(i, "handoff")
      BY <1>2, <2>1 DEF LogOk
    <3> DEFINE k == log[i][1]
    <3> HIDE DEF k
    <3>a. k \in 1 .. Len(request) /\ r \in 1 .. k - 1
      BY <3>1 DEF k
    <3>b. r \in 1 .. Len(request) /\ r \in 1 .. k - 1
      BY <1>1, <3>a
    <3>2. r \in 1 .. Len(request) /\ r \in 1 .. log[i][1] - 1
      BY <3>b DEF k
    <3>3. seen[r] \in captured[log[i][1]] /\ request[r].kind # "handoff"
      BY <3>1, <3>2 DEF Grows
    <3>4. PICK j \in 1 .. i - 1 : log[j][1] = r
      BY <1>1, <2>1, <3>1, <3>2, <3>3
      DEF CarriedOutAsMeant, HandoffAfterEarlier
    <3>5. j \in 1 .. Len(log)
      BY <2>1
    <3> QED BY <3>4, <3>5
  <2>2. ASSUME NEW k \in 1 .. Len(xs), i = Len(log) + k
        PROVE  \E j \in 1 .. i - 1 : log'[j][1] = r
    <3>1. /\ log'[i] = xs[k] /\ xs[k][2] = "performed"
          /\ request'[xs[k][1]].kind = "handoff"
      BY <1>3, <2>2
    <3>2. r \in Ids(log)
      BY <3>1 DEF AsMeant
    <3>3. PICK j \in 1 .. Len(log) : log[j][1] = r
      <4>1. \A q : q \in Ids(log) <=> \E j \in 1 .. Len(log) : log[j][1] = q
        BY <1>1, IdsAre
      <4> QED BY <3>2, <4>1
    <3>4. j \in 1 .. i - 1 /\ log'[j] = log[j]
      BY <2>2
    <3> QED BY <3>3, <3>4
  <2> QED BY <2>1, <2>2
<1>6. IdentityKept'
  <2> SUFFICES ASSUME NEW i \in 1 .. Len(log'), log'[i][2] = "performed",
                      request'[log'[i][1]].kind # "handoff"
               PROVE  log'[i][3] = seen'[log'[i][1]]
    BY <1>1 DEF IdentityKept
  <2>1. CASE i \in 1 .. Len(log)
    <3>1. log'[i] = log[i] /\ log[i][1] \in 1 .. Len(request)
      BY <2>1 DEF LogOk
    <3>2. log[i][2] = "performed" /\ request[log[i][1]].kind # "handoff"
      BY <3>1 DEF Grows
    <3>3. log[i][3] = seen[log[i][1]]
      BY <1>1, <2>1, <3>2 DEF CarriedOutAsMeant, IdentityKept
    <3> QED BY <3>1, <3>3 DEF Grows
  <2>2. CASE \E j \in 1 .. Len(xs) : i = Len(log) + j
    <3>1. PICK j \in 1 .. Len(xs) : log'[i] = xs[j]
      BY <2>2
    <3> QED BY <3>1 DEF AsMeant
  <2> QED BY <2>1, <2>2
<1> QED BY <1>4, <1>5, <1>6 DEF CarriedOutAsMeant

-----------------------------------------------------------------------------
(* Queues *)

\* q2 is q without its first d items.
Shifted(q, d, q2) ==
  /\ d \in {0, 1} /\ d <= Len(q)
  /\ q2 \in Seq(ItemType) /\ Len(q2) = Len(q) - d
  /\ \A i \in 1 .. Len(q2) : q2[i] = q[i + d]

\* What is left of a queue whose first item leaves, or none.
LEMMA ShiftIs ==
  ASSUME NEW q \in Seq(ItemType)
  PROVE  /\ Shifted(q, 0, q)
         /\ q # <<>> => /\ Shifted(q, 1, Tail(q)) /\ Head(q) = q[1]
                        /\ 1 \in 1 .. Len(q) /\ q[1] \in ItemType
<1>1. Len(q) \in Nat
  OBVIOUS
<1>2. \A i \in 1 .. Len(q) : i + 0 = i
  OBVIOUS
<1>3. Shifted(q, 0, q)
  BY <1>1, <1>2 DEF Shifted
<1>4. ASSUME q # <<>>
      PROVE  /\ Shifted(q, 1, Tail(q)) /\ Head(q) = q[1]
             /\ 1 \in 1 .. Len(q) /\ q[1] \in ItemType
  <2>1. Len(q) \in Nat \ {0}
    BY <1>4, EmptySeq
  <2>2. /\ Tail(q) \in Seq(ItemType) /\ Len(Tail(q)) = Len(q) - 1
        /\ \A i \in 1 .. Len(Tail(q)) : Tail(q)[i] = q[i + 1]
    BY <1>4, HeadTailProperties
  <2>3. Shifted(q, 1, Tail(q))
    BY <2>1, <2>2 DEF Shifted
  <2> QED BY <2>1, <2>3
<1> QED BY <1>3, <1>4

\* A queue stays in order when its first item leaves, or none, if what stays
\* still waits.
LEMMA QueueShifts ==
  ASSUME NEW t, NEW q, QueueOk(q, t), NEW q2, NEW d, Shifted(q, d, q2),
         \A x \in ItemType :
           Has(q, x) /\ (d = 1 => x # q[1]) =>
             /\ Waits(x, t)'
             /\ x.what = "barrier" =>
                  handoffs'[x.id].request = handoffs[x.id].request
  PROVE  /\ QueueOk(q2, t)'
         /\ \A x : Has(q2, x) => Has(q, x) /\ (d = 1 => x # q[1])
         /\ \A x : Has(q, x) /\ (d = 1 => x # q[1]) => Has(q2, x)
<1>1. /\ q \in Seq(ItemType) /\ q2 \in Seq(ItemType)
      /\ Len(q) \in Nat /\ Len(q2) \in Nat /\ d \in {0, 1}
      /\ Len(q2) = Len(q) - d
  BY DEF QueueOk, Shifted
<1>2. ASSUME NEW i \in 1 .. Len(q2)
      PROVE  /\ i + d \in 1 .. Len(q) /\ q2[i] = q[i + d]
             /\ q2[i] \in ItemType
  BY <1>1 DEF Shifted
<1>3. ASSUME NEW i \in 1 .. Len(q), i # 1 PROVE q[1] # q[i]
  <2>1. q[1] \in ItemType /\ q[i] \in ItemType
    BY <1>1, <1>3
  <2>2. Before(q[1], q[i])
    BY <1>1, <1>3 DEF QueueOk
  <2>3. q[1].id \in Nat
    BY <2>1 DEF ItemType
  <2> QED BY <2>2, <2>3 DEF Before
<1>4. ASSUME NEW i \in 1 .. Len(q2), d = 1 PROVE q2[i] # q[1]
  <2>1. i + d # 1
    BY <1>4
  <2> QED BY <1>2, <1>3, <2>1
<1>5. ASSUME NEW i \in 1 .. Len(q2)
      PROVE  /\ Has(q, q2[i]) /\ Waits(q2[i], t)'
             /\ q2[i].what = "barrier" =>
                  handoffs'[q2[i].id].request = handoffs[q2[i].id].request
  <2>1. Has(q, q2[i])
    BY <1>2 DEF Has
  <2> QED BY <1>2, <1>4, <2>1
<1>6. ASSUME NEW i \in 1 .. Len(q2), NEW j \in 1 .. Len(q2), i < j
      PROVE  Before(q2[i], q2[j])'
  <2>1. i + d < j + d
    BY <1>1, <1>6
  <2>2. Before(q2[i], q2[j])
    BY <1>2, <2>1 DEF QueueOk
  <2> QED BY <1>5, <2>2 DEF Before
<1>7. QueueOk(q2, t)'
  BY <1>1, <1>5, <1>6 DEF QueueOk
<1>8. \A x : Has(q2, x) => Has(q, x) /\ (d = 1 => x # q[1])
  BY <1>4, <1>5 DEF Has
<1>9. ASSUME NEW x, Has(q, x), d = 1 => x # q[1] PROVE Has(q2, x)
  <2>1. PICK i \in 1 .. Len(q) : q[i] = x
    BY <1>9 DEF Has
  <2>2. PICK j : j = i - d
    OBVIOUS
  <2>3. d = 1 => i # 1
    BY <1>9, <2>1
  <2>4. j \in 1 .. Len(q2) /\ j + d = i
    BY <1>1, <2>2, <2>3
  <2>5. q2[j] = x
    BY <1>2, <2>1, <2>4
  <2> QED BY <2>4, <2>5 DEF Has
<1> QED BY <1>7, <1>8, <1>9

\* q2 is q with one item more.
Grown(q, x, q2) == q2 = Append(q, x)

\* And when an item joins it at the end.
LEMMA QueueGrows ==
  ASSUME NEW t, NEW q, QueueOk(q, t), NEW x \in ItemType, NEW q2,
         Grown(q, x, q2), Waits(x, t)',
         \A y \in ItemType :
           Has(q, y) =>
             /\ Waits(y, t)' /\ Before(y, x)'
             /\ y.what = "barrier" =>
                  handoffs'[y.id].request = handoffs[y.id].request
  PROVE  /\ QueueOk(q2, t)'
         /\ \A y : Has(q2, y) <=> Has(q, y) \/ y = x
<1>1. q \in Seq(ItemType) /\ Len(q) \in Nat
  BY DEF QueueOk
<1>2. PICK n : n = Len(q) + 1
  OBVIOUS
<1>3. /\ q2 \in Seq(ItemType) /\ Len(q2) = n /\ q2[n] = x
      /\ \A i \in 1 .. Len(q) : q2[i] = q[i] /\ q[i] \in ItemType
  BY <1>1, <1>2, AppendProperties DEF Grown
<1>4. /\ \A i \in 1 .. n : i \in 1 .. Len(q) \/ i = n
      /\ \A i \in 1 .. Len(q) : i \in 1 .. n /\ i < n
      /\ n \in 1 .. n
  BY <1>1, <1>2
<1>5. ASSUME NEW i \in 1 .. Len(q)
      PROVE  /\ Waits(q2[i], t)' /\ Before(q2[i], x)'
             /\ q2[i].what = "barrier" =>
                  handoffs'[q2[i].id].request = handoffs[q2[i].id].request
  <2>1. Has(q, q2[i]) /\ q2[i] \in ItemType
    BY <1>3 DEF Has
  <2> QED BY <2>1
<1>6. ASSUME NEW i \in 1 .. n, NEW j \in 1 .. n, i < j
      PROVE  Before(q2[i], q2[j])'
  <2>1. i \in 1 .. Len(q)
    BY <1>1, <1>2, <1>6
  <2>2. CASE j = n
    BY <1>3, <1>5, <2>1, <2>2
  <2>3. CASE j \in 1 .. Len(q)
    <3>1. Before(q2[i], q2[j])
      BY <1>3, <1>6, <2>1, <2>3 DEF QueueOk
    <3> QED BY <1>5, <2>1, <3>1 DEF Before
  <2> QED BY <1>4, <2>2, <2>3
<1>7. \A i \in 1 .. n : Waits(q2[i], t)'
  BY <1>3, <1>4, <1>5
<1>8. QueueOk(q2, t)'
  BY <1>3, <1>6, <1>7 DEF QueueOk
<1>9. \A y : Has(q2, y) <=> Has(q, y) \/ y = x
  BY <1>3, <1>4 DEF Has
<1> QED BY <1>8, <1>9

\* What is in a queue, spelled out.
LEMMA ItemIs ==
  ASSUME QueuesOk, NEW t \in Terminals, NEW x, Has(Queue(t), x)
  PROVE  /\ x \in ItemType /\ Waits(x, t)
         /\ x.what = "request" =>
              /\ x.id \in 1 .. Len(request) /\ seen[x.id] = t
              /\ request[x.id].kind # "handoff"
              /\ x.id \notin Ids(log) /\ x.id \notin BeingRead
         /\ x.what = "barrier" =>
              x.id \in DOMAIN handoffs /\ t \in handoffs[x.id].waiting
<1>1. PICK i \in 1 .. Len(Queue(t)) : Queue(t)[i] = x
  BY DEF Has
<1>2. Queue(t) \in Seq(ItemType) /\ Waits(x, t)
  BY <1>1 DEF QueuesOk, QueueOk
<1>3. x \in ItemType
  BY <1>1, <1>2
<1> QED BY <1>2, <1>3 DEF Waits

\* The log and the queues after a step: what is in a queue arrived after the
\* input its terminal was given.
LEMMA LaterStays ==
  ASSUME Typed, LogOk, QueuesOk, QueueIsLater, Grows, QueuesOk',
         NEW xs, Logs(xs),
         \A t \in Terminals, x \in ItemType :
           Has(Queue(t)', x) /\ x.what = "request" =>
             Has(Queue(t), x) \/ x.id > Len(request),
         \A i \in 1 .. Len(xs), t \in Terminals :
           /\ xs[i][2] = "performed" /\ t = xs[i][3]
           /\ request'[xs[i][1]].kind = "input"
           => \A x \in ItemType : Has(Queue(t)', x) /\ x.what = "request" =>
                xs[i][1] < x.id
  PROVE  QueueIsLater'
<1> SUFFICES ASSUME NEW i \in 1 .. Len(log'), IsPerformed(i, "input")',
                    NEW t \in Terminals, t = log'[i][3],
                    NEW k \in 1 .. Len(Queue(t)'),
                    Queue(t)'[k].what = "request"
             PROVE  log'[i][1] < Queue(t)'[k].id
  BY DEF QueueIsLater
<1>1. PICK x : x = Queue(t)'[k]
  OBVIOUS
<1>2. Queue(t)' \in Seq(ItemType)
  BY DEF QueuesOk, QueueOk
<1>3. x \in ItemType /\ Has(Queue(t)', x) /\ x.what = "request" /\ x.id \in Nat
  <2>1. x \in ItemType
    BY <1>1, <1>2
  <2> QED BY <1>1, <2>1 DEF Has, ItemType
<1>4. LogShape(xs)
  BY LogIs
<1>5. CASE i \in 1 .. Len(log)
  <2>1. log'[i] = log[i] /\ log[i][1] \in 1 .. Len(request)
    BY <1>4, <1>5 DEF LogOk, LogShape
  <2>2. IsPerformed(i, "input")
    BY <2>1 DEF IsPerformed, Grows
  <2>3. CASE x.id > Len(request)
    <3>1. Len(request) \in Nat
      BY DEF Typed
    <3> QED BY <1>1, <1>3, <2>1, <2>3, <3>1
  <2>4. CASE Has(Queue(t), x)
    <3>1. PICK j \in 1 .. Len(Queue(t)) : Queue(t)[j] = x
      BY <2>4 DEF Has
    <3> QED BY <1>1, <1>3, <1>5, <2>1, <2>2, <3>1 DEF QueueIsLater
  <2> QED BY <1>3, <2>3, <2>4
<1>6. CASE \E j \in 1 .. Len(xs) : i = Len(log) + j
  <2>1. PICK j \in 1 .. Len(xs) : log'[i] = xs[j]
    BY <1>4, <1>6 DEF LogShape
  <2> QED BY <1>1, <1>3, <2>1 DEF IsPerformed
<1> QED BY <1>4, <1>5, <1>6 DEF LogShape

-----------------------------------------------------------------------------
(* The parts of the books *)

\* The step adds xs to the log.
Adds(xs) == log' = log \o xs

\* xs is one answer.
Single(xs, r, o, p) ==
  /\ \A s : s \in Ids(xs) <=> s = r
  /\ Len(xs) = 1 /\ xs[1] = <<r, o, p>>
  /\ \A i \in 1 .. Len(xs) : i = 1

\* One answer in the log.
LEMMA OneEntry ==
  ASSUME LogOk, NEW r \in 1 .. Len(request'), r \notin Ids(log),
         Len(request') \in Nat,
         NEW o \in Outcomes, NEW p \in Places,
         NEW xs, xs = Entry(r, o, p), Adds(xs)
  PROVE  Logs(xs) /\ Single(xs, r, o, p)
<1>1. xs = << <<r, o, p>> >>
  BY DEF Entry
<1>2. r \in Nat /\ <<r, o, p>> \in Entries
  BY DEF Entries
<1>3. xs \in Seq(Entries) /\ Len(xs) = 1 /\ xs[1] = <<r, o, p>>
  BY <1>1, <1>2
<1>4. \A i \in 1 .. Len(xs) : i = 1
  BY <1>3
<1>5. \A s : s \in Ids(xs) <=> \E i \in 1 .. Len(xs) : xs[i][1] = s
  <2>1. xs \in Seq(Entries)
    BY <1>3
  <2> QED BY <2>1, IdsAre, Zenon
<1>6. 1 \in 1 .. Len(xs) /\ xs[1][1] = r
  BY <1>3
<1>7. \A s : s \in Ids(xs) <=> s = r
  BY <1>4, <1>5, <1>6
<1>8. Logs(xs)
  BY <1>3, <1>4, <1>6 DEF Logs, Adds
<1> QED BY <1>3, <1>4, <1>7, <1>8 DEF Single

\* No answer in the log.
LEMMA NoEntry ==
  ASSUME LogOk, log' = log, NEW xs, xs = <<>>
  PROVE  /\ Logs(xs) /\ AsMeant(xs) /\ Len(xs) = 0
         /\ \A s : s \notin Ids(xs)
         /\ \A i : i \notin 1 .. Len(xs)
<1>1. xs \in Seq(Entries) /\ Len(xs) = 0
  BY EmptySeq
<1>2. log' = log \o xs
  <2>1. log \in Seq(Entries)
    BY DEF LogOk, Entries
  <2> QED BY <2>1, ConcatEmptySeq
<1>3. \A i : i \notin 1 .. Len(xs)
  BY <1>1
<1>4. \A s : s \in Ids(xs) <=> \E i \in 1 .. Len(xs) : xs[i][1] = s
  <2>1. xs \in Seq(Entries)
    BY <1>1
  <2> QED BY <2>1, IdsAre, Zenon
<1> QED BY <1>1, <1>2, <1>3, <1>4 DEF Logs, AsMeant

\* Who is being read, and what for.
LEMMA ReadsAre ==
  ASSUME ReadsOk
  PROVE  /\ \A r : r \in BeingRead <=>
              \E i \in 1 .. Len(reads) : reads[i][2] = r
         /\ \A t : Reading(t) <=> \E i \in 1 .. Len(reads) : reads[i][1] = t
         /\ \A t : t \in {reads[i][1] : i \in DOMAIN reads} <=> Reading(t)
<1>1. DOMAIN reads = 1 .. Len(reads)
  BY LenProperties DEF ReadsOk
<1> QED BY <1>1 DEF BeingRead, Reading

\* A read that is under way is of the terminal its request was for.
LEMMA BeingReadIs ==
  ASSUME ReadsOk, NEW r \in BeingRead
  PROVE  /\ r \in 1 .. Len(request) /\ request[r].kind = "read"
         /\ r \notin Ids(log) /\ Reading(seen[r]) /\ seen[r] \in Terminals
<1>1. PICK i \in 1 .. Len(reads) : reads[i][2] = r
  BY ReadsAre
<1>2. reads[i] \in Terminals \X Nat
  BY DEF ReadsOk
<1> QED BY <1>1, <1>2, ReadsAre DEF ReadsOk

\* Traversals that go on.
LEMMA ReadsStay ==
  ASSUME Typed, ReadsOk, Grows, reads' = reads,
         \A r \in BeingRead : r \notin Ids(log)'
  PROVE  ReadsOk' /\ BeingRead' = BeingRead
<1>1. \A i \in 1 .. Len(reads) : reads[i][2] \in BeingRead
  BY ReadsAre
<1>2. \A r \in 1 .. Len(request) : r \in 1 .. Len(request')
  BY DEF Typed, Grows
<1>3. BeingRead' = BeingRead
  BY DEF BeingRead
<1>4. ASSUME NEW i \in 1 .. Len(reads)
      PROVE  /\ reads[i][2] \in 1 .. Len(request')
             /\ seen'[reads[i][2]] = reads[i][1]
             /\ request'[reads[i][2]].kind = "read"
             /\ reads[i][2] \notin Ids(log)'
  <2>1. /\ reads[i][2] \in 1 .. Len(request)
        /\ seen[reads[i][2]] = reads[i][1]
        /\ request[reads[i][2]].kind = "read"
    BY DEF ReadsOk
  <2> QED BY <1>1, <1>2, <2>1 DEF Grows
<1> QED BY <1>3, <1>4 DEF ReadsOk

\* A traversal that begins.
LEMMA ReadBegins ==
  ASSUME Typed, ReadsOk, Grows, NEW t \in Terminals, ~Reading(t),
         NEW r \in 1 .. Len(request'), seen'[r] = t,
         request'[r].kind = "read",
         reads' = Append(reads, <<t, r>>),
         r \notin Ids(log)', \A s \in BeingRead : s \notin Ids(log)'
  PROVE  /\ ReadsOk' /\ \A s : s \in BeingRead' <=> s \in BeingRead \/ s = r
         /\ \A u : Reading(u) => Reading(u)'
<1>1. PICK n, m : n = Len(reads) /\ m = n + 1
  OBVIOUS
<1>2. reads \in Seq(Terminals \X Nat) /\ <<t, r>> \in Terminals \X Nat
  BY DEF ReadsOk, Grows, Typed
<1>3. /\ reads' \in Seq(Terminals \X Nat) /\ Len(reads') = m
      /\ reads'[m] = <<t, r>>
      /\ \A i \in 1 .. n : reads'[i] = reads[i]
  BY <1>1, <1>2, AppendProperties
<1>4. /\ n \in Nat /\ m \in 1 .. m
      /\ \A i \in 1 .. m : i \in 1 .. n \/ i = m
      /\ \A i \in 1 .. n : i \in 1 .. m
  BY <1>1, <1>2
<1>5. \A s \in 1 .. Len(request) : s \in 1 .. Len(request')
  BY DEF Typed, Grows
<1>6. /\ \A s : s \in BeingRead <=> \E i \in 1 .. n : reads[i][2] = s
      /\ \A u : Reading(u) <=> \E i \in 1 .. n : reads[i][1] = u
  BY <1>1, ReadsAre
<1>7. ASSUME NEW i \in 1 .. n
      PROVE  /\ reads'[i][2] \in 1 .. Len(request')
             /\ seen'[reads'[i][2]] = reads'[i][1]
             /\ request'[reads'[i][2]].kind = "read"
             /\ reads'[i][2] \notin Ids(log)'
             /\ reads'[i][1] # t
  <2>1. reads[i][2] \in BeingRead /\ Reading(reads[i][1])
    BY <1>6
  <2>2. /\ reads[i][2] \in 1 .. Len(request)
        /\ seen[reads[i][2]] = reads[i][1]
        /\ request[reads[i][2]].kind = "read"
    BY <1>1 DEF ReadsOk
  <2>3. /\ seen'[reads[i][2]] = reads[i][1]
        /\ request'[reads[i][2]].kind = "read"
    BY <2>2 DEF Grows
  <2> QED BY <1>3, <1>5, <2>1, <2>2, <2>3
<1>8. ASSUME NEW i \in 1 .. m
      PROVE  /\ reads'[i][2] \in 1 .. Len(request')
             /\ seen'[reads'[i][2]] = reads'[i][1]
             /\ request'[reads'[i][2]].kind = "read"
             /\ reads'[i][2] \notin Ids(log)'
  BY <1>3, <1>4, <1>7
<1>9. ASSUME NEW i \in 1 .. m, NEW j \in 1 .. m, reads'[i][1] = reads'[j][1]
      PROVE  i = j
  <2>1. CASE i \in 1 .. n /\ j \in 1 .. n
    BY <1>1, <1>3, <1>9, <2>1 DEF ReadsOk
  <2>2. CASE i = m /\ j \in 1 .. n
    BY <1>3, <1>7, <1>9, <2>2
  <2>3. CASE j = m /\ i \in 1 .. n
    BY <1>3, <1>7, <1>9, <2>3
  <2> QED BY <1>4, <2>1, <2>2, <2>3
<1>10. ReadsOk'
  BY <1>3, <1>8, <1>9 DEF ReadsOk
<1>11. DOMAIN reads' = 1 .. m
  BY <1>3, LenProperties
<1>12. \A s : s \in BeingRead' <=> \E i \in 1 .. m : reads'[i][2] = s
  BY <1>11 DEF BeingRead
<1>13. \A u : Reading(u)' <=> \E i \in 1 .. m : reads'[i][1] = u
  BY <1>11 DEF Reading
<1>14. ASSUME NEW s PROVE s \in BeingRead' <=> s \in BeingRead \/ s = r
  BY <1>3, <1>4, <1>6, <1>12
<1>15. \A u : Reading(u) => Reading(u)'
  BY <1>3, <1>4, <1>6, <1>13
<1> QED BY <1>10, <1>14, <1>15

\* A handoff that goes on waiting.
LEMMA HandoffStays ==
  ASSUME Typed, Grows, nextId <= nextId', NEW h, HandoffOk(h),
         handoffs'[h] = handoffs[h], handoffs[h].request \notin Ids(log)',
         \A r \in Ids(log) : r \in Ids(log)'
  PROVE  HandoffOk(h)'
<1>1. \A r \in 1 .. Len(request) : r \in 1 .. Len(request')
  BY DEF Typed, Grows
<1>2. PICK it : it = handoffs[h]
  OBVIOUS
<1>3. h \in 1 .. nextId' - 1
  <2>1. nextId \in Nat /\ nextId' \in Nat
    BY DEF Typed, Grows
  <2>2. h \in 1 .. nextId - 1
    BY DEF HandoffOk
  <2>3. PICK n, m : n = nextId /\ m = nextId'
    OBVIOUS
  <2>4. /\ n \in Nat /\ m \in Nat /\ n <= m /\ h \in 1 .. n - 1
    BY <2>1, <2>2, <2>3
  <2>5. h \in 1 .. m - 1
    BY <2>4
  <2> QED BY <2>3, <2>5
<1>4. /\ it \in HandoffType /\ it.request \in 1 .. Len(request)
      /\ it.request \notin Ids(log)' /\ it.waiting \subseteq it.terminals
      /\ request[it.request].kind = "handoff"
  BY <1>2 DEF HandoffOk
<1>5. ASSUME NEW s \in 1 .. it.request - 1,
             seen'[s] \in captured'[it.request] \ it.waiting,
             request'[s].kind # "handoff"
      PROVE  s \in Ids(log)'
  <2>1. s \in 1 .. Len(request)
    BY <1>4 DEF Typed
  <2>2. /\ seen[s] \in captured[it.request] \ it.waiting
        /\ request[s].kind # "handoff"
    BY <1>4, <1>5, <2>1 DEF Grows
  <2> QED BY <1>2, <2>2 DEF HandoffOk
<1>6. request'[it.request].kind = "handoff"
  BY <1>4 DEF Grows
<1> QED BY <1>1, <1>2, <1>3, <1>4, <1>5, <1>6 DEF HandoffOk

\* Handoffs that go on waiting.
LEMMA HandoffsStay ==
  ASSUME Typed, HandoffsOk, Grows, nextId <= nextId',
         \A h \in DOMAIN handoffs' :
           /\ h \in DOMAIN handoffs /\ handoffs'[h] = handoffs[h]
           /\ handoffs[h].request \notin Ids(log)',
         \A r \in Ids(log) : r \in Ids(log)'
  PROVE  HandoffsOk'
<1>1. ASSUME NEW h \in DOMAIN handoffs' PROVE HandoffOk(h)'
  BY HandoffStays DEF HandoffsOk
<1> QED BY <1>1 DEF HandoffsOk

\* Counts: a handoff that is taken out of the table.
LEMMA WaitersWithout ==
  ASSUME NEW hs, NEW m \in Nat, DOMAIN hs \subseteq 1 .. m,
         NEW h \in DOMAIN hs, NEW gs,
         gs = [g \in DOMAIN hs \ {h} |-> hs[g]], NEW t
  PROVE  /\ Cardinality(Waiters(hs, t)) \in Nat
         /\ Cardinality(Waiters(gs, t)) \in Nat
         /\ Cardinality(Waiters(gs, t)) =
              IF t \in hs[h].terminals THEN Cardinality(Waiters(hs, t)) - 1
              ELSE Cardinality(Waiters(hs, t))
<1> DEFINE W == Waiters(hs, t)
<1>1. IsFiniteSet(1 .. m)
  BY FS_Interval
<1>2. W \in SUBSET (1 .. m)
  BY DEF Waiters
<1>3. IsFiniteSet(W)
  BY <1>1, <1>2, FS_Subset
<1>4. Waiters(gs, t) = W \ {h}
  BY DEF Waiters
<1>5. h \in W <=> t \in hs[h].terminals
  BY DEF Waiters
<1> HIDE DEF W
<1>6. /\ IsFiniteSet(W \ {h})
      /\ Cardinality(W \ {h}) = IF h \in W THEN Cardinality(W) - 1
                                ELSE Cardinality(W)
  BY <1>3, FS_RemoveElement
<1>7. Cardinality(W) \in Nat /\ Cardinality(W \ {h}) \in Nat
  BY <1>3, <1>6, FS_CardinalityType
<1> QED BY <1>4, <1>5, <1>6, <1>7 DEF W

\* And one that is put into it.
LEMMA WaitersWith ==
  ASSUME NEW hs, NEW m \in Nat, DOMAIN hs \subseteq 1 .. m,
         NEW h, h \notin DOMAIN hs, NEW it, NEW gs,
         gs = [g \in DOMAIN hs \cup {h} |-> IF g = h THEN it ELSE hs[g]],
         NEW t
  PROVE  /\ Cardinality(Waiters(hs, t)) \in Nat
         /\ Cardinality(Waiters(gs, t)) \in Nat
         /\ Cardinality(Waiters(gs, t)) =
              IF t \in it.terminals THEN Cardinality(Waiters(hs, t)) + 1
              ELSE Cardinality(Waiters(hs, t))
<1> DEFINE W == Waiters(hs, t)
<1>1. IsFiniteSet(1 .. m)
  BY FS_Interval
<1>2. W \in SUBSET (1 .. m) /\ h \notin W
  BY DEF Waiters
<1>3. IsFiniteSet(W)
  BY <1>1, <1>2, FS_Subset
<1>4. Waiters(gs, t) = IF t \in it.terminals THEN W \cup {h} ELSE W
  BY DEF Waiters
<1> HIDE DEF W
<1>5. /\ IsFiniteSet(W \cup {h})
      /\ Cardinality(W \cup {h}) = IF h \in W THEN Cardinality(W)
                                   ELSE Cardinality(W) + 1
  BY <1>3, FS_AddElement
<1>6. Cardinality(W) \in Nat /\ Cardinality(W \cup {h}) \in Nat
  BY <1>3, <1>5, FS_CardinalityType
<1> QED BY <1>2, <1>4, <1>5, <1>6 DEF W

\* A step that leaves the table of handoffs alone.
LEMMA CountsStay ==
  ASSUME CountsOk, UNCHANGED <<handoffs, barriers>>
  PROVE  CountsOk'
BY DEF CountsOk, Waiters

\* One item leaves its queue, or none: o is the terminal it leaves, or no
\* terminal, and the other queues are as they were.
Leaves(o) ==
  /\ o \in Places
  /\ o \in Terminals => Queue(o) # <<>>
  /\ \A t \in Terminals :
       Queue(t)' = IF t = o THEN Tail(Queue(t)) ELSE Queue(t)

\* What stays in a queue.
Stays(x, t, o) == Has(Queue(t), x) /\ ~(t = o /\ x = Queue(o)[1])

\* The queues after such a step.
LEMMA QueuesShift ==
  ASSUME QueuesOk, NEW o, Leaves(o),
         \A t \in Terminals, x \in ItemType :
           Stays(x, t, o) =>
             /\ Waits(x, t)'
             /\ x.what = "barrier" =>
                  handoffs'[x.id].request = handoffs[x.id].request
  PROVE  /\ QueuesOk'
         /\ \A t \in Terminals : \A x : Has(Queue(t)', x) <=> Stays(x, t, o)
<1> SUFFICES ASSUME NEW t \in Terminals
             PROVE  /\ QueueOk(Queue(t), t)'
                    /\ \A x : Has(Queue(t)', x) <=> Stays(x, t, o)
  BY DEF QueuesOk
<1>1. PICK q, q2 : q = Queue(t) /\ q2 = Queue(t)'
  OBVIOUS
<1>2. PICK d : d = IF t = o THEN 1 ELSE 0
  OBVIOUS
<1>3. QueueOk(q, t) /\ q \in Seq(ItemType)
  BY <1>1 DEF QueuesOk, QueueOk
<1>4. Shifted(q, d, q2)
  <2>1. CASE t = o
    <3>1. q # <<>> /\ q2 = Tail(q)
      BY <1>1, <2>1 DEF Leaves
    <3> QED BY <1>2, <1>3, <2>1, <3>1, ShiftIs
  <2>2. CASE t # o
    <3>1. q2 = q
      BY <1>1, <2>2 DEF Leaves
    <3> QED BY <1>2, <1>3, <2>2, <3>1, ShiftIs
  <2> QED BY <2>1, <2>2
<1>5. \A x : Has(q, x) /\ (d = 1 => x # q[1]) <=> Stays(x, t, o)
  BY <1>1, <1>2 DEF Stays
<1>6. \A x \in ItemType :
        Has(q, x) /\ (d = 1 => x # q[1]) =>
          /\ Waits(x, t)'
          /\ x.what = "barrier" =>
               handoffs'[x.id].request = handoffs[x.id].request
  BY <1>5
<1>7. /\ QueueOk(q2, t)'
      /\ \A x : Has(q2, x) <=> Has(q, x) /\ (d = 1 => x # q[1])
  BY <1>3, <1>4, <1>6, QueueShifts
<1>8. QueueOk(Queue(t), t)'
  BY <1>1, <1>7 DEF QueueOk
<1> QED BY <1>1, <1>5, <1>7, <1>8

\* The books after such a step.
LEMMA BooksStay ==
  ASSUME IInv, Grows, NEW xs, Logs(xs), AsMeant(xs),
         ReadsOk', HandoffsOk', CountsOk', NEW o, Leaves(o),
         \A t \in Terminals, x \in ItemType :
           Stays(x, t, o) =>
             /\ Waits(x, t)'
             /\ x.what = "barrier" =>
                  handoffs'[x.id].request = handoffs[x.id].request,
         \A i \in 1 .. Len(xs), t \in Terminals :
           /\ xs[i][2] = "performed" /\ t = xs[i][3]
           /\ request'[xs[i][1]].kind = "input"
           => \A x \in ItemType : Stays(x, t, o) /\ x.what = "request" =>
                xs[i][1] < x.id,
         \A s \in 1 .. Len(request') :
           \/ s \in Ids(log)'
           \/ s \in BeingRead'
           \/ \E h \in DOMAIN handoffs' : handoffs'[h].request = s
           \/ /\ s \in 1 .. Len(request) /\ seen[s] \in Terminals
              /\ Stays(Item("request", s), seen[s], o)
  PROVE  Books'
<1>1. /\ Typed /\ LogOk /\ QueuesOk /\ QueueIsLater /\ CarriedOutAsMeant
  BY DEF IInv, Books
<1>2. /\ QueuesOk'
      /\ \A t \in Terminals : \A x : Has(Queue(t)', x) <=> Stays(x, t, o)
  BY <1>1, QueuesShift
<1>3. LogOk'
  BY <1>1, LogGrows
<1>4. CarriedOutAsMeant'
  BY <1>1, MeantStays
<1>5. QueueIsLater'
  <2>1. \A t \in Terminals, x \in ItemType :
          Has(Queue(t)', x) /\ x.what = "request" =>
            Has(Queue(t), x) \/ x.id > Len(request)
    BY <1>2 DEF Stays
  <2>2. \A i \in 1 .. Len(xs), t \in Terminals :
          /\ xs[i][2] = "performed" /\ t = xs[i][3]
          /\ request'[xs[i][1]].kind = "input"
          => \A x \in ItemType : Has(Queue(t)', x) /\ x.what = "request" =>
               xs[i][1] < x.id
    BY <1>2
  <2> QED BY <1>1, <1>2, <2>1, <2>2, LaterStays
<1>6. AllAccounted'
  <2> SUFFICES ASSUME NEW s \in 1 .. Len(request') PROVE Accounted(s)'
    BY DEF AllAccounted
  <2>1. CASE /\ s \in 1 .. Len(request) /\ seen[s] \in Terminals
             /\ Stays(Item("request", s), seen[s], o)
    <3>1. PICK t : t = seen[s]
      OBVIOUS
    <3>2. seen'[s] = t /\ t \in Terminals /\ Stays(Item("request", s), t, o)
      BY <2>1, <3>1 DEF Grows
    <3>3. Has(Queue(t)', Item("request", s))
      BY <1>2, <3>2
    <3>4. InQueue(s, t)'
      BY <3>3 DEF InQueue, Item, Has
    <3> QED BY <3>2, <3>4 DEF Accounted, InQueue, Item
  <2> QED BY <2>1 DEF Accounted
<1> QED BY <1>2, <1>3, <1>4, <1>5, <1>6 DEF Books

\* An item joins the queues of the terminals in G.
Joins(x, G) ==
  \A t \in Terminals :
    Queue(t)' = IF t \in G THEN Append(Queue(t), x) ELSE Queue(t)

\* The queues after such a step.
LEMMA QueuesGrow ==
  ASSUME QueuesOk, NEW x \in ItemType, NEW G, Joins(x, G),
         \A t \in Terminals, y \in ItemType :
           Has(Queue(t), y) =>
             /\ Waits(y, t)'
             /\ y.what = "barrier" =>
                  handoffs'[y.id].request = handoffs[y.id].request
             /\ t \in G => Before(y, x)',
         \A t \in G : Waits(x, t)'
  PROVE  /\ QueuesOk'
         /\ \A t \in Terminals : \A y :
              Has(Queue(t)', y) <=> Has(Queue(t), y) \/ (t \in G /\ y = x)
<1> SUFFICES ASSUME NEW t \in Terminals
             PROVE  /\ QueueOk(Queue(t), t)'
                    /\ \A y : Has(Queue(t)', y) <=>
                         Has(Queue(t), y) \/ (t \in G /\ y = x)
  BY DEF QueuesOk
<1>1. PICK q, q2 : q = Queue(t) /\ q2 = Queue(t)'
  OBVIOUS
<1>2. QueueOk(q, t) /\ q \in Seq(ItemType)
  BY <1>1 DEF QueuesOk, QueueOk
<1>3. CASE t \in G
  <2>1. Grown(q, x, q2) /\ Waits(x, t)'
    BY <1>1, <1>3 DEF Joins, Grown
  <2>2. \A y \in ItemType :
          Has(q, y) =>
            /\ Waits(y, t)' /\ Before(y, x)'
            /\ y.what = "barrier" =>
                 handoffs'[y.id].request = handoffs[y.id].request
    BY <1>1, <1>3
  <2>3. /\ QueueOk(q2, t)'
        /\ \A y : Has(q2, y) <=> Has(q, y) \/ y = x
    BY <1>2, <2>1, <2>2, QueueGrows
  <2>4. QueueOk(Queue(t), t)'
    BY <1>1, <2>3 DEF QueueOk
  <2> QED BY <1>1, <1>3, <2>3, <2>4
<1>4. CASE t \notin G
  <2>1. q2 = q
    BY <1>1, <1>4 DEF Joins
  <2>2. Shifted(q, 0, q2)
    BY <1>2, <2>1, ShiftIs
  <2>3. PICK d : d = 0
    OBVIOUS
  <2>4. \A y \in ItemType :
          Has(q, y) /\ (d = 1 => y # q[1]) =>
            /\ Waits(y, t)'
            /\ y.what = "barrier" =>
                 handoffs'[y.id].request = handoffs[y.id].request
    BY <1>1
  <2>5. QueueOk(q2, t)'
    BY <1>2, <2>2, <2>3, <2>4, QueueShifts
  <2>6. QueueOk(Queue(t), t)'
    BY <1>1, <2>5 DEF QueueOk
  <2> QED BY <1>1, <1>4, <2>1, <2>6
<1> QED BY <1>3, <1>4

\* The books after such a step.
LEMMA BooksGrow ==
  ASSUME IInv, Grows, log' = log, ReadsOk', HandoffsOk', CountsOk',
         NEW x \in ItemType, NEW G, Joins(x, G),
         \A t \in Terminals, y \in ItemType :
           Has(Queue(t), y) =>
             /\ Waits(y, t)'
             /\ y.what = "barrier" =>
                  handoffs'[y.id].request = handoffs[y.id].request
             /\ t \in G => Before(y, x)',
         \A t \in G : Waits(x, t)',
         x.what = "request" => x.id > Len(request),
         \A s \in 1 .. Len(request') :
           \/ s \in Ids(log)
           \/ s \in BeingRead'
           \/ \E h \in DOMAIN handoffs' : handoffs'[h].request = s
           \/ seen'[s] \in Terminals /\ InQueue(s, seen'[s])
           \/ seen'[s] \in Terminals \cap G /\ x = Item("request", s)
  PROVE  Books'
<1>1. /\ Typed /\ LogOk /\ QueuesOk /\ QueueIsLater /\ CarriedOutAsMeant
  BY DEF IInv, Books
<1>2. /\ QueuesOk'
      /\ \A t \in Terminals : \A y :
           Has(Queue(t)', y) <=> Has(Queue(t), y) \/ (t \in G /\ y = x)
  BY <1>1, QueuesGrow
<1>3. PICK xs : xs = <<>>
  OBVIOUS
<1>4. Logs(xs) /\ AsMeant(xs) /\ \A i : i \notin 1 .. Len(xs)
  BY <1>1, <1>3, NoEntry
<1>5. LogOk'
  BY <1>1, <1>4, LogGrows
<1>6. CarriedOutAsMeant'
  BY <1>1, <1>4, MeantStays
<1>7. QueueIsLater'
  <2>1. \A t \in Terminals, y \in ItemType :
          Has(Queue(t)', y) /\ y.what = "request" =>
            Has(Queue(t), y) \/ y.id > Len(request)
    BY <1>2
  <2> QED BY <1>1, <1>2, <1>4, <2>1, LaterStays
<1>8. AllAccounted'
  <2> SUFFICES ASSUME NEW s \in 1 .. Len(request') PROVE Accounted(s)'
    BY DEF AllAccounted
  <2>1. PICK t : t = seen'[s]
    OBVIOUS
  <2>2. CASE t \in Terminals /\ InQueue(s, t)
    <3>1. Has(Queue(t)', Item("request", s))
      BY <1>2, <2>2 DEF InQueue
    <3>2. InQueue(s, t)'
      BY <3>1 DEF InQueue, Item, Has
    <3> QED BY <2>1, <2>2, <3>2 DEF Accounted, InQueue, Item
  <2>3. CASE t \in Terminals \cap G /\ x = Item("request", s)
    <3>1. Has(Queue(t)', Item("request", s))
      BY <1>2, <2>3
    <3>2. InQueue(s, t)'
      BY <3>1 DEF InQueue, Item, Has
    <3> QED BY <2>1, <2>3, <3>2 DEF Accounted, InQueue, Item
  <2> QED BY <2>1, <2>2, <2>3 DEF Accounted
<1> QED BY <1>2, <1>5, <1>6, <1>7, <1>8 DEF Books

\* An item that goes on waiting.
LEMMA WaitsStay ==
  ASSUME Typed, QueuesOk, Grows, NEW t \in Terminals, NEW x,
         Has(Queue(t), x),
         x.what = "request" => x.id \notin Ids(log)' /\ x.id \notin BeingRead',
         x.what = "barrier" /\ x.id \in DOMAIN handoffs =>
           /\ x.id \in DOMAIN handoffs'
           /\ t \in handoffs[x.id].waiting => t \in handoffs'[x.id].waiting
  PROVE  Waits(x, t)'
<1>1. \A r \in 1 .. Len(request) : r \in 1 .. Len(request')
  BY DEF Typed, Grows
<1>2. ASSUME x.what = "request"
      PROVE  /\ x.id \in 1 .. Len(request') /\ seen'[x.id] = t
             /\ request'[x.id].kind # "handoff"
  <2>1. /\ x.id \in 1 .. Len(request) /\ seen[x.id] = t
        /\ request[x.id].kind # "handoff"
    BY <1>2, ItemIs
  <2> QED BY <1>1, <2>1 DEF Grows
<1>3. x.what = "barrier" =>
        x.id \in DOMAIN handoffs' /\ t \in handoffs'[x.id].waiting
  BY ItemIs
<1> QED BY <1>2, <1>3 DEF Waits

-----------------------------------------------------------------------------
(* Arrival *)

\* A request that has just arrived.
Arrived(r, kind, t, ts) ==
  /\ Grows
  /\ r = Len(request) + 1 /\ Len(request') = r
  /\ request'[r].kind = kind /\ seen'[r] = t /\ captured'[r] = ts
  /\ ~releasing /\ ~stopped /\ UNCHANGED releaseVars

\* Record is the arrival of a request.
LEMMA RecordIs ==
  ASSUME Typed, NEW kind \in Kinds, NEW name \in Names \cup {NoTerminal},
         kind # "handoff" => name \in Names,
         NEW t \in Places, NEW ts \in SUBSET Terminals,
         Record(kind, name, t, ts),
         queues' \in [Terminals -> Seq(ItemType)], nextId' \in Nat \ {0},
         stopped' \in BOOLEAN, NEW r, r = Len(request) + 1
  PROVE  Arrived(r, kind, t, ts)
<1>1. PICK n, x : n = Len(request) /\ x = [kind |-> kind, name |-> name]
  OBVIOUS
<1>2. /\ n \in Nat /\ n < MaxRequests /\ r = n + 1 /\ Len(seen) = n
      /\ Len(captured) = n /\ x \in RequestType
  BY <1>1 DEF Record, Typed, RequestType
<1>3. /\ request' = Append(request, x) /\ seen' = Append(seen, t)
      /\ captured' = Append(captured, ts)
  BY <1>1 DEF Record
<1>4. /\ request' \in Seq(RequestType) /\ Len(request') = r
      /\ request'[r] = x /\ \A s \in 1 .. n : request'[s] = request[s]
  BY <1>1, <1>2, <1>3, AppendProperties DEF Typed
<1>5. /\ seen' \in Seq(Places) /\ Len(seen') = r
      /\ seen'[r] = t /\ \A s \in 1 .. n : seen'[s] = seen[s]
  BY <1>1, <1>2, <1>3, AppendProperties DEF Typed
<1>6. /\ captured' \in Seq(SUBSET Terminals) /\ Len(captured') = r
      /\ captured'[r] = ts /\ \A s \in 1 .. n : captured'[s] = captured[s]
  BY <1>1, <1>2, <1>3, AppendProperties DEF Typed
<1>7. r \in Nat /\ r <= MaxRequests /\ n <= r
  BY <1>2, BoundsAssumption
<1>8. ASSUME NEW s \in 1 .. r, request'[s].kind # "handoff"
      PROVE  request'[s].name \in Names
  <2>1. s \in 1 .. n \/ s = r
    BY <1>2
  <2>2. CASE s = r
    BY <1>1, <1>4, <1>8, <2>2
  <2>3. CASE s \in 1 .. n
    BY <1>1, <1>4, <1>8, <2>3 DEF Typed
  <2> QED BY <2>1, <2>2, <2>3
<1>9. /\ UNCHANGED <<bind, taken, work, releasing>>
      /\ ~releasing /\ ~stopped
  BY DEF Record, releaseVars
<1>10. Typed'
  BY <1>4, <1>5, <1>6, <1>7, <1>8, <1>9 DEF Typed
<1>11. Grows
  BY <1>1, <1>4, <1>5, <1>6, <1>7, <1>10 DEF Grows
<1>12. request'[r].kind = kind
  BY <1>1, <1>4
<1> QED BY <1>4, <1>5, <1>6, <1>9, <1>11, <1>12 DEF Arrived, releaseVars

\* What is known before a request arrives.
LEMMA NewRequest ==
  ASSUME IInv, NEW r, NEW kind, NEW t, NEW ts, Arrived(r, kind, t, ts)
  PROVE  /\ r \in 1 .. Len(request') /\ r \in Nat /\ Len(request) \in Nat
         /\ r \notin Ids(log) /\ r \notin BeingRead
         /\ \A s \in 1 .. Len(request') : s \in 1 .. Len(request) \/ s = r
         /\ \A s \in 1 .. Len(request) : s < r
         /\ ~Holding /\ work = <<>>
         /\ \A h \in DOMAIN handoffs : handoffs[h].request < r
<1>1. /\ Len(request) \in Nat /\ r = Len(request) + 1 /\ Len(request') = r
  BY DEF IInv, Typed, Arrived
<1>2. /\ r \in 1 .. Len(request') /\ r \in Nat /\ r \notin 1 .. Len(request)
      /\ \A s \in 1 .. Len(request') : s \in 1 .. Len(request) \/ s = r
      /\ \A s \in 1 .. Len(request) : s < r
  BY <1>1
<1>3. r \notin Ids(log)
  <2>1. log \in Seq(Entries)
    BY DEF IInv, Books, LogOk, Entries
  <2>2. \A s : s \in Ids(log) <=> \E i \in 1 .. Len(log) : log[i][1] = s
    BY <2>1, IdsAre, Zenon
  <2> QED BY <1>2, <2>2 DEF IInv, Books, LogOk
<1>4. r \notin BeingRead
  BY <1>2, BeingReadIs DEF IInv, Books
<1>5. ~Holding /\ work = <<>>
  BY DEF IInv, ReleaseOk, Arrived
<1>6. \A h \in DOMAIN handoffs : handoffs[h].request < r
  BY <1>2 DEF IInv, Books, HandoffsOk, HandoffOk
<1> QED BY <1>1, <1>2, <1>3, <1>4, <1>5, <1>6

\* The queues when no release holds one.
LEMMA QueueAtRest ==
  ASSUME Typed, ~Holding, NEW t \in Terminals
  PROVE  Queue(t) = queues[t]
BY NoTerminalAssumption DEF Holding, Queue

\* A step that touches no queue and holds none.
LEMMA NoneLeaves ==
  ASSUME UNCHANGED <<queues, taken>>
  PROVE  Leaves(NoTerminal) /\ \A t \in Terminals : \A x :
           Stays(x, t, NoTerminal) <=> Has(Queue(t), x)
<1>1. \A t \in Terminals : t # NoTerminal /\ Queue(t)' = Queue(t)
  BY NoTerminalAssumption DEF Queue
<1> QED BY <1>1, NoTerminalAssumption DEF Leaves, Stays, Places

\* Of the requests that had arrived before.
LEMMA WasAccounted ==
  ASSUME IInv, NEW s \in 1 .. Len(request)
  PROVE  \/ s \in Ids(log)
         \/ s \in BeingRead
         \/ \E h \in DOMAIN handoffs : handoffs[h].request = s
         \/ seen[s] \in Terminals /\ Has(Queue(seen[s]), Item("request", s))
BY DEF IInv, Books, AllAccounted, Accounted, InQueue

\* A request that is answered when it arrives.
LEMMA AnsweredAtOnce ==
  ASSUME IInv, NEW r, NEW kind, NEW t \in Places, NEW ts,
         Arrived(r, kind, t, ts),
         UNCHANGED <<queues, handoffs, barriers, nextId, reads>>,
         NEW o \in Outcomes, NEW p \in Places,
         log' = log \o Entry(r, o, p),
         o = "performed" =>
           /\ p = t /\ (kind = "handoff" => ts = {})
           /\ kind = "input" /\ t \in Terminals => Queue(t) = <<>>
  PROVE  Books'
<1>1. /\ Typed /\ LogOk /\ ReadsOk /\ HandoffsOk /\ CountsOk /\ QueuesOk
      /\ Grows /\ UNCHANGED taken /\ Len(request') \in Nat
      /\ request'[r].kind = kind /\ seen'[r] = t /\ captured'[r] = ts
  <2>1. Typed'
    BY DEF Arrived, Grows
  <2> QED BY <2>1 DEF IInv, Books, Arrived, releaseVars, Typed
<1>2. /\ r \in 1 .. Len(request') /\ r \in Nat /\ Len(request) \in Nat
      /\ r \notin Ids(log) /\ r \notin BeingRead
      /\ \A s \in 1 .. Len(request') : s \in 1 .. Len(request) \/ s = r
      /\ \A s \in 1 .. Len(request) : s < r
      /\ \A h \in DOMAIN handoffs : handoffs[h].request < r
  BY NewRequest
<1>3. PICK xs : xs = Entry(r, o, p) /\ Adds(xs)
  BY DEF Adds
<1>a. Logs(xs) /\ Single(xs, r, o, p)
  BY <1>1, <1>2, <1>3, OneEntry
<1>4. /\ Logs(xs) /\ \A s : s \in Ids(xs) <=> s = r
      /\ Len(xs) = 1 /\ xs[1] = <<r, o, p>>
      /\ \A i \in 1 .. Len(xs) : i = 1
  BY <1>a DEF Single
<1>5. \A s : s \in Ids(log)' <=> s \in Ids(log) \/ s = r
  BY <1>1, <1>4, LogGrows
<1>6. ASSUME NEW j \in 1 .. Len(log) PROVE log[j][1] < r
  BY <1>1, <1>2 DEF LogOk
<1>7. AsMeant(xs)
  <2>1. ASSUME o = "performed"
        PROVE  /\ kind # "handoff" => p = seen'[r]
               /\ kind = "handoff" => captured'[r] = {}
    BY <1>1, <2>1
  <2> QED BY <1>1, <1>4, <1>6, <2>1 DEF AsMeant
<1>8. ReadsOk' /\ BeingRead' = BeingRead
  <2>1. \A s \in BeingRead : s \notin Ids(log)'
    BY <1>1, <1>2, <1>5, BeingReadIs
  <2> QED BY <1>1, <2>1, ReadsStay
<1>9. HandoffsOk'
  <2>1. \A h \in DOMAIN handoffs' :
          /\ h \in DOMAIN handoffs /\ handoffs'[h] = handoffs[h]
          /\ handoffs[h].request \notin Ids(log)'
    <3>1. \A h \in DOMAIN handoffs :
            /\ handoffs[h].request \notin Ids(log)
            /\ handoffs[h].request \in Nat /\ handoffs[h].request # r
      BY <1>1, <1>2 DEF HandoffsOk, HandoffOk
    <3> QED BY <1>5, <3>1
  <2>2. nextId <= nextId'
    BY <1>1 DEF Typed
  <2> QED BY <1>1, <1>5, <2>1, <2>2, HandoffsStay
<1>10. CountsOk'
  BY <1>1, CountsStay
<1>11. Leaves(NoTerminal) /\ \A u \in Terminals : \A x :
         Stays(x, u, NoTerminal) <=> Has(Queue(u), x)
  BY <1>1, NoneLeaves
<1>12. ASSUME NEW u \in Terminals, NEW x \in ItemType, Stays(x, u, NoTerminal)
       PROVE  /\ Waits(x, u)'
              /\ x.what = "barrier" =>
                   handoffs'[x.id].request = handoffs[x.id].request
  <2>1. Has(Queue(u), x)
    BY <1>11, <1>12
  <2>2. x.what = "request" => x.id \in 1 .. Len(request) /\ x.id \notin Ids(log)
                                /\ x.id \notin BeingRead
    BY <1>1, <2>1, ItemIs
  <2>3. x.what = "request" => x.id \notin Ids(log)' /\ x.id \notin BeingRead'
    BY <1>2, <1>5, <1>8, <2>2
  <2>4. Waits(x, u)'
    BY <1>1, <2>1, <2>3, WaitsStay
  <2> QED BY <2>4
<1>13. \A i \in 1 .. Len(xs), u \in Terminals :
         /\ xs[i][2] = "performed" /\ u = xs[i][3]
         /\ request'[xs[i][1]].kind = "input"
         => \A x \in ItemType :
              Stays(x, u, NoTerminal) /\ x.what = "request" => xs[i][1] < x.id
  <2> SUFFICES ASSUME NEW i \in 1 .. Len(xs), NEW u \in Terminals,
                      xs[i][2] = "performed", u = xs[i][3],
                      request'[xs[i][1]].kind = "input",
                      NEW x \in ItemType, Stays(x, u, NoTerminal)
               PROVE  FALSE
    OBVIOUS
  <2>1. o = "performed" /\ u = t /\ kind = "input"
    BY <1>1, <1>4
  <2>2. Queue(u) = <<>> /\ Has(Queue(u), x)
    BY <1>11, <2>1
  <2> QED BY <2>2 DEF Has
<1>14. ASSUME NEW s \in 1 .. Len(request')
       PROVE  \/ s \in Ids(log)'
              \/ s \in BeingRead'
              \/ \E h \in DOMAIN handoffs' : handoffs'[h].request = s
              \/ /\ s \in 1 .. Len(request) /\ seen[s] \in Terminals
                 /\ Stays(Item("request", s), seen[s], NoTerminal)
  BY <1>2, <1>5, <1>8, <1>11, WasAccounted
<1> QED
  BY <1>1, <1>4, <1>7, <1>8, <1>9, <1>10, <1>11, <1>12, <1>13, <1>14, BooksStay

\* A read whose traversal begins when it arrives.
LEMMA ReadAtOnce ==
  ASSUME IInv, NEW r, NEW t \in Terminals, NEW ts,
         Arrived(r, "read", t, ts), ~Reading(t),
         UNCHANGED <<queues, handoffs, barriers, nextId, log>>,
         reads' = Append(reads, <<t, r>>)
  PROVE  Books' /\ \A u : Reading(u) => Reading(u)'
<1>1. /\ Typed /\ LogOk /\ ReadsOk /\ HandoffsOk /\ CountsOk /\ QueuesOk
      /\ Grows /\ UNCHANGED taken
      /\ request'[r].kind = "read" /\ seen'[r] = t
  BY DEF IInv, Books, Arrived, releaseVars
<1>2. /\ r \in 1 .. Len(request') /\ r \notin Ids(log) /\ r \notin BeingRead
      /\ \A s \in 1 .. Len(request') : s \in 1 .. Len(request) \/ s = r
      /\ \A s \in 1 .. Len(request) : s < r
      /\ r \in Nat
  BY NewRequest
<1>3. PICK xs : xs = <<>>
  OBVIOUS
<1>4. Logs(xs) /\ AsMeant(xs) /\ \A i : i \notin 1 .. Len(xs)
  BY <1>1, <1>3, NoEntry
<1>5. Ids(log)' = Ids(log)
  OBVIOUS
<1>6. /\ ReadsOk' /\ \A s : s \in BeingRead' <=> s \in BeingRead \/ s = r
      /\ \A u : Reading(u) => Reading(u)'
  BY <1>1, <1>2, <1>5, BeingReadIs, ReadBegins
<1>7. HandoffsOk'
  <2>1. \A h \in DOMAIN handoffs : handoffs[h].request \notin Ids(log)
    BY <1>1 DEF HandoffsOk, HandoffOk
  <2>2. nextId <= nextId'
    BY <1>1 DEF Typed
  <2> QED BY <1>1, <1>5, <2>1, <2>2, HandoffsStay
<1>8. CountsOk'
  BY <1>1, CountsStay
<1>9. Leaves(NoTerminal) /\ \A u \in Terminals : \A x :
        Stays(x, u, NoTerminal) <=> Has(Queue(u), x)
  BY <1>1, NoneLeaves
<1>10. ASSUME NEW u \in Terminals, NEW x \in ItemType, Stays(x, u, NoTerminal)
       PROVE  /\ Waits(x, u)'
              /\ x.what = "barrier" =>
                   handoffs'[x.id].request = handoffs[x.id].request
  <2>1. Has(Queue(u), x)
    BY <1>9, <1>10
  <2>2. x.what = "request" => /\ x.id \in 1 .. Len(request)
                              /\ x.id \notin Ids(log) /\ x.id \notin BeingRead
    BY <1>1, <2>1, ItemIs
  <2>3. x.what = "request" => x.id \notin Ids(log)' /\ x.id \notin BeingRead'
    BY <1>2, <1>5, <1>6, <2>2
  <2>4. Waits(x, u)'
    BY <1>1, <2>1, <2>3, WaitsStay
  <2> QED BY <2>4
<1>11. ASSUME NEW s \in 1 .. Len(request')
       PROVE  \/ s \in Ids(log)'
              \/ s \in BeingRead'
              \/ \E h \in DOMAIN handoffs' : handoffs'[h].request = s
              \/ /\ s \in 1 .. Len(request) /\ seen[s] \in Terminals
                 /\ Stays(Item("request", s), seen[s], NoTerminal)
  BY <1>2, <1>5, <1>6, <1>9, WasAccounted
<1> QED
  BY <1>1, <1>4, <1>6, <1>7, <1>8, <1>9, <1>10, <1>11, BooksStay

\* A request that is put aside when it arrives.
LEMMA DeferredAtOnce ==
  ASSUME IInv, NEW r, NEW kind, kind # "handoff", NEW t \in Terminals, NEW ts,
         Arrived(r, kind, t, ts), DeferRequest(t, r), UNCHANGED <<reads, log>>
  PROVE  /\ Books'
         /\ \A u \in Terminals : u # t => Queue(u)' = Queue(u)
<1>1. /\ Typed /\ LogOk /\ ReadsOk /\ HandoffsOk /\ CountsOk /\ QueuesOk
      /\ Grows /\ UNCHANGED <<taken, handoffs, barriers, nextId>>
      /\ request'[r].kind = kind /\ seen'[r] = t
      /\ queues' = [queues EXCEPT ![t] = Append(@, Item("request", r))]
  BY DEF IInv, Books, Arrived, releaseVars, DeferRequest
<1>2. /\ r \in 1 .. Len(request') /\ r \notin Ids(log) /\ r \notin BeingRead
      /\ \A s \in 1 .. Len(request') : s \in 1 .. Len(request) \/ s = r
      /\ \A s \in 1 .. Len(request) : s < r
      /\ r \in Nat /\ Len(request) \in Nat /\ ~Holding
      /\ \A h \in DOMAIN handoffs : handoffs[h].request < r
  BY NewRequest
<1>3. PICK x : x = Item("request", r)
  OBVIOUS
<1>4. x \in ItemType /\ x.what = "request" /\ x.id = r /\ r > Len(request)
  <2>1. r = Len(request) + 1
    BY DEF Arrived
  <2> QED BY <1>2, <1>3, <2>1 DEF Item, ItemType
<1>5. \A u \in Terminals : Queue(u) = queues[u] /\ Queue(u)' = queues'[u]
  <2>1. \A u \in Terminals : u # taken.terminal /\ u # taken'.terminal
    BY <1>1, <1>2, NoTerminalAssumption DEF Holding
  <2> QED BY <2>1 DEF Queue
<1>6. Joins(x, {t})
  <2>1. \A u \in Terminals :
          queues'[u] = IF u \in {t} THEN Append(queues[u], x) ELSE queues[u]
    BY <1>1, <1>3 DEF Typed
  <2> QED BY <1>5, <2>1 DEF Joins
<1>7. Ids(log)' = Ids(log)
  OBVIOUS
<1>8. ReadsOk' /\ BeingRead' = BeingRead
  BY <1>1, <1>7, BeingReadIs, ReadsStay
<1>9. HandoffsOk'
  <2>1. \A h \in DOMAIN handoffs : handoffs[h].request \notin Ids(log)
    BY <1>1 DEF HandoffsOk, HandoffOk
  <2>2. nextId <= nextId'
    BY <1>1 DEF Typed
  <2> QED BY <1>1, <1>7, <2>1, <2>2, HandoffsStay
<1>10. CountsOk'
  BY <1>1, CountsStay
<1>11. ASSUME NEW u \in Terminals, NEW y \in ItemType, Has(Queue(u), y)
       PROVE  /\ Waits(y, u)'
              /\ y.what = "barrier" =>
                   handoffs'[y.id].request = handoffs[y.id].request
              /\ u \in {t} => Before(y, x)'
  <2>1. /\ y.what = "request" => /\ y.id \in 1 .. Len(request)
                                 /\ y.id \notin Ids(log)
                                 /\ y.id \notin BeingRead
        /\ y.what = "barrier" => y.id \in DOMAIN handoffs
    BY <1>1, <1>11, ItemIs
  <2>2. y.what = "request" => y.id \notin Ids(log)' /\ y.id \notin BeingRead'
    BY <1>7, <1>8, <2>1
  <2>3. Waits(y, u)'
    BY <1>1, <1>11, <2>2, WaitsStay
  <2>4. /\ y.what = "request" => y.id < r
        /\ y.what = "barrier" => handoffs'[y.id].request < r
    BY <1>1, <1>2, <2>1
  <2>5. Before(y, x)'
    BY <1>4, <2>4 DEF Before
  <2> QED BY <1>1, <2>3, <2>5
<1>12. Waits(x, t)'
  BY <1>1, <1>2, <1>4, <1>7, <1>8 DEF Waits
<1>13. ASSUME NEW s \in 1 .. Len(request')
       PROVE  \/ s \in Ids(log)
              \/ s \in BeingRead'
              \/ \E h \in DOMAIN handoffs' : handoffs'[h].request = s
              \/ seen'[s] \in Terminals /\ InQueue(s, seen'[s])
              \/ seen'[s] \in Terminals \cap {t} /\ x = Item("request", s)
  <2>1. CASE s = r
    BY <1>1, <1>3, <2>1
  <2>2. CASE s \in 1 .. Len(request)
    <3>1. seen'[s] = seen[s]
      BY <1>1, <2>2 DEF Grows
    <3> QED BY <1>1, <1>8, <2>2, <3>1, WasAccounted DEF InQueue
  <2> QED BY <1>2, <2>1, <2>2
<1>14. x.what = "request" => x.id > Len(request)
  BY <1>4
<1>15. \A u \in {t} : Waits(x, u)'
  BY <1>12
<1>16. Books'
  BY <1>1, <1>4, <1>6, <1>8, <1>9, <1>10, <1>11, <1>13, <1>14, <1>15, BooksGrow
<1>17. \A u \in Terminals : u # t => Queue(u)' = Queue(u)
  BY <1>6 DEF Joins
<1> QED BY <1>16, <1>17

\* Nothing is released by an arrival.
LEMMA ReleaseRests ==
  ASSUME IInv, ~releasing, UNCHANGED releaseVars
  PROVE  ReleaseOk'
BY DEF IInv, ReleaseOk, Holding, releaseVars

\* Sources remain.
LEMMA SourcesStay ==
  ASSUME SourcesOk,
         \A t \in Terminals : Queue(t)' # <<>> => Queue(t) # <<>>,
         \A t \in Terminals : Reading(t) => Reading(t)',
         UNCHANGED <<barriers, work, taken>>
  PROVE  SourcesOk'
BY DEF SourcesOk, HasSource, BlockedByHandoff

\* A request comes from the socket.
LEMMA ArriveStep ==
  ASSUME IInv, NEW kind \in Kinds, NEW name \in Names, Arrive(kind, name)
  PROVE  IInv'
<1>1. PICK r, t : r = Len(request) + 1 /\ t = bind[name]
  OBVIOUS
<1> DEFINE Missing == /\ t = NoTerminal
                      /\ log' = log \o Entry(r, "missing", NoTerminal)
                      /\ UNCHANGED <<queueVars, reads>>
           Waiting == /\ t # NoTerminal /\ ShouldDefer(kind, t)
                      /\ DeferRequest(t, r)
                      /\ UNCHANGED <<reads, log>>
           Frozen == /\ t # NoTerminal /\ ~ShouldDefer(kind, t) /\ Reading(t)
                     /\ log' = log \o Entry(r, "frozen", t)
                     /\ UNCHANGED <<queueVars, reads>>
           Performed == /\ t # NoTerminal /\ ~ShouldDefer(kind, t)
                        /\ ~Reading(t) /\ Perform(r, kind, t)
                        /\ UNCHANGED queueVars
<1>2. /\ kind # "handoff" /\ Record(kind, name, t, {}) /\ UNCHANGED stopped
      /\ Missing \/ Waiting \/ Frozen \/ Performed
  BY <1>1 DEF Arrive
<1>3. Typed /\ t \in Places /\ (t # NoTerminal => t \in Terminals)
  BY <1>1 DEF IInv, Typed, Places
<1>4. queues' \in [Terminals -> Seq(ItemType)] /\ nextId' \in Nat \ {0}
  <2>1. CASE Waiting
    <3>1. PICK x : x = Item("request", r)
      OBVIOUS
    <3>2. x \in ItemType
      BY <1>1, <1>3, <3>1 DEF Item, ItemType, Typed
    <3>3. t \in Terminals /\ queues[t] \in Seq(ItemType)
      BY <1>3, <2>1 DEF Typed
    <3>4. Append(queues[t], x) \in Seq(ItemType)
      BY <3>2, <3>3, AppendProperties
    <3>5. queues' = [queues EXCEPT ![t] = Append(queues[t], x)]
      BY <2>1, <3>1 DEF DeferRequest
    <3> QED BY <1>3, <2>1, <3>3, <3>4, <3>5 DEF Typed, DeferRequest
  <2>2. CASE Missing \/ Frozen \/ Performed
    BY <1>3, <2>2 DEF queueVars, Typed
  <2> QED BY <1>2, <2>1, <2>2
<1>5. Arrived(r, kind, t, {})
  BY <1>1, <1>2, <1>3, <1>4, RecordIs DEF Typed
<1>6. Grows /\ UNCHANGED releaseVars /\ ~releasing
  BY <1>5 DEF Arrived
<1>7. ~Holding /\ UNCHANGED <<work, taken>>
  BY <1>5, <1>6, NewRequest DEF releaseVars
<1>8. Typed' /\ ReleaseOk'
  BY <1>6, <1>7, ReleaseRests DEF Grows
<1>9. \A u \in Terminals : Queue(u) # <<>> => Reading(u) \/ BlockedByHandoff(u)
  <2>1. work = <<>> /\ \A u \in Terminals : taken.terminal # u
    BY <1>5, <1>7, NewRequest, NoTerminalAssumption DEF Holding
  <2>2. \A i : i \notin 1 .. Len(work)
    BY <2>1
  <2> QED BY <2>1, <2>2 DEF IInv, SourcesOk, HasSource
<1> DEFINE Quiet == UNCHANGED <<queues, handoffs, barriers, nextId>>
<1>10. Quiet => \A u \in Terminals : Queue(u)' = Queue(u)
  BY <1>7 DEF Queue
<1>11. ASSUME Missing PROVE Books' /\ SourcesOk'
  <2>1. Quiet /\ UNCHANGED reads
    BY <1>11 DEF queueVars
  <2>2. Books'
    BY <1>3, <1>5, <1>11, <2>1, AnsweredAtOnce DEF Outcomes, Places
  <2>3. \A u : Reading(u) => Reading(u)'
    BY <2>1 DEF Reading
  <2>4. SourcesOk'
    BY <1>7, <1>10, <2>1, <2>3, SourcesStay DEF IInv
  <2> QED BY <2>2, <2>4
<1>12. ASSUME Frozen PROVE Books' /\ SourcesOk'
  <2>1. Quiet /\ UNCHANGED reads
    BY <1>12 DEF queueVars
  <2>2. Books'
    BY <1>3, <1>5, <1>12, <2>1, AnsweredAtOnce DEF Outcomes, Places
  <2>3. \A u : Reading(u) => Reading(u)'
    BY <2>1 DEF Reading
  <2>4. SourcesOk'
    BY <1>7, <1>10, <2>1, <2>3, SourcesStay DEF IInv
  <2> QED BY <2>2, <2>4
<1>13. ASSUME Performed PROVE Books' /\ SourcesOk'
  <2>1. Quiet /\ t \in Terminals /\ ~Reading(t)
    BY <1>3, <1>13 DEF queueVars
  <2>2. kind = "input" => Queue(t) = <<>>
    BY <1>9, <1>13, <2>1 DEF ShouldDefer
  <2>3. CASE log' = log \o Entry(r, "performed", t) /\ UNCHANGED reads
    <3>1. Books'
      BY <1>2, <1>3, <1>5, <2>1, <2>2, <2>3, AnsweredAtOnce DEF Outcomes
    <3>2. \A u : Reading(u) => Reading(u)'
      BY <2>3 DEF Reading
    <3> QED BY <1>7, <1>10, <2>1, <3>1, <3>2, SourcesStay DEF IInv
  <2>4. CASE /\ kind = "read" /\ reads' = Append(reads, <<t, r>>)
             /\ UNCHANGED log
    <3>1. Books' /\ \A u : Reading(u) => Reading(u)'
      BY <1>5, <2>1, <2>4, ReadAtOnce
    <3> QED BY <1>7, <1>10, <2>1, <3>1, SourcesStay DEF IInv
  <2> QED BY <1>13, <2>3, <2>4 DEF Perform
<1>14. ASSUME Waiting PROVE Books' /\ SourcesOk'
  <2>1. t \in Terminals /\ ShouldDefer(kind, t) /\ DeferRequest(t, r)
    BY <1>3, <1>14
  <2>2. Books' /\ \A u \in Terminals : u # t => Queue(u)' = Queue(u)
    BY <1>2, <1>5, <1>14, <2>1, DeferredAtOnce
  <2>3. UNCHANGED <<barriers, reads>>
    BY <1>14, <2>1 DEF DeferRequest
  <2>4. Reading(t) \/ BlockedByHandoff(t)
    BY <2>1 DEF ShouldDefer
  <2>5. \A u \in Terminals :
          Queue(u)' # <<>> => Reading(u) \/ BlockedByHandoff(u)
    BY <1>9, <2>2, <2>4
  <2>6. SourcesOk'
    BY <2>3, <2>5 DEF SourcesOk, HasSource, Reading, BlockedByHandoff
  <2> QED BY <2>2, <2>6
<1> HIDE DEF Missing, Waiting, Frozen, Performed
<1>15. Books' /\ SourcesOk'
  BY <1>2, <1>11, <1>12, <1>13, <1>14
<1> QED BY <1>8, <1>15 DEF IInv

-----------------------------------------------------------------------------
(* Release *)

\* The books when a queue is only moved.
LEMMA BooksRest ==
  ASSUME IInv, Typed',
         UNCHANGED <<arrivalVars, reads, handoffs, barriers, nextId, log>>,
         \A t \in Terminals : Queue(t)' = Queue(t)
  PROVE  Books'
<1>1. UNCHANGED <<request, seen, captured>>
  BY DEF arrivalVars
<1>2. LogOk' /\ ReadsOk' /\ HandoffsOk' /\ CountsOk' /\ CarriedOutAsMeant'
  <2>1. LogOk' /\ ReadsOk'
    BY <1>1 DEF IInv, Books, LogOk, ReadsOk, Ids
  <2>2. HandoffsOk'
    BY <1>1 DEF IInv, Books, HandoffsOk, HandoffOk, Ids
  <2>3. CountsOk'
    BY CountsStay DEF IInv, Books
  <2>4. CarriedOutAsMeant'
    BY <1>1 DEF IInv, Books, CarriedOutAsMeant, InputInArrivalOrder,
                HandoffAfterEarlier, IdentityKept, IsPerformed
  <2> QED BY <2>1, <2>2, <2>3, <2>4
<1>3. QueuesOk'
  BY <1>1 DEF IInv, Books, QueuesOk, QueueOk, Waits, Before, Ids, BeingRead
<1>4. QueueIsLater'
  BY <1>1 DEF IInv, Books, QueueIsLater, IsPerformed
<1>5. AllAccounted'
  <2> SUFFICES ASSUME NEW s \in 1 .. Len(request') PROVE Accounted(s)'
    BY DEF AllAccounted
  <2>1. Accounted(s)
    BY <1>1 DEF IInv, Books, AllAccounted
  <2>2. /\ Ids(log)' = Ids(log) /\ BeingRead' = BeingRead
        /\ seen'[s] = seen[s]
    BY <1>1 DEF BeingRead
  <2>3. CASE seen[s] \in Terminals /\ InQueue(s, seen[s])
    BY <2>2, <2>3 DEF Accounted, InQueue
  <2> QED BY <2>1, <2>2, <2>3 DEF Accounted
<1> QED BY <1>2, <1>3, <1>4, <1>5 DEF Books

\* A release takes the queue of a terminal.
LEMMA TakeQueueStep ==
  ASSUME IInv, TakeQueue
  PROVE  IInv'
<1>1. PICK t, q : t = Head(work) /\ q = queues[t]
  OBVIOUS
<1>2. /\ Typed /\ ReleaseOk /\ SourcesOk
      /\ releasing /\ ~Holding /\ work # <<>>
      /\ taken' = [terminal |-> t, queue |-> q]
      /\ queues' = [queues EXCEPT ![t] = <<>>]
      /\ work' = Tail(work)
      /\ UNCHANGED <<handoffs, barriers, nextId, reads, releasing,
                     arrivalVars, bind, rebinds, log, stopped>>
  BY <1>1 DEF TakeQueue, IInv
<1>3. work \in Seq(Terminals)
  BY <1>2 DEF Typed
<1>4. /\ t \in Terminals /\ work' \in Seq(Terminals) /\ Len(work) \in Nat
      /\ Len(work') = Len(work) - 1 /\ t = work[1]
      /\ \A i \in 1 .. Len(work') : work'[i] = work[i + 1]
  BY <1>1, <1>2, <1>3, HeadTailProperties
<1>5. /\ q \in Seq(ItemType) /\ <<>> \in Seq(ItemType)
      /\ taken' \in [terminal : Places, queue : Seq(ItemType)]
      /\ taken'.terminal = t /\ taken'.queue = q
  BY <1>1, <1>2, <1>4, EmptySeq DEF Typed, Places
<1>6. queues' \in [Terminals -> Seq(ItemType)] /\ queues'[t] = <<>>
  BY <1>2, <1>4, <1>5 DEF Typed
<1>7. Typed'
  BY <1>2, <1>4, <1>5, <1>6 DEF Typed, arrivalVars
<1>8. ASSUME NEW u \in Terminals PROVE Queue(u)' = Queue(u)
  <2>1. Queue(u) = queues[u]
    BY <1>2, QueueAtRest
  <2>2. Queue(u)' = IF u = t THEN q ELSE queues[u]
    BY <1>2, <1>4, <1>5 DEF Queue, Typed
  <2> QED BY <1>1, <2>1, <2>2
<1>9. Books'
  BY <1>2, <1>7, <1>8, BooksRest
<1>10. ReleaseOk'
  <2>1. t # NoTerminal
    BY <1>4, NoTerminalAssumption
  <2> QED BY <1>2, <1>5, <1>6, <2>1 DEF ReleaseOk, Holding
<1>11. ASSUME NEW u \in Terminals, Queue(u)' # <<>> PROVE HasSource(u)'
  <2>1. HasSource(u) /\ taken.terminal # u
    BY <1>2, <1>8, <1>11, NoTerminalAssumption DEF SourcesOk, Holding
  <2>2. CASE Reading(u) \/ BlockedByHandoff(u)
    BY <1>2, <2>2 DEF HasSource, Reading, BlockedByHandoff
  <2>3. CASE \E i \in 1 .. Len(work) : work[i] = u
    <3>1. PICK i \in 1 .. Len(work) : work[i] = u
      BY <2>3
    <3>2. CASE i = 1
      BY <1>4, <1>5, <3>1, <3>2 DEF HasSource
    <3>3. CASE i # 1
      <4>1. PICK j : j = i - 1
        OBVIOUS
      <4>2. j \in 1 .. Len(work') /\ j + 1 = i
        BY <1>4, <3>3, <4>1
      <4>3. work'[j] = u
        BY <1>4, <3>1, <4>2
      <4> QED BY <4>2, <4>3 DEF HasSource
    <3> QED BY <3>2, <3>3
  <2> QED BY <2>1, <2>2, <2>3 DEF HasSource
<1> QED BY <1>7, <1>9, <1>10, <1>11 DEF IInv, SourcesOk

\* What a release holds.
LEMMA HeldIs ==
  ASSUME IInv, Holding, NEW o, o = taken.terminal
  PROVE  /\ o \in Terminals /\ Queue(o) = taken.queue
         /\ queues[o] = <<>> /\ releasing
         /\ Queue(o) \in Seq(ItemType)
BY DEF IInv, Typed, ReleaseOk, Holding, Queue, Places

\* The rest of a queue is put back.
LEMMA RestoreQueueStep ==
  ASSUME IInv, RestoreQueue
  PROVE  IInv'
<1>1. PICK o, q : o = taken.terminal /\ q = taken.queue
  OBVIOUS
<1>2. /\ Holding /\ (q = <<>> \/ Reading(o))
      /\ queues' = [queues EXCEPT ![o] = @ \o q]
      /\ taken' = NotTaken
      /\ UNCHANGED <<handoffs, barriers, nextId, work, releasing, reads,
                     arrivalVars, bind, rebinds, log, stopped>>
  BY <1>1 DEF RestoreQueue
<1>3. /\ Typed /\ ReleaseOk /\ SourcesOk
      /\ o \in Terminals /\ Queue(o) = q /\ queues[o] = <<>> /\ releasing
      /\ q \in Seq(ItemType) /\ queues \in [Terminals -> Seq(ItemType)]
  BY <1>1, <1>2, HeldIs DEF IInv, Typed
<1>4. <<>> \o q = q
  BY <1>3, ConcatEmptySeq
<1>5. queues' = [queues EXCEPT ![o] = q]
  BY <1>2, <1>3, <1>4
<1>6. /\ taken'.terminal = NoTerminal /\ taken'.queue = <<>>
      /\ <<>> \in Seq(ItemType)
      /\ taken' \in [terminal : Places, queue : Seq(ItemType)]
  BY <1>2, EmptySeq DEF NotTaken, Places
<1>7. Typed'
  BY <1>2, <1>3, <1>5, <1>6 DEF Typed, arrivalVars
<1>8. ASSUME NEW u \in Terminals PROVE Queue(u)' = Queue(u)
  <2>1. Queue(u)' = queues'[u]
    BY <1>6, NoTerminalAssumption DEF Queue
  <2>2. queues'[u] = IF u = o THEN q ELSE queues[u]
    BY <1>3, <1>5
  <2> QED BY <1>1, <1>3, <2>1, <2>2 DEF Queue
<1>9. Books'
  BY <1>2, <1>7, <1>8, BooksRest
<1>10. ReleaseOk'
  BY <1>2, <1>3, <1>6 DEF ReleaseOk, Holding
<1>11. ASSUME NEW u \in Terminals, Queue(u)' # <<>> PROVE HasSource(u)'
  <2>1. HasSource(u)
    BY <1>3, <1>8, <1>11 DEF SourcesOk
  <2>2. CASE u = o
    BY <1>2, <1>3, <1>8, <1>11, <2>2 DEF HasSource, Reading
  <2>3. CASE u # o
    BY <1>1, <1>2, <2>1, <2>3 DEF HasSource, Reading, BlockedByHandoff
  <2> QED BY <2>2, <2>3
<1> QED BY <1>7, <1>9, <1>10, <1>11 DEF IInv, SourcesOk

\* A release ends: no terminal is left to look at and no handoff is ready.
LEMMA EndReleaseStep ==
  ASSUME IInv, EndRelease
  PROVE  IInv'
<1>1. /\ ~Holding /\ work = <<>> /\ releasing' = FALSE
      /\ UNCHANGED <<reads, queues, handoffs, barriers, nextId, work, taken,
                     arrivalVars, bind, rebinds, log, stopped>>
  BY DEF EndRelease, queueVars
<1>2. Typed'
  BY <1>1 DEF IInv, Typed, arrivalVars
<1>3. \A t \in Terminals : Queue(t)' = Queue(t)
  BY <1>1 DEF Queue
<1>4. Books'
  BY <1>1, <1>2, <1>3, BooksRest
<1>5. ReleaseOk'
  BY <1>1 DEF IInv, ReleaseOk, Holding
<1>6. SourcesOk'
  BY <1>1, <1>3, SourcesStay DEF IInv, Reading
<1> QED BY <1>2, <1>4, <1>5, <1>6 DEF IInv

\* A name comes to mean another terminal.
LEMMA RebindStep ==
  ASSUME IInv, NEW name \in Names, NEW t \in Terminals \cup {NoTerminal},
         Rebind(name, t)
  PROVE  IInv'
<1>1. /\ bind' = [bind EXCEPT ![name] = t]
      /\ UNCHANGED <<reads, queues, handoffs, barriers, nextId, work, taken,
                     releasing, arrivalVars, log, stopped>>
  BY DEF Rebind, queueVars, releaseVars
<1>2. Typed'
  BY <1>1 DEF IInv, Typed, arrivalVars, Places
<1>3. \A u \in Terminals : Queue(u)' = Queue(u)
  BY <1>1 DEF Queue
<1>4. Books'
  BY <1>1, <1>2, <1>3, BooksRest
<1>5. ReleaseOk'
  BY <1>1 DEF IInv, ReleaseOk, Holding
<1>6. SourcesOk'
  BY <1>1, <1>3, SourcesStay DEF IInv, Reading
<1> QED BY <1>2, <1>4, <1>5, <1>6 DEF IInv

\* The item a release takes next is the first of its queue.
FirstOf(x, o) ==
  /\ o \in Terminals /\ Queue(o) # <<>> /\ x = Queue(o)[1]
  /\ x \in ItemType /\ Has(Queue(o), x)
  /\ \A y : Has(Queue(o), y) => y = x \/ Before(x, y)

\* The head of the queue a release holds is such an item.
LEMMA FirstIs ==
  ASSUME IInv, Holding, taken.queue # <<>>,
         NEW o, o = taken.terminal, NEW x, x = Head(taken.queue)
  PROVE  FirstOf(x, o)
<1>1. PICK q : q = Queue(o)
  OBVIOUS
<1>2. /\ o \in Terminals /\ q = taken.queue /\ q \in Seq(ItemType)
      /\ QueueOk(q, o)
  BY <1>1, HeldIs DEF IInv, Books, QueuesOk
<1>3. /\ Head(q) = q[1] /\ 1 \in 1 .. Len(q) /\ q[1] \in ItemType
  BY <1>2, ShiftIs
<1>4. ASSUME NEW y, Has(q, y) PROVE y = x \/ Before(x, y)
  <2>1. PICK i \in 1 .. Len(q) : q[i] = y
    BY <1>4 DEF Has
  <2>2. CASE i = 1
    BY <1>2, <1>3, <2>1, <2>2
  <2>3. CASE i # 1
    BY <1>2, <1>3, <2>1, <2>3 DEF QueueOk
  <2> QED BY <2>2, <2>3
<1>5. x = q[1] /\ Has(q, x)
  BY <1>2, <1>3 DEF Has
<1> QED BY <1>1, <1>2, <1>3, <1>4, <1>5 DEF FirstOf

\* The first item leaves the queue that a release holds.
LEMMA HeldLeaves ==
  ASSUME IInv, Holding, taken.queue # <<>>, NEW o, o = taken.terminal,
         taken' = [taken EXCEPT !.queue = Tail(@)], UNCHANGED queues
  PROVE  /\ Leaves(o) /\ taken'.terminal = o /\ taken'.queue = Tail(Queue(o))
         /\ taken' \in [terminal : Places, queue : Seq(ItemType)]
<1>1. /\ o \in Terminals /\ Queue(o) = taken.queue
      /\ taken.queue \in Seq(ItemType)
      /\ taken \in [terminal : Places, queue : Seq(ItemType)]
  BY HeldIs DEF IInv, Typed
<1>2. Tail(taken.queue) \in Seq(ItemType)
  BY <1>1, HeadTailProperties
<1>3. /\ taken'.terminal = o /\ taken'.queue = Tail(taken.queue)
      /\ taken' \in [terminal : Places, queue : Seq(ItemType)]
  BY <1>1, <1>2
<1>4. \A t \in Terminals :
        Queue(t)' = IF t = o THEN Tail(Queue(t)) ELSE Queue(t)
  BY <1>1, <1>3 DEF Queue
<1> QED BY <1>1, <1>3, <1>4 DEF Leaves, Places

\* A step that lets no request arrive.
LEMMA NoArrival ==
  ASSUME Typed, Typed', UNCHANGED arrivalVars
  PROVE  Grows
BY DEF Typed, Grows, arrivalVars

\* A request leaves its queue: it is answered, or its traversal begins.
LEMMA RequestLeaves ==
  ASSUME IInv, Grows, UNCHANGED arrivalVars,
         UNCHANGED <<handoffs, barriers, nextId>>,
         NEW o, NEW x, FirstOf(x, o), x.what = "request", Leaves(o),
         NEW xs, Logs(xs), AsMeant(xs), ReadsOk',
         \A i \in 1 .. Len(xs) : xs[i][1] = x.id,
         \A s : s \in Ids(log)' => s \in Ids(log) \/ s = x.id,
         \A s : s \in BeingRead' => s \in BeingRead \/ s = x.id,
         \A s \in BeingRead : s \in BeingRead',
         x.id \in Ids(log)' \/ x.id \in BeingRead',
         \A i \in 1 .. Len(xs) :
           xs[i][2] = "performed" /\ xs[i][3] \in Terminals => xs[i][3] = o
  PROVE  Books'
<1>1. /\ Typed /\ LogOk /\ ReadsOk /\ HandoffsOk /\ CountsOk /\ QueuesOk
      /\ UNCHANGED <<request, seen, captured>>
  BY DEF IInv, Books, arrivalVars
<1>2. /\ x.id \in 1 .. Len(request) /\ seen[x.id] = o
      /\ request[x.id].kind # "handoff" /\ o \in Terminals
  BY <1>1, ItemIs DEF FirstOf
<1>3. \A s \in Ids(log) : s \in Ids(log)'
  BY <1>1, LogGrows
<1>4. HandoffsOk'
  <2>1. \A h \in DOMAIN handoffs :
          /\ handoffs[h].request \notin Ids(log)
          /\ request[handoffs[h].request].kind = "handoff"
    BY <1>1 DEF HandoffsOk, HandoffOk
  <2>2. \A h \in DOMAIN handoffs : handoffs[h].request \notin Ids(log)'
    BY <1>2, <2>1
  <2>3. nextId <= nextId'
    BY <1>1 DEF Typed
  <2> QED BY <1>1, <1>3, <2>2, <2>3, HandoffsStay
<1>5. CountsOk'
  BY <1>1, CountsStay
<1>6. ASSUME NEW u \in Terminals, NEW y \in ItemType, Stays(y, u, o),
             y.what = "request"
      PROVE  y.id # x.id /\ (u = o => x.id < y.id)
  <2>1. Has(Queue(u), y) /\ ~(u = o /\ y = x)
    BY <1>6 DEF Stays, FirstOf
  <2>2. CASE u = o
    <3>1. Before(x, y)
      BY <2>1, <2>2 DEF FirstOf
    <3>2. x.id < y.id /\ x.id \in Nat /\ y.id \in Nat
      BY <1>6, <3>1 DEF Before, FirstOf, ItemType
    <3> QED BY <3>2
  <2>3. CASE u # o
    <3>1. seen[y.id] = u
      BY <1>1, <1>6, <2>1, ItemIs
    <3> QED BY <1>2, <2>3, <3>1
  <2> QED BY <2>2, <2>3
<1>7. ASSUME NEW u \in Terminals, NEW y \in ItemType, Stays(y, u, o)
      PROVE  /\ Waits(y, u)'
             /\ y.what = "barrier" =>
                  handoffs'[y.id].request = handoffs[y.id].request
  <2>1. Has(Queue(u), y)
    BY <1>7 DEF Stays
  <2>2. y.what = "request" => y.id \notin Ids(log) /\ y.id \notin BeingRead
    BY <1>1, <2>1, ItemIs
  <2>3. y.what = "request" => y.id \notin Ids(log)' /\ y.id \notin BeingRead'
    BY <1>6, <1>7, <2>2
  <2>4. Waits(y, u)'
    BY <1>1, <2>1, <2>3, WaitsStay
  <2> QED BY <2>4
<1>8. \A i \in 1 .. Len(xs), u \in Terminals :
        /\ xs[i][2] = "performed" /\ u = xs[i][3]
        /\ request'[xs[i][1]].kind = "input"
        => \A y \in ItemType : Stays(y, u, o) /\ y.what = "request" =>
             xs[i][1] < y.id
  BY <1>6
<1>9. ASSUME NEW s \in 1 .. Len(request')
      PROVE  \/ s \in Ids(log)'
             \/ s \in BeingRead'
             \/ \E h \in DOMAIN handoffs' : handoffs'[h].request = s
             \/ /\ s \in 1 .. Len(request) /\ seen[s] \in Terminals
                /\ Stays(Item("request", s), seen[s], o)
  <2>1. s \in 1 .. Len(request)
    BY <1>1
  <2>2. CASE /\ seen[s] \in Terminals
             /\ Has(Queue(seen[s]), Item("request", s))
    <3>1. CASE Item("request", s) = x
      <4>1. s = x.id
        BY <3>1 DEF Item
      <4> QED BY <4>1
    <3>2. CASE Item("request", s) # x
      BY <2>1, <2>2, <3>2 DEF Stays, FirstOf
    <3> QED BY <3>1, <3>2
  <2> QED BY <1>3, <2>1, <2>2, WasAccounted
<1> QED BY <1>4, <1>5, <1>7, <1>8, <1>9, BooksStay

\* A request leaves its queue: carried out, refused, or a traversal.
LEMMA ReleaseRequestStep ==
  ASSUME IInv, ReleaseRequest
  PROVE  IInv'
<1>1. PICK o, x, r, t : /\ o = taken.terminal /\ x = Head(taken.queue)
                        /\ r = x.id /\ t = bind[request[r].name]
  OBVIOUS
<1> DEFINE Done == t = o /\ log' = log \o Entry(r, "performed", t)
                         /\ UNCHANGED reads
           Begun == /\ t = o /\ request[r].kind = "read" /\ ~Reading(t)
                    /\ reads' = Append(reads, <<t, r>>) /\ UNCHANGED log
           Refused == /\ t # o /\ UNCHANGED reads
                      /\ log' = log \o Entry(r, IF t = NoTerminal
                                                THEN "missing" ELSE "changed",
                                             NoTerminal)
<1>2. /\ Holding /\ taken.queue # <<>> /\ x.what = "request" /\ ~Reading(o)
      /\ Done \/ Begun \/ Refused
      /\ taken' = [taken EXCEPT !.queue = Tail(@)]
      /\ UNCHANGED <<queues, handoffs, barriers, nextId, work, releasing,
                     arrivalVars, bind, rebinds, stopped>>
  BY <1>1 DEF ReleaseRequest, Perform, queueVars
<1>3. /\ Typed /\ LogOk /\ ReadsOk /\ QueuesOk /\ ReleaseOk /\ SourcesOk
      /\ QueueIsLater
  BY DEF IInv, Books
<1>4. FirstOf(x, o)
  BY <1>1, <1>2, FirstIs
<1>5. /\ Leaves(o) /\ taken'.terminal = o
      /\ taken' \in [terminal : Places, queue : Seq(ItemType)]
  BY <1>1, <1>2, HeldLeaves
<1>6. /\ x.id = r /\ r \in 1 .. Len(request) /\ seen[r] = o
      /\ request[r].kind # "handoff" /\ r \notin Ids(log)
      /\ r \notin BeingRead /\ o \in Terminals
  BY <1>1, <1>2, <1>3, <1>4, ItemIs DEF FirstOf
<1>7. Typed'
  BY <1>2, <1>3, <1>5 DEF Typed, arrivalVars
<1>8. Grows /\ UNCHANGED <<request, seen, captured>>
  BY <1>2, <1>3, <1>7, NoArrival DEF arrivalVars
<1>9. r \in 1 .. Len(request') /\ Len(request') \in Nat
  BY <1>6, <1>7, <1>8 DEF Typed
<1> DEFINE Kept == Books' /\ \A u : Reading(u) => Reading(u)'
<1>10. ASSUME NEW a \in Outcomes, NEW p \in Places,
              log' = log \o Entry(r, a, p), UNCHANGED reads,
              a = "performed" => p = o
       PROVE  Kept
  <2>1. PICK xs : xs = Entry(r, a, p) /\ Adds(xs)
    BY <1>10 DEF Adds
  <2>2. Logs(xs) /\ Single(xs, r, a, p)
    BY <1>3, <1>6, <1>9, <2>1, OneEntry
  <2>3. /\ \A s : s \in Ids(xs) <=> s = r
        /\ Len(xs) = 1 /\ xs[1] = <<r, a, p>>
        /\ \A i \in 1 .. Len(xs) : i = 1
    BY <2>2 DEF Single
  <2>4. \A s : s \in Ids(log)' <=> s \in Ids(log) \/ s = r
    BY <1>3, <1>8, <2>2, <2>3, LogGrows
  <2>5. ASSUME NEW j \in 1 .. Len(log), IsPerformed(j, "input"),
               log[j][3] = o
        PROVE  log[j][1] < r
    <3>1. PICK k \in 1 .. Len(Queue(o)) : Queue(o)[k] = x
      BY <1>4 DEF FirstOf, Has
    <3> QED BY <1>2, <1>3, <1>6, <2>5, <3>1 DEF QueueIsLater
  <2>6. AsMeant(xs)
    <3>1. /\ request'[r].kind # "handoff" /\ seen'[r] = o
      BY <1>6, <1>8
    <3> QED BY <1>10, <2>3, <2>5, <3>1 DEF AsMeant
  <2>7. ReadsOk' /\ BeingRead' = BeingRead
    <3>1. \A s \in BeingRead : s \notin Ids(log)'
      BY <1>3, <1>6, <2>4, BeingReadIs
    <3> QED BY <1>3, <1>8, <1>10, <3>1, ReadsStay
  <2>8. /\ \A i \in 1 .. Len(xs) : xs[i][1] = x.id
        /\ \A i \in 1 .. Len(xs) :
             xs[i][2] = "performed" /\ xs[i][3] \in Terminals => xs[i][3] = o
    BY <1>6, <1>10, <2>3
  <2>9. Books'
    BY <1>2, <1>4, <1>5, <1>6, <1>8, <2>2, <2>4, <2>6, <2>7, <2>8,
       RequestLeaves
  <2> QED BY <1>10, <2>9 DEF Reading
<1>11. ASSUME Begun PROVE Kept
  <2>1. Ids(log)' = Ids(log) /\ UNCHANGED log
    BY <1>11
  <2>2. PICK xs : xs = <<>>
    OBVIOUS
  <2>3. Logs(xs) /\ AsMeant(xs) /\ \A i : i \notin 1 .. Len(xs)
    BY <1>3, <2>1, <2>2, NoEntry
  <2>4. /\ t = o /\ ~Reading(o) /\ reads' = Append(reads, <<o, r>>)
        /\ request'[r].kind = "read" /\ seen'[r] = o
    BY <1>6, <1>8, <1>11
  <2>5. /\ ReadsOk' /\ \A s : s \in BeingRead' <=> s \in BeingRead \/ s = r
        /\ \A u : Reading(u) => Reading(u)'
    BY <1>3, <1>6, <1>8, <1>9, <2>1, <2>4, BeingReadIs, ReadBegins
  <2>6. Books'
    BY <1>2, <1>4, <1>5, <1>6, <1>8, <2>1, <2>3, <2>5, RequestLeaves
  <2> QED BY <2>5, <2>6
<1>12. Done => Kept
  BY <1>6, <1>10 DEF Outcomes, Places
<1>13. Refused => Kept
  BY <1>10 DEF Outcomes, Places
<1> HIDE DEF Done, Begun, Refused
<1>14. Books' /\ \A u : Reading(u) => Reading(u)'
  BY <1>2, <1>11, <1>12, <1>13
<1>15. ReleaseOk'
  <2>1. queues[o] = <<>> /\ releasing /\ o # NoTerminal
    BY <1>1, <1>2, HeldIs DEF Holding
  <2>2. ~stopped'
    BY <1>2, <1>3, <2>1 DEF ReleaseOk
  <2> QED BY <1>2, <1>5, <2>1, <2>2 DEF ReleaseOk, Holding
<1>16. ASSUME NEW u \in Terminals, Queue(u)' # <<>> PROVE HasSource(u)'
  <2>1. CASE u = o
    BY <1>5, <2>1 DEF HasSource
  <2>2. CASE u # o
    <3>1. Queue(u) # <<>> /\ taken.terminal # u
      BY <1>1, <1>5, <1>16, <2>2 DEF Leaves
    <3>2. HasSource(u)
      BY <1>3, <3>1 DEF SourcesOk
    <3> QED BY <1>2, <1>14, <3>1, <3>2 DEF HasSource, BlockedByHandoff
  <2> QED BY <2>1, <2>2
<1> QED BY <1>7, <1>14, <1>15, <1>16 DEF IInv, SourcesOk

\* A handoff that waits for a terminal is counted there.
LEMMA Counted ==
  ASSUME Typed, HandoffsOk, CountsOk, NEW t \in Terminals,
         NEW h \in DOMAIN handoffs, t \in handoffs[h].terminals
  PROVE  BlockedByHandoff(t)
<1> DEFINE W == Waiters(handoffs, t)
<1>1. IsFiniteSet(1 .. nextId - 1)
  <2>1. nextId - 1 \in Int
    BY DEF Typed
  <2> QED BY <2>1, FS_Interval
<1>2. W \in SUBSET (1 .. nextId - 1) /\ h \in W
  BY DEF Waiters, HandoffsOk, HandoffOk
<1>3. IsFiniteSet(W)
  BY <1>1, <1>2, FS_Subset
<1> HIDE DEF W
<1>4. Cardinality(W) \in Nat /\ Cardinality(W) # 0
  BY <1>2, <1>3, FS_CardinalityType, FS_EmptySet
<1>5. barriers[t] = Cardinality(W)
  BY DEF CountsOk, W
<1> QED BY <1>4, <1>5 DEF BlockedByHandoff

\* A barrier is reached: what is behind it waits for the handoff.
LEMMA ReachBarrierStep ==
  ASSUME IInv, ReachBarrier
  PROVE  IInv'
<1>1. PICK o, x, k, q : /\ o = taken.terminal /\ x = Head(taken.queue)
                        /\ k = x.id /\ q = Tail(taken.queue)
  OBVIOUS
<1>2. /\ Holding /\ taken.queue # <<>> /\ x.what = "barrier" /\ ~Reading(o)
      /\ handoffs' = [h \in DOMAIN handoffs |->
                        IF h = k
                        THEN [handoffs[h] EXCEPT !.waiting = @ \ {o}]
                        ELSE handoffs[h]]
      /\ queues' = [queues EXCEPT ![o] = @ \o q]
      /\ taken' = NotTaken
      /\ UNCHANGED <<barriers, nextId, work, releasing, reads, arrivalVars,
                     bind, rebinds, log, stopped>>
  BY <1>1 DEF ReachBarrier
<1>3. /\ Typed /\ LogOk /\ ReadsOk /\ HandoffsOk /\ CountsOk /\ QueuesOk
      /\ ReleaseOk /\ SourcesOk
  BY DEF IInv, Books
<1>4. FirstOf(x, o)
  BY <1>1, <1>2, FirstIs
<1>5. k = x.id /\ k \in DOMAIN handoffs /\ o \in handoffs[k].waiting
  BY <1>1, <1>2, <1>3, <1>4, ItemIs DEF FirstOf
<1>6. /\ o \in Terminals /\ Queue(o) = taken.queue /\ queues[o] = <<>>
      /\ releasing /\ taken.queue \in Seq(ItemType)
  BY <1>1, <1>2, HeldIs
<1>7. q \in Seq(ItemType)
  BY <1>1, <1>2, <1>6, HeadTailProperties
<1>8. queues' = [queues EXCEPT ![o] = q]
  <2>1. <<>> \o q = q
    BY <1>7, ConcatEmptySeq
  <2> QED BY <1>2, <1>6, <2>1
<1>9. /\ taken'.terminal = NoTerminal /\ taken'.queue = <<>>
      /\ <<>> \in Seq(ItemType)
      /\ taken' \in [terminal : Places, queue : Seq(ItemType)]
  BY <1>2, EmptySeq DEF NotTaken, Places
<1>10. Typed'
  BY <1>2, <1>3, <1>6, <1>7, <1>8, <1>9 DEF Typed, arrivalVars
<1>11. Grows /\ UNCHANGED <<request, seen, captured>>
  BY <1>2, <1>3, <1>10, NoArrival DEF arrivalVars
<1>12. Leaves(o)
  <2>1. ASSUME NEW u \in Terminals
        PROVE  Queue(u)' = IF u = o THEN Tail(Queue(u)) ELSE Queue(u)
    <3>1. Queue(u)' = queues'[u]
      BY <1>9, NoTerminalAssumption DEF Queue
    <3>2. queues'[u] = IF u = o THEN q ELSE queues[u]
      BY <1>3, <1>6, <1>8 DEF Typed
    <3> QED BY <1>1, <1>6, <3>1, <3>2 DEF Queue
  <2> QED BY <1>2, <1>6, <2>1 DEF Leaves, Places
<1>13. /\ DOMAIN handoffs' = DOMAIN handoffs
       /\ \A h \in DOMAIN handoffs : h # k => handoffs'[h] = handoffs[h]
  BY <1>2
<1>14. PICK it : it = handoffs[k]
  OBVIOUS
<1>15. /\ HandoffOk(k) /\ it \in HandoffType
       /\ it.waiting \subseteq it.terminals
  BY <1>3, <1>5, <1>14 DEF HandoffsOk, HandoffOk
<1>16. /\ handoffs'[k].request = it.request
       /\ handoffs'[k].terminals = it.terminals
       /\ handoffs'[k].waiting = it.waiting \ {o}
       /\ handoffs'[k] \in HandoffType
  <2>1. handoffs'[k] = [it EXCEPT !.waiting = @ \ {o}]
    BY <1>2, <1>5, <1>14
  <2> QED BY <1>15, <2>1 DEF HandoffType
<1>17. \A h \in DOMAIN handoffs :
         /\ handoffs'[h].request = handoffs[h].request
         /\ handoffs'[h].terminals = handoffs[h].terminals
  BY <1>13, <1>14, <1>16
<1>18. Ids(log)' = Ids(log) /\ BeingRead' = BeingRead
  BY <1>2 DEF BeingRead
<1>19. ASSUME NEW s \in 1 .. it.request - 1,
              seen[s] \in captured[it.request] \ (it.waiting \ {o}),
              request[s].kind # "handoff"
       PROVE  s \in Ids(log)
  <2>1. CASE seen[s] # o
    <3>1. seen[s] \in captured[it.request] \ it.waiting
      BY <1>19, <2>1
    <3> QED BY <1>14, <1>15, <1>19, <3>1 DEF HandoffOk
  <2>2. CASE seen[s] = o
    <3>1. s \in 1 .. Len(request) /\ s < it.request /\ it.request \in Nat
      BY <1>3, <1>14, <1>15 DEF HandoffOk, Typed
    <3>2. s \notin BeingRead
      BY <1>2, <1>3, <2>2, BeingReadIs
    <3>3. ~\E h \in DOMAIN handoffs : handoffs[h].request = s
      BY <1>3, <1>19 DEF HandoffsOk, HandoffOk
    <3>4. ~Has(Queue(o), Item("request", s))
      <4> SUFFICES ASSUME Has(Queue(o), Item("request", s)) PROVE FALSE
        OBVIOUS
      <4>1. PICK y : y = Item("request", s)
        OBVIOUS
      <4>2. y.what = "request" /\ y.id = s /\ y # x
        BY <1>2, <4>1 DEF Item
      <4>3. Before(x, y)
        BY <1>4, <4>1, <4>2 DEF FirstOf
      <4>4. it.request < s
        BY <1>2, <1>5, <1>14, <4>2, <4>3 DEF Before
      <4> QED BY <3>1, <4>4
    <3> QED BY <2>2, <3>1, <3>2, <3>3, <3>4, WasAccounted
  <2> QED BY <2>1, <2>2
<1>20. HandoffsOk'
  <2>1. HandoffOk(k)'
    BY <1>2, <1>11, <1>14, <1>15, <1>16, <1>18, <1>19 DEF HandoffOk
  <2>2. ASSUME NEW h \in DOMAIN handoffs, h # k PROVE HandoffOk(h)'
    <3>1. HandoffOk(h) /\ handoffs'[h] = handoffs[h]
      BY <1>3, <1>13, <2>2 DEF HandoffsOk
    <3> QED BY <1>2, <1>11, <1>18, <3>1 DEF HandoffOk
  <2> QED BY <1>3, <1>13, <1>17, <2>1, <2>2 DEF HandoffsOk
<1>21. CountsOk'
  <2>1. \A u \in Terminals : Waiters(handoffs', u) = Waiters(handoffs, u)
    BY <1>13, <1>17 DEF Waiters
  <2> QED BY <1>2, <1>3, <2>1 DEF CountsOk
<1>22. ReadsOk'
  BY <1>2, <1>3, <1>11, <1>18, BeingReadIs, ReadsStay
<1>23. PICK xs : xs = <<>>
  OBVIOUS
<1>24. Logs(xs) /\ AsMeant(xs) /\ \A i : i \notin 1 .. Len(xs)
  BY <1>2, <1>3, <1>23, NoEntry
<1>25. ASSUME NEW u \in Terminals, NEW y \in ItemType, Stays(y, u, o)
       PROVE  /\ Waits(y, u)'
              /\ y.what = "barrier" =>
                   handoffs'[y.id].request = handoffs[y.id].request
  <2>1. Has(Queue(u), y) /\ ~(u = o /\ y = x)
    BY <1>4, <1>25 DEF Stays, FirstOf
  <2>2. /\ y.what = "request" => y.id \notin Ids(log) /\ y.id \notin BeingRead
        /\ y.what = "barrier" =>
             y.id \in DOMAIN handoffs /\ u \in handoffs[y.id].waiting
    BY <1>3, <2>1, ItemIs
  <2>3. ASSUME y.what = "barrier", u = o PROVE y.id # k
    <3>1. Before(x, y)
      BY <1>4, <2>1, <2>3 DEF FirstOf
    <3>2. k < y.id /\ k \in Nat
      BY <1>2, <1>4, <1>5, <2>3, <3>1 DEF Before, FirstOf, ItemType
    <3> QED BY <3>2
  <2>4. y.what = "barrier" => u \in handoffs'[y.id].waiting
    <3>1. CASE y.id = k
      BY <1>14, <1>16, <2>2, <2>3, <3>1
    <3>2. CASE y.id # k
      BY <1>13, <2>2, <3>2
    <3> QED BY <3>1, <3>2
  <2>5. Waits(y, u)'
    BY <1>3, <1>11, <1>13, <1>18, <2>1, <2>2, <2>4, WaitsStay
  <2> QED BY <1>17, <2>2, <2>5
<1>26. ASSUME NEW s \in 1 .. Len(request')
       PROVE  \/ s \in Ids(log)'
              \/ s \in BeingRead'
              \/ \E h \in DOMAIN handoffs' : handoffs'[h].request = s
              \/ /\ s \in 1 .. Len(request) /\ seen[s] \in Terminals
                 /\ Stays(Item("request", s), seen[s], o)
  <2>1. s \in 1 .. Len(request)
    BY <1>11
  <2>2. Item("request", s) # x
    BY <1>2 DEF Item
  <2>3. CASE \E h \in DOMAIN handoffs : handoffs[h].request = s
    BY <1>13, <1>17, <2>3
  <2>4. CASE /\ seen[s] \in Terminals
             /\ Has(Queue(seen[s]), Item("request", s))
    BY <1>4, <2>1, <2>2, <2>4 DEF Stays, FirstOf
  <2> QED BY <1>18, <2>1, <2>3, <2>4, WasAccounted
<1>27. Books'
  BY <1>11, <1>12, <1>20, <1>21, <1>22, <1>24, <1>25, <1>26, BooksStay
<1>28. ReleaseOk'
  BY <1>2, <1>3, <1>6, <1>9 DEF ReleaseOk, Holding
<1>29. ASSUME NEW u \in Terminals, Queue(u)' # <<>> PROVE HasSource(u)'
  <2>1. CASE u = o
    <3>1. BlockedByHandoff(o)
      BY <1>3, <1>5, <1>6, <1>14, <1>15, Counted
    <3> QED BY <1>2, <2>1, <3>1 DEF HasSource, BlockedByHandoff
  <2>2. CASE u # o
    <3>1. Queue(u) # <<>> /\ taken.terminal # u
      BY <1>1, <1>12, <1>29, <2>2 DEF Leaves
    <3>2. HasSource(u)
      BY <1>3, <3>1 DEF SourcesOk
    <3> QED BY <1>2, <3>1, <3>2 DEF HasSource, BlockedByHandoff, Reading
  <2> QED BY <2>1, <2>2
<1> QED BY <1>10, <1>27, <1>28, <1>29 DEF IInv, SourcesOk

-----------------------------------------------------------------------------
(* The end of traversals *)

\* Traversals end, and only reads are answered.
LEMMA FinishReadsStep ==
  ASSUME IInv, NEW S \in SUBSET {reads[i][1] : i \in DOMAIN reads},
         FinishReads(S)
  PROVE  /\ IInv'
         /\ \A i \in DOMAIN log' \ DOMAIN log :
              request'[log'[i][1]].kind = "read"
<1>1. PICK done, rest, xs, T :
        /\ done = ReadsOf(S) /\ T = Terminals \ S /\ rest = ReadsOf(T)
        /\ xs = [i \in DOMAIN done |->
                   <<done[i][2], "performed", done[i][1]>>]
  OBVIOUS
<1>2. /\ ~releasing /\ ~stopped /\ reads' = rest /\ Adds(xs)
      /\ work' = [i \in DOMAIN done |-> done[i][1]]
      /\ releasing' = TRUE
      /\ UNCHANGED <<queues, handoffs, barriers, nextId, taken, arrivalVars,
                     bind, rebinds, stopped>>
  BY <1>1 DEF FinishReads, Adds, queueVars
<1>3. /\ Typed /\ LogOk /\ ReadsOk /\ HandoffsOk /\ CountsOk /\ QueuesOk
      /\ ReleaseOk /\ SourcesOk
  BY DEF IInv, Books
<1>4. Picks(done, S, Len(reads)) /\ Picks(rest, T, Len(reads))
  BY <1>1, <1>3, ReadsOfIs
<1>5. /\ done \in Seq(Terminals \X Nat) /\ Len(done) \in Nat
      /\ DOMAIN done = 1 .. Len(done)
  BY <1>4, LenProperties DEF Picks
<1>6. ASSUME NEW i \in 1 .. Len(done)
      PROVE  /\ done[i] \in Terminals \X Nat /\ done[i][1] \in S
             /\ done[i][2] \in 1 .. Len(request) /\ done[i][2] \in BeingRead
             /\ seen[done[i][2]] = done[i][1]
             /\ request[done[i][2]].kind = "read"
             /\ done[i][2] \notin Ids(log)
  <2>1. done[i] \in Terminals \X Nat /\ done[i][1] \in S
    BY <1>4, <1>5 DEF Picks
  <2>2. PICK j \in 1 .. Len(reads) : done[i] = reads[j]
    BY <1>4 DEF Picks
  <2>3. reads[j][2] \in BeingRead
    BY <1>3, ReadsAre
  <2> QED BY <1>3, <2>1, <2>2, <2>3 DEF ReadsOk
<1>7. /\ xs \in Seq(Entries) /\ Len(xs) = Len(done)
      /\ \A i \in 1 .. Len(done) :
           xs[i] = <<done[i][2], "performed", done[i][1]>>
  <2>1. \A i \in 1 .. Len(done) :
          <<done[i][2], "performed", done[i][1]>> \in Entries
    <3> SUFFICES ASSUME NEW i \in 1 .. Len(done)
                 PROVE  <<done[i][2], "performed", done[i][1]>> \in Entries
      OBVIOUS
    <3>1. done[i] \in Terminals \X Nat
      BY <1>6
    <3>2. done[i][2] \in Nat /\ done[i][1] \in Terminals
      BY <3>1
    <3> QED BY <3>2 DEF Entries, Places, Outcomes
  <2>2. xs = [i \in 1 .. Len(done) |->
                <<done[i][2], "performed", done[i][1]>>]
    BY <1>1, <1>5
  <2> QED BY <1>5, <2>1, <2>2
<1>8. /\ work' \in Seq(Terminals) /\ Len(work') = Len(done)
      /\ \A i \in 1 .. Len(done) : work'[i] = done[i][1]
  <2>1. \A i \in 1 .. Len(done) : done[i][1] \in Terminals
    BY <1>6
  <2>2. work' = [i \in 1 .. Len(done) |-> done[i][1]]
    BY <1>2, <1>5
  <2> QED BY <1>5, <2>1, <2>2
<1>9. Typed'
  BY <1>2, <1>3, <1>8 DEF Typed, arrivalVars
<1>10. Grows /\ UNCHANGED <<request, seen, captured>>
  BY <1>2, <1>3, <1>9, NoArrival DEF arrivalVars
<1>11. Logs(xs)
  <2>1. ASSUME NEW i \in 1 .. Len(xs), NEW j \in 1 .. Len(xs),
               xs[i][1] = xs[j][1]
        PROVE  i = j
    <3>1. done[i][2] = done[j][2]
      BY <1>7, <2>1
    <3>2. done[i][1] = done[j][1]
      BY <1>6, <1>7, <3>1
    <3> QED BY <1>4, <1>7, <3>2 DEF Picks
  <2>2. \A i \in 1 .. Len(xs) :
          xs[i][1] \in 1 .. Len(request') /\ xs[i][1] \notin Ids(log)
    BY <1>6, <1>7, <1>10
  <2> QED BY <1>2, <1>7, <2>1, <2>2 DEF Logs, Adds
<1>12. \A s : s \in Ids(xs) <=> \E i \in 1 .. Len(done) : done[i][2] = s
  <2>1. xs \in Seq(Entries)
    BY <1>7
  <2>2. \A s : s \in Ids(xs) <=> \E i \in 1 .. Len(xs) : xs[i][1] = s
    BY <2>1, IdsAre, Zenon
  <2> QED BY <1>7, <2>2
<1>13. \A s : s \in Ids(log)' <=> s \in Ids(log) \/ s \in Ids(xs)
  BY <1>3, <1>10, <1>11, LogGrows
<1>14. AsMeant(xs)
  <2>1. \A i \in 1 .. Len(xs) :
          /\ request'[xs[i][1]].kind = "read"
          /\ xs[i][3] = seen'[xs[i][1]]
    BY <1>6, <1>7, <1>10
  <2> QED BY <2>1 DEF AsMeant
<1>15. rest \in Seq(Terminals \X Nat) /\ DOMAIN rest = 1 .. Len(rest)
  BY <1>4, LenProperties DEF Picks
<1>16. ASSUME NEW i \in 1 .. Len(rest)
       PROVE  /\ rest[i][2] \in 1 .. Len(request')
              /\ seen'[rest[i][2]] = rest[i][1]
              /\ request'[rest[i][2]].kind = "read"
              /\ rest[i][2] \notin Ids(log)'
              /\ rest[i][2] \in BeingRead
  <2>1. PICK j \in 1 .. Len(reads) : rest[i] = reads[j]
    BY <1>4 DEF Picks
  <2>2. /\ reads[j][2] \in BeingRead /\ reads[j][2] \notin Ids(log)
        /\ seen[reads[j][2]] = reads[j][1]
    BY <1>3, ReadsAre DEF ReadsOk
  <2>3. reads[j][2] \notin Ids(xs)
    <3> SUFFICES ASSUME reads[j][2] \in Ids(xs) PROVE FALSE
      OBVIOUS
    <3>1. PICK k \in 1 .. Len(done) : done[k][2] = reads[j][2]
      BY <1>12
    <3>2. reads[j][1] \in S
      BY <1>6, <2>2, <3>1
    <3>3. reads[j][1] \in T
      BY <1>4, <2>1 DEF Picks
    <3> QED BY <1>1, <3>2, <3>3
  <2> QED BY <1>3, <1>10, <1>13, <2>1, <2>2, <2>3 DEF ReadsOk
<1>17. ReadsOk'
  BY <1>2, <1>4, <1>15, <1>16 DEF ReadsOk, Picks
<1>18. \A s : s \in BeingRead' <=> \E i \in 1 .. Len(rest) : rest[i][2] = s
  BY <1>2, <1>15 DEF BeingRead
<1>19. \A t : Reading(t)' <=> \E i \in 1 .. Len(rest) : rest[i][1] = t
  BY <1>2, <1>15 DEF Reading
<1>20. HandoffsOk'
  <2>1. ASSUME NEW h \in DOMAIN handoffs
        PROVE  handoffs[h].request \notin Ids(log)'
    <3>1. /\ handoffs[h].request \notin Ids(log)
          /\ request[handoffs[h].request].kind = "handoff"
      BY <1>3 DEF HandoffsOk, HandoffOk
    <3>2. handoffs[h].request \notin Ids(xs)
      BY <1>6, <1>12, <3>1
    <3> QED BY <1>13, <3>1, <3>2
  <2>2. nextId <= nextId'
    BY <1>2, <1>3 DEF Typed
  <2> QED BY <1>2, <1>3, <1>10, <1>13, <2>1, <2>2, HandoffsStay
<1>21. CountsOk'
  BY <1>2, <1>3, CountsStay
<1>22. Leaves(NoTerminal) /\ \A u \in Terminals : \A x :
         Stays(x, u, NoTerminal) <=> Has(Queue(u), x)
  BY <1>2, NoneLeaves
<1>23. ASSUME NEW u \in Terminals, NEW x \in ItemType, Stays(x, u, NoTerminal)
       PROVE  /\ Waits(x, u)'
              /\ x.what = "barrier" =>
                   handoffs'[x.id].request = handoffs[x.id].request
  <2>1. Has(Queue(u), x)
    BY <1>22, <1>23
  <2>2. x.what = "request" => x.id \notin Ids(log) /\ x.id \notin BeingRead
    BY <1>3, <2>1, ItemIs
  <2>3. x.what = "request" => x.id \notin Ids(log)' /\ x.id \notin BeingRead'
    BY <1>6, <1>12, <1>13, <1>16, <1>18, <2>2
  <2>4. Waits(x, u)'
    BY <1>2, <1>3, <1>10, <2>1, <2>3, WaitsStay
  <2> QED BY <1>2, <2>4
<1>24. \A i \in 1 .. Len(xs) : request'[xs[i][1]].kind # "input"
  BY <1>6, <1>7, <1>10
<1>25. ASSUME NEW i \in 1 .. Len(reads)
       PROVE  \/ reads[i][1] \in S /\ Has(done, reads[i])
              \/ Has(rest, reads[i])
  <2>1. reads[i][1] \in Terminals
    BY <1>3 DEF ReadsOk
  <2> QED BY <1>1, <1>4, <2>1 DEF Picks
<1>26. ASSUME NEW s \in 1 .. Len(request')
       PROVE  \/ s \in Ids(log)'
              \/ s \in BeingRead'
              \/ \E h \in DOMAIN handoffs' : handoffs'[h].request = s
              \/ /\ s \in 1 .. Len(request) /\ seen[s] \in Terminals
                 /\ Stays(Item("request", s), seen[s], NoTerminal)
  <2>1. s \in 1 .. Len(request)
    BY <1>10
  <2>2. CASE s \in BeingRead
    <3>1. PICK i \in 1 .. Len(reads) : reads[i][2] = s
      BY <1>3, <2>2, ReadsAre
    <3> QED BY <1>12, <1>13, <1>18, <1>25, <3>1 DEF Has
  <2> QED BY <1>2, <1>13, <1>22, <2>1, <2>2, WasAccounted
<1>27. Books'
  BY <1>10, <1>11, <1>14, <1>17, <1>20, <1>21, <1>22, <1>23, <1>24, <1>26,
     BooksStay
<1>28. ReleaseOk'
  BY <1>2, <1>3 DEF ReleaseOk, Holding
<1>29. ASSUME NEW u \in Terminals, Queue(u)' # <<>> PROVE HasSource(u)'
  <2>1. Queue(u)' = Queue(u) /\ work = <<>> /\ ~Holding
    BY <1>2, <1>3 DEF Queue, ReleaseOk
  <2>2. HasSource(u) /\ taken.terminal # u
    BY <1>3, <1>29, <2>1, NoTerminalAssumption DEF SourcesOk, Holding
  <2>3. CASE Reading(u)
    <3>1. PICK i \in 1 .. Len(reads) : reads[i][1] = u
      BY <1>3, <2>3, ReadsAre
    <3>2. CASE Has(rest, reads[i])
      BY <1>19, <3>1, <3>2 DEF Has, HasSource
    <3>3. CASE Has(done, reads[i])
      BY <1>8, <3>1, <3>3 DEF Has, HasSource
    <3> QED BY <1>25, <3>2, <3>3
  <2>4. CASE BlockedByHandoff(u)
    BY <1>2, <2>4 DEF HasSource, BlockedByHandoff
  <2>5. \A i : i \notin 1 .. Len(work)
    BY <2>1
  <2> QED BY <2>2, <2>3, <2>4, <2>5 DEF HasSource
<1>30. ASSUME NEW i \in DOMAIN log' \ DOMAIN log
       PROVE  request'[log'[i][1]].kind = "read"
  <2>1. PICK j \in 1 .. Len(xs) : log'[i] = xs[j]
    BY <1>3, <1>11, NewIs
  <2> QED BY <1>6, <1>7, <1>10, <2>1
<1> QED BY <1>9, <1>27, <1>28, <1>29, <1>30 DEF IInv, SourcesOk

-----------------------------------------------------------------------------
(* The end of the server *)

\* What is put aside when no release holds a queue.
LEMMA DeferredIs ==
  ASSUME IInv, ~Holding
  PROVE  \A s : s \in Deferred <=>
           \/ \E t \in Terminals : Has(Queue(t), Item("request", s))
           \/ \E h \in DOMAIN handoffs : handoffs[h].request = s
<1>1. ASSUME NEW t \in Terminals
      PROVE  Queue(t) \in Seq(ItemType) /\ ToSet(queues[t]) =
               {Queue(t)[i] : i \in 1 .. Len(Queue(t))}
  <2>1. Queue(t) = queues[t] /\ Queue(t) \in Seq(ItemType)
    BY QueueAtRest DEF IInv, Books, QueuesOk, QueueOk
  <2>2. DOMAIN queues[t] = 1 .. Len(queues[t])
    BY <2>1, LenProperties
  <2> QED BY <2>1, <2>2 DEF ToSet
<1>2. \A x \in ItemType : x.what = "request" => x = Item("request", x.id)
  BY DEF ItemType, Item
<1>3. ASSUME NEW s
      PROVE  (\E t \in Terminals : Has(Queue(t), Item("request", s))) <=>
             \E t \in Terminals : \E x \in ToSet(queues[t]) :
               x.what = "request" /\ x.id = s
  <2>1. ASSUME NEW t \in Terminals, Has(Queue(t), Item("request", s))
        PROVE  \E x \in ToSet(queues[t]) : x.what = "request" /\ x.id = s
    <3>1. Item("request", s).what = "request" /\ Item("request", s).id = s
      BY DEF Item
    <3>2. Item("request", s) \in ToSet(queues[t])
      BY <1>1, <2>1 DEF Has
    <3> QED BY <3>1, <3>2
  <2>2. ASSUME NEW t \in Terminals, NEW x \in ToSet(queues[t]),
               x.what = "request", x.id = s
        PROVE  Has(Queue(t), Item("request", s))
    <3>1. PICK i \in 1 .. Len(Queue(t)) : x = Queue(t)[i]
      BY <1>1
    <3>2. x \in ItemType
      BY <1>1, <3>1
    <3>3. x = Item("request", s)
      BY <1>2, <2>2, <3>2
    <3> QED BY <3>1, <3>3 DEF Has
  <2> QED BY <2>1, <2>2
<1>4. \A s : s \in Deferred <=>
        \/ \E t \in Terminals : \E x \in ToSet(queues[t]) :
             x.what = "request" /\ x.id = s
        \/ \E h \in DOMAIN handoffs : handoffs[h].request = s
  BY Zenon DEF Deferred
<1> QED BY <1>3, <1>4

\* What is put aside are requests without an answer.
LEMMA DeferredOpen ==
  ASSUME IInv, ~Holding, NEW s \in Deferred
  PROVE  s \in 1 .. Len(request) /\ s \notin Ids(log) /\ s \notin BeingRead
<1>1. CASE \E t \in Terminals : Has(Queue(t), Item("request", s))
  <2>1. PICK t \in Terminals : Has(Queue(t), Item("request", s))
    BY <1>1
  <2>2. PICK x : x = Item("request", s)
    OBVIOUS
  <2>3. x.what = "request" /\ x.id = s /\ Has(Queue(t), x)
    BY <2>1, <2>2 DEF Item
  <2> QED BY <2>3, ItemIs DEF IInv, Books
<1>2. CASE \E h \in DOMAIN handoffs : handoffs[h].request = s
  <2>1. /\ s \in 1 .. Len(request) /\ s \notin Ids(log)
        /\ request[s].kind = "handoff"
    BY <1>2 DEF IInv, Books, HandoffsOk, HandoffOk
  <2> QED BY <2>1, BeingReadIs DEF IInv, Books
<1> QED BY <1>1, <1>2, DeferredIs

\* The identities in any list of entries.
LEMMA EntryIds ==
  \A l \in Seq(Entries) : \A r :
    r \in Ids(l) <=> \E i \in 1 .. Len(l) : l[i][1] = r
BY IdsAre, Zenon

\* One list of entries behind another.
LEMMA EntriesJoin ==
  ASSUME NEW ys \in Seq(Entries), NEW zs \in Seq(Entries),
         NEW xs, xs = ys \o zs
  PROVE  /\ xs \in Seq(Entries) /\ Len(xs) = Len(ys) + Len(zs)
         /\ \A i \in 1 .. Len(ys) + Len(zs) :
              xs[i] = IF i <= Len(ys) THEN ys[i] ELSE zs[i - Len(ys)]
         /\ \A l \in Seq(Entries) : (l \o ys) \o zs = l \o xs
<1>1. \A l \in Seq(Entries) : (l \o ys) \o zs = l \o (ys \o zs)
  BY ConcatAssociative
<1>2. /\ xs \in Seq(Entries) /\ Len(xs) = Len(ys) + Len(zs)
      /\ \A i \in 1 .. Len(ys) + Len(zs) :
           xs[i] = IF i <= Len(ys) THEN ys[i] ELSE zs[i - Len(ys)]
  BY ConcatProperties
<1> QED BY <1>1, <1>2

\* drain_messages, after some last answers ys: the books are closed.
LEMMA RejectStep ==
  ASSUME IInv, Grows, ~Holding, UNCHANGED taken, reads' = <<>>,
         NEW ys \in Seq(Entries), NEW ex, RejectDeferred(log \o ys, ex),
         \A i \in 1 .. Len(ys) :
           /\ ys[i][1] \in 1 .. Len(request') /\ ys[i][1] \notin Ids(log)
           /\ ys[i][1] \in Deferred => ys[i][1] \in ex
           /\ ys[i][2] = "performed" =>
                /\ request'[ys[i][1]].kind = "handoff"
                /\ \A s \in 1 .. ys[i][1] - 1 :
                     /\ seen'[s] \in captured'[ys[i][1]]
                     /\ request'[s].kind # "handoff"
                     => s \in Ids(log),
         \A i, j \in 1 .. Len(ys) : ys[i][1] = ys[j][1] => i = j,
         \A s \in 1 .. Len(request') :
           s \in Ids(log) \/ s \in Ids(ys) \/ (s \in Deferred /\ s \notin ex)
  PROVE  /\ Books' /\ \A t \in Terminals : Queue(t)' = <<>>
         /\ \A i \in DOMAIN log' \ DOMAIN log :
              \/ log'[i][2] = "unavailable"
              \/ \E j \in 1 .. Len(ys) : log'[i] = ys[j]
<1>1. PICK R : R = Deferred \ ex
  OBVIOUS
<1> DEFINE isList(f) == f = SetToSeq(R)
           isEntries(g, f) ==
             g = [i \in DOMAIN f |-> <<f[i], "unavailable", NoTerminal>>]
           isBoth(f, g) == f = ys \o g
<1>a. PICK rs : isList(rs)
  OBVIOUS
<1>b. PICK zs : isEntries(zs, rs)
  OBVIOUS
<1>c. PICK xs : isBoth(xs, zs)
  OBVIOUS
<1>2. /\ queues' = [t \in Terminals |-> <<>>] /\ handoffs' = <<>>
      /\ barriers' = [t \in Terminals |-> 0]
      /\ log' = (log \o ys) \o zs
      /\ UNCHANGED nextId
  BY <1>1, <1>a, <1>b DEF RejectDeferred
<1> HIDE DEF isList, isEntries, isBoth
<1>3. /\ Typed /\ LogOk /\ ReadsOk /\ CarriedOutAsMeant
      /\ Len(request) \in Nat /\ Len(request') \in Nat
      /\ \A s \in 1 .. Len(request) : s \in 1 .. Len(request')
  <2>1. Len(request) \in Nat /\ Len(request') \in Nat
    BY DEF IInv, Typed, Grows
  <2> QED BY <2>1 DEF IInv, Books, Grows
<1>4. \A s \in R : /\ s \in 1 .. Len(request) /\ s \notin Ids(log)
                   /\ s \in Deferred /\ s \notin ex
  BY <1>1, DeferredOpen
<1>5. IsFiniteSet(R)
  <2>1. IsFiniteSet(1 .. Len(request))
    BY <1>3, FS_Interval
  <2>2. R \in SUBSET (1 .. Len(request))
    BY <1>4
  <2> QED BY <2>1, <2>2, FS_Subset
<1>6. /\ rs \in Seq(R) /\ \A s \in R : Has(rs, s)
      /\ \A i, j \in 1 .. Len(rs) : rs[i] = rs[j] => i = j
  <2>1. rs = SetToSeq(R)
    BY <1>a DEF isList
  <2> QED BY <1>5, <2>1, SetToSeqIs
<1>7. /\ Len(rs) \in Nat /\ DOMAIN rs = 1 .. Len(rs)
      /\ \A i \in 1 .. Len(rs) : rs[i] \in R
  BY <1>6, LenProperties, ElementOfSeq
<1>8. /\ zs \in Seq(Entries) /\ Len(zs) = Len(rs)
      /\ \A i \in 1 .. Len(rs) : zs[i] = <<rs[i], "unavailable", NoTerminal>>
  <2>1. \A i \in 1 .. Len(rs) :
          <<rs[i], "unavailable", NoTerminal>> \in Entries
    BY <1>3, <1>4, <1>7 DEF Entries, Outcomes, Places
  <2>2. zs = [i \in 1 .. Len(rs) |-> <<rs[i], "unavailable", NoTerminal>>]
    BY <1>b, <1>7 DEF isEntries
  <2> QED BY <1>7, <2>1, <2>2
<1>9. PICK n, m : n = Len(ys) /\ m = Len(rs)
  OBVIOUS
<1>10. /\ xs \in Seq(Entries) /\ Len(xs) = n + m /\ n \in Nat /\ m \in Nat
       /\ \A i \in 1 .. n + m : xs[i] = IF i <= n THEN ys[i] ELSE zs[i - n]
  <2>1. /\ xs \in Seq(Entries) /\ Len(xs) = Len(ys) + Len(zs)
        /\ \A i \in 1 .. Len(ys) + Len(zs) :
             xs[i] = IF i <= Len(ys) THEN ys[i] ELSE zs[i - Len(ys)]
    <3>1. zs \in Seq(Entries) /\ xs = ys \o zs
      BY <1>8, <1>c DEF isBoth
    <3> QED BY <3>1, EntriesJoin
  <2>2. Len(ys) \in Nat
    BY LenProperties
  <2> QED BY <1>7, <1>8, <1>9, <2>1, <2>2
<1>11. ASSUME NEW i \in 1 .. n
       PROVE  i \in 1 .. n + m /\ xs[i] = ys[i]
  <2>1. i \in 1 .. n + m /\ i <= n
    BY <1>10
  <2> QED BY <1>10, <2>1
<1>12. ASSUME NEW i \in 1 .. n + m, i \notin 1 .. n
       PROVE  /\ i - n \in 1 .. m /\ xs[i] = zs[i - n]
              /\ xs[i] = <<rs[i - n], "unavailable", NoTerminal>>
  <2>1. i - n \in 1 .. m /\ ~(i <= n)
    BY <1>10, <1>12
  <2> QED BY <1>8, <1>9, <1>10, <2>1
<1>13. ASSUME NEW j \in 1 .. m
       PROVE  n + j \in 1 .. n + m /\ xs[n + j] = zs[j]
  <2>1. n + j \in 1 .. n + m /\ ~(n + j <= n) /\ n + j - n = j
    BY <1>10
  <2> QED BY <1>10, <2>1
<1>14. log' = log \o xs
  <2>1. log \in Seq(Entries)
    BY <1>3 DEF LogOk, Entries
  <2>2. zs \in Seq(Entries) /\ xs = ys \o zs
    BY <1>8, <1>c DEF isBoth
  <2>3. (log \o ys) \o zs = log \o xs
    BY <2>1, <2>2, EntriesJoin
  <2> QED BY <1>2, <2>3
<1>15. Logs(xs)
  <2>1. ASSUME NEW i \in 1 .. n + m
        PROVE  xs[i][1] \in 1 .. Len(request') /\ xs[i][1] \notin Ids(log)
    <3>1. CASE i \in 1 .. n
      BY <1>9, <1>11, <3>1
    <3>2. CASE i \notin 1 .. n
      <4>1. xs[i][1] \in R
        BY <1>7, <1>9, <1>12, <3>2
      <4> QED BY <1>3, <1>4, <4>1
    <3> QED BY <3>1, <3>2
  <2>2. ASSUME NEW i \in 1 .. n, NEW j \in 1 .. n + m, j \notin 1 .. n
        PROVE  xs[i][1] # xs[j][1]
    <3>1. xs[j][1] \in R
      BY <1>7, <1>9, <1>12, <2>2
    <3> QED BY <1>4, <1>9, <1>11, <3>1
  <2>3. ASSUME NEW i \in 1 .. n + m, NEW j \in 1 .. n + m,
               i \notin 1 .. n, j \notin 1 .. n, xs[i][1] = xs[j][1]
        PROVE  i = j
    <3>1. rs[i - n] = rs[j - n]
      BY <1>12, <2>3
    <3>2. i - n = j - n
      BY <1>6, <1>9, <1>12, <2>3, <3>1
    <3> QED BY <1>10, <3>2
  <2>4. ASSUME NEW i \in 1 .. n, NEW j \in 1 .. n, xs[i][1] = xs[j][1]
        PROVE  i = j
    BY <1>9, <1>11, <2>4
  <2>5. \A i, j \in 1 .. n + m : xs[i][1] = xs[j][1] => i = j
    BY <2>2, <2>3, <2>4
  <2> QED BY <1>10, <1>14, <2>1, <2>5 DEF Logs
<1>16. AsMeant(xs)
  <2>1. ASSUME NEW i \in 1 .. n + m, xs[i][2] = "performed"
        PROVE  /\ request'[xs[i][1]].kind = "handoff"
               /\ \A s \in 1 .. xs[i][1] - 1 :
                    /\ seen'[s] \in captured'[xs[i][1]]
                    /\ request'[s].kind # "handoff"
                    => s \in Ids(log)
    <3>1. i \in 1 .. n
      BY <1>12, <2>1
    <3> QED BY <1>9, <1>11, <2>1, <3>1
  <2> QED BY <1>10, <2>1 DEF AsMeant
<1>17. LogOk' /\ \A s : s \in Ids(log)' <=> s \in Ids(log) \/ s \in Ids(xs)
  BY <1>3, <1>15, LogGrows
<1>18. CarriedOutAsMeant'
  BY <1>3, <1>15, <1>16, MeantStays
<1>19. \A s : s \in Ids(xs) <=> \E i \in 1 .. n + m : xs[i][1] = s
  <2>1. xs \in Seq(Entries)
    BY <1>10
  <2>2. \A s : s \in Ids(xs) <=> \E i \in 1 .. Len(xs) : xs[i][1] = s
    BY <2>1, EntryIds, Zenon
  <2> QED BY <1>10, <2>2
<1>20. ASSUME NEW s \in Ids(ys) PROVE s \in Ids(xs)
  <2>1. \A q : q \in Ids(ys) <=> \E i \in 1 .. Len(ys) : ys[i][1] = q
    BY IdsAre, Zenon
  <2>2. PICK i \in 1 .. n : ys[i][1] = s
    BY <1>9, <2>1
  <2> QED BY <1>11, <1>19, <2>2
<1>21. ASSUME NEW s \in R PROVE s \in Ids(xs)
  <2>1. PICK j \in 1 .. m : rs[j] = s
    BY <1>6, <1>9 DEF Has
  <2>2. n + j \in 1 .. n + m /\ xs[n + j] = zs[j]
    BY <1>13
  <2>3. zs[j][1] = s
    BY <1>8, <1>9, <2>1
  <2> QED BY <1>19, <2>2, <2>3
<1>22. AllAccounted'
  <2>1. \A s \in 1 .. Len(request') : s \in Ids(log)'
    BY <1>1, <1>17, <1>20, <1>21
  <2> QED BY <2>1 DEF AllAccounted, Accounted
<1>23. \A t \in Terminals : Queue(t)' = <<>>
  BY <1>2, NoTerminalAssumption DEF Queue, Holding
<1>24. QueuesOk' /\ QueueIsLater'
  <2>1. <<>> \in Seq(ItemType) /\ Len(<<>>) = 0
    BY EmptySeq
  <2>2. \A i : i \notin 1 .. 0
    OBVIOUS
  <2> QED BY <1>23, <2>1, <2>2 DEF QueuesOk, QueueOk, QueueIsLater
<1>25. ReadsOk'
  <2>1. <<>> \in Seq(Terminals \X Nat) /\ Len(<<>>) = 0
    BY EmptySeq
  <2> QED BY <2>1 DEF ReadsOk
<1>26. HandoffsOk' /\ CountsOk'
  <2>1. DOMAIN handoffs' = {}
    BY <1>2
  <2>2. \A t : Waiters(handoffs', t) = {}
    BY <2>1 DEF Waiters
  <2> QED BY <1>2, <2>1, <2>2, FS_EmptySet DEF HandoffsOk, CountsOk
<1>27. ASSUME NEW i \in DOMAIN log' \ DOMAIN log
       PROVE  \/ log'[i][2] = "unavailable"
              \/ \E j \in 1 .. Len(ys) : log'[i] = ys[j]
  <2>1. PICK j \in 1 .. n + m : log'[i] = xs[j]
    BY <1>3, <1>10, <1>15, NewIs
  <2>2. CASE j \in 1 .. n
    BY <1>9, <1>11, <2>1, <2>2
  <2>3. CASE j \notin 1 .. n
    BY <1>12, <2>1, <2>3
  <2> QED BY <2>2, <2>3
<1> QED BY <1>17, <1>18, <1>22, <1>23, <1>24, <1>25, <1>26, <1>27 DEF Books

\* Every request without an answer is put aside or being read.
LEMMA OpenIsAside ==
  ASSUME IInv, ~Holding, NEW s \in 1 .. Len(request)
  PROVE  s \in Ids(log) \/ s \in BeingRead \/ s \in Deferred
<1>1. CASE seen[s] \in Terminals /\ Has(Queue(seen[s]), Item("request", s))
  BY <1>1, DeferredIs
<1>2. CASE \E h \in DOMAIN handoffs : handoffs[h].request = s
  BY <1>2, DeferredIs
<1> QED BY <1>1, <1>2, WasAccounted

\* What is left when the books are closed.
LEMMA ClosedIs ==
  ASSUME Typed', Books', ~releasing', work' = <<>>, ~Holding,
         UNCHANGED taken, taken.queue = <<>>,
         \A t \in Terminals : Queue(t)' = <<>>
  PROVE  IInv'
<1>1. ReleaseOk'
  BY DEF ReleaseOk, Holding
<1>2. SourcesOk'
  BY DEF SourcesOk
<1> QED BY <1>1, <1>2 DEF IInv

\* The server is told to stop.
LEMMA InitiateShutdownStep ==
  ASSUME IInv, InitiateShutdown
  PROVE  /\ IInv'
         /\ \A i \in DOMAIN log' \ DOMAIN log : log'[i][2] # "performed"
<1>1. PICK ys : ys = [i \in DOMAIN reads |->
                        <<reads[i][2], "unavailable", NoTerminal>>]
  OBVIOUS
<1>2. /\ ~releasing /\ stopped' = TRUE /\ reads' = <<>>
      /\ RejectDeferred(log \o ys, {})
      /\ UNCHANGED <<work, taken, releasing>>
      /\ UNCHANGED <<request, seen, captured>>
      /\ UNCHANGED <<bind, rebinds>>
  BY <1>1 DEF InitiateShutdown, releaseVars, arrivalVars
<1>3. Typed /\ ReadsOk /\ ~Holding /\ work = <<>> /\ taken.queue = <<>>
  BY <1>2 DEF IInv, Books, ReleaseOk
<1>4. Typed'
  <2>1. queues' = [t \in Terminals |-> <<>>] /\ UNCHANGED nextId
    BY <1>2 DEF RejectDeferred
  <2>2. <<>> \in Seq(ItemType)
    BY EmptySeq
  <2>3. /\ queues' \in [Terminals -> Seq(ItemType)]
        /\ UNCHANGED <<request, seen, captured, bind, taken, work, releasing>>
        /\ nextId' = nextId /\ stopped' \in BOOLEAN
    BY <1>2, <2>1, <2>2
  <2>4. Typed
    BY <1>3
  <2> QED BY <2>3, <2>4 DEF Typed
<1>5. Grows
  <2>1. Typed /\ UNCHANGED <<request, seen, captured>>
    BY <1>2, <1>3
  <2> QED BY <1>4, <2>1, NoArrival DEF arrivalVars
<1>6. Len(reads) \in Nat /\ DOMAIN reads = 1 .. Len(reads)
  BY <1>3, LenProperties DEF ReadsOk
<1>7. /\ ys \in Seq(Entries) /\ Len(ys) = Len(reads)
      /\ \A i \in 1 .. Len(reads) :
           ys[i] = <<reads[i][2], "unavailable", NoTerminal>>
  <2>1. \A i \in 1 .. Len(reads) :
          <<reads[i][2], "unavailable", NoTerminal>> \in Entries
    <3> SUFFICES ASSUME NEW i \in 1 .. Len(reads)
                 PROVE  <<reads[i][2], "unavailable", NoTerminal>> \in Entries
      OBVIOUS
    <3>1. reads[i] \in Terminals \X Nat
      BY <1>3 DEF ReadsOk
    <3>2. reads[i][2] \in Nat
      BY <3>1
    <3> QED BY <3>2 DEF Entries, Places, Outcomes
  <2>2. ys = [i \in 1 .. Len(reads) |->
                <<reads[i][2], "unavailable", NoTerminal>>]
    BY <1>1, <1>6
  <2> QED BY <1>6, <2>1, <2>2
<1>8. ASSUME NEW i \in 1 .. Len(ys)
      PROVE  /\ ys[i][1] = reads[i][2] /\ ys[i][1] \in BeingRead
             /\ ys[i][2] # "performed"
  <2>1. i \in 1 .. Len(reads)
        /\ ys[i] = <<reads[i][2], "unavailable", NoTerminal>>
    BY <1>7
  <2>2. reads[i][2] \in BeingRead
    BY <1>3, <2>1, ReadsAre
  <2> QED BY <2>1, <2>2
<1>9. ASSUME NEW i \in 1 .. Len(ys)
      PROVE  /\ ys[i][1] \in 1 .. Len(request') /\ ys[i][1] \notin Ids(log)
             /\ ys[i][1] \in Deferred => ys[i][1] \in {}
             /\ ys[i][2] # "performed"
  <2>1. ys[i][1] \in 1 .. Len(request) /\ ys[i][1] \notin Ids(log)
    BY <1>3, <1>8, BeingReadIs
  <2>2. ys[i][1] \notin Deferred
    BY <1>3, <1>8, DeferredOpen
  <2> QED BY <1>2, <1>8, <2>1, <2>2
<1>10. ASSUME NEW i \in 1 .. Len(ys), NEW j \in 1 .. Len(ys),
              ys[i][1] = ys[j][1]
       PROVE  i = j
  <2>1. /\ i \in 1 .. Len(reads) /\ j \in 1 .. Len(reads)
        /\ reads[i][2] = reads[j][2]
    BY <1>7, <1>8, <1>10
  <2> QED BY <1>3, <2>1 DEF ReadsOk
<1>11. ASSUME NEW s \in 1 .. Len(request')
       PROVE  s \in Ids(log) \/ s \in Ids(ys)
              \/ (s \in Deferred /\ s \notin {})
  <2>1. s \in 1 .. Len(request)
    BY <1>2
  <2>2. ASSUME s \in BeingRead PROVE s \in Ids(ys)
    <3>1. PICK i \in 1 .. Len(reads) : reads[i][2] = s
      BY <1>3, <2>2, ReadsAre
    <3>2. i \in 1 .. Len(ys) /\ ys[i][1] = s
      BY <1>7, <1>8, <3>1
    <3>3. ys \in Seq(Entries)
      BY <1>7
    <3>4. \A q : q \in Ids(ys) <=> \E k \in 1 .. Len(ys) : ys[k][1] = q
      BY <3>3, EntryIds, Zenon
    <3> QED BY <3>2, <3>4
  <2> QED BY <1>3, <2>1, <2>2, OpenIsAside
<1>12. /\ Books' /\ \A t \in Terminals : Queue(t)' = <<>>
       /\ \A i \in DOMAIN log' \ DOMAIN log :
            \/ log'[i][2] = "unavailable"
            \/ \E j \in 1 .. Len(ys) : log'[i] = ys[j]
  <2>1. ys \in Seq(Entries) /\ UNCHANGED taken
    BY <1>2, <1>7
  <2> QED BY <1>2, <1>3, <1>5, <1>9, <1>10, <1>11, <2>1, RejectStep
<1>13. IInv'
  BY <1>2, <1>3, <1>4, <1>12, ClosedIs
<1>14. \A i \in DOMAIN log' \ DOMAIN log : log'[i][2] # "performed"
  BY <1>9, <1>12
<1> QED BY <1>13, <1>14

-----------------------------------------------------------------------------
(* Handoffs *)

\* A handoff is dispatched: r is its request, and hs and bs are the table and
\* the barrier counts without it.
Due(r, hs, bs) ==
  /\ Grows /\ UNCHANGED taken /\ ~Holding
  /\ r \in 1 .. Len(request') /\ request'[r].kind = "handoff"
  /\ r \notin Ids(log)
  /\ \A s \in 1 .. Len(request') : s = r \/ s \in 1 .. Len(request)
  /\ DOMAIN hs \subseteq DOMAIN handoffs
  /\ \A g \in DOMAIN hs : hs[g] = handoffs[g] /\ handoffs[g].request # r
  /\ \A g \in DOMAIN handoffs \ DOMAIN hs :
       handoffs[g].request = r /\ handoffs[g].waiting = {}
  /\ bs \in [Terminals -> Nat]
  /\ \A t \in Terminals : bs[t] = Cardinality(Waiters(hs, t))
  /\ \A s \in 1 .. r - 1 :
       /\ seen'[s] \in captured'[r] /\ ~Reading(seen'[s])
       /\ request'[s].kind # "handoff"
       => s \in Ids(log)

\* What stays behind when it is dispatched.
LEMMA DueLeaves ==
  ASSUME IInv, NEW r, NEW hs, NEW bs, Due(r, hs, bs)
  PROVE  /\ \A u \in Terminals : \A x : Has(Queue(u), x) =>
              /\ x.what = "request" => x.id # r
              /\ x.what = "barrier" =>
                   x.id \in DOMAIN hs /\ hs[x.id] = handoffs[x.id]
         /\ r \notin BeingRead
<1>1. ASSUME NEW u \in Terminals, NEW x, Has(Queue(u), x)
      PROVE  /\ x.what = "request" => x.id # r
             /\ x.what = "barrier" =>
                  x.id \in DOMAIN hs /\ hs[x.id] = handoffs[x.id]
  <2>1. /\ x.what = "request" =>
             x.id \in 1 .. Len(request) /\ request[x.id].kind # "handoff"
        /\ x.what = "barrier" =>
             x.id \in DOMAIN handoffs /\ u \in handoffs[x.id].waiting
    BY <1>1, ItemIs DEF IInv, Books
  <2>2. x.what = "request" => x.id # r
    BY <2>1 DEF Due, Grows
  <2>3. x.what = "barrier" =>
          x.id \in DOMAIN hs /\ hs[x.id] = handoffs[x.id]
    BY <2>1 DEF Due
  <2> QED BY <2>2, <2>3
<1>2. r \notin BeingRead
  <2>1. ReadsOk
    BY DEF IInv, Books
  <2>2. \A s \in BeingRead :
          s \in 1 .. Len(request) /\ request[s].kind = "read"
    BY <2>1, BeingReadIs
  <2> QED BY <2>2 DEF Due, Grows
<1> QED BY <1>1, <1>2

\* It is carried out, and this server goes on.
LEMMA HandoffDone ==
  ASSUME IInv, NEW r, NEW hs, NEW bs, Due(r, hs, bs), reads = <<>>,
         log' = log \o Entry(r, "performed", NoTerminal),
         handoffs' = hs, barriers' = bs, UNCHANGED <<queues, nextId, reads>>
  PROVE  Books'
<1>1. /\ Typed /\ LogOk /\ ReadsOk /\ HandoffsOk /\ QueuesOk
      /\ Grows /\ UNCHANGED <<taken, queues>> /\ r \notin Ids(log)
      /\ r \in 1 .. Len(request') /\ request'[r].kind = "handoff"
  BY DEF IInv, Books, Due
<1>2. Len(request') \in Nat /\ nextId \in Nat
  BY <1>1 DEF Grows, Typed
<1>3. PICK xs, o, p : xs = Entry(r, o, p) /\ o = "performed" /\ p = NoTerminal
  OBVIOUS
<1>4. o \in Outcomes /\ p \in Places /\ Adds(xs)
  BY <1>3 DEF Outcomes, Places, Adds
<1>5. xs = Entry(r, o, p)
  BY <1>3
<1>6. Logs(xs) /\ Single(xs, r, o, p)
  BY <1>1, <1>2, <1>4, <1>5, OneEntry
<1>7. /\ \A s : s \in Ids(xs) <=> s = r
      /\ \A i \in 1 .. Len(xs) : xs[i][1] = r
  BY <1>6 DEF Single
<1>8. \A s : s \in Ids(log)' <=> s \in Ids(log) \/ s = r
  BY <1>1, <1>6, <1>7, LogGrows
<1>9. AsMeant(xs)
  <2>1. \A s : ~Reading(s)
    BY DEF Reading
  <2>2. ASSUME NEW s \in 1 .. r - 1, seen'[s] \in captured'[r],
               request'[s].kind # "handoff"
        PROVE  s \in Ids(log)
    BY <2>1, <2>2 DEF Due
  <2> QED BY <1>1, <1>7, <2>2 DEF AsMeant
<1>10. /\ \A u \in Terminals : \A x : Has(Queue(u), x) =>
            /\ x.what = "request" => x.id # r
            /\ x.what = "barrier" =>
                 x.id \in DOMAIN hs /\ hs[x.id] = handoffs[x.id]
       /\ r \notin BeingRead
  BY DueLeaves
<1>11. ReadsOk' /\ BeingRead' = BeingRead
  <2>1. \A s \in BeingRead : s \notin Ids(log)'
    BY <1>1, <1>8, <1>10, BeingReadIs
  <2> QED BY <1>1, <2>1, ReadsStay
<1>12. HandoffsOk'
  <2>1. ASSUME NEW h \in DOMAIN handoffs'
        PROVE  /\ h \in DOMAIN handoffs /\ handoffs'[h] = handoffs[h]
               /\ handoffs[h].request \notin Ids(log)'
    <3>1. /\ h \in DOMAIN handoffs /\ handoffs'[h] = handoffs[h]
          /\ handoffs[h].request # r
      BY DEF Due
    <3>2. handoffs[h].request \notin Ids(log)
      BY <1>1, <3>1 DEF HandoffsOk, HandoffOk
    <3> QED BY <1>8, <3>1, <3>2
  <2>2. nextId <= nextId'
    BY <1>2
  <2> QED BY <1>1, <1>8, <2>1, <2>2, HandoffsStay
<1>13. CountsOk'
  BY DEF CountsOk, Due
<1>14. Leaves(NoTerminal) /\ \A u \in Terminals : \A x :
         Stays(x, u, NoTerminal) <=> Has(Queue(u), x)
  BY <1>1, NoneLeaves
<1>15. ASSUME NEW u \in Terminals, NEW x \in ItemType, Stays(x, u, NoTerminal)
       PROVE  /\ Waits(x, u)'
              /\ x.what = "barrier" =>
                   handoffs'[x.id].request = handoffs[x.id].request
  <2>1. Has(Queue(u), x)
    BY <1>14, <1>15
  <2>2. x.what = "request" => x.id \notin Ids(log) /\ x.id \notin BeingRead
    BY <1>1, <2>1, ItemIs
  <2>3. x.what = "request" => x.id \notin Ids(log)' /\ x.id \notin BeingRead'
    BY <1>8, <1>10, <1>11, <2>1, <2>2
  <2>4. x.what = "barrier" =>
          x.id \in DOMAIN handoffs' /\ handoffs'[x.id] = handoffs[x.id]
    BY <1>10, <2>1
  <2>5. Waits(x, u)'
    BY <1>1, <2>1, <2>3, <2>4, WaitsStay
  <2> QED BY <2>4, <2>5
<1>16. \A i \in 1 .. Len(xs) : request'[xs[i][1]].kind # "input"
  BY <1>1, <1>7
<1>17. ASSUME NEW s \in 1 .. Len(request')
       PROVE  \/ s \in Ids(log)'
              \/ s \in BeingRead'
              \/ \E h \in DOMAIN handoffs' : handoffs'[h].request = s
              \/ /\ s \in 1 .. Len(request) /\ seen[s] \in Terminals
                 /\ Stays(Item("request", s), seen[s], NoTerminal)
  <2>1. CASE s = r
    BY <1>8, <2>1
  <2>2. CASE s \in 1 .. Len(request) /\ s # r
    <3>1. CASE \E h \in DOMAIN handoffs : handoffs[h].request = s
      BY <2>2, <3>1 DEF Due
    <3> QED BY <1>8, <1>11, <1>14, <2>2, <3>1, WasAccounted
  <2> QED BY <2>1, <2>2 DEF Due
<1> QED BY <1>1, <1>6, <1>9, <1>11, <1>12, <1>13, <1>14, <1>15, <1>16, <1>17,
           BooksStay

\* It is carried out, and this server ends.
LEMMA HandoffEnds ==
  ASSUME IInv, NEW r, NEW hs, NEW bs, Due(r, hs, bs),
         reads = <<>>, UNCHANGED reads,
         RejectDeferred(log \o Entry(r, "performed", NoTerminal), {r})
  PROVE  Books' /\ \A t \in Terminals : Queue(t)' = <<>>
<1>1. PICK ys : ys = Entry(r, "performed", NoTerminal)
  OBVIOUS
<1>2. /\ Grows /\ ~Holding /\ UNCHANGED taken /\ reads' = <<>>
      /\ RejectDeferred(log \o ys, {r})
      /\ r \in 1 .. Len(request') /\ request'[r].kind = "handoff"
      /\ r \notin Ids(log)
  BY <1>1 DEF Due
<1>3. /\ ys \in Seq(Entries) /\ Len(ys) = 1
      /\ ys[1] = <<r, "performed", NoTerminal>>
  <2>1. r \in Nat
    BY <1>2 DEF Grows, Typed
  <2>2. <<r, "performed", NoTerminal>> \in Entries
    BY <2>1 DEF Entries, Outcomes, Places
  <2>3. ys = << <<r, "performed", NoTerminal>> >>
    BY <1>1 DEF Entry
  <2> QED BY <2>2, <2>3
<1>4. \A i \in 1 .. Len(ys) : i = 1 /\ ys[i][1] = r
  BY <1>3
<1>5. \A s : ~Reading(s)
  BY DEF Reading
<1>6. ASSUME NEW s \in 1 .. r - 1, seen'[s] \in captured'[r],
             request'[s].kind # "handoff"
      PROVE  s \in Ids(log)
  BY <1>5, <1>6 DEF Due
<1>7. ASSUME NEW i \in 1 .. Len(ys)
      PROVE  /\ ys[i][1] \in 1 .. Len(request') /\ ys[i][1] \notin Ids(log)
             /\ ys[i][1] \in Deferred => ys[i][1] \in {r}
             /\ ys[i][2] = "performed" =>
                  /\ request'[ys[i][1]].kind = "handoff"
                  /\ \A s \in 1 .. ys[i][1] - 1 :
                       /\ seen'[s] \in captured'[ys[i][1]]
                       /\ request'[s].kind # "handoff"
                       => s \in Ids(log)
  BY <1>2, <1>4, <1>6
<1>8. \A i, j \in 1 .. Len(ys) : ys[i][1] = ys[j][1] => i = j
  BY <1>4
<1>9. r \in Ids(ys)
  <2>1. ys \in Seq(Entries)
    BY <1>3
  <2>2. \A s : s \in Ids(ys) <=> \E i \in 1 .. Len(ys) : ys[i][1] = s
    BY <2>1, EntryIds, Zenon
  <2>3. 1 \in 1 .. Len(ys) /\ ys[1][1] = r
    BY <1>3
  <2> QED BY <2>2, <2>3
<1>10. ASSUME NEW s \in 1 .. Len(request')
       PROVE  s \in Ids(log) \/ s \in Ids(ys)
              \/ (s \in Deferred /\ s \notin {r})
  <2>1. CASE s = r
    BY <1>9, <2>1
  <2>2. CASE s \in 1 .. Len(request) /\ s # r
    <3>1. s \notin BeingRead
      BY DEF BeingRead
    <3> QED BY <1>2, <2>2, <3>1, OpenIsAside
  <2> QED BY <2>1, <2>2 DEF Due
<1>11. ys \in Seq(Entries)
  BY <1>3
<1> QED BY <1>2, <1>7, <1>8, <1>10, <1>11, RejectStep

\* It is put aside, behind the traversals that are under way.
LEMMA HandoffPutAside ==
  ASSUME IInv, NEW r, NEW hs, NEW bs, Due(r, hs, bs),
         DeferHandoff(r, hs, bs), UNCHANGED <<reads, log>>
  PROVE  /\ Books'
         /\ \A u \in Terminals : Reading(u) \/ Queue(u)' = Queue(u)
         /\ \A u \in Terminals : bs[u] > 0 => barriers'[u] > 0
<1>1. PICK G, k, x, it :
        /\ G = {reads[i][1] : i \in DOMAIN reads} /\ k = nextId
        /\ x = Item("barrier", nextId)
        /\ it = [request |-> r, waiting |-> G, terminals |-> G]
  OBVIOUS
<1>2. /\ queues' = [t \in Terminals |->
                      IF t \in G THEN Append(queues[t], x) ELSE queues[t]]
      /\ barriers' = [t \in Terminals |->
                        IF t \in G THEN bs[t] + 1 ELSE bs[t]]
      /\ handoffs' = [h \in DOMAIN hs \cup {k} |->
                        IF h = k THEN it ELSE hs[h]]
      /\ nextId' = k + 1
  BY <1>1 DEF DeferHandoff, BarrierBehind
<1>3. /\ Typed /\ LogOk /\ ReadsOk /\ HandoffsOk /\ QueuesOk
      /\ Grows /\ UNCHANGED taken /\ ~Holding /\ r \notin Ids(log)
      /\ r \in 1 .. Len(request') /\ request'[r].kind = "handoff"
  BY DEF IInv, Books, Due
<1>4. k \in Nat \ {0} /\ Len(request') \in Nat /\ r \in Nat
  BY <1>1, <1>3 DEF Grows, Typed
<1>5. /\ x \in ItemType /\ x.what = "barrier" /\ x.id = k
  <2>1. x = Item("barrier", k)
    BY <1>1
  <2> QED BY <1>4, <2>1 DEF Item, ItemType
<1>6. \A t : t \in G <=> Reading(t)
  BY <1>1, <1>3, ReadsAre
<1>7. G \subseteq Terminals
  <2>1. ASSUME NEW t, Reading(t) PROVE t \in Terminals
    <3>1. PICK i \in 1 .. Len(reads) : reads[i][1] = t
      BY <1>3, <2>1, ReadsAre
    <3>2. reads[i] \in Terminals \X Nat
      BY <1>3 DEF ReadsOk
    <3> QED BY <3>1, <3>2
  <2> QED BY <1>6, <2>1
<1>8. /\ it \in HandoffType /\ it.request = r /\ it.waiting = G
      /\ it.terminals = G
  <2>1. it = [request |-> r, waiting |-> G, terminals |-> G]
    BY <1>1
  <2> QED BY <1>4, <1>7, <2>1 DEF HandoffType
<1>9. \A g \in DOMAIN handoffs : g \in 1 .. k - 1
  BY <1>1, <1>3 DEF HandoffsOk, HandoffOk
<1>10. DOMAIN hs \subseteq 1 .. k - 1 /\ k \notin DOMAIN hs
  <2>1. DOMAIN hs \subseteq 1 .. k - 1
    BY <1>9 DEF Due
  <2> QED BY <1>4, <2>1
<1>11. /\ DOMAIN handoffs' = DOMAIN hs \cup {k} /\ handoffs'[k] = it
       /\ \A g \in DOMAIN hs :
            /\ handoffs'[g] = handoffs[g] /\ g \in DOMAIN handoffs
            /\ handoffs[g].request # r
  <2>1. /\ DOMAIN handoffs' = DOMAIN hs \cup {k} /\ handoffs'[k] = it
        /\ \A g \in DOMAIN hs : handoffs'[g] = hs[g]
    BY <1>2, <1>10
  <2> QED BY <2>1 DEF Due
<1>12. Ids(log)' = Ids(log)
  OBVIOUS
<1>13. ReadsOk' /\ BeingRead' = BeingRead
  BY <1>3, <1>12, BeingReadIs, ReadsStay
<1>14. HandoffsOk'
  <2>1. HandoffOk(k)'
    <3>1. k \in 1 .. nextId' - 1
      BY <1>2, <1>4
    <3>2. ASSUME NEW s \in 1 .. r - 1, seen'[s] \in captured'[r] \ G,
                 request'[s].kind # "handoff"
          PROVE  s \in Ids(log)
      BY <1>6, <3>2 DEF Due
    <3> QED BY <1>3, <1>8, <1>11, <1>12, <3>1, <3>2 DEF HandoffOk
  <2>2. ASSUME NEW g \in DOMAIN hs PROVE HandoffOk(g)'
    <3>1. /\ HandoffOk(g) /\ handoffs'[g] = handoffs[g]
          /\ handoffs[g].request \notin Ids(log)'
      BY <1>3, <1>11, <1>12 DEF HandoffsOk, HandoffOk
    <3>2. nextId <= nextId'
      BY <1>1, <1>2, <1>4
    <3> QED BY <1>3, <1>12, <3>1, <3>2, HandoffStays
  <2>3. ASSUME NEW g \in DOMAIN hs PROVE handoffs'[g].request # r
    BY <1>11
  <2>4. ASSUME NEW g \in DOMAIN hs, NEW h \in DOMAIN hs,
               handoffs'[g].request = handoffs'[h].request
        PROVE  g = h
    BY <1>3, <1>11, <2>4 DEF HandoffsOk
  <2> QED BY <1>8, <1>11, <2>1, <2>2, <2>3, <2>4 DEF HandoffsOk
<1>15. CountsOk' /\ \A u \in Terminals : bs[u] > 0 => barriers'[u] > 0
  <2>1. PICK gs, m : gs = handoffs' /\ m = k - 1
    OBVIOUS
  <2>2. /\ m \in Nat /\ DOMAIN hs \subseteq 1 .. m /\ k \notin DOMAIN hs
        /\ gs = [g \in DOMAIN hs \cup {k} |-> IF g = k THEN it ELSE hs[g]]
    BY <1>2, <1>4, <1>10, <2>1
  <2>3. ASSUME NEW t \in Terminals
        PROVE  /\ barriers'[t] \in Nat
               /\ barriers'[t] = Cardinality(Waiters(gs, t))
               /\ bs[t] > 0 => barriers'[t] > 0
    <3>1. /\ Cardinality(Waiters(gs, t)) =
               IF t \in it.terminals THEN Cardinality(Waiters(hs, t)) + 1
               ELSE Cardinality(Waiters(hs, t))
      BY <2>2, WaitersWith
    <3>2. bs[t] \in Nat /\ bs[t] = Cardinality(Waiters(hs, t))
      BY DEF Due
    <3>3. barriers'[t] = IF t \in G THEN bs[t] + 1 ELSE bs[t]
      BY <1>2
    <3> QED BY <1>8, <3>1, <3>2, <3>3
  <2>4. barriers' \in [Terminals -> Nat]
    BY <1>2, <2>3
  <2> QED BY <2>1, <2>3, <2>4 DEF CountsOk
<1>16. Joins(x, G)
  <2>1. \A u \in Terminals : Queue(u) = queues[u] /\ Queue(u)' = queues'[u]
    <3>1. \A u \in Terminals : u # taken.terminal /\ u # taken'.terminal
      BY <1>3, NoTerminalAssumption DEF Holding
    <3> QED BY <3>1 DEF Queue
  <2> QED BY <1>2, <2>1 DEF Joins
<1>17. \A u \in Terminals : \A y : Has(Queue(u), y) =>
         /\ y.what = "barrier" =>
              y.id \in DOMAIN hs /\ hs[y.id] = handoffs[y.id]
  BY DueLeaves
<1>18. ASSUME NEW u \in Terminals, NEW y \in ItemType, Has(Queue(u), y)
       PROVE  /\ Waits(y, u)'
              /\ y.what = "barrier" =>
                   handoffs'[y.id].request = handoffs[y.id].request
              /\ u \in G => Before(y, x)'
  <2>1. y.what = "request" => y.id \notin Ids(log)' /\ y.id \notin BeingRead'
    BY <1>3, <1>12, <1>13, <1>18, ItemIs
  <2>2. y.what = "barrier" =>
          /\ y.id \in DOMAIN handoffs' /\ handoffs'[y.id] = handoffs[y.id]
          /\ y.id \in 1 .. k - 1
    BY <1>10, <1>11, <1>17, <1>18
  <2>3. Waits(y, u)'
    BY <1>3, <1>18, <2>1, <2>2, WaitsStay
  <2>4. Before(y, x)'
    BY <1>4, <1>5, <2>2 DEF Before
  <2> QED BY <2>2, <2>3, <2>4
<1>19. \A u \in G : Waits(x, u)'
  BY <1>5, <1>8, <1>11 DEF Waits
<1>20. ASSUME NEW s \in 1 .. Len(request')
       PROVE  \/ s \in Ids(log)
              \/ s \in BeingRead'
              \/ \E h \in DOMAIN handoffs' : handoffs'[h].request = s
              \/ seen'[s] \in Terminals /\ InQueue(s, seen'[s])
  <2>1. CASE s = r
    BY <1>8, <1>11, <2>1
  <2>2. CASE s \in 1 .. Len(request) /\ s # r
    <3>1. CASE \E h \in DOMAIN handoffs : handoffs[h].request = s
      <4>1. PICK h \in DOMAIN handoffs : handoffs[h].request = s
        BY <3>1
      <4>2. h \in DOMAIN hs
        BY <2>2, <4>1 DEF Due
      <4> QED BY <1>11, <4>1, <4>2
    <3>2. seen'[s] = seen[s]
      BY <1>3, <2>2 DEF Grows
    <3> QED BY <1>13, <2>2, <3>1, <3>2, WasAccounted DEF InQueue
  <2> QED BY <2>1, <2>2 DEF Due
<1>21. x.what = "request" => x.id > Len(request)
  BY <1>5
<1>22. Books'
  BY <1>3, <1>5, <1>13, <1>14, <1>15, <1>16, <1>18, <1>19, <1>20, <1>21,
     BooksGrow
<1>23. \A u \in Terminals : Reading(u) \/ Queue(u)' = Queue(u)
  BY <1>6, <1>16 DEF Joins
<1> QED BY <1>15, <1>22, <1>23

\* How a handoff is dispatched.
Dispatched(r, hs, bs) ==
  IF reads = <<>> THEN PerformHandoff(r, hs, bs)
  ELSE DeferHandoff(r, hs, bs) /\ UNCHANGED <<reads, log, stopped>>

\* The types of what it leaves.
LEMMA DispatchTypes ==
  ASSUME Typed, NEW r, NEW hs, NEW bs, Dispatched(r, hs, bs)
  PROVE  /\ queues' \in [Terminals -> Seq(ItemType)] /\ nextId' \in Nat \ {0}
         /\ stopped' \in BOOLEAN
<1>1. CASE DeferHandoff(r, hs, bs) /\ UNCHANGED <<reads, log, stopped>>
  <2>1. PICK G, x : /\ G = {reads[i][1] : i \in DOMAIN reads}
                    /\ x = Item("barrier", nextId)
    OBVIOUS
  <2>2. /\ queues' = [t \in Terminals |->
                        IF t \in G THEN Append(queues[t], x) ELSE queues[t]]
        /\ nextId' = nextId + 1
    BY <1>1, <2>1 DEF DeferHandoff, BarrierBehind
  <2>3. x \in ItemType /\ nextId' \in Nat \ {0}
    BY <2>1, <2>2 DEF Item, ItemType, Typed
  <2>4. \A t \in Terminals : /\ queues[t] \in Seq(ItemType)
                             /\ Append(queues[t], x) \in Seq(ItemType)
    BY <2>3, AppendProperties DEF Typed
  <2>5. queues' \in [Terminals -> Seq(ItemType)]
    BY <2>2, <2>4
  <2> QED BY <1>1, <2>3, <2>5 DEF Typed
<1>2. CASE UNCHANGED <<queues, nextId, reads, stopped>>
  BY <1>2 DEF Typed
<1>3. CASE /\ stopped' = TRUE
           /\ RejectDeferred(log \o Entry(r, "performed", NoTerminal), {r})
  <2>1. queues' = [t \in Terminals |-> <<>>] /\ UNCHANGED nextId
    BY <1>3 DEF RejectDeferred
  <2>2. <<>> \in Seq(ItemType)
    BY EmptySeq
  <2>3. queues' \in [Terminals -> Seq(ItemType)]
    BY <2>1, <2>2
  <2> QED BY <1>3, <2>1, <2>3 DEF Typed
<1> QED BY <1>1, <1>2, <1>3 DEF Dispatched, PerformHandoff

\* The books after it: the server ends, or what waits goes on waiting.
LEMMA DispatchBooks ==
  ASSUME IInv, NEW r, NEW hs, NEW bs, Due(r, hs, bs), Dispatched(r, hs, bs)
  PROVE  /\ Books'
         /\ \/ stopped' = TRUE /\ \A t \in Terminals : Queue(t)' = <<>>
            \/ /\ UNCHANGED <<stopped, reads>>
               /\ \A u \in Terminals : Reading(u) \/ Queue(u)' = Queue(u)
               /\ \A u \in Terminals : bs[u] > 0 => barriers'[u] > 0
<1>1. CASE DeferHandoff(r, hs, bs) /\ UNCHANGED <<reads, log, stopped>>
  BY <1>1, HandoffPutAside
<1>2. CASE /\ reads = <<>>
           /\ log' = log \o Entry(r, "performed", NoTerminal)
           /\ handoffs' = hs /\ barriers' = bs
           /\ UNCHANGED <<queues, nextId, reads, stopped>>
  <2>1. Books'
    BY <1>2, HandoffDone
  <2>2. \A u \in Terminals : Queue(u)' = Queue(u)
    BY <1>2 DEF Due, Queue
  <2> QED BY <1>2, <2>1, <2>2
<1>3. CASE /\ reads = <<>> /\ stopped' = TRUE /\ UNCHANGED reads
           /\ RejectDeferred(log \o Entry(r, "performed", NoTerminal), {r})
  BY <1>3, HandoffEnds
<1> QED BY <1>1, <1>2, <1>3 DEF Dispatched, PerformHandoff

\* A live handoff is asked for.
LEMMA ArriveHandoffStep ==
  ASSUME IInv, ArriveHandoff
  PROVE  IInv'
<1>1. PICK r, ts, hs, bs : /\ r = Len(request) + 1
                           /\ ts = {reads[i][1] : i \in DOMAIN reads}
                           /\ hs = handoffs /\ bs = barriers
  OBVIOUS
<1>2. /\ Record("handoff", NoTerminal, NoTerminal, ts)
      /\ Dispatched(r, hs, bs)
  BY <1>1 DEF ArriveHandoff, Dispatched
<1>3. /\ Typed /\ ReadsOk /\ HandoffsOk /\ CountsOk /\ SourcesOk
  BY DEF IInv, Books
<1>4. \A t : t \in ts <=> Reading(t)
  BY <1>1, <1>3, ReadsAre
<1>5. ts \in SUBSET Terminals
  <2>1. ASSUME NEW t, Reading(t) PROVE t \in Terminals
    <3>1. PICK i \in 1 .. Len(reads) : reads[i][1] = t
      BY <1>3, <2>1, ReadsAre
    <3>2. reads[i] \in Terminals \X Nat
      BY <1>3 DEF ReadsOk
    <3> QED BY <3>1, <3>2
  <2> QED BY <1>4, <2>1
<1>6. Arrived(r, "handoff", NoTerminal, ts)
  <2>1. /\ queues' \in [Terminals -> Seq(ItemType)] /\ nextId' \in Nat \ {0}
        /\ stopped' \in BOOLEAN
    BY <1>2, <1>3, DispatchTypes
  <2>2. PICK kind, p : kind = "handoff" /\ p = NoTerminal
    OBVIOUS
  <2>3. /\ kind \in Kinds /\ p \in Names \cup {NoTerminal} /\ p \in Places
        /\ kind = "handoff" /\ Record(kind, p, p, ts) /\ r = Len(request) + 1
    BY <1>1, <1>2, <2>2 DEF Kinds, Places
  <2>4. Arrived(r, kind, p, ts)
    BY <1>3, <1>5, <2>1, <2>3, RecordIs
  <2> QED BY <2>2, <2>4
<1>7. /\ r \in 1 .. Len(request') /\ r \notin Ids(log)
      /\ \A s \in 1 .. Len(request') : s \in 1 .. Len(request) \/ s = r
      /\ ~Holding /\ work = <<>> /\ r \in Nat
      /\ \A h \in DOMAIN handoffs : handoffs[h].request < r
  BY <1>6, NewRequest
<1>8. /\ Grows /\ UNCHANGED <<work, taken, releasing>> /\ ~releasing
      /\ request'[r].kind = "handoff" /\ captured'[r] = ts
      /\ UNCHANGED releaseVars
  BY <1>6 DEF Arrived, releaseVars
<1>9. Due(r, hs, bs)
  <2>1. \A g \in DOMAIN hs : hs[g] = handoffs[g] /\ handoffs[g].request # r
    <3>1. ASSUME NEW g \in DOMAIN handoffs PROVE handoffs[g].request # r
      <4>1. handoffs[g].request < r
        BY <1>7
      <4> QED BY <1>7, <4>1
    <3> QED BY <1>1, <3>1
  <2>2. /\ bs \in [Terminals -> Nat]
        /\ \A t \in Terminals : bs[t] = Cardinality(Waiters(hs, t))
    BY <1>1, <1>3 DEF CountsOk
  <2>3. DOMAIN hs = DOMAIN handoffs
    BY <1>1
  <2>4. \A s \in 1 .. r - 1 :
          /\ seen'[s] \in captured'[r] /\ ~Reading(seen'[s])
          /\ request'[s].kind # "handoff"
          => s \in Ids(log)
    BY <1>4, <1>8
  <2> QED BY <1>7, <1>8, <2>1, <2>2, <2>3, <2>4 DEF Due
<1>10. /\ Books'
       /\ \/ stopped' = TRUE /\ \A t \in Terminals : Queue(t)' = <<>>
          \/ /\ UNCHANGED <<stopped, reads>>
             /\ \A u \in Terminals : Reading(u) \/ Queue(u)' = Queue(u)
             /\ \A u \in Terminals : bs[u] > 0 => barriers'[u] > 0
  BY <1>2, <1>9, DispatchBooks
<1>11. Typed' /\ ReleaseOk'
  BY <1>8, ReleaseRests DEF Grows
<1>12. ASSUME NEW u \in Terminals, Queue(u)' # <<>> PROVE HasSource(u)'
  <2>1. /\ UNCHANGED reads /\ (Reading(u) \/ Queue(u)' = Queue(u))
        /\ bs[u] > 0 => barriers'[u] > 0
    BY <1>10, <1>12
  <2>2. CASE Reading(u)
    BY <2>1, <2>2 DEF HasSource, Reading
  <2>3. CASE ~Reading(u)
    <3>1. HasSource(u)
      BY <1>3, <1>12, <2>1, <2>3 DEF SourcesOk
    <3>2. taken.terminal # u /\ \A i : i \notin 1 .. Len(work)
      BY <1>7, NoTerminalAssumption DEF Holding
    <3>3. barriers[u] > 0
      BY <2>3, <3>1, <3>2 DEF HasSource, BlockedByHandoff
    <3> QED BY <1>1, <2>1, <3>3 DEF HasSource, BlockedByHandoff
  <2> QED BY <2>2, <2>3
<1> QED BY <1>10, <1>11, <1>12 DEF IInv, SourcesOk

\* The oldest handoff is taken out of the table once it need not wait.
LEMMA TakeReadyHandoffStep ==
  ASSUME IInv, NEW h \in DOMAIN handoffs, TakeReadyHandoff(h)
  PROVE  IInv'
<1>1. PICK it, r, hs, bs :
        /\ it = handoffs[h] /\ r = it.request
        /\ hs = [g \in DOMAIN handoffs \ {h} |-> handoffs[g]]
        /\ bs = Lowered(it.terminals)
  OBVIOUS
<1>2. /\ releasing /\ ~Holding /\ work = <<>> /\ it.waiting = {}
      /\ Dispatched(r, hs, bs)
      /\ IF stopped' THEN releasing' = FALSE /\ UNCHANGED work
         ELSE work' = Affected(it.terminals) /\ UNCHANGED releasing
      /\ UNCHANGED <<taken, request, seen, captured, bind, rebinds>>
  BY <1>1 DEF TakeReadyHandoff, Dispatched, Ready, arrivalVars
<1>3. /\ Typed /\ ReadsOk /\ HandoffsOk /\ CountsOk /\ SourcesOk /\ ReleaseOk
  BY DEF IInv, Books
<1>4. HandoffOk(h) /\ it \in HandoffType
  BY <1>1, <1>3 DEF HandoffsOk, HandoffOk
<1>5. /\ r \in 1 .. Len(request) /\ request[r].kind = "handoff"
      /\ r \notin Ids(log) /\ it.terminals \subseteq Terminals
      /\ \A s \in 1 .. r - 1 :
           seen[s] \in captured[r] /\ request[s].kind # "handoff" =>
             s \in Ids(log)
  BY <1>1, <1>2, <1>4 DEF HandoffOk, HandoffType
<1>6. PICK A : A = {t \in it.terminals : ~Reading(t)}
  OBVIOUS
<1>7. IsFiniteSet(A) /\ A \subseteq Terminals
  BY <1>5, <1>6, TerminalsAssumption, FS_Subset
<1>8. ~stopped' => /\ work' \in Seq(Terminals)
                   /\ \A t \in A : Has(work', t)
  <2>1. PICK w : w = SetToSeq(A)
    OBVIOUS
  <2>2. w \in Seq(A) /\ \A t \in A : Has(w, t)
    BY <1>7, <2>1, SetToSeqIs
  <2>3. w \in Seq(Terminals)
    <3>1. w \in [1 .. Len(w) -> A] /\ Len(w) \in Nat
      BY <2>2
    <3>2. w \in [1 .. Len(w) -> Terminals]
      BY <1>7, <3>1
    <3> QED BY <3>1, <3>2
  <2>4. ~stopped' => work' = w
    BY <1>2, <1>6, <2>1 DEF Affected
  <2> QED BY <2>2, <2>3, <2>4
<1>9. Typed'
  <2>1. /\ queues' \in [Terminals -> Seq(ItemType)] /\ nextId' \in Nat \ {0}
        /\ stopped' \in BOOLEAN
    BY <1>2, <1>3, DispatchTypes
  <2>2. /\ work' \in Seq(Terminals) /\ releasing' \in BOOLEAN
    BY <1>2, <1>3, <1>8, <2>1 DEF Typed
  <2> QED BY <1>2, <1>3, <2>1, <2>2 DEF Typed
<1>10. Grows
  BY <1>2, <1>3, <1>9, NoArrival DEF arrivalVars
<1>11. ASSUME NEW t \in Terminals
       PROVE  /\ bs[t] \in Nat /\ bs[t] = Cardinality(Waiters(hs, t))
              /\ t \notin it.terminals => bs[t] = barriers[t]
  <2>1. PICK fs, m : fs = handoffs /\ m = nextId - 1
    OBVIOUS
  <2>2. /\ m \in Nat /\ DOMAIN fs \subseteq 1 .. m /\ h \in DOMAIN fs
        /\ hs = [g \in DOMAIN fs \ {h} |-> fs[g]] /\ fs[h] = it
    BY <1>1, <1>3, <2>1 DEF HandoffsOk, HandoffOk, Typed
  <2>3. /\ Cardinality(Waiters(hs, t)) \in Nat
        /\ Cardinality(Waiters(hs, t)) =
             IF t \in fs[h].terminals THEN Cardinality(Waiters(fs, t)) - 1
             ELSE Cardinality(Waiters(fs, t))
    BY <2>2, WaitersWithout
  <2>4. barriers[t] = Cardinality(Waiters(fs, t))
    BY <1>3, <2>1 DEF CountsOk
  <2>5. bs[t] = IF t \in it.terminals THEN barriers[t] - 1 ELSE barriers[t]
    BY <1>1 DEF Lowered
  <2> QED BY <2>2, <2>3, <2>4, <2>5
<1>12. Due(r, hs, bs)
  <2>1. bs \in [Terminals -> Nat]
    <3>1. bs = [t \in Terminals |-> bs[t]]
      BY <1>1 DEF Lowered
    <3> QED BY <1>11, <3>1
  <2>2. /\ DOMAIN hs = DOMAIN handoffs \ {h}
        /\ \A g \in DOMAIN hs : hs[g] = handoffs[g]
    BY <1>1
  <2>3. \A g \in DOMAIN hs : handoffs[g].request # r
    BY <1>1, <1>3, <2>2 DEF HandoffsOk
  <2>4. \A g \in DOMAIN handoffs \ DOMAIN hs :
          handoffs[g].request = r /\ handoffs[g].waiting = {}
    BY <1>1, <1>2, <2>2
  <2>5. /\ r \in 1 .. Len(request') /\ request'[r].kind = "handoff"
        /\ \A s \in 1 .. r - 1 :
             /\ seen'[s] \in captured'[r] /\ ~Reading(seen'[s])
             /\ request'[s].kind # "handoff"
             => s \in Ids(log)
        /\ \A s \in 1 .. Len(request') : s = r \/ s \in 1 .. Len(request)
    BY <1>2, <1>5
  <2> QED BY <1>2, <1>5, <1>10, <1>11, <2>1, <2>2, <2>3, <2>4, <2>5 DEF Due
<1>13. /\ Books'
       /\ \/ stopped' = TRUE /\ \A t \in Terminals : Queue(t)' = <<>>
          \/ /\ UNCHANGED <<stopped, reads>>
             /\ \A u \in Terminals : Reading(u) \/ Queue(u)' = Queue(u)
             /\ \A u \in Terminals : bs[u] > 0 => barriers'[u] > 0
  BY <1>2, <1>12, DispatchBooks
<1>14. ~stopped /\ taken.queue = <<>>
  BY <1>2, <1>3 DEF ReleaseOk
<1>15. CASE stopped'
  <2>1. ~releasing' /\ work' = <<>> /\ UNCHANGED taken
    BY <1>2, <1>15
  <2>2. \A t \in Terminals : Queue(t)' = <<>>
    BY <1>13, <1>14, <1>15
  <2> QED BY <1>2, <1>9, <1>13, <1>14, <2>1, <2>2, ClosedIs
<1>16. CASE ~stopped'
  <2>1. /\ UNCHANGED reads
        /\ \A u \in Terminals : Reading(u) \/ Queue(u)' = Queue(u)
        /\ \A u \in Terminals : bs[u] > 0 => barriers'[u] > 0
    BY <1>13, <1>16
  <2>2. ReleaseOk'
    BY <1>2, <1>14, <1>16 DEF ReleaseOk, Holding
  <2>3. ASSUME NEW u \in Terminals, Queue(u)' # <<>> PROVE HasSource(u)'
    <3>1. CASE Reading(u)
      BY <2>1, <3>1 DEF HasSource, Reading
    <3>2. CASE ~Reading(u)
      <4>1. HasSource(u)
        BY <1>3, <2>1, <2>3, <3>2 DEF SourcesOk
      <4>2. taken.terminal # u /\ \A i : i \notin 1 .. Len(work)
        BY <1>2, NoTerminalAssumption DEF Holding
      <4>3. barriers[u] > 0
        BY <3>2, <4>1, <4>2 DEF HasSource, BlockedByHandoff
      <4>4. CASE u \in it.terminals
        <5>1. Has(work', u)
          BY <1>6, <1>8, <1>16, <3>2, <4>4
        <5> QED BY <5>1 DEF HasSource, Has
      <4>5. CASE u \notin it.terminals
        <5>1. barriers'[u] > 0
          BY <1>11, <2>1, <4>3, <4>5
        <5> QED BY <5>1 DEF HasSource, BlockedByHandoff
      <4> QED BY <4>4, <4>5
    <3> QED BY <3>1, <3>2
  <2> QED BY <1>9, <1>13, <2>2, <2>3 DEF IInv, SourcesOk
<1> QED BY <1>15, <1>16

-----------------------------------------------------------------------------
(* The theorems *)

\* The invariant holds to begin with.
LEMMA InitIInv ==
  ASSUME Init
  PROVE  IInv
<1>1. /\ request = <<>> /\ seen = <<>> /\ captured = <<>> /\ reads = <<>>
      /\ queues = [t \in Terminals |-> <<>>] /\ handoffs = <<>>
      /\ barriers = [t \in Terminals |-> 0] /\ nextId = 1
      /\ work = <<>> /\ taken = NotTaken /\ releasing = FALSE
      /\ bind \in Bindings /\ log = <<>> /\ stopped = FALSE
  BY DEF Init
<1>2. \A i : i \notin 1 .. 0
  OBVIOUS
<1>3. /\ Len(request) = 0 /\ Len(seen) = 0 /\ Len(captured) = 0
      /\ Len(reads) = 0 /\ Len(log) = 0
  BY <1>1
<1>4. /\ taken.terminal = NoTerminal /\ taken.queue = <<>>
      /\ taken \in [terminal : Places, queue : Seq(ItemType)]
  BY <1>1, EmptySeq DEF NotTaken, Places
<1>5. \A t \in Terminals : Queue(t) = <<>> /\ Len(Queue(t)) = 0
  BY <1>1, <1>4, NoTerminalAssumption DEF Queue
<1>6. Typed
  <2>1. bind \in [Names -> Places]
    BY <1>1, BindingsAssumption DEF Places
  <2>2. queues \in [Terminals -> Seq(ItemType)]
    BY <1>1, EmptySeq
  <2>3. /\ request \in Seq(RequestType) /\ seen \in Seq(Places)
        /\ captured \in Seq(SUBSET Terminals) /\ work \in Seq(Terminals)
    BY <1>1, EmptySeq
  <2>4. 0 <= MaxRequests
    BY BoundsAssumption
  <2>5. /\ nextId \in Nat \ {0}
        /\ releasing \in BOOLEAN /\ stopped \in BOOLEAN
    <3>1. nextId = 1
      BY DEF Init
    <3>2. nextId \in Nat \ {0}
      BY <3>1
    <3>3. releasing \in BOOLEAN /\ stopped \in BOOLEAN
      BY Zenon DEF Init
    <3> QED BY <3>2, <3>3
  <2>6. \A r \in 1 .. Len(request) :
          request[r].kind # "handoff" => request[r].name \in Names
    BY <1>2, <1>3
  <2> QED BY <1>3, <1>4, <2>1, <2>2, <2>3, <2>4, <2>5, <2>6 DEF Typed
<1>7. ReleaseOk /\ SourcesOk
  BY <1>1, <1>4, <1>5 DEF ReleaseOk, SourcesOk, Holding
<1>8. LogOk
  <2>1. log \in Seq(Nat \X Outcomes \X Places)
    BY <1>1, EmptySeq
  <2> QED BY <1>2, <1>3, <2>1 DEF LogOk
<1>9. ReadsOk
  <2>1. reads \in Seq(Terminals \X Nat)
    BY <1>1, EmptySeq
  <2> QED BY <1>2, <1>3, <2>1 DEF ReadsOk
<1>10. HandoffsOk /\ CountsOk
  <2>1. DOMAIN handoffs = {}
    BY <1>1
  <2>2. \A t : Waiters(handoffs, t) = {}
    BY <2>1 DEF Waiters
  <2> QED BY <1>1, <2>1, <2>2, FS_EmptySet DEF HandoffsOk, CountsOk
<1>11. QueuesOk
  <2>1. <<>> \in Seq(ItemType)
    BY EmptySeq
  <2> QED BY <1>2, <1>5, <2>1 DEF QueuesOk, QueueOk
<1>12. AllAccounted /\ QueueIsLater
  BY <1>2, <1>3 DEF AllAccounted, QueueIsLater
<1>13. CarriedOutAsMeant
  <2>1. DOMAIN log = {}
    BY <1>1
  <2> QED BY <2>1 DEF CarriedOutAsMeant, InputInArrivalOrder,
                      HandoffAfterEarlier, IdentityKept
<1> QED BY <1>6, <1>7, <1>8, <1>9, <1>10, <1>11, <1>12, <1>13 DEF IInv, Books

\* And every step keeps it.
LEMMA NextKeeps ==
  ASSUME IInv, [Next]_vars
  PROVE  IInv'
<1>1. CASE \E kind \in Kinds, name \in Names : Arrive(kind, name)
  BY <1>1, ArriveStep
<1>2. CASE ArriveHandoff
  BY <1>2, ArriveHandoffStep
<1>3. CASE \E S \in SUBSET {reads[i][1] : i \in DOMAIN reads} :
             S # {} /\ FinishReads(S)
  BY <1>3, FinishReadsStep
<1>4. CASE Release
  <2>1. CASE \E h \in DOMAIN handoffs : TakeReadyHandoff(h)
    BY <2>1, TakeReadyHandoffStep
  <2> QED BY <1>4, <2>1, TakeQueueStep, RestoreQueueStep, ReleaseRequestStep,
             ReachBarrierStep, EndReleaseStep DEF Release
<1>5. CASE \E name \in Names, t \in Terminals \cup {NoTerminal} :
             Rebind(name, t)
  BY <1>5, RebindStep DEF Places
<1>6. CASE InitiateShutdown
  BY <1>6, InitiateShutdownStep
<1>7. CASE UNCHANGED vars
  <2>1. /\ UNCHANGED <<arrivalVars, reads, handoffs, barriers, nextId, log>>
        /\ UNCHANGED <<request, seen, captured, queues, work, taken, bind>>
        /\ UNCHANGED <<releasing, stopped>>
    BY <1>7 DEF vars, queueVars, releaseVars, arrivalVars
  <2>2. Typed' /\ ReleaseOk'
    BY <2>1 DEF IInv, Typed, ReleaseOk, Holding
  <2>3. \A t \in Terminals : Queue(t)' = Queue(t)
    BY <2>1 DEF Queue
  <2>4. Books'
    BY <2>1, <2>2, <2>3, BooksRest
  <2>5. SourcesOk'
    <3>1. \A t \in Terminals : Reading(t) => Reading(t)'
      BY <2>1 DEF Reading
    <3> QED BY <2>1, <2>3, <3>1, SourcesStay DEF IInv
  <2> QED BY <2>2, <2>4, <2>5 DEF IInv
<1> QED BY <1>1, <1>2, <1>3, <1>4, <1>5, <1>6, <1>7 DEF Next

\* The books are in order in every reachable state: this is the invariant the
\* theorems below rest on.
THEOREM Invariance == Spec => []IInv
<1>1. Init => IInv
  BY InitIInv
<1>2. IInv /\ [Next]_vars => IInv'
  BY NextKeeps
<1> QED BY <1>1, <1>2, PTL DEF Spec

\* However long it was put aside, a request is carried out in its turn and on
\* the terminal it was meant for (release_deferred_alt_screen_requests checks
\* the terminal of a request before it dispatches it).
THEOREM CarriedOut == Spec => []CarriedOutAsMeant
<1>1. IInv => CarriedOutAsMeant
  BY DEF IInv, Books
<1> QED BY <1>1, Invariance, PTL

\* No terminal has more barriers than there are requests.
LEMMA BarriersAreFew ==
  ASSUME IInv, NEW t \in Terminals
  PROVE  barriers[t] \in 0 .. MaxRequests
<1>1. PICK W, n : W = Waiters(handoffs, t) /\ n = Len(request)
  OBVIOUS
<1>2. n \in Nat /\ n <= MaxRequests
  BY <1>1 DEF IInv, Typed
<1>3. IsFiniteSet(1 .. n) /\ Cardinality(1 .. n) = n
  <2>1. /\ IsFiniteSet(1 .. n)
        /\ Cardinality(1 .. n) = IF 1 > n THEN 0 ELSE n - 1 + 1
    BY <1>2, FS_Interval
  <2> QED BY <1>2, <2>1
<1>4. PICK f : f = [h \in W |-> handoffs[h].request]
  OBVIOUS
<1>5. ASSUME NEW h \in W
      PROVE  h \in DOMAIN handoffs /\ handoffs[h].request \in 1 .. n
  BY <1>1 DEF Waiters, IInv, Books, HandoffsOk, HandoffOk
<1>6. f \in [W -> 1 .. n]
  BY <1>4, <1>5
<1>7. \A g, h \in W : f[g] = f[h] => g = h
  BY <1>4, <1>5 DEF IInv, Books, HandoffsOk
<1>8. f \in Injection(W, 1 .. n)
  BY <1>6, <1>7 DEF Injection, IsInjective
<1>9. IsFiniteSet(W) /\ Cardinality(W) <= Cardinality(1 .. n)
  BY <1>3, <1>8, FS_Injection
<1>10. Cardinality(W) \in Nat
  BY <1>9, FS_CardinalityType
<1>11. barriers[t] = Cardinality(W)
  BY <1>1 DEF IInv, Books, CountsOk
<1> QED BY <1>2, <1>3, <1>9, <1>10, <1>11, BoundsAssumption

\* The types of the model.  Behind them: a terminal is read by one traversal
\* at a time, a barrier count is never negative and never more than the
\* handoffs that were asked for, and the log names requests that arrived.
THEOREM TypeCorrect == Spec => []TypeOK
<1>1. ASSUME IInv PROVE TypeOK
  <2>1. /\ Typed /\ LogOk /\ ReadsOk /\ HandoffsOk /\ CountsOk
    BY <1>1 DEF IInv, Books
  <2>2. /\ DOMAIN log = 1 .. Len(log) /\ DOMAIN reads = 1 .. Len(reads)
        /\ DOMAIN request = 1 .. Len(request)
    BY <2>1, LenProperties DEF LogOk, ReadsOk, Typed
  <2>3. ASSUME NEW r \in Requests PROVE request[r].kind \in Kinds
    <3>1. request[r] \in RequestType
      BY <2>1, <2>2 DEF Requests, Typed
    <3> QED BY <3>1 DEF RequestType
  <2>4. \A i, j \in DOMAIN reads : reads[i][1] = reads[j][1] => i = j
    BY <2>1, <2>2 DEF ReadsOk
  <2>5. ASSUME NEW i \in DOMAIN log
        PROVE  log[i][1] \in Requests /\ log[i][2] \in Outcomes
    <3>1. log[i] \in Nat \X Outcomes \X Places /\ i \in 1 .. Len(log)
      BY <2>1, <2>2 DEF LogOk
    <3> QED BY <2>1, <2>2, <3>1 DEF LogOk, Requests
  <2>6. barriers \in [Terminals -> 0 .. MaxRequests]
    <3>1. barriers \in [Terminals -> Nat]
      BY <2>1 DEF CountsOk
    <3> QED BY <1>1, <3>1, BarriersAreFew
  <2>7. ASSUME NEW h \in DOMAIN handoffs
        PROVE  /\ h < nextId
               /\ handoffs[h].waiting \subseteq handoffs[h].terminals
    <3>1. /\ h \in 1 .. nextId - 1 /\ nextId \in Nat
          /\ handoffs[h].waiting \subseteq handoffs[h].terminals
      BY <2>1 DEF HandoffsOk, HandoffOk, Typed
    <3> QED BY <3>1
  <2>8. /\ Len(request) <= MaxRequests
        /\ bind \in [Names -> Terminals \cup {NoTerminal}]
        /\ releasing \in BOOLEAN /\ stopped \in BOOLEAN
    BY <2>1 DEF Typed, Places
  <2> QED BY <2>3, <2>4, <2>5, <2>6, <2>7, <2>8 DEF TypeOK
<1> QED BY <1>1, Invariance, PTL

\* What is in the queue a release holds.
LEMMA HeldHas ==
  ASSUME IInv, NEW s
  PROVE  s \in {it.id : it \in {x \in ToSet(taken.queue) :
                                  x.what = "request"}} <=>
           Has(taken.queue, Item("request", s))
<1>1. PICK q : q = taken.queue
  OBVIOUS
<1>2. q \in Seq(ItemType) /\ DOMAIN q = 1 .. Len(q)
  <2>1. q \in Seq(ItemType)
    BY <1>1 DEF IInv, Typed
  <2> QED BY <2>1, LenProperties
<1>3. \A x : x \in ToSet(q) <=> Has(q, x)
  BY <1>2 DEF ToSet, Has
<1>4. \A x : Has(q, x) => x \in ItemType
  BY <1>2 DEF Has
<1>5. \A x \in ItemType : x.what = "request" /\ x.id = s <=>
        x = Item("request", s)
  BY DEF ItemType, Item
<1>6. s \in {it.id : it \in {x \in ToSet(q) : x.what = "request"}} <=>
        \E x \in ToSet(q) : x.what = "request" /\ x.id = s
  BY Zenon
<1> QED BY <1>1, <1>3, <1>4, <1>5, <1>6

\* The requests in the stored queues and in the table of handoffs.
LEMMA StoredHas ==
  ASSUME IInv, NEW s
  PROVE  s \in Deferred <=>
           \/ \E t \in Terminals : Has(queues[t], Item("request", s))
           \/ \E h \in DOMAIN handoffs : handoffs[h].request = s
<1>1. ASSUME NEW t \in Terminals
      PROVE  /\ \A x : x \in ToSet(queues[t]) <=> Has(queues[t], x)
             /\ \A x : Has(queues[t], x) => x \in ItemType
  <2>1. PICK q : q = queues[t]
    OBVIOUS
  <2>2. q \in Seq(ItemType) /\ DOMAIN q = 1 .. Len(q)
    <3>1. q \in Seq(ItemType)
      BY <2>1 DEF IInv, Typed
    <3> QED BY <3>1, LenProperties
  <2>3. \A x : x \in ToSet(q) <=> Has(q, x)
    BY <2>2 DEF ToSet, Has
  <2>4. \A x : Has(q, x) => x \in ItemType
    BY <2>2 DEF Has
  <2> QED BY <2>1, <2>3, <2>4
<1>2. \A x \in ItemType : x.what = "request" /\ x.id = s <=>
        x = Item("request", s)
  BY DEF ItemType, Item
<1>3. s \in Deferred <=>
        \/ \E t \in Terminals : \E x \in ToSet(queues[t]) :
             x.what = "request" /\ x.id = s
        \/ \E h \in DOMAIN handoffs : handoffs[h].request = s
  BY Zenon DEF Deferred
<1>4. ASSUME NEW t \in Terminals
      PROVE  (\E x \in ToSet(queues[t]) : x.what = "request" /\ x.id = s) <=>
               Has(queues[t], Item("request", s))
  <2>1. PICK y : y = Item("request", s)
    OBVIOUS
  <2>2. y.what = "request" /\ y.id = s
    BY <2>1 DEF Item
  <2>3. \A x : Has(queues[t], x) /\ x.what = "request" /\ x.id = s => x = y
    BY <1>1, <1>2, <2>1
  <2>4. (\E x \in ToSet(queues[t]) : x.what = "request" /\ x.id = s) <=>
          Has(queues[t], y)
    BY <1>1, <2>2, <2>3
  <2> QED BY <2>1, <2>4
<1> QED BY <1>3, <1>4

\* A request is put aside exactly when it is in a queue, in the table of
\* handoffs, or behind a traversal.
LEMMA AsideIs ==
  ASSUME IInv, NEW s
  PROVE  s \in Aside <=>
           \/ \E t \in Terminals : Has(Queue(t), Item("request", s))
           \/ \E h \in DOMAIN handoffs : handoffs[h].request = s
           \/ s \in BeingRead
<1>1. PICK x : x = Item("request", s)
  OBVIOUS
<1>2. s \in Aside <=>
        \/ \E t \in Terminals : Has(queues[t], x)
        \/ \E h \in DOMAIN handoffs : handoffs[h].request = s
        \/ Has(taken.queue, x)
        \/ s \in BeingRead
  BY <1>1, HeldHas, StoredHas DEF Aside, BeingRead
<1>3. Len(<<>>) = 0 /\ \A i : i \notin 1 .. 0
  OBVIOUS
<1>4. ~Has(<<>>, x)
  BY <1>3 DEF Has
<1>5. CASE Holding
  <2>1. taken.terminal \in Terminals /\ queues[taken.terminal] = <<>>
    BY <1>5 DEF IInv, Typed, ReleaseOk, Holding, Places
  <2> QED BY <1>1, <1>2, <1>4, <2>1 DEF Queue
<1>6. CASE ~Holding
  <2>1. taken.terminal = NoTerminal /\ taken.queue = <<>>
    BY <1>6 DEF IInv, ReleaseOk, Holding
  <2> QED BY <1>1, <1>2, <1>4, <2>1, NoTerminalAssumption DEF Queue
<1> QED BY <1>5, <1>6

\* No request is lost and none is answered twice, whatever ends first, and
\* none waits without something that will release it
\* (nonempty_buckets_have_release_source).
THEOREM NoRequestLost == Spec => []NoneLost
<1>1. ASSUME IInv PROVE NoneLost
  <2>1. /\ Typed /\ LogOk /\ ReadsOk /\ HandoffsOk /\ CountsOk /\ QueuesOk
        /\ ReleaseOk /\ SourcesOk
    BY <1>1 DEF IInv, Books
  <2>2. DOMAIN log = 1 .. Len(log) /\ DOMAIN request = 1 .. Len(request)
    BY <2>1, LenProperties DEF LogOk, Typed
  <2>3. \A s : s \in Ids(log) <=> Answered(s)
    BY DEF Ids, Answered
  <2>4. ASSUME NEW r \in Requests PROVE Answered(r) \/ r \in Aside
    <3>1. r \in 1 .. Len(request)
      BY <2>2 DEF Requests
    <3>2. \/ r \in Ids(log)
          \/ r \in BeingRead
          \/ \E h \in DOMAIN handoffs : handoffs[h].request = r
          \/ seen[r] \in Terminals /\ Has(Queue(seen[r]), Item("request", r))
      BY <1>1, <3>1, WasAccounted
    <3> QED BY <1>1, <2>3, <3>2, AsideIs
  <2>5. \A i, j \in DOMAIN log : log[i][1] = log[j][1] => i = j
    BY <2>1, <2>2 DEF LogOk
  <2>6. ASSUME NEW s \in Aside PROVE s \notin Ids(log)
    <3>1. CASE \E t \in Terminals : Has(Queue(t), Item("request", s))
      <4>1. PICK t \in Terminals : Has(Queue(t), Item("request", s))
        BY <3>1
      <4>2. PICK x : x = Item("request", s)
        OBVIOUS
      <4>3. x.what = "request" /\ x.id = s /\ Has(Queue(t), x)
        BY <4>1, <4>2 DEF Item
      <4> QED BY <2>1, <4>3, ItemIs
    <3>2. CASE \E h \in DOMAIN handoffs : handoffs[h].request = s
      BY <2>1, <3>2 DEF HandoffsOk, HandoffOk
    <3>3. CASE s \in BeingRead
      BY <2>1, <3>3, BeingReadIs
    <3> QED BY <1>1, <2>6, <3>1, <3>2, <3>3, AsideIs
  <2>7. \A i \in DOMAIN log : log[i][1] \in Ids(log)
    BY DEF Ids
  <2>8. AnsweredOnce
    BY <2>4, <2>5, <2>6, <2>7 DEF AnsweredOnce
  <2>9. ASSUME ~releasing, NEW t \in Terminals, queues[t] # <<>>
        PROVE  Reading(t) \/ BlockedByHandoff(t)
    <3>1. /\ work = <<>> /\ taken.terminal = NoTerminal /\ t # NoTerminal
      BY <2>1, <2>9, NoTerminalAssumption DEF ReleaseOk, Holding
    <3>2. Queue(t) # <<>> /\ \A i : i \notin 1 .. Len(work)
      BY <2>9, <3>1 DEF Queue
    <3>3. HasSource(t)
      BY <2>1, <3>2 DEF SourcesOk
    <3> QED BY <3>1, <3>2, <3>3 DEF HasSource
  <2>10. NothingStranded
    BY <2>1, <2>9 DEF NothingStranded, CountsOk, Waiters
  <2> QED BY <2>8, <2>10 DEF NoneLost
<1> QED BY <1>1, Invariance, PTL

\* What one step may do to the log.
InputSafe ==
  \A i \in DOMAIN log' \ DOMAIN log :
    log'[i][2] = "performed" /\ request'[log'[i][1]].kind = "input" =>
      ~Reading(log'[i][3])

\* One answer: a request that is carried out, on a terminal that is not read.
LEMMA AnswerIsSafe ==
  ASSUME LogOk, NEW r \in Nat, NEW o \in Outcomes, NEW p \in Places,
         log' = log \o Entry(r, o, p), o = "performed" => ~Reading(p)
  PROVE  InputSafe
<1>1. PICK xs : xs = Entry(r, o, p)
  OBVIOUS
<1>2. xs \in Seq(Entries) /\ Len(xs) = 1 /\ xs[1] = <<r, o, p>>
  <2>1. <<r, o, p>> \in Entries
    BY DEF Entries
  <2>2. xs = << <<r, o, p>> >>
    BY <1>1 DEF Entry
  <2> QED BY <2>1, <2>2
<1>3. PICK l, k : l = log /\ k = log'
  OBVIOUS
<1>4. l \in Seq(Entries) /\ k = l \o xs
  BY <1>1, <1>3 DEF LogOk, Entries
<1>5. /\ k \in Seq(Entries) /\ Len(k) = Len(l) + 1 /\ Len(l) \in Nat
      /\ k[Len(l) + 1] = <<r, o, p>>
  <2>1. xs \in Seq(Entries)
    BY <1>2
  <2>2. /\ k \in Seq(Entries) /\ Len(k) = Len(l) + Len(xs)
        /\ \A i \in 1 .. Len(l) + Len(xs) :
             k[i] = IF i <= Len(l) THEN l[i] ELSE xs[i - Len(l)]
    BY <1>4, <2>1, EntriesJoin
  <2>3. Len(l) \in Nat
    BY <1>4, LenProperties
  <2>4. /\ Len(l) + 1 \in 1 .. Len(l) + 1 /\ ~(Len(l) + 1 <= Len(l))
        /\ Len(l) + 1 - Len(l) = 1
    BY <2>3
  <2> QED BY <1>2, <2>2, <2>3, <2>4
<1>6. DOMAIN l = 1 .. Len(l) /\ DOMAIN k = 1 .. Len(l) + 1
  BY <1>4, <1>5, LenProperties
<1>7. ASSUME NEW i \in DOMAIN k \ DOMAIN l PROVE k[i] = <<r, o, p>>
  <2>1. i = Len(l) + 1
    BY <1>5, <1>6
  <2> QED BY <1>5, <2>1
<1>8. ASSUME NEW i \in DOMAIN k \ DOMAIN l
      PROVE  k[i][2] = "performed" => ~Reading(k[i][3])
  <2>1. k[i][2] = o /\ k[i][3] = p
    BY <1>7
  <2> QED BY <2>1
<1> QED BY <1>3, <1>8 DEF InputSafe

\* Every step respects it.
LEMMA NextIsSafe ==
  ASSUME IInv, Next
  PROVE  InputSafe
<1>1. Typed /\ LogOk
  BY DEF IInv, Books
<1>2. ASSUME UNCHANGED log PROVE InputSafe
  BY <1>2 DEF InputSafe
<1>3. ASSUME reads = <<>> PROVE InputSafe
  <2>1. \A t : ~Reading(t)
    BY <1>3 DEF Reading
  <2> QED BY <2>1 DEF InputSafe
<1>4. ASSUME NEW kind \in Kinds, NEW name \in Names, Arrive(kind, name)
      PROVE  InputSafe
  <2>1. PICK r, t : r = Len(request) + 1 /\ t = bind[name]
    OBVIOUS
  <2>2. r \in Nat /\ t \in Places
    BY <1>1, <2>1 DEF Typed
  <2>3. \/ log' = log \o Entry(r, "missing", NoTerminal)
        \/ UNCHANGED log
        \/ log' = log \o Entry(r, "frozen", t)
        \/ ~Reading(t) /\ log' = log \o Entry(r, "performed", t)
    BY <1>4, <2>1 DEF Arrive, Perform
  <2>4. CASE log' = log \o Entry(r, "missing", NoTerminal)
    BY <1>1, <2>2, <2>4, AnswerIsSafe DEF Outcomes, Places
  <2>5. CASE log' = log \o Entry(r, "frozen", t)
    BY <1>1, <2>2, <2>5, AnswerIsSafe DEF Outcomes
  <2>6. CASE ~Reading(t) /\ log' = log \o Entry(r, "performed", t)
    BY <1>1, <2>2, <2>6, AnswerIsSafe DEF Outcomes
  <2> QED BY <1>2, <2>3, <2>4, <2>5, <2>6
<1>5. CASE ArriveHandoff
  BY <1>2, <1>3, <1>5 DEF ArriveHandoff
<1>6. CASE \E S \in SUBSET {reads[i][1] : i \in DOMAIN reads} :
             S # {} /\ FinishReads(S)
  <2>1. \A i \in DOMAIN log' \ DOMAIN log :
          request'[log'[i][1]].kind = "read"
    BY <1>6, FinishReadsStep
  <2> QED BY <2>1 DEF InputSafe
<1>7. CASE TakeQueue \/ RestoreQueue \/ ReachBarrier \/ EndRelease
  BY <1>2, <1>7 DEF TakeQueue, RestoreQueue, ReachBarrier, EndRelease
<1>8. CASE ReleaseRequest
  <2>1. PICK o, r, t : /\ o = taken.terminal /\ r = Head(taken.queue).id
                       /\ t = bind[request[r].name]
    OBVIOUS
  <2>2. /\ ~Reading(o)
        /\ \/ UNCHANGED log
           \/ t = o /\ log' = log \o Entry(r, "performed", t)
           \/ log' = log \o Entry(r, IF t = NoTerminal THEN "missing"
                                     ELSE "changed", NoTerminal)
    BY <1>8, <2>1 DEF ReleaseRequest, Perform
  <2>3. o \in Places /\ r \in Nat
    <3>1. Holding /\ taken.queue # <<>>
      BY <1>8 DEF ReleaseRequest
    <3>2. PICK x : x = Head(taken.queue)
      OBVIOUS
    <3>3. FirstOf(x, o)
      BY <2>1, <3>1, <3>2, FirstIs
    <3>4. x \in ItemType /\ o \in Places
      BY <2>1, <3>3 DEF FirstOf, IInv, Typed
    <3>5. x.id \in Nat
      BY <3>4 DEF ItemType
    <3> QED BY <2>1, <3>2, <3>4, <3>5
  <2>4. CASE t = o /\ log' = log \o Entry(r, "performed", t)
    BY <1>1, <2>2, <2>3, <2>4, AnswerIsSafe DEF Outcomes
  <2>5. CASE log' = log \o Entry(r, IF t = NoTerminal THEN "missing"
                                    ELSE "changed", NoTerminal)
    <3>1. PICK a : a = IF t = NoTerminal THEN "missing" ELSE "changed"
      OBVIOUS
    <3>2. a \in Outcomes /\ a # "performed" /\ NoTerminal \in Places
      BY <3>1 DEF Outcomes, Places
    <3>3. log' = log \o Entry(r, a, NoTerminal)
      BY <2>5, <3>1
    <3> QED BY <1>1, <2>3, <3>2, <3>3, AnswerIsSafe
  <2> QED BY <1>2, <2>2, <2>4, <2>5
<1>9. CASE \E h \in DOMAIN handoffs : TakeReadyHandoff(h)
  BY <1>2, <1>3, <1>9 DEF TakeReadyHandoff
<1>10. CASE \E name \in Names, t \in Terminals \cup {NoTerminal} :
              Rebind(name, t)
  BY <1>2, <1>10 DEF Rebind
<1>11. CASE InitiateShutdown
  <2>1. \A i \in DOMAIN log' \ DOMAIN log : log'[i][2] # "performed"
    BY <1>11, InitiateShutdownStep
  <2> QED BY <2>1 DEF InputSafe
<1> QED BY <1>4, <1>5, <1>6, <1>7, <1>8, <1>9, <1>10, <1>11 DEF Next, Release

\* No input reaches a terminal while a traversal scrolls it: a request that
\* is carried out, at once or from a queue, finds no traversal on its
\* terminal.
THEOREM InputWaitsForReads == Spec => NoInputDuringRead
<1>1. IInv /\ [Next]_vars => [InputSafe]_vars
  BY NextIsSafe
<1>2. [][InputSafe]_vars <=> NoInputDuringRead
  BY PTL DEF NoInputDuringRead, InputSafe
<1> QED BY <1>1, <1>2, Invariance, PTL DEF Spec

=============================================================================
