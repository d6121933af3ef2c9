------------------------ MODULE DrmVblankWorkProofs ------------------------
(***************************************************************************)
(* Proofs about DrmVblankWork for any finite sets of works, driver threads *)
(* and tasks.  The pipe keeps the invariant of DrmVblankProofs with one    *)
(* more reference per pending work; on top of it come what the list of the *)
(* kthread worker holds, in which order, and what a thread in              *)
(* drm_vblank_work_cancel_sync may count on.                               *)
(***************************************************************************)
EXTENDS DrmVblankWork, DrmVblankProofs, SequenceTheorems, TLAPS

-----------------------------------------------------------------------------
(* The inductive invariant *)

Entries == Works \cup Threads \cup {CommitThread}
ThreadPcs == {"idle", "cancel", "kcancel", "cancelled", "flush", "sleep", "kflush", "kwait"}
Cancelling == {"cancel", "kcancel", "cancelled"}

WTypeOK ==
    /\ work \in [Works -> [pending: BOOLEAN, count: Nat, cancelling: Nat]]
    /\ krun \in Works \cup {None}
    /\ thr \in [Threads -> [pc: ThreadPcs, w: Works \cup {None}]]
    /\ off \in {"idle", "flush", "kflush"}

In(x, q) == \E i \in DOMAIN q : q[i] = x

(* The worker's list: nobody is on it twice, and no work is behind the     *)
(* commit thread that flushes the worker.                                  *)
WellQueued(q) ==
    /\ q \in Seq(Entries)
    /\ \A i, j \in DOMAIN q : q[i] = q[j] => i = j
    /\ \A i, j \in DOMAIN q : q[i] = CommitThread /\ q[j] \in Works => j < i

(* Who is on the list waits there. *)
QueueOK ==
    /\ WellQueued(kq)
    /\ \A t \in Threads : In(t, kq) => thr[t].pc \in {"kcancel", "kwait"}
    /\ In(CommitThread, kq) => off = "kflush"

(* A modeset, which lasts until drm_crtc_vblank_off has returned, has no   *)
(* pending work.                                                           *)
ModesetOK ==
    /\ off # "idle" => vb.inmodeset
    /\ vb.inmodeset => Pending = {}

Cancellers(w) == {t \in Threads : thr[t].pc \in Cancelling /\ thr[t].w = w}

(* cancelling counts the threads in drm_vblank_work_cancel_sync.  Their    *)
(* work is not pending and, once they have been to the worker, not on its  *)
(* list.                                                                   *)
CancelOK ==
    /\ \A w \in Works : work[w].cancelling = Cardinality(Cancellers(w))
    /\ \A t \in Threads :
          /\ thr[t].pc \in Cancelling => thr[t].w \in Works /\ ~work[thr[t].w].pending
          /\ thr[t].pc \in {"kcancel", "cancelled"} => ~In(thr[t].w, kq)
          /\ thr[t].pc = "cancelled" => krun # thr[t].w

WInv ==
    /\ WTypeOK
    /\ IInv(Cardinality(Pending))
    /\ WorksNeedIrq
    /\ NoLostWakeup
    /\ QueueOK
    /\ ModesetOK
    /\ CancelOK
    /\ QuietWhileOff

-----------------------------------------------------------------------------
(* The list of the kthread worker *)

(* One entry is a list. *)
LEMMA OneQueued ==
    ASSUME NEW e \in Entries
    PROVE  WellQueued(<<e>>) /\ \A x : In(x, <<e>>) <=> x = e
<1>1. <<e>> \in Seq(Entries) /\ Len(<<e>>) = 1 /\ DOMAIN <<e>> = 1..1 /\ <<e>>[1] = e
  OBVIOUS
<1>2. \A i \in DOMAIN <<e>> : i = 1
  BY <1>1
<1>3. CommitThread \notin Works
  BY WorkAssumption
<1> QED
  BY <1>1, <1>2, <1>3 DEF WellQueued, In

(* Two lists in a row. *)
LEMMA JoinQueued ==
    ASSUME NEW a, NEW b, WellQueued(a), WellQueued(b),
           \A x : ~(In(x, a) /\ In(x, b)),
           In(CommitThread, a) => \A w \in Works : ~In(w, b)
    PROVE  WellQueued(a \o b) /\ \A x : In(x, a \o b) <=> In(x, a) \/ In(x, b)
<1> DEFINE c == a \o b
           m == Len(a)
           n == Len(b)
<1>1. /\ a \in Seq(Entries) /\ m \in Nat /\ DOMAIN a = 1..m
      /\ b \in Seq(Entries) /\ n \in Nat /\ DOMAIN b = 1..n
  BY LenProperties DEF WellQueued
<1>2. /\ c \in Seq(Entries) /\ Len(c) = m + n
      /\ \A i \in 1..(m + n) : c[i] = IF i =< m THEN a[i] ELSE b[i - m]
  BY <1>1, ConcatProperties
<1>3. DOMAIN c = 1..(m + n)
  BY <1>2, LenProperties
<1> HIDE DEF c, m, n
<1>4. \A i \in 1..(m + n) :
         \/ i \in 1..m /\ c[i] = a[i]
         \/ i - m \in 1..n /\ c[i] = b[i - m] /\ i > m
  BY <1>1, <1>2
<1>5. \A x : In(x, c) <=> In(x, a) \/ In(x, b)
  <2> TAKE x
  <2>1. In(x, c) => In(x, a) \/ In(x, b)
    BY <1>1, <1>3, <1>4 DEF In
  <2>2. In(x, a) => In(x, c)
    <3> SUFFICES ASSUME NEW i \in 1..m, a[i] = x PROVE In(x, c)
      BY <1>1 DEF In
    <3>1. i \in 1..(m + n) /\ c[i] = x
      BY <1>1, <1>2
    <3> QED
      BY <1>3, <3>1 DEF In
  <2>3. In(x, b) => In(x, c)
    <3> SUFFICES ASSUME NEW i \in 1..n, b[i] = x PROVE In(x, c)
      BY <1>1 DEF In
    <3>1. i + m \in 1..(m + n) /\ ~(i + m =< m) /\ (i + m) - m = i
      BY <1>1
    <3>2. c[i + m] = x
      BY <1>2, <3>1
    <3> QED
      BY <1>3, <3>1, <3>2 DEF In
  <2> QED
    BY <2>1, <2>2, <2>3
<1>6. ASSUME NEW i \in 1..(m + n), NEW j \in 1..(m + n)
      PROVE  /\ c[i] = c[j] => i = j
             /\ c[i] = CommitThread /\ c[j] \in Works => j < i
  <2>1. CASE i \in 1..m /\ c[i] = a[i] /\ j \in 1..m /\ c[j] = a[j]
    BY <1>1, <2>1 DEF WellQueued
  <2>2. CASE /\ i - m \in 1..n /\ c[i] = b[i - m] /\ i > m
             /\ j - m \in 1..n /\ c[j] = b[j - m] /\ j > m
    <3>1. /\ b[i - m] = b[j - m] => i - m = j - m
          /\ b[i - m] = CommitThread /\ b[j - m] \in Works => j - m < i - m
      BY <1>1, <2>2 DEF WellQueued
    <3> QED
      BY <1>1, <2>2, <3>1
  <2>3. CASE i \in 1..m /\ c[i] = a[i] /\ j - m \in 1..n /\ c[j] = b[j - m]
    <3>1. In(c[i], a) /\ In(c[j], b)
      BY <1>1, <2>3 DEF In
    <3> QED
      BY <3>1
  <2>4. CASE j \in 1..m /\ c[j] = a[j] /\ i - m \in 1..n /\ c[i] = b[i - m] /\ i > m
    <3>1. In(c[j], a) /\ In(c[i], b) /\ j < i
      BY <1>1, <2>4 DEF In
    <3> QED
      BY <3>1
  <2> QED
    BY <1>4, <2>1, <2>2, <2>3, <2>4
<1>7. WellQueued(c)
  BY <1>2, <1>3, <1>6 DEF WellQueued
<1> QED
  BY <1>5, <1>7 DEF c

(* A stretch of a list. *)
LEMMA PartQueued ==
    ASSUME NEW q, WellQueued(q), NEW m \in 1..(Len(q) + 1), NEW n \in (m - 1)..Len(q)
    PROVE  /\ WellQueued(SubSeq(q, m, n))
           /\ \A x : In(x, SubSeq(q, m, n)) <=> \E i \in m..n : q[i] = x
<1> DEFINE p == SubSeq(q, m, n)
           l == Len(q)
<1>1. /\ q \in Seq(Entries) /\ l \in Nat /\ DOMAIN q = 1..l
      /\ \A i \in 1..l : q[i] \in Entries
  BY LenProperties, ElementOfSeq DEF WellQueued
<1>2. m \in Int /\ n \in Int /\ m >= 1 /\ n =< l /\ m =< n + 1 /\ m..n \subseteq 1..l
  BY <1>1
<1>3. /\ p \in Seq(Entries) /\ Len(p) = IF m =< n THEN n - m + 1 ELSE 0
      /\ \A i \in 1..(n - m + 1) : p[i] = q[m + i - 1]
  BY <1>1, <1>2, SubSeqProperties
<1>4. DOMAIN p = 1..(n - m + 1)
  BY <1>2, <1>3, LenProperties
<1> HIDE DEF p, l
<1>5. \A i \in 1..(n - m + 1) : m + i - 1 \in m..n
  BY <1>2
<1>6. \A x : In(x, p) <=> \E i \in m..n : q[i] = x
  <2> TAKE x
  <2>1. In(x, p) => \E i \in m..n : q[i] = x
    BY <1>3, <1>4, <1>5 DEF In
  <2>2. ASSUME NEW i \in m..n, q[i] = x PROVE In(x, p)
    <3>1. i - m + 1 \in 1..(n - m + 1) /\ m + (i - m + 1) - 1 = i
      BY <1>2
    <3>2. p[i - m + 1] = x
      BY <1>3, <2>2, <3>1
    <3> QED
      BY <1>4, <3>1, <3>2 DEF In
  <2> QED
    BY <2>1, <2>2
<1>7. ASSUME NEW i \in DOMAIN p, NEW j \in DOMAIN p
      PROVE  /\ p[i] = p[j] => i = j
             /\ p[i] = CommitThread /\ p[j] \in Works => j < i
  <2>1. /\ p[i] = q[m + i - 1] /\ p[j] = q[m + j - 1] /\ i \in Int /\ j \in Int
        /\ m + i - 1 \in 1..l /\ m + j - 1 \in 1..l
    BY <1>2, <1>3, <1>4, <1>5
  <2>2. /\ q[m + i - 1] = q[m + j - 1] => m + i - 1 = m + j - 1
        /\ q[m + i - 1] = CommitThread /\ q[m + j - 1] \in Works => m + j - 1 < m + i - 1
    BY <1>1, <2>1 DEF WellQueued
  <2> QED
    BY <1>2, <2>1, <2>2
<1> QED
  BY <1>3, <1>6, <1>7 DEF WellQueued, p

(* The worker takes the first entry. *)
LEMMA TailQueued ==
    ASSUME NEW q, WellQueued(q), q # <<>>
    PROVE  /\ WellQueued(Tail(q))
           /\ Head(q) \in Entries /\ In(Head(q), q)
           /\ \A x : In(x, Tail(q)) <=> In(x, q) /\ x # Head(q)
           /\ Head(q) = CommitThread => \A w \in Works : ~In(w, q)
<1> DEFINE l == Len(q)
<1>1. q \in Seq(Entries) /\ l \in Nat /\ DOMAIN q = 1..l /\ l >= 1
  BY LenProperties, EmptySeq DEF WellQueued
<1>2. Head(q) = q[1] /\ Head(q) \in Entries /\ Tail(q) = SubSeq(q, 2, l)
  BY <1>1, HeadTailProperties, TailIsSubSeq
<1>3. 2 \in 1..(l + 1) /\ l \in (2 - 1)..l
  BY <1>1
<1>4. /\ WellQueued(Tail(q))
      /\ \A x : In(x, Tail(q)) <=> \E i \in 2..l : q[i] = x
  <2> DEFINE m == 2
  <2>1. m \in 1..(Len(q) + 1) /\ l \in (m - 1)..Len(q)
    BY <1>3
  <2> HIDE DEF m, l
  <2>2. /\ WellQueued(SubSeq(q, m, l))
        /\ \A x : In(x, SubSeq(q, m, l)) <=> \E i \in m..l : q[i] = x
    BY <2>1, PartQueued
  <2> QED
    BY <1>2, <2>2 DEF m
<1> HIDE DEF l
<1>5. \A i \in 1..l : i = 1 \/ i \in 2..l
  BY <1>1
<1>6. 1 \in 1..l /\ \A i \in 2..l : i \in 1..l /\ i # 1
  BY <1>1
<1>7. \A x : In(x, Tail(q)) <=> In(x, q) /\ x # Head(q)
  <2> TAKE x
  <2>1. In(x, q) <=> \E i \in 1..l : q[i] = x
    BY <1>1 DEF In
  <2>2. In(x, Tail(q)) <=> \E i \in 2..l : q[i] = x
    BY <1>4
  <2>3. \A i \in 2..l : q[i] # q[1]
    BY <1>1, <1>6 DEF WellQueued
  <2> QED
    BY <1>2, <1>5, <1>6, <2>1, <2>2, <2>3
<1>8. Head(q) = CommitThread => \A w \in Works : ~In(w, q)
  <2> SUFFICES ASSUME q[1] = CommitThread, NEW i \in 1..l, q[i] \in Works PROVE FALSE
    BY <1>1, <1>2 DEF In
  <2>1. i < 1
    BY <1>1, <1>6 DEF WellQueued
  <2> QED
    BY <1>1, <2>1
<1> QED
  BY <1>1, <1>2, <1>4, <1>6, <1>7, <1>8 DEF In

(* A list cut at i in two. *)
LEMMA CutQueued ==
    ASSUME NEW q, WellQueued(q), NEW i \in 0..Len(q), NEW j \in i..Len(q)
    PROVE  LET a == SubSeq(q, 1, i)
               b == SubSeq(q, j + 1, Len(q))
           IN  /\ WellQueued(a) /\ WellQueued(b)
               /\ \A x : ~(In(x, a) /\ In(x, b))
               /\ In(CommitThread, a) => \A w \in Works : ~In(w, b)
               /\ \A x : In(x, a) => In(x, q)
               /\ \A x : In(x, b) => In(x, q)
               /\ j = i + 1 => ~In(q[j], a) /\ ~In(q[j], b)
<1> DEFINE l == Len(q)
           a == SubSeq(q, 1, i)
           b == SubSeq(q, j + 1, Len(q))
<1>1. q \in Seq(Entries) /\ l \in Nat /\ DOMAIN q = 1..l
  BY LenProperties DEF WellQueued
<1>2. /\ 1 \in 1..(l + 1) /\ i \in (1 - 1)..l
      /\ j + 1 \in 1..(l + 1) /\ l \in ((j + 1) - 1)..l
  BY <1>1
<1>3. /\ WellQueued(a)
      /\ \A x : In(x, a) <=> \E k \in 1..i : q[k] = x
  BY <1>2, PartQueued
<1>4. /\ WellQueued(b)
      /\ \A x : In(x, b) <=> \E k \in (j + 1)..l : q[k] = x
  BY <1>2, PartQueued
<1> HIDE DEF a, b, l
<1>5. /\ \A k \in 1..i : k \in 1..l
      /\ \A k \in (j + 1)..l : k \in 1..l
      /\ \A k \in 1..i, k2 \in (j + 1)..l : k < k2 /\ k # k2 /\ ~(k2 < k)
  BY <1>1, <1>2
<1>6. \A x : ~(In(x, a) /\ In(x, b))
  BY <1>1, <1>3, <1>4, <1>5 DEF WellQueued
<1>7. In(CommitThread, a) => \A w \in Works : ~In(w, b)
  BY <1>1, <1>3, <1>4, <1>5 DEF WellQueued
<1>8. (\A x : In(x, a) => In(x, q)) /\ (\A x : In(x, b) => In(x, q))
  BY <1>1, <1>3, <1>4, <1>5 DEF In
<1>9. j = i + 1 => ~In(q[j], a) /\ ~In(q[j], b)
  <2> SUFFICES ASSUME j = i + 1 PROVE ~In(q[j], a) /\ ~In(q[j], b)
    OBVIOUS
  <2>1. j \in 1..l /\ (\A k \in 1..i : k # j) /\ (\A k \in (j + 1)..l : k # j)
    BY <1>1, <1>2
  <2>2. (\A k \in 1..i : q[k] # q[j]) /\ (\A k \in (j + 1)..l : q[k] # q[j])
    BY <1>1, <1>5, <2>1 DEF WellQueued
  <2>3. (In(q[j], a) <=> \E k \in 1..i : q[k] = q[j]) /\ (In(q[j], b) <=> \E k \in (j + 1)..l : q[k] = q[j])
    BY <1>3, <1>4
  <2> QED
    BY <2>2, <2>3
<1> QED
  BY <1>3, <1>4, <1>6, <1>7, <1>8, <1>9 DEF a, b, l

(* Off the list (kthread_cancel_work_sync). *)
LEMMA RemoveQueued ==
    ASSUME NEW q, WellQueued(q), NEW k \in DOMAIN q
    PROVE  /\ WellQueued(RemoveAt(q, k))
           /\ \A x : In(x, RemoveAt(q, k)) => In(x, q) /\ x # q[k]
<1>1. k \in 1..Len(q) /\ Len(q) \in Nat
  BY LenProperties DEF WellQueued
<1>2. k - 1 \in 0..Len(q) /\ k \in (k - 1)..Len(q) /\ k = (k - 1) + 1
  BY <1>1
<1> DEFINE a == SubSeq(q, 1, k - 1)
           b == SubSeq(q, k + 1, Len(q))
<1>3. /\ WellQueued(a) /\ WellQueued(b)
      /\ \A x : ~(In(x, a) /\ In(x, b))
      /\ In(CommitThread, a) => \A w \in Works : ~In(w, b)
      /\ \A x : In(x, a) => In(x, q)
      /\ \A x : In(x, b) => In(x, q)
      /\ ~In(q[k], a) /\ ~In(q[k], b)
  BY <1>2, CutQueued
<1> HIDE DEF a, b
<1>4. WellQueued(a \o b) /\ \A x : In(x, a \o b) <=> In(x, a) \/ In(x, b)
  BY <1>3, JoinQueued
<1>5. RemoveAt(q, k) = a \o b
  BY DEF RemoveAt, a, b
<1> QED
  BY <1>3, <1>4, <1>5

(* A flusher behind entry k (kthread_flush_work). *)
LEMMA InsertQueued ==
    ASSUME NEW q, WellQueued(q), NEW k \in DOMAIN q, NEW t \in Threads, ~In(t, q)
    PROVE  /\ WellQueued(InsertAt(q, k + 1, t))
           /\ \A x : In(x, InsertAt(q, k + 1, t)) => In(x, q) \/ x = t
<1>1. k \in 1..Len(q) /\ Len(q) \in Nat
  BY LenProperties DEF WellQueued
<1>2. k \in 0..Len(q) /\ k \in k..Len(q) /\ (k + 1) - 1 = k
  BY <1>1
<1> DEFINE a == SubSeq(q, 1, k)
           b == SubSeq(q, k + 1, Len(q))
           c == <<t>>
<1>3. /\ WellQueued(a) /\ WellQueued(b)
      /\ \A x : ~(In(x, a) /\ In(x, b))
      /\ In(CommitThread, a) => \A w \in Works : ~In(w, b)
      /\ \A x : In(x, a) => In(x, q)
      /\ \A x : In(x, b) => In(x, q)
  BY <1>2, CutQueued
<1>4. t \notin Works /\ t # CommitThread /\ t \in Entries
  BY WorkAssumption DEF Entries
<1>5. WellQueued(c) /\ \A x : In(x, c) <=> x = t
  BY <1>4, OneQueued
<1>6. InsertAt(q, k + 1, t) = (a \o c) \o b
  BY <1>2 DEF InsertAt
<1> HIDE DEF a, b, c
<1>7. WellQueued(a \o c) /\ \A x : In(x, a \o c) <=> In(x, a) \/ In(x, c)
  BY <1>3, <1>4, <1>5, JoinQueued
<1>8. /\ \A x : ~(In(x, a \o c) /\ In(x, b))
      /\ In(CommitThread, a \o c) => \A w \in Works : ~In(w, b)
  BY <1>3, <1>4, <1>5, <1>7
<1>9. WellQueued((a \o c) \o b) /\ \A x : In(x, (a \o c) \o b) <=> In(x, a \o c) \/ In(x, b)
  BY <1>3, <1>7, <1>8, JoinQueued
<1> QED
  BY <1>3, <1>5, <1>6, <1>7, <1>9

(* A flusher at either end: before everything if its work runs already,    *)
(* behind everything in kthread_flush_worker.                              *)
LEMMA EndQueued ==
    ASSUME NEW q, WellQueued(q), NEW t \in Threads \cup {CommitThread}, ~In(t, q)
    PROVE  /\ WellQueued(Append(q, t))
           /\ \A x : In(x, Append(q, t)) => In(x, q) \/ x = t
           /\ t \in Threads => /\ WellQueued(<<t>> \o q)
                               /\ \A x : In(x, <<t>> \o q) => In(x, q) \/ x = t
<1>1. t \notin Works /\ t \in Entries /\ q \in Seq(Entries)
      /\ (t \in Threads => t # CommitThread)
  BY WorkAssumption DEF Entries, WellQueued
<1>2. WellQueued(<<t>>) /\ \A x : In(x, <<t>>) <=> x = t
  BY <1>1, OneQueued
<1>3. Append(q, t) = q \o <<t>>
  BY <1>1, AppendIsConcat
<1> DEFINE c == <<t>>
<1> HIDE DEF c
<1>4. WellQueued(c) /\ \A x : In(x, c) <=> x = t
  BY <1>2 DEF c
<1>5. WellQueued(q \o c) /\ \A x : In(x, q \o c) <=> In(x, q) \/ In(x, c)
  BY <1>1, <1>4, JoinQueued
<1>6. t \in Threads => /\ WellQueued(c \o q)
                       /\ \A x : In(x, c \o q) <=> In(x, c) \/ In(x, q)
  BY <1>1, <1>4, JoinQueued
<1> QED
  BY <1>3, <1>4, <1>5, <1>6 DEF c

(* The works in S are queued, those that were not yet. *)
LEMMA WorksQueued ==
    ASSUME WellQueued(kq), NEW S, S \subseteq Works, kq' \in kthread_queue_work(S),
           S # {} => ~In(CommitThread, kq)
    PROVE  WellQueued(kq') /\ \A x : In(x, kq') => In(x, kq) \/ x \in S
<1> DEFINE T == {w \in S : ~InQueue(w)}
           n == Cardinality(T)
<1>1. T \subseteq Works /\ T \subseteq S /\ CommitThread \notin Works /\ \A w \in T : ~In(w, kq)
  BY WorkAssumption DEF InQueue, In
<1>2. n \in Nat
  BY <1>1, WorkAssumption, FS_Subset, FS_CardinalityType
<1>3. PICK s \in SetToSeqs(T) : kq' = kq \o s
  BY DEF kthread_queue_work
<1>4. s \in [1..n -> T] /\ \A i, j \in 1..n : i # j => s[i] # s[j]
  BY <1>3 DEF SetToSeqs
<1> HIDE DEF T, n
<1>5. s \in Seq(Entries)
  <2>1. s \in [1..n -> Entries]
    BY <1>1, <1>4 DEF Entries
  <2> QED
    BY <1>2, <2>1
<1>6. WellQueued(s) /\ \A x : In(x, s) => x \in T
  BY <1>1, <1>4, <1>5 DEF WellQueued, In
<1>7. \A x : ~(In(x, kq) /\ In(x, s))
  BY <1>1, <1>6
<1>8. In(CommitThread, kq) => \A w \in Works : ~In(w, s)
  BY <1>1, <1>6
<1>9. WellQueued(kq \o s) /\ \A x : In(x, kq \o s) <=> In(x, kq) \/ In(x, s)
  BY <1>6, <1>7, <1>8, JoinQueued
<1> QED
  BY <1>1, <1>3, <1>6, <1>9

-----------------------------------------------------------------------------
(* Facts the steps share *)

LEMMA PendingCount == IsFiniteSet(Pending) /\ Cardinality(Pending) \in Nat
BY WorkAssumption, FS_Subset, FS_CardinalityType DEF Pending

(* The pipe with as many more references as there are pending works. *)
LEMMA Recount ==
    ASSUME NEW n \in Nat, IInv(n)', Cardinality(Pending') = n
    PROVE  IInv(Cardinality(Pending))'
BY DEF IInv, Balanced

(* The initial state satisfies the invariant. *)
LEMMA InitWInv == WInit => WInv
<1> SUFFICES ASSUME WInit PROVE WInv
  OBVIOUS
<1>1. WTypeOK
  BY DEF WInit, WTypeOK, Free, ThreadPcs
<1>2. Pending = {} /\ Cardinality(Pending) = 0
  BY FS_EmptySet DEF WInit, Pending
<1>3. IInv(Cardinality(Pending))
  <2>1. IInv(0)
    BY InitIInv DEF WInit
  <2> QED
    BY <1>2, <2>1
<1>4. kq = <<>> /\ \A x : ~In(x, kq)
  BY DEF WInit, In
<1>5. WellQueued(kq)
  BY <1>4, EmptySeq DEF WellQueued, In
<1>6. \A t \in Threads : thr[t] = Free /\ thr[t].pc = "idle"
  BY DEF WInit, Free
<1>7. WorksNeedIrq /\ NoLostWakeup /\ QueueOK
  BY <1>2, <1>4, <1>5, <1>6 DEF WorksNeedIrq, NoLostWakeup, QueueOK
<1>8. ModesetOK /\ QuietWhileOff
  BY <1>2, <1>4 DEF WInit, ModesetOK, QuietWhileOff, InQueue
<1>9. CancelOK
  <2>1. \A w \in Works : Cancellers(w) = {}
    BY <1>6 DEF Cancellers, Cancelling
  <2>2. \A w \in Works : work[w].cancelling = Cardinality(Cancellers(w))
    BY <2>1, FS_EmptySet DEF WInit
  <2> QED
    BY <1>6, <2>2 DEF CancelOK, Cancelling
<1> QED
  BY <1>1, <1>3, <1>7, <1>8, <1>9 DEF WInv

(* A step that leaves the pipe and the pending list alone. *)
LEMMA PipeSame ==
    ASSUME WInv, UNCHANGED vars, Pending' = Pending
    PROVE  /\ IInv(Cardinality(Pending))'
           /\ WorksNeedIrq'
           /\ vb' = vb
           /\ vb'.inmodeset => Pending' = {}
<1> DEFINE n == Cardinality(Pending)
<1>1. n \in Nat /\ IInv(n) /\ Cardinality(Pending') = n /\ vb' = vb
  BY PendingCount DEF WInv, vars
<1> PICK k \in Nat : k = n
  BY <1>1
<1>2. IInv(k) /\ Cardinality(Pending') = k
  BY <1>1
<1>3. IInv(k)'
  BY <1>2, NextIInv
<1> HIDE DEF n
<1>4. IInv(Cardinality(Pending))'
  BY <1>2, <1>3, Recount
<1> QED
  BY <1>1, <1>4 DEF WInv, WorksNeedIrq, ModesetOK

(* wake_up_all moves sleepers and nobody else. *)
LEMMA WakeContract ==
    ASSUME WTypeOK, thr' = thr \/ thr' = wake_up_all
    PROVE  /\ thr' \in [Threads -> [pc: ThreadPcs, w: Works \cup {None}]]
           /\ \A t \in Threads : /\ thr'[t].w = thr[t].w
                                 /\ \/ thr'[t].pc = thr[t].pc
                                    \/ thr[t].pc = "sleep" /\ thr'[t].pc = "flush"
           /\ thr' = wake_up_all => \A t \in Threads : thr'[t].pc # "sleep"
<1>1. CASE thr' = thr /\ thr' # wake_up_all
  BY <1>1 DEF WTypeOK
<1>2. CASE thr' = wake_up_all
  <2>1. \A t \in Threads :
          thr'[t] = IF thr[t].pc = "sleep" THEN [thr[t] EXCEPT !.pc = "flush"] ELSE thr[t]
    BY <1>2 DEF wake_up_all
  <2>2. \A t \in Threads : /\ thr'[t] \in [pc: ThreadPcs, w: Works \cup {None}]
                           /\ thr'[t].w = thr[t].w /\ thr'[t].pc # "sleep"
                           /\ \/ thr'[t].pc = thr[t].pc
                              \/ thr[t].pc = "sleep" /\ thr'[t].pc = "flush"
    BY <2>1 DEF WTypeOK, ThreadPcs
  <2>3. thr' = [t \in Threads |-> thr'[t]]
    BY <1>2 DEF wake_up_all
  <2>4. thr' \in [Threads -> [pc: ThreadPcs, w: Works \cup {None}]]
    BY <2>2, <2>3
  <2> QED
    BY <2>2, <2>4
<1> QED
  BY <1>1, <1>2

(* The steps of the pending list keep what the cancelling threads and the  *)
(* flushers on the worker's list count on.                                 *)
LEMMA ListStep ==
    ASSUME WInv, thr' = thr \/ thr' = wake_up_all, krun' = krun,
           \A w \in Works : work'[w].cancelling = work[w].cancelling,
           \A t \in Threads : thr[t].pc \in Cancelling => ~work'[thr[t].w].pending,
           \A t \in Threads : thr[t].pc \in {"kcancel", "cancelled"} =>
                                (In(thr[t].w, kq') => In(thr[t].w, kq)),
           WellQueued(kq'),
           \A x : In(x, kq') => In(x, kq) \/ x \in Works,
           off' = off \/ ~In(CommitThread, kq)
    PROVE  CancelOK' /\ QueueOK'
<1>1. \A t \in Threads : /\ thr'[t].w = thr[t].w
                         /\ \/ thr'[t].pc = thr[t].pc
                            \/ thr[t].pc = "sleep" /\ thr'[t].pc = "flush"
  BY WakeContract DEF WInv
<1>2. \A w \in Works : Cancellers(w)' = Cancellers(w)
  BY <1>1 DEF Cancellers, Cancelling
<1>3. \A w \in Works : work'[w].cancelling = Cardinality(Cancellers(w)')
  BY <1>2 DEF WInv, CancelOK
<1>4. CancelOK'
  BY <1>1, <1>3 DEF WInv, CancelOK, Cancelling
<1>5. Works \cap Threads = {} /\ CommitThread \notin Works
  BY WorkAssumption
<1>6. QueueOK'
  BY <1>1, <1>5 DEF WInv, QueueOK
<1> QED
  BY <1>4, <1>6

(* One thread moves on from pc to pc on its own, or is let go by the       *)
(* worker; works and pipe stay.                                            *)
LEMMA ThreadStep ==
    ASSUME WInv, NEW t \in Threads, NEW r \in [pc: ThreadPcs, w: Works \cup {None}],
           thr' = [thr EXCEPT ![t] = r], UNCHANGED <<vars, work, krun, off>>,
           WellQueued(kq'),
           \A x : In(x, kq') => In(x, kq) \/ x = t,
           In(t, kq') => r.pc \in {"kcancel", "kwait"},
           r.pc = "sleep" => IF r.w = None THEN Pending # {} ELSE r.w \in Pending,
           r.pc \in Cancelling <=> thr[t].pc \in Cancelling,
           r.pc \in Cancelling => r.w = thr[t].w,
           r.pc \in {"kcancel", "cancelled"} => ~In(r.w, kq'),
           r.pc = "cancelled" => krun # r.w
    PROVE  WInv'
<1>0. /\ t \notin Works /\ None # t /\ None \notin Works /\ t # CommitThread
      /\ Works \cap Threads = {}
  BY WorkAssumption
<1>1. /\ thr' \in [Threads -> [pc: ThreadPcs, w: Works \cup {None}]]
      /\ thr'[t] = r /\ \A u \in Threads : u # t => thr'[u] = thr[u]
  BY DEF WInv, WTypeOK
<1>2. WTypeOK'
  BY <1>1 DEF WInv, WTypeOK
<1>3. Pending' = Pending
  BY DEF Pending
<1>4. /\ IInv(Cardinality(Pending))' /\ WorksNeedIrq' /\ vb' = vb
      /\ vb'.inmodeset => Pending' = {}
  BY <1>3, PipeSame
<1>5. NoLostWakeup'
  BY <1>1, <1>3 DEF WInv, NoLostWakeup, Emptied
<1>6. QueueOK'
  BY <1>0, <1>1 DEF WInv, QueueOK
<1>7. ModesetOK'
  BY <1>4 DEF WInv, ModesetOK
<1>8. CancelOK'
  <2>1. \A w \in Works : Cancellers(w)' = Cancellers(w)
    BY <1>1 DEF Cancellers
  <2>2. \A w \in Works : work'[w].cancelling = Cardinality(Cancellers(w)')
    BY <2>1 DEF WInv, CancelOK
  <2>3. thr[t].pc \in Cancelling => thr[t].w \in Works /\ ~work[thr[t].w].pending
    BY DEF WInv, CancelOK
  <2>4. \A u \in Threads : thr[u].w \in Works \cup {None}
    BY DEF WInv, WTypeOK
  <2>5. ASSUME NEW u \in Threads
        PROVE  /\ thr'[u].pc \in Cancelling => thr'[u].w \in Works /\ ~work'[thr'[u].w].pending
               /\ thr'[u].pc \in {"kcancel", "cancelled"} => ~In(thr'[u].w, kq')
               /\ thr'[u].pc = "cancelled" => krun' # thr'[u].w
    <3>1. CASE u = t
      BY <1>1, <2>3, <3>1
    <3>2. CASE u # t
      <4>1. thr'[u] = thr[u] /\ thr[u].w # t
        BY <1>0, <1>1, <2>4, <3>2
      <4>2. /\ thr[u].pc \in Cancelling => thr[u].w \in Works /\ ~work[thr[u].w].pending
            /\ thr[u].pc \in {"kcancel", "cancelled"} => ~In(thr[u].w, kq)
            /\ thr[u].pc = "cancelled" => krun # thr[u].w
        BY DEF WInv, CancelOK
      <4> QED
        BY <4>1, <4>2
    <3> QED
      BY <3>1, <3>2
  <2> QED
    BY <2>2, <2>5 DEF CancelOK
<1>9. QuietWhileOff'
  <2>1. \A w \in Works : In(w, kq') => In(w, kq)
    BY <1>0
  <2> QED
    BY <1>3, <1>4, <2>1 DEF WInv, QuietWhileOff, InQueue, In
<1> QED
  BY <1>2, <1>4, <1>5, <1>6, <1>7, <1>8, <1>9 DEF WInv

-----------------------------------------------------------------------------
(* The steps of the pipe, the worker and the threads *)

(* The interrupt, the timer, the commit thread and the tasks. *)
LEMMA PipeStep ==
    ASSUME WInv, Pipe \/ UNCHANGED allvars
    PROVE  WInv'
<1>1. UNCHANGED wvars
  BY DEF Pipe, allvars
<1>2. [Next]_vars /\ ((off = "idle" /\ VblankOn) \/ ModesetFree)
  BY DEF Pipe, allvars, Next, Isr, Commit, ModesetFree
<1>3. /\ work' = work /\ kq' = kq /\ krun' = krun /\ thr' = thr /\ off' = off
      /\ Pending' = Pending
  BY <1>1 DEF wvars, Pending
<1> PICK k \in Nat : k = Cardinality(Pending)
  BY PendingCount
<1>4. IInv(k) /\ Cardinality(Pending') = k
  BY <1>3 DEF WInv
<1>5. IInv(k)'
  BY <1>2, <1>4, NextIInv
<1>6. IInv(Cardinality(Pending))'
  BY <1>4, <1>5, Recount
<1>7. WorksNeedIrq'
  <2> SUFFICES ASSUME Pending # {} PROVE vb'.enabled
    BY <1>3 DEF WorksNeedIrq
  <2>1. vb.enabled /\ k # 0
    BY PendingCount, FS_EmptySet DEF WInv, WorksNeedIrq
  <2> QED
    BY <1>2, <1>4, <2>1, KeepsIrq
<1>8. \/ vb'.inmodeset = vb.inmodeset
      \/ ~vb'.inmodeset /\ off = "idle"
  <2>1. CASE ModesetFree
    BY <1>4, <2>1, KeepsModeset
  <2>2. CASE off = "idle" /\ VblankOn
    <3>1. vb \in VblankCrtc /\ vb.inmodeset /\ vb.refcount >= 1 /\ vb' = drm_crtc_vblank_on(vb)
      BY <1>4, <2>2, Counts DEF VblankOn
    <3> QED
      BY <2>2, <3>1, OnContract
  <2> QED
    BY <1>2, <2>1, <2>2
<1>9. ModesetOK' /\ QuietWhileOff'
  BY <1>3, <1>8 DEF WInv, ModesetOK, QuietWhileOff, InQueue
<1>10. WTypeOK' /\ NoLostWakeup' /\ QueueOK'
  BY <1>3 DEF WInv, WTypeOK, NoLostWakeup, Emptied, QueueOK
<1>11. CancelOK'
  BY <1>3 DEF WInv, CancelOK, Cancellers
<1> QED
  BY <1>6, <1>7, <1>9, <1>10, <1>11 DEF WInv

(* Who is on the worker's list is named there once. *)
LEMMA PositionContract ==
    ASSUME NEW x, InQueue(x)
    PROVE  Position(x) \in DOMAIN kq /\ kq[Position(x)] = x
BY DEF InQueue, Position

(* The worker takes an entry: a work runs, a flusher goes on. *)
LEMMA TakeStep ==
    ASSUME WInv, WorkerTake
    PROVE  WInv'
<1> DEFINE h == Head(kq)
<1>1. krun = None /\ kq # <<>> /\ kq' = Tail(kq) /\ UNCHANGED <<vars, work>>
  BY DEF WorkerTake
<1>2. /\ WellQueued(kq') /\ h \in Entries /\ In(h, kq)
      /\ \A x : In(x, kq') <=> In(x, kq) /\ x # h
      /\ h = CommitThread => \A w \in Works : ~In(w, kq)
  <2>1. WellQueued(kq)
    BY DEF WInv, QueueOK
  <2> QED
    BY <1>1, <2>1, TailQueued
<1>3. None \notin Works /\ Works \cap Threads = {} /\ CommitThread \notin Works \cup Threads
  BY WorkAssumption
<1>4. Pending' = Pending
  BY <1>1 DEF Pending
<1>5. /\ IInv(Cardinality(Pending))' /\ WorksNeedIrq' /\ vb' = vb
      /\ vb'.inmodeset => Pending' = {}
  BY <1>1, <1>4, PipeSame
<1> HIDE DEF h
<1>6. CASE h \in Works
  <2>1. krun' = h /\ thr' = thr /\ off' = off
    BY <1>3, <1>6 DEF WorkerTake, h
  <2>2. WTypeOK' /\ NoLostWakeup' /\ QueueOK' /\ ModesetOK'
    BY <1>1, <1>2, <1>4, <1>5, <1>6, <2>1
    DEF WInv, WTypeOK, NoLostWakeup, Emptied, QueueOK, ModesetOK
  <2>3. CancelOK'
    <3>1. \A w \in Works : Cancellers(w)' = Cancellers(w)
      BY <2>1 DEF Cancellers
    <3>2. \A w \in Works : work'[w].cancelling = Cardinality(Cancellers(w)')
      BY <1>1, <3>1 DEF WInv, CancelOK
    <3> QED
      BY <1>1, <1>2, <2>1, <3>2 DEF WInv, CancelOK
  <2>4. QuietWhileOff'
    <3>1. ~(vb.inmodeset /\ off = "idle")
      BY <1>2, <1>6 DEF WInv, QuietWhileOff, InQueue, In
    <3> QED
      BY <1>5, <2>1, <3>1 DEF QuietWhileOff
  <2> QED
    BY <1>5, <2>2, <2>3, <2>4 DEF WInv
<1>7. CASE h \in Threads
  <2> DEFINE r == IF thr[h].pc = "kcancel" THEN [thr[h] EXCEPT !.pc = "cancelled"] ELSE Free
  <2>1. thr' = [thr EXCEPT ![h] = r] /\ krun' = krun /\ off' = off
    BY <1>3, <1>7 DEF WorkerTake, h
  <2>2. thr[h].pc \in {"kcancel", "kwait"}
    BY <1>2, <1>7 DEF WInv, QueueOK
  <2>3. thr[h] \in [pc: ThreadPcs, w: Works \cup {None}]
    BY <1>7 DEF WInv, WTypeOK
  <2>4. CASE thr[h].pc = "kcancel"
    <3>1. r \in [pc: ThreadPcs, w: Works \cup {None}] /\ r.pc = "cancelled" /\ r.w = thr[h].w
      BY <2>3, <2>4 DEF ThreadPcs
    <3>2. r.w \in Works /\ ~In(r.w, kq)
      BY <1>7, <2>4, <3>1 DEF WInv, CancelOK, Cancelling
    <3> HIDE DEF r
    <3> QED
      BY <1>1, <1>2, <1>3, <1>7, <2>1, <2>4, <3>1, <3>2, ThreadStep DEF Cancelling
  <2>5. CASE thr[h].pc = "kwait"
    <3>1. r \in [pc: ThreadPcs, w: Works \cup {None}] /\ r.pc = "idle"
      BY <2>5 DEF ThreadPcs, Free
    <3> HIDE DEF r
    <3> QED
      BY <1>1, <1>2, <1>3, <1>7, <2>1, <2>5, <3>1, ThreadStep DEF Cancelling
  <2> QED
    BY <2>2, <2>4, <2>5
<1>8. CASE h = CommitThread
  <2>1. off' = "idle" /\ krun' = krun /\ thr' = thr
    BY <1>3, <1>8 DEF WorkerTake, h
  <2>2. off = "kflush" /\ vb.inmodeset
    BY <1>2, <1>8 DEF WInv, QueueOK, ModesetOK
  <2>3. WTypeOK' /\ NoLostWakeup' /\ ModesetOK'
    BY <1>1, <1>4, <1>5, <2>1 DEF WInv, WTypeOK, NoLostWakeup, Emptied, ModesetOK
  <2>4. QueueOK'
    BY <1>2, <1>8, <2>1 DEF WInv, QueueOK
  <2>5. CancelOK'
    <3>1. \A w \in Works : Cancellers(w)' = Cancellers(w)
      BY <2>1 DEF Cancellers
    <3>2. \A w \in Works : work'[w].cancelling = Cardinality(Cancellers(w)')
      BY <1>1, <3>1 DEF WInv, CancelOK
    <3> QED
      BY <1>1, <1>2, <2>1, <3>2 DEF WInv, CancelOK
  <2>6. QuietWhileOff'
    <3>1. \A w \in Works : ~In(w, kq')
      BY <1>2, <1>8
    <3> QED
      BY <1>1, <1>5, <2>1, <2>2, <3>1 DEF QuietWhileOff, InQueue, In
  <2> QED
    BY <1>5, <2>3, <2>4, <2>5, <2>6 DEF WInv
<1> QED
  BY <1>2, <1>6, <1>7, <1>8 DEF Entries

(* The function of a work returns, or the commit thread queues itself      *)
(* behind all of them.                                                     *)
LEMMA WorkerStep ==
    ASSUME WInv, WorkerDone \/ drm_vblank_flush_worker
    PROVE  WInv'
<1>1. UNCHANGED <<vars, work, thr>> /\ Pending' = Pending
  BY DEF WorkerDone, drm_vblank_flush_worker, Pending
<1>2. /\ IInv(Cardinality(Pending))' /\ WorksNeedIrq' /\ vb' = vb
      /\ vb'.inmodeset => Pending' = {}
  BY <1>1, PipeSame
<1>3. None \notin Works /\ Works \cap Threads = {} /\ CommitThread \notin Works \cup Threads
  BY WorkAssumption
<1>4. \A w \in Works : work'[w].cancelling = Cardinality(Cancellers(w)')
  <2>1. \A w \in Works : Cancellers(w)' = Cancellers(w)
    BY <1>1 DEF Cancellers
  <2> QED
    BY <1>1, <2>1 DEF WInv, CancelOK
<1>5. NoLostWakeup'
  BY <1>1 DEF WInv, NoLostWakeup, Emptied
<1>6. CASE WorkerDone
  <2>1. krun' = None /\ kq' = kq /\ off' = off
    BY <1>6 DEF WorkerDone
  <2>2. WTypeOK' /\ QueueOK' /\ ModesetOK' /\ QuietWhileOff'
    BY <1>1, <1>2, <2>1 DEF WInv, WTypeOK, QueueOK, ModesetOK, QuietWhileOff, InQueue
  <2>3. CancelOK'
    BY <1>1, <1>3, <1>4, <2>1 DEF WInv, CancelOK, Cancelling
  <2> QED
    BY <1>2, <1>5, <2>2, <2>3 DEF WInv
<1>7. CASE drm_vblank_flush_worker
  <2>1. off = "flush" /\ kq' = Append(kq, CommitThread) /\ off' = "kflush" /\ krun' = krun
    BY <1>7 DEF drm_vblank_flush_worker
  <2>2. WellQueued(kq) /\ ~In(CommitThread, kq)
    BY <2>1 DEF WInv, QueueOK
  <2>3. WellQueued(kq') /\ \A x : In(x, kq') => In(x, kq) \/ x = CommitThread
    BY <2>1, <2>2, EndQueued
  <2>4. WTypeOK' /\ QueueOK' /\ ModesetOK' /\ QuietWhileOff'
    BY <1>1, <1>2, <1>3, <2>1, <2>3
    DEF WInv, WTypeOK, QueueOK, ModesetOK, QuietWhileOff
  <2>5. \A t \in Threads : thr[t].w \in Works \cup {None}
    BY DEF WInv, WTypeOK
  <2>6. CancelOK'
    BY <1>1, <1>3, <1>4, <2>1, <2>3, <2>5 DEF WInv, CancelOK, Cancelling
  <2> QED
    BY <1>2, <1>5, <2>4, <2>6 DEF WInv
<1> QED
  BY <1>6, <1>7

(* A thread in drm_vblank_work_flush or _flush_all. *)
LEMMA FlushSteps ==
    ASSUME WInv, NEW t \in Threads,
           \/ \E w \in Works \cup {None} : FlushBegin(t, w)
           \/ FlushLook(t)
           \/ FlushWorker(t)
    PROVE  WInv'
<1> DEFINE Rec == [pc: ThreadPcs, w: Works \cup {None}]
<1>1. /\ thr \in [Threads -> Rec] /\ thr[t] \in Rec /\ thr[t].w \in Works \cup {None}
      /\ WellQueued(kq)
      /\ In(t, kq) => thr[t].pc \in {"kcancel", "kwait"}
  BY DEF WInv, WTypeOK, QueueOK
<1>2. UNCHANGED <<vars, work, krun, off>>
  BY DEF FlushBegin, FlushLook, FlushWorker
<1>3. ASSUME NEW w \in Works \cup {None}, FlushBegin(t, w)
      PROVE  WInv'
  <2> DEFINE r == [pc |-> "flush", w |-> w]
  <2>1. thr[t].pc = "idle" /\ thr' = [thr EXCEPT ![t] = r] /\ kq' = kq
    BY <1>3 DEF FlushBegin
  <2>2. r \in Rec /\ r.pc = "flush"
    BY DEF ThreadPcs
  <2> HIDE DEF r
  <2> QED
    BY <1>1, <1>2, <2>1, <2>2, ThreadStep DEF Cancelling
<1>4. CASE FlushLook(t)
  <2> DEFINE r == [thr[t] EXCEPT !.pc = IF Emptied(t, Pending) THEN "kflush" ELSE "sleep"]
  <2>1. thr[t].pc = "flush" /\ thr' = [thr EXCEPT ![t] = r] /\ kq' = kq
    BY <1>4 DEF FlushLook
  <2>2. /\ r \in Rec /\ r.pc \in {"kflush", "sleep"} /\ r.w = thr[t].w
        /\ r.pc = "sleep" => ~Emptied(t, Pending)
    BY <1>1 DEF ThreadPcs
  <2> HIDE DEF r
  <2>3. r.pc = "sleep" => IF r.w = None THEN Pending # {} ELSE r.w \in Pending
    BY <2>2 DEF Emptied
  <2> QED
    BY <1>1, <1>2, <2>1, <2>2, <2>3, ThreadStep DEF Cancelling
<1>5. CASE FlushWorker(t)
  <2>1. thr[t].pc = "kflush" /\ ~In(t, kq)
    BY <1>1, <1>5 DEF FlushWorker
  <2>2. CASE thr' = [thr EXCEPT ![t] = Free] /\ kq' = kq
    <3>1. Free \in Rec /\ Free.pc = "idle"
      BY DEF Free, ThreadPcs
    <3> QED
      BY <1>1, <1>2, <2>1, <2>2, <3>1, ThreadStep DEF Cancelling
  <2>3. CASE /\ thr' = [thr EXCEPT ![t].pc = "kwait"]
             /\ WellQueued(kq') /\ \A x : In(x, kq') => In(x, kq) \/ x = t
    <3> DEFINE r == [thr[t] EXCEPT !.pc = "kwait"]
    <3>1. thr' = [thr EXCEPT ![t] = r] /\ r \in Rec /\ r.pc = "kwait"
      BY <1>1, <2>3 DEF ThreadPcs
    <3> HIDE DEF r
    <3> QED
      BY <1>1, <1>2, <2>1, <2>3, <3>1, ThreadStep DEF Cancelling
  <2>6. \/ thr' = [thr EXCEPT ![t] = Free] /\ kq' = kq
        \/ /\ thr' = [thr EXCEPT ![t].pc = "kwait"]
           /\ \/ kq' = Append(kq, t)
              \/ kq' = <<t>> \o kq
              \/ InQueue(thr[t].w) /\ kq' = InsertAt(kq, Position(thr[t].w) + 1, t)
    BY <1>5 DEF FlushWorker, kthread_flush_work
  <2>7. CASE thr' = [thr EXCEPT ![t].pc = "kwait"] /\ (kq' = Append(kq, t) \/ kq' = <<t>> \o kq)
    <3>0. /\ WellQueued(Append(kq, t)) /\ \A x : In(x, Append(kq, t)) => In(x, kq) \/ x = t
          /\ WellQueued(<<t>> \o kq) /\ \A x : In(x, <<t>> \o kq) => In(x, kq) \/ x = t
      BY <1>1, <2>1, EndQueued
    <3>1. WellQueued(kq') /\ \A x : In(x, kq') => In(x, kq) \/ x = t
      BY <2>7, <3>0
    <3> QED
      BY <2>3, <2>7, <3>1
  <2>8. CASE /\ thr' = [thr EXCEPT ![t].pc = "kwait"]
             /\ InQueue(thr[t].w) /\ kq' = InsertAt(kq, Position(thr[t].w) + 1, t)
    <3>1. Position(thr[t].w) \in DOMAIN kq
      BY <2>8, PositionContract
    <3>2. WellQueued(kq') /\ \A x : In(x, kq') => In(x, kq) \/ x = t
      BY <1>1, <2>1, <2>8, <3>1, InsertQueued
    <3> QED
      BY <2>3, <2>8, <3>2
  <2> QED
    BY <2>2, <2>6, <2>7, <2>8
<1> QED
  BY <1>3, <1>4, <1>5

(* kthread_cancel_work_sync: the work leaves the worker's list, and the    *)
(* thread waits behind it if it runs.                                      *)
LEMMA CancelWorkStep ==
    ASSUME WInv, NEW t \in Threads, CancelWork(t)
    PROVE  WInv'
<1> DEFINE Rec == [pc: ThreadPcs, w: Works \cup {None}]
           w == thr[t].w
           rest == IF InQueue(w) THEN RemoveAt(kq, Position(w)) ELSE kq
<1>1. /\ thr \in [Threads -> Rec] /\ thr[t] \in Rec
      /\ WellQueued(kq)
      /\ In(t, kq) => thr[t].pc \in {"kcancel", "kwait"}
  BY DEF WInv, WTypeOK, QueueOK
<1>2. UNCHANGED <<vars, work, krun, off>> /\ thr[t].pc = "cancel"
  BY DEF CancelWork
<1>3. w \in Works /\ w # t /\ ~In(t, kq)
  BY <1>1, <1>2, WorkAssumption DEF WInv, CancelOK, Cancelling
<1>4. WellQueued(rest) /\ (\A x : In(x, rest) => In(x, kq)) /\ ~In(w, rest)
  <2>1. CASE InQueue(w)
    <3>1. Position(w) \in DOMAIN kq /\ kq[Position(w)] = w
      BY <2>1, PositionContract
    <3>2. rest = RemoveAt(kq, Position(w))
      BY <2>1
    <3> QED
      BY <1>1, <3>1, <3>2, RemoveQueued
  <2>2. CASE ~InQueue(w)
    BY <1>1, <2>2 DEF InQueue, In
  <2> QED
    BY <2>1, <2>2
<1>5. CASE krun = w
  <2> DEFINE r == [thr[t] EXCEPT !.pc = "kcancel"]
  <2>1. kq' = <<t>> \o rest /\ thr' = [thr EXCEPT ![t] = r]
    BY <1>5 DEF CancelWork
  <2>2. r \in Rec /\ r.pc = "kcancel" /\ r.w = w
    BY <1>1 DEF ThreadPcs
  <2> HIDE DEF r, rest
  <2>3. WellQueued(kq') /\ \A x : In(x, kq') => In(x, rest) \/ x = t
    <3>1. ~In(t, rest)
      BY <1>3, <1>4
    <3> QED
      BY <1>4, <2>1, <3>1, EndQueued
  <2>4. ~In(r.w, kq')
    BY <1>3, <1>4, <2>2, <2>3
  <2> QED
    BY <1>1, <1>2, <1>4, <2>1, <2>2, <2>3, <2>4, ThreadStep DEF Cancelling
<1>6. CASE krun # w
  <2> DEFINE r == [thr[t] EXCEPT !.pc = "cancelled"]
  <2>1. kq' = rest /\ thr' = [thr EXCEPT ![t] = r]
    BY <1>6 DEF CancelWork
  <2>2. r \in Rec /\ r.pc = "cancelled" /\ r.w = w
    BY <1>1 DEF ThreadPcs
  <2> HIDE DEF r, rest
  <2>3. ~In(t, kq')
    BY <1>3, <1>4, <2>1
  <2> QED
    BY <1>1, <1>2, <1>4, <1>6, <2>1, <2>2, <2>3, ThreadStep DEF Cancelling
<1> QED
  BY <1>5, <1>6

(* drm_vblank_work_cancel_sync returns. *)
LEMMA CancelEndStep ==
    ASSUME WInv, NEW t \in Threads, CancelEnd(t)
    PROVE  WInv'
<1>a. thr[t].pc = "cancelled" /\ thr[t].w \in Works
  BY DEF CancelEnd, WInv, CancelOK, Cancelling
<1> PICK w \in Works : w = thr[t].w
  BY <1>a
<1> DEFINE c == Cardinality(Cancellers(w))
<1>0. None \notin Works /\ t \notin Works
  BY WorkAssumption
<1>1. /\ UNCHANGED <<vars, kq, krun, off>> /\ thr[t].pc = "cancelled"
      /\ thr' = [thr EXCEPT ![t] = Free]
      /\ work' = [work EXCEPT ![w].cancelling = @ - 1]
  BY DEF CancelEnd
<1>2. /\ thr \in [Threads -> [pc: ThreadPcs, w: Works \cup {None}]] /\ w \in Works
      /\ work \in [Works -> [pending: BOOLEAN, count: Nat, cancelling: Nat]]
  BY <1>1 DEF WInv, WTypeOK, CancelOK, Cancelling
<1>3. t \in Cancellers(w) /\ IsFiniteSet(Cancellers(w))
  BY <1>1, WorkAssumption, FS_Subset DEF Cancellers, Cancelling
<1>4. work[w].cancelling = c /\ c \in Nat /\ c # 0 /\ c - 1 \in Nat
  <2>1. c \in Nat /\ c # 0
    BY <1>3, FS_CardinalityType, FS_EmptySet
  <2> QED
    BY <1>2, <2>1 DEF WInv, CancelOK
<1>5. /\ thr'[t] = Free /\ \A u \in Threads : u # t => thr'[u] = thr[u]
      /\ thr' \in [Threads -> [pc: ThreadPcs, w: Works \cup {None}]]
  BY <1>1, <1>2 DEF Free, ThreadPcs
<1> HIDE DEF c
<1>6. /\ work' \in [Works -> [pending: BOOLEAN, count: Nat, cancelling: Nat]]
      /\ work'[w].cancelling = c - 1
      /\ \A x \in Works : work'[x].pending = work[x].pending
      /\ \A x \in Works : x # w => work'[x].cancelling = work[x].cancelling
  <2> DEFINE d == c - 1
  <2>1. d \in Nat /\ work' = [work EXCEPT ![w] = [work[w] EXCEPT !.cancelling = d]]
    BY <1>1, <1>2, <1>4
  <2> HIDE DEF d
  <2> QED
    BY <1>2, <2>1 DEF d
<1>7. Pending' = Pending
  BY <1>6 DEF Pending
<1>8. /\ IInv(Cardinality(Pending))' /\ WorksNeedIrq' /\ vb' = vb
      /\ vb'.inmodeset => Pending' = {}
  BY <1>1, <1>7, PipeSame
<1>9. WTypeOK' /\ ModesetOK' /\ QuietWhileOff'
  BY <1>1, <1>5, <1>6, <1>7, <1>8 DEF WInv, WTypeOK, ModesetOK, QuietWhileOff, InQueue
<1>10. NoLostWakeup' /\ QueueOK'
  BY <1>1, <1>5, <1>7 DEF WInv, NoLostWakeup, Emptied, QueueOK, Free
<1>11. CancelOK'
  <2>1. Cancellers(w)' = Cancellers(w) \ {t}
    BY <1>3, <1>5 DEF Cancellers, Cancelling, Free
  <2>2. \A x \in Works : x # w => Cancellers(x)' = Cancellers(x)
    BY <1>1, <1>5 DEF Cancellers, Cancelling, Free
  <2>3. Cardinality(Cancellers(w) \ {t}) = c - 1
    BY <1>3, FS_RemoveElement DEF c
  <2>4. \A x \in Works : work'[x].cancelling = Cardinality(Cancellers(x)')
    BY <1>6, <2>1, <2>2, <2>3 DEF WInv, CancelOK
  <2> QED
    BY <1>1, <1>5, <1>6, <2>4 DEF WInv, CancelOK, Cancelling, Free
<1> QED
  BY <1>8, <1>9, <1>10, <1>11 DEF WInv

-----------------------------------------------------------------------------
(* The steps of the pending list *)

(* Works off the list. *)
LEMMA UnlinkContract ==
    ASSUME WTypeOK, NEW S
    PROVE  LET u == Unlinked(S)
           IN  /\ u \in [Works -> [pending: BOOLEAN, count: Nat, cancelling: Nat]]
               /\ \A w \in Works : /\ u[w].cancelling = work[w].cancelling
                                   /\ u[w].pending <=> work[w].pending /\ w \notin S
<1> DEFINE u == Unlinked(S)
<1>1. \A w \in Works : /\ u[w] \in [pending: BOOLEAN, count: Nat, cancelling: Nat]
                       /\ u[w].cancelling = work[w].cancelling
                       /\ u[w].pending <=> work[w].pending /\ w \notin S
  BY DEF WTypeOK, Unlinked
<1>2. u = [w \in Works |-> u[w]]
  BY DEF Unlinked
<1> HIDE DEF u
<1>3. u \in [Works -> [pending: BOOLEAN, count: Nat, cancelling: Nat]]
  BY <1>1, <1>2
<1> QED
  BY <1>1, <1>3 DEF u

(* What a cancelling thread's work is not. *)
LEMMA CancelledNotPending ==
    ASSUME WInv, NEW t \in Threads, thr[t].pc \in Cancelling
    PROVE  thr[t].w \in Works /\ thr[t].w \notin Pending /\ work[thr[t].w].cancelling # 0
<1>1. thr[t].w \in Works /\ ~work[thr[t].w].pending
  BY DEF WInv, CancelOK
<1>2. t \in Cancellers(thr[t].w) /\ IsFiniteSet(Cancellers(thr[t].w))
  BY WorkAssumption, FS_Subset DEF Cancellers
<1>3. Cardinality(Cancellers(thr[t].w)) # 0
  BY <1>2, FS_EmptySet
<1> QED
  BY <1>1, <1>3 DEF WInv, CancelOK, Pending

(* The interrupt handler sends the passed events and queues the due works. *)
LEMMA HandleStep ==
    ASSUME WInv, HandleVblankWorks
    PROVE  WInv'
<1> DEFINE sent == {e \in pend : Passed(e)}
           due == {w \in Pending : drm_vblank_passed(vb.count, work[w].count)}
           a == Cardinality(sent)
           b == Cardinality(due)
           p == Cardinality(pend)
<1>1. /\ pend' = pend \ sent /\ vb' = PutN(vb, a + b) /\ work' = Unlinked(due)
      /\ kq' \in kthread_queue_work(due) /\ UNCHANGED <<task, irqPend, krun, off>>
      /\ thr' = IF due = {} THEN thr ELSE wake_up_all
      /\ isr' \in {"idle", "disable"}
  BY DEF HandleVblankWorks
<1> PICK k \in Nat : k = Cardinality(Pending)
  BY PendingCount
<1>2. IInv(k)
  BY DEF WInv
<1>3. /\ IsFiniteSet(pend) /\ sent \subseteq pend /\ due \subseteq Pending
      /\ IsFiniteSet(Pending) /\ irqPend \in BOOLEAN /\ due \subseteq Works
  BY <1>2, PendingCount DEF IInv, TypeOK, Pending
<1>4. a \in Nat /\ b \in Nat /\ a =< p /\ b =< k /\ p \in Nat
  BY <1>3, FS_Subset, FS_CardinalityType
<1>5. IsFiniteSet(pend') /\ Cardinality(pend') = p - a
  <2>1. sent = pend \cap sent
    BY <1>3
  <2> HIDE DEF sent
  <2>2. /\ IsFiniteSet(pend \ sent)
        /\ Cardinality(pend \ sent) = Cardinality(pend) - Cardinality(pend \cap sent)
    BY <1>3, FS_Difference
  <2> QED
    BY <1>1, <2>1, <2>2
<1>6. /\ work' \in [Works -> [pending: BOOLEAN, count: Nat, cancelling: Nat]]
      /\ \A w \in Works : /\ work'[w].cancelling = work[w].cancelling
                          /\ work'[w].pending <=> work[w].pending /\ w \notin due
  BY <1>1, UnlinkContract DEF WInv
<1> HIDE DEF due
<1>7. Pending' = Pending \ due
  BY <1>6 DEF Pending
<1>8. Cardinality(Pending') = k - b
  <2>1. due = Pending \cap due
    BY <1>3
  <2> QED
    BY <1>3, <1>7, <2>1, FS_Difference
<1>9. vb \in VblankCrtc /\ vb.refcount \in Nat /\ p + k =< vb.refcount
  BY <1>2, Counts
<1> HIDE DEF a, b, p, sent
<1>10. a + b \in Nat /\ a + b =< vb.refcount
  BY <1>4, <1>9
<1>11. /\ vb' \in VblankCrtc /\ vb'.refcount = vb.refcount - (a + b)
       /\ vb'.inmodeset = vb.inmodeset
       /\ vb.refcount # a + b => vb'.enabled = vb.enabled
       /\ ~vb.enabled => ~vb'.enabled
  BY <1>1, <1>9, <1>10, PutContract
<1>12. ModesetRef' = ModesetRef /\ ModesetRef \in Nat
  BY <1>11 DEF ModesetRef
<1>13. pend' # {} => vb'.enabled
  <2> SUFFICES ASSUME pend' # {} PROVE vb'.enabled
    OBVIOUS
  <2>1. Cardinality(pend') # 0
    BY <1>5, FS_EmptySet
  <2>2. vb.refcount # a + b
    BY <1>4, <1>5, <1>9, <2>1
  <2> QED
    BY <1>1, <1>2, <1>11, <2>2 DEF IInv, EventsNeedIrq
<1>14. WorksNeedIrq'
  <2> SUFFICES ASSUME Pending' # {} PROVE vb'.enabled
    BY DEF WorksNeedIrq
  <2>0. IsFiniteSet(Pending')
    BY <1>3, <1>7, FS_Subset
  <2>1. Cardinality(Pending') # 0
    BY <2>0, FS_EmptySet
  <2>2. vb.refcount # a + b
    BY <1>4, <1>8, <1>9, <2>1
  <2> QED
    BY <1>7, <1>11, <2>2 DEF WInv, WorksNeedIrq
<1>15. IInv(Cardinality(Pending))'
  <2>1. PICK j \in Nat : j = k - b
    BY <1>4
  <2>2. vb'.inmodeset => ~vb'.enabled
    BY <1>2, <1>11 DEF IInv, OffIsOff
  <2>3. vb'.refcount - Cardinality(pend') - ModesetRef' - j
          = vb.refcount - Cardinality(pend) - ModesetRef - k
    <3> DEFINE r == vb.refcount
               m == ModesetRef
    <3>1. r \in Nat /\ m \in Nat /\ p = Cardinality(pend)
      BY <1>9, <1>12 DEF p
    <3> HIDE DEF r, m
    <3>2. (r - (a + b)) - (p - a) - m - (k - b) = r - p - m - k
      BY <1>4, <3>1
    <3> QED
      BY <1>5, <1>11, <1>12, <2>1, <3>1, <3>2 DEF r, m
  <2>4. pend' \subseteq pend /\ task' = task /\ irqPend' \in BOOLEAN
        /\ isr' \in {"idle", "acked", "events", "disable"}
    BY <1>1, <1>3
  <2>5. Cardinality(Pending') = j
    BY <1>8, <2>1
  <2>6. IInv(j)'
    BY <1>2, <1>11, <1>13, <2>1, <2>2, <2>3, <2>4, RefStep
  <2> QED
    BY <2>1, <2>5, <2>6, Recount
<1>16. thr' = thr \/ thr' = wake_up_all
  BY <1>1
<1>17. WTypeOK'
  BY <1>1, <1>6, <1>16, WakeContract DEF WInv, WTypeOK
<1>18. NoLostWakeup'
  <2>1. CASE due = {}
    BY <1>1, <1>7, <2>1 DEF WInv, NoLostWakeup, Emptied
  <2>2. CASE due # {}
    BY <1>1, <2>2, WakeContract DEF WInv, NoLostWakeup
  <2> QED
    BY <2>1, <2>2
<1>19. due # {} => ~vb.inmodeset /\ off = "idle" /\ ~In(CommitThread, kq)
  BY <1>3 DEF WInv, WTypeOK, ModesetOK, QueueOK
<1>20. WellQueued(kq') /\ \A x : In(x, kq') => In(x, kq) \/ x \in due
  BY <1>1, <1>3, <1>19, WorksQueued DEF WInv, QueueOK
<1>21. CancelOK' /\ QueueOK'
  <2>1. \A t \in Threads : thr[t].pc \in Cancelling =>
          thr[t].w \in Works /\ ~work'[thr[t].w].pending /\ thr[t].w \notin due
    BY <1>3, <1>6, CancelledNotPending DEF Pending
  <2>2. \A t \in Threads : thr[t].pc \in {"kcancel", "cancelled"} =>
          (In(thr[t].w, kq') => In(thr[t].w, kq))
    BY <1>20, <2>1 DEF Cancelling
  <2> QED
    BY <1>1, <1>3, <1>6, <1>16, <1>20, <2>1, <2>2, ListStep
<1>22. ModesetOK'
  BY <1>1, <1>7, <1>11 DEF WInv, ModesetOK
<1>23. QuietWhileOff'
  BY <1>1, <1>7, <1>11, <1>19, <1>20 DEF WInv, QuietWhileOff, InQueue, In
<1> QED
  BY <1>14, <1>15, <1>17, <1>18, <1>21, <1>22, <1>23 DEF WInv

(* drm_crtc_vblank_off takes every event and every work off the lists. *)
LEMMA OffWorksStep ==
    ASSUME WInv, VblankOffWorks
    PROVE  WInv'
<1> DEFINE p == Cardinality(pend)
<1> PICK k \in Nat : k = Cardinality(Pending)
  BY PendingCount
<1>1. /\ off = "idle" /\ ~vb.inmodeset /\ vb' = drm_crtc_vblank_off(vb, p + k) /\ pend' = {}
      /\ work' = Unlinked(Pending) /\ thr' = wake_up_all /\ off' = "flush"
      /\ UNCHANGED <<task, isr, irqPend, kq, krun>>
  BY DEF VblankOffWorks
<1>2. IInv(k)
  BY DEF WInv
<1>3. /\ vb \in VblankCrtc /\ vb.refcount \in Nat /\ p \in Nat /\ p + k =< vb.refcount
      /\ irqPend \in BOOLEAN /\ isr \in {"idle", "acked", "events", "disable"}
  BY <1>2, Counts DEF IInv, TypeOK
<1>4. /\ work' \in [Works -> [pending: BOOLEAN, count: Nat, cancelling: Nat]]
      /\ \A w \in Works : /\ work'[w].cancelling = work[w].cancelling
                          /\ work'[w].pending <=> work[w].pending /\ w \notin Pending
  BY <1>1, UnlinkContract DEF WInv
<1>5. Pending' = {} /\ Cardinality(Pending') = 0 /\ Cardinality(pend') = 0
  BY <1>1, <1>4, FS_EmptySet DEF Pending
<1> HIDE DEF p
<1>6. /\ vb' \in VblankCrtc /\ vb'.refcount = vb.refcount + 1 - (p + k)
      /\ vb'.inmodeset /\ ~vb'.enabled
  BY <1>1, <1>3, OffContract
<1>7. IInv(Cardinality(Pending))'
  <2>1. ModesetRef' = 1 /\ ModesetRef = 0
    BY <1>1, <1>6 DEF ModesetRef
  <2>2. vb'.refcount - Cardinality(pend') - ModesetRef' - 0
          = vb.refcount - Cardinality(pend) - ModesetRef - k
    <3> DEFINE r == vb.refcount
    <3>1. r \in Nat /\ p = Cardinality(pend)
      BY <1>3 DEF p
    <3> HIDE DEF r
    <3>2. (r + 1 - (p + k)) - 0 - 1 - 0 = r - p - 0 - k
      BY <1>3, <3>1
    <3> QED
      BY <1>5, <1>6, <2>1, <3>1, <3>2 DEF r
  <2>3. IInv(0)'
    BY <1>1, <1>2, <1>3, <1>6, <2>2, RefStep
  <2> QED
    BY <1>5, <2>3, Recount
<1>8. WTypeOK'
  BY <1>1, <1>4, WakeContract DEF WInv, WTypeOK
<1>9. NoLostWakeup'
  BY <1>1, WakeContract DEF WInv, NoLostWakeup
<1>10. WorksNeedIrq' /\ ModesetOK' /\ QuietWhileOff'
  BY <1>1, <1>5, <1>6 DEF WorksNeedIrq, ModesetOK, QuietWhileOff
<1>11. CancelOK' /\ QueueOK'
  <2>1. \A t \in Threads : thr[t].pc \in Cancelling => ~work'[thr[t].w].pending
    BY <1>4, CancelledNotPending DEF Pending
  <2>2. WellQueued(kq) /\ ~In(CommitThread, kq)
    BY <1>1 DEF WInv, QueueOK
  <2> QED
    BY <1>1, <1>4, <2>1, <2>2, ListStep
<1> QED
  BY <1>7, <1>8, <1>9, <1>10, <1>11 DEF WInv

(* What the pipe keeps when the references of the pending works change. *)
LEMMA WorkRefs ==
    ASSUME WInv, NEW v \in VblankCrtc, vb' = v, UNCHANGED <<pend, task, isr, irqPend>>,
           v.inmodeset = vb.inmodeset,
           v.refcount - Cardinality(Pending') = vb.refcount - Cardinality(Pending),
           pend # {} => v.enabled, Pending' # {} => v.enabled,
           vb.inmodeset => ~v.enabled
    PROVE  IInv(Cardinality(Pending))' /\ WorksNeedIrq'
<1> PICK k \in Nat : k = Cardinality(Pending)
  BY PendingCount
<1>1. Cardinality(Pending') \in Nat
  <2>1. Pending' \subseteq Works
    BY DEF Pending
  <2> QED
    BY <2>1, WorkAssumption, FS_Subset, FS_CardinalityType
<1> PICK j \in Nat : j = Cardinality(Pending')
  BY <1>1
<1>2. IInv(k) /\ ModesetRef' = ModesetRef /\ ModesetRef \in Nat
  BY DEF WInv, ModesetRef
<1>3. Cardinality(pend) \in Nat /\ vb.refcount \in Nat /\ v.refcount \in Nat
  BY <1>2, Counts DEF VblankCrtc
<1>4. vb'.refcount - Cardinality(pend') - ModesetRef' - j
        = vb.refcount - Cardinality(pend) - ModesetRef - k
  <2> DEFINE a == v.refcount
             b == vb.refcount
             p == Cardinality(pend)
             m == ModesetRef
  <2>1. a \in Nat /\ b \in Nat /\ p \in Nat /\ m \in Nat /\ a - j = b - k
    BY <1>2, <1>3
  <2>2. vb'.refcount = a /\ Cardinality(pend') = p /\ ModesetRef' = m
    BY <1>2
  <2> HIDE DEF a, b, p, m
  <2>3. a - p - m - j = b - p - m - k
    BY <2>1
  <2>4. vb.refcount = b /\ Cardinality(pend) = p /\ ModesetRef = m
    BY DEF b, p, m
  <2> QED
    BY <2>2, <2>3, <2>4
<1>5. isr \in {"idle", "acked", "events", "disable"} /\ irqPend \in BOOLEAN
  BY <1>2 DEF IInv, TypeOK
<1>6. IInv(j)'
  BY <1>2, <1>4, <1>5, RefStep
<1> QED
  BY <1>6, Recount DEF WorksNeedIrq

(* A pending work leaves the list and drops its reference. *)
LEMMA DropWork ==
    ASSUME WInv, NEW w \in Pending, vb' = drm_vblank_put(vb), Pending' = Pending \ {w},
           UNCHANGED <<pend, task, isr, irqPend>>
    PROVE  /\ IInv(Cardinality(Pending))' /\ WorksNeedIrq'
           /\ vb'.inmodeset = vb.inmodeset
<1> PICK k \in Nat : k = Cardinality(Pending)
  BY PendingCount
<1>1. IInv(k) /\ IsFiniteSet(Pending) /\ k # 0 /\ vb.enabled
  BY PendingCount, FS_EmptySet DEF WInv, WorksNeedIrq
<1>2. Cardinality(Pending') = k - 1 /\ IsFiniteSet(Pending')
  BY <1>1, FS_RemoveElement
<1> DEFINE r == vb.refcount
           p == Cardinality(pend)
<1>3. vb \in VblankCrtc /\ r \in Nat /\ p \in Nat /\ p + k =< r /\ (pend = {} <=> p = 0)
  BY <1>1, Counts
<1>4. 1 =< vb.refcount
  <2> HIDE DEF p, r
  <2>1. 1 =< r
    BY <1>1, <1>3
  <2> QED
    BY <2>1 DEF r
<1>5. /\ vb' \in VblankCrtc /\ vb'.refcount = r - 1 /\ vb'.inmodeset = vb.inmodeset
      /\ r # 1 => vb'.enabled = vb.enabled
      /\ ~vb.enabled => ~vb'.enabled
  BY <1>3, <1>4, PutContract DEF drm_vblank_put
<1>6. ~vb.inmodeset
  BY <1>1 DEF IInv, OffIsOff
<1>7. Pending' # {} => k - 1 # 0
  BY <1>2, FS_EmptySet
<1> HIDE DEF r, p
<1>8. (pend # {} => r # 1) /\ (Pending' # {} => r # 1) /\ (r - 1) - (k - 1) = r - k
  BY <1>1, <1>3, <1>7
<1>9. vb'.refcount - Cardinality(Pending') = vb.refcount - Cardinality(Pending)
  BY <1>2, <1>5, <1>8 DEF r
<1>10. (pend # {} => vb'.enabled) /\ (Pending' # {} => vb'.enabled)
  BY <1>1, <1>5, <1>8
<1>11. IInv(Cardinality(Pending))' /\ WorksNeedIrq'
  BY <1>5, <1>6, <1>9, <1>10, WorkRefs
<1> QED
  BY <1>5, <1>11

(* drm_vblank_work_cancel_sync takes the work off the pending list. *)
LEMMA CancelBeginStep ==
    ASSUME WInv, NEW t \in Threads, NEW w \in Works, CancelBegin(t, w)
    PROVE  WInv'
<1> DEFINE u == Unlinked({w})
           c == work[w].cancelling + 1
           r == [pc |-> "cancel", w |-> w]
           Rec == [pc: ThreadPcs, w: Works \cup {None}]
<1>1. /\ thr[t].pc = "idle" /\ vb' = IF work[w].pending THEN drm_vblank_put(vb) ELSE vb
      /\ thr' = [wake_up_all EXCEPT ![t] = r]
      /\ UNCHANGED <<pend, task, isr, irqPend, kq, krun, off>>
  BY DEF CancelBegin
<1>2. /\ u \in [Works -> [pending: BOOLEAN, count: Nat, cancelling: Nat]]
      /\ \A x \in Works : /\ u[x].cancelling = work[x].cancelling
                          /\ u[x].pending <=> work[x].pending /\ x \notin {w}
  BY UnlinkContract DEF WInv
<1>3. c \in Nat /\ thr \in [Threads -> Rec] /\ thr[t] \in Rec
  BY DEF WInv, WTypeOK
<1>4. work' = [u EXCEPT ![w] = [u[w] EXCEPT !.cancelling = c]]
  BY <1>2 DEF CancelBegin
<1> HIDE DEF u, c
<1>5. /\ work' \in [Works -> [pending: BOOLEAN, count: Nat, cancelling: Nat]]
      /\ work'[w].cancelling = c
      /\ \A x \in Works : x # w => work'[x].cancelling = work[x].cancelling
      /\ \A x \in Works : work'[x].pending <=> work[x].pending /\ x # w
  BY <1>2, <1>3, <1>4
<1>6. Pending' = Pending \ {w}
  BY <1>5 DEF Pending
<1>7. /\ thr' \in [Threads -> Rec] /\ thr'[t] = r
      /\ \A x \in Threads : x # t => /\ thr'[x].w = thr[x].w /\ thr'[x].pc # "sleep"
                                      /\ \/ thr'[x].pc = thr[x].pc
                                         \/ thr[x].pc = "sleep" /\ thr'[x].pc = "flush"
  <2> DEFINE z == wake_up_all
  <2>1. z = [x \in Threads |->
               IF thr[x].pc = "sleep" THEN [thr[x] EXCEPT !.pc = "flush"] ELSE thr[x]]
    BY DEF wake_up_all
  <2> HIDE DEF z
  <2>2. \A x \in Threads : /\ z[x] \in Rec /\ z[x].w = thr[x].w /\ z[x].pc # "sleep"
                           /\ \/ z[x].pc = thr[x].pc
                              \/ thr[x].pc = "sleep" /\ z[x].pc = "flush"
    BY <1>3, <2>1 DEF ThreadPcs
  <2>3. z \in [Threads -> Rec] /\ r \in Rec
    BY <2>1, <2>2 DEF ThreadPcs
  <2>4. thr' = [z EXCEPT ![t] = r]
    BY <1>1 DEF z
  <2> QED
    BY <2>2, <2>3, <2>4
<1>8. IInv(Cardinality(Pending))' /\ WorksNeedIrq' /\ vb'.inmodeset = vb.inmodeset
  <2>1. CASE work[w].pending
    BY <1>1, <1>6, <2>1, DropWork DEF Pending
  <2>2. CASE ~work[w].pending
    <3>1. Pending' = Pending /\ UNCHANGED vars
      BY <1>1, <1>6, <2>2 DEF Pending, vars
    <3> QED
      BY <3>1, PipeSame
  <2> QED
    BY <2>1, <2>2
<1>9. WTypeOK'
  BY <1>1, <1>5, <1>7 DEF WInv, WTypeOK
<1>10. NoLostWakeup'
  BY <1>7 DEF NoLostWakeup
<1>11. QueueOK'
  BY <1>1, <1>7 DEF WInv, QueueOK
<1>12. ModesetOK' /\ QuietWhileOff'
  BY <1>1, <1>6, <1>8 DEF WInv, ModesetOK, QuietWhileOff, InQueue
<1>13. CancelOK'
  <2>1. t \notin Cancellers(w) /\ Cancellers(w)' = Cancellers(w) \cup {t}
    BY <1>1, <1>7 DEF Cancellers, Cancelling
  <2>2. \A x \in Works : x # w => Cancellers(x)' = Cancellers(x)
    BY <1>1, <1>7 DEF Cancellers, Cancelling
  <2>3. Cardinality(Cancellers(w) \cup {t}) = c
    <3>1. IsFiniteSet(Cancellers(w))
      BY WorkAssumption, FS_Subset DEF Cancellers
    <3>2. Cardinality(Cancellers(w) \cup {t}) = Cardinality(Cancellers(w)) + 1
      BY <2>1, <3>1, FS_AddElement
    <3> QED
      BY <3>2 DEF WInv, CancelOK, c
  <2>4. \A x \in Works : work'[x].cancelling = Cardinality(Cancellers(x)')
    BY <1>5, <2>1, <2>2, <2>3 DEF WInv, CancelOK
  <2>5. ASSUME NEW x \in Threads
        PROVE  /\ thr'[x].pc \in Cancelling => thr'[x].w \in Works /\ ~work'[thr'[x].w].pending
               /\ thr'[x].pc \in {"kcancel", "cancelled"} => ~In(thr'[x].w, kq')
               /\ thr'[x].pc = "cancelled" => krun' # thr'[x].w
    <3>1. CASE x = t
      BY <1>5, <1>7, <3>1
    <3>2. CASE x # t
      BY <1>1, <1>5, <1>7, <3>2 DEF WInv, CancelOK, Cancelling
    <3> QED
      BY <3>1, <3>2
  <2> QED
    BY <2>4, <2>5 DEF CancelOK
<1> QED
  BY <1>8, <1>9, <1>10, <1>11, <1>12, <1>13 DEF WInv

(* drm_vblank_work_schedule, of a new or of a pending work. *)
LEMMA ScheduleStep ==
    ASSUME WInv, NEW w \in Works, NEW count \in Nat, NEW nextonmiss \in BOOLEAN,
           drm_vblank_work_schedule(w, count, nextonmiss)
    PROVE  WInv'
<1> DEFINE v == IF work[w].pending THEN vb ELSE drm_vblank_get(vb)
           now == ~nextonmiss /\ drm_vblank_passed(v.count, count)
           S == IF now THEN {w} ELSE {}
<1>1. /\ work[w].cancelling = 0 /\ ~vb.inmodeset
      /\ work[w].pending \/ VblankGetOk(vb)
      /\ now => vb' = drm_vblank_put(v) /\ work' = Unlinked({w})
      /\ ~now => vb' = v /\ work' = [work EXCEPT ![w].count = count, ![w].pending = TRUE]
      /\ kq' \in kthread_queue_work(S)
      /\ thr' = thr \/ thr' = wake_up_all
      /\ now /\ work[w].pending => thr' = wake_up_all
      /\ UNCHANGED <<pend, task, isr, irqPend, krun, off>>
  BY DEF drm_vblank_work_schedule, NotCancelled, Scheduled, RescheduleWakes
<1>2. S \subseteq {w} /\ (S = {} <=> ~now) /\ (now => S = {w})
  OBVIOUS
<1> PICK k \in Nat : k = Cardinality(Pending)
  BY PendingCount
<1>3. IInv(k) /\ IsFiniteSet(Pending) /\ vb \in VblankCrtc /\ vb.refcount \in Nat
  BY PendingCount, Counts DEF WInv
<1>4. /\ ~work[w].pending =>
            /\ v \in VblankCrtc /\ v.refcount = vb.refcount + 1
            /\ v.inmodeset = vb.inmodeset /\ v.enabled
      /\ work[w].pending => v = vb /\ vb.enabled
  BY <1>1, <1>3, GetContract DEF WInv, WorksNeedIrq, Pending
<1> HIDE DEF v, now, S
<1>5. work \in [Works -> [pending: BOOLEAN, count: Nat, cancelling: Nat]]
  BY DEF WInv, WTypeOK
<1>6. /\ work' \in [Works -> [pending: BOOLEAN, count: Nat, cancelling: Nat]]
      /\ \A x \in Works : work'[x].cancelling = work[x].cancelling
      /\ now => Pending' = Pending \ {w}
      /\ ~now => Pending' = Pending \cup {w}
  <2>1. CASE now
    <3>1. /\ work' \in [Works -> [pending: BOOLEAN, count: Nat, cancelling: Nat]]
          /\ \A x \in Works : /\ work'[x].cancelling = work[x].cancelling
                              /\ work'[x].pending <=> work[x].pending /\ x \notin {w}
      BY <1>1, <2>1, UnlinkContract DEF WInv
    <3> QED
      BY <2>1, <3>1 DEF Pending
  <2>2. CASE ~now
    <3>1. work' = [work EXCEPT ![w] = [work[w] EXCEPT !.count = count, !.pending = TRUE]]
      BY <1>1, <1>5, <2>2
    <3>2. work' \in [Works -> [pending: BOOLEAN, count: Nat, cancelling: Nat]]
      BY <1>5, <3>1
    <3>3. \A x \in Works : /\ work'[x].cancelling = work[x].cancelling
                           /\ work'[x].pending <=> work[x].pending \/ x = w
      BY <1>5, <3>1
    <3> QED
      BY <2>2, <3>2, <3>3 DEF Pending
  <2> QED
    BY <2>1, <2>2
<1>7. IInv(Cardinality(Pending))' /\ WorksNeedIrq' /\ vb'.inmodeset = vb.inmodeset
  <2>1. CASE work[w].pending /\ now
    BY <1>1, <1>4, <1>6, <2>1, DropWork DEF Pending
  <2>2. CASE work[w].pending /\ ~now
    <3>1. Pending' = Pending /\ UNCHANGED vars
      BY <1>1, <1>4, <1>6, <2>2 DEF Pending, vars
    <3> QED
      BY <3>1, PipeSame
  <2>3. CASE ~work[w].pending /\ now
    <3>1. Pending' = Pending
      BY <1>6, <2>3 DEF Pending
    <3>2. 1 =< v.refcount
      BY <1>3, <1>4, <2>3
    <3>3. /\ vb' \in VblankCrtc /\ vb'.refcount = v.refcount - 1 /\ vb'.inmodeset = vb.inmodeset
          /\ v.refcount # 1 => vb'.enabled
      BY <1>1, <1>4, <2>3, <3>2, PutContract DEF drm_vblank_put
    <3>4. vb'.refcount = vb.refcount
      BY <1>3, <1>4, <2>3, <3>3
    <3>5. Cardinality(pend) + k =< vb.refcount /\ Cardinality(pend) \in Nat
          /\ (pend = {} <=> Cardinality(pend) = 0)
      BY <1>3, Counts
    <3>6. Pending # {} => k # 0
      BY <1>3, FS_EmptySet
    <3>7. pend # {} \/ Pending # {} => vb.refcount # 0
      <4> DEFINE p == Cardinality(pend)
                 r == vb.refcount
      <4>1. p + k =< r /\ p \in Nat /\ r \in Nat
        BY <1>3, <3>5
      <4> HIDE DEF p, r
      <4>2. p # 0 \/ k # 0 => r # 0
        BY <4>1
      <4> QED
        BY <3>5, <3>6, <4>2 DEF p, r
    <3>8. vb.refcount # 0 => v.refcount # 1
      BY <1>3, <1>4, <2>3
    <3>9. vb'.refcount - Cardinality(Pending') = vb.refcount - Cardinality(Pending)
      BY <3>1, <3>4
    <3>10. IInv(Cardinality(Pending))' /\ WorksNeedIrq'
      BY <1>1, <3>1, <3>3, <3>7, <3>8, <3>9, WorkRefs
    <3> QED
      BY <3>3, <3>10
  <2>4. CASE ~work[w].pending /\ ~now
    <3>1. Pending' = Pending \cup {w} /\ w \notin Pending /\ vb' = v
      BY <1>1, <1>6, <2>4 DEF Pending
    <3>2. Cardinality(Pending') = k + 1
      BY <1>3, <3>1, FS_AddElement
    <3>3. vb'.refcount - Cardinality(Pending') = vb.refcount - Cardinality(Pending)
      <4> DEFINE r == vb.refcount
      <4>1. r \in Nat /\ vb'.refcount = r + 1
        BY <1>3, <1>4, <2>4, <3>1
      <4> HIDE DEF r
      <4>2. (r + 1) - (k + 1) = r - k
        BY <4>1
      <4> QED
        BY <3>2, <4>1, <4>2 DEF r
    <3> QED
      BY <1>1, <1>4, <2>4, <3>1, <3>3, WorkRefs
  <2> QED
    BY <2>1, <2>2, <2>3, <2>4
<1>8. WTypeOK'
  BY <1>1, <1>6, WakeContract DEF WInv, WTypeOK
<1>9. NoLostWakeup'
  <2>1. CASE thr' = wake_up_all
    BY <2>1, WakeContract DEF WInv, NoLostWakeup
  <2>2. CASE thr' = thr /\ Pending \subseteq Pending'
    BY <2>2 DEF WInv, NoLostWakeup, Emptied
  <2>3. thr' = wake_up_all \/ (thr' = thr /\ Pending \subseteq Pending')
    <3>1. CASE now /\ ~work[w].pending
      BY <1>1, <1>6, <3>1 DEF Pending
    <3> QED
      BY <1>1, <1>6, <3>1
  <2> QED
    BY <2>1, <2>2, <2>3
<1>10. off = "idle" /\ ~In(CommitThread, kq)
  BY <1>1 DEF WInv, ModesetOK, QueueOK
<1>11. WellQueued(kq') /\ \A x : In(x, kq') => In(x, kq) \/ x = w
  <2>1. WellQueued(kq') /\ \A x : In(x, kq') => In(x, kq) \/ x \in S
    BY <1>1, <1>2, <1>10, WorksQueued DEF WInv, QueueOK
  <2> QED
    BY <1>2, <2>1
<1>12. CancelOK' /\ QueueOK'
  <2>1. \A t \in Threads : thr[t].pc \in Cancelling =>
          thr[t].w \in Works /\ thr[t].w \notin Pending /\ thr[t].w # w
    BY <1>1, CancelledNotPending
  <2>2. \A t \in Threads : thr[t].pc \in Cancelling => ~work'[thr[t].w].pending
    BY <1>6, <2>1 DEF Pending
  <2>3. \A t \in Threads : thr[t].pc \in {"kcancel", "cancelled"} =>
          (In(thr[t].w, kq') => In(thr[t].w, kq))
    BY <1>11, <2>1 DEF Cancelling
  <2> QED
    BY <1>1, <1>6, <1>11, <2>2, <2>3, ListStep
<1>13. ModesetOK' /\ QuietWhileOff'
  BY <1>1, <1>7, <1>10 DEF ModesetOK, QuietWhileOff
<1> QED
  BY <1>7, <1>8, <1>9, <1>12, <1>13 DEF WInv

-----------------------------------------------------------------------------
(* Every step preserves the invariant. *)
LEMMA NextWInv ==
    ASSUME WInv, [WNext]_allvars
    PROVE  WInv'
<1>1. CASE Pipe \/ UNCHANGED allvars
  BY <1>1, PipeStep
<1>2. CASE Schedule
  <2>1. PICK w \in Works, nextonmiss \in BOOLEAN,
             count \in {n \in (vb.count - 1)..(vb.count + MaxAhead) : n >= 0} :
               drm_vblank_work_schedule(w, count, nextonmiss)
    BY <1>2 DEF Schedule
  <2>2. vb.count \in Nat /\ MaxAhead \in Nat
    BY VblankAssumption DEF WInv, IInv, TypeOK, VblankCrtc
  <2>3. count \in Nat
    BY <2>2
  <2> QED
    BY <2>1, <2>3, ScheduleStep
<1>3. CASE HandleVblankWorks
  BY <1>3, HandleStep
<1>4. CASE VblankOffWorks
  BY <1>4, OffWorksStep
<1>5. CASE drm_vblank_flush_worker \/ WorkerDone
  BY <1>5, WorkerStep
<1>6. CASE WorkerTake
  BY <1>6, TakeStep
<1>7. ASSUME NEW t \in Threads, Thread(t)
      PROVE  WInv'
  BY <1>7, CancelBeginStep, CancelWorkStep, CancelEndStep, FlushSteps DEF Thread
<1> QED
  BY <1>1, <1>2, <1>3, <1>4, <1>5, <1>6, <1>7 DEF WNext

(* The invariant holds of every behaviour of pipe, worker and threads. *)
THEOREM WorkInvariance == WSpec => []WInv
<1>1. WInv /\ [WNext]_allvars => WInv'
  BY NextWInv
<1> QED
  BY <1>1, InitWInv, PTL DEF WSpec

(* A pending work holds exactly one vblank reference, however many works,  *)
(* threads and tasks share the pipe.                                       *)
THEOREM WorkRefsBalance == WSpec => []WorkRefBalance
<1>1. WInv => WorkRefBalance
  BY DEF WInv, IInv, Balanced, WorkRefBalance
<1> QED
  BY <1>1, WorkInvariance, PTL

(* No pending work is left behind on a pipe whose interrupt is off. *)
THEOREM NoOrphanWork == WSpec => []WorksNeedIrq
<1>1. WInv => WorksNeedIrq
  BY DEF WInv
<1> QED
  BY <1>1, WorkInvariance, PTL

(* Once drm_crtc_vblank_off has returned no work is pending, queued or     *)
(* running until the pipe is turned on again.                              *)
THEOREM OffIsQuiet == WSpec => []QuietWhileOff
<1>1. WInv => QuietWhileOff
  BY DEF WInv
<1> QED
  BY <1>1, WorkInvariance, PTL

(* When drm_vblank_work_cancel_sync is about to return, its work is        *)
(* neither pending nor queued nor running, and nobody can schedule it.     *)
THEOREM CancelsAreFinal == WSpec => []CancelIsFinal
<1>1. WInv => CancelIsFinal
  BY DEF WInv, CancelOK, CancelIsFinal, Cancelling, InQueue, In
<1> QED
  BY <1>1, WorkInvariance, PTL

(* No flusher sleeps on a condition that holds already. *)
THEOREM WakeupsArrive == WSpec => []NoLostWakeup
<1>1. WInv => NoLostWakeup
  BY DEF WInv
<1> QED
  BY <1>1, WorkInvariance, PTL
=============================================================================
