---------------------------- MODULE McpStdio_proofs ----------------------------
(***************************************************************************)
(* Proofs about McpStdio, for any callers and any bounds: its types; by    *)
(* how much an answer is late; and that pipes and server implement         *)
(* AnswerQueue.                                                            *)
(*                                                                         *)
(* The argument: requests and answers on their way are consecutive         *)
(* numbers, from the answer at the head of the pipe back to the request    *)
(* that was written last, each answer in one or more pieces (Order).  So   *)
(* the queue of answers is Run(First, written), which a write makes longer *)
(* at one end and a read shorter at the other, or not at all.  While one   *)
(* task at a time uses the client, the answers that were begun to be read  *)
(* are fewer than the requests by those given up, those pending and the    *)
(* pieces read as answers (Debt).                                          *)
(***************************************************************************)
EXTENDS McpStdio, Integers, FiniteSetTheorems, TLAPS

USE BoundsAssumption DEF Calling

-----------------------------------------------------------------------------
(* The pipes.                                                              *)

\* The last request the server has read, and the last one it has answered.
LastRead == written - Len(requests)
Answered == IF handling = 0 THEN LastRead ELSE LastRead - 1

\* The answers l are numbers that grow one by one up to last, each in the pipe
\* in pieces, the first from the piece that was not read yet on.
Chain(l, last) ==
    /\ l # <<>> => l[Len(l)].of = last
    /\ \A i, j \in DOMAIN l : i < j =>
          l[i].of <= l[j].of /\ (l[j].part = 1 => l[i].of < l[j].of)
    /\ \A i \in DOMAIN l : \A n \in l[1].of .. l[i].of :
          \E j \in 1..i : (j = 1 \/ l[j].part = 1) /\ l[j].of = n

\* The requests and answers on their way are consecutive numbers, the latest
\* request the last of them.
Order ==
    /\ Len(requests) <= written
    /\ \A i \in DOMAIN requests : requests[i] = LastRead + i
    /\ handling \in {0, LastRead}
    /\ Chain(lines, Answered)

\* The first answer in the pipe, and the last one that was begun to be read.
First == IF lines = <<>> THEN Answered + 1 ELSE lines[1].of
Begun == IF lines # <<>> /\ lines[1].part > 1 THEN First ELSE First - 1

LEMMA Bounds == MaxRequests \in Nat \ {0} /\ MaxPieces \in Nat \ {0}
OBVIOUS

LEMMA PieceType ==
    ASSUME NEW l \in Seq(Piece), NEW i \in DOMAIN l
    PROVE  l[i] \in Piece /\ l[i].of \in Nat /\ l[i].of >= 1 /\ l[i].part \in Nat
<1>1. l[i] \in Piece
  OBVIOUS
<1>2. l[i].of \in 1..MaxRequests /\ l[i].part \in 1..MaxPieces
  BY <1>1 DEF Piece, Request
<1> QED BY <1>1, <1>2, Bounds

LEMMA ChainTail ==
    ASSUME NEW l \in Seq(Piece), NEW last \in Nat, l # <<>>, Chain(l, last)
    PROVE  /\ Tail(l) \in Seq(Piece) /\ Chain(Tail(l), last)
           /\ Tail(l) = <<>> => l[1].of = last
           /\ Tail(l) # <<>> =>
                 Tail(l)[1].of = IF Tail(l)[1].part = 1 THEN l[1].of + 1 ELSE l[1].of
<1> DEFINE t == Tail(l)
<1>1. /\ t \in Seq(Piece) /\ Len(t) = Len(l) - 1 /\ Len(l) \in Nat \ {0}
      /\ \A i \in 1..Len(t) : t[i] = l[i + 1] /\ i + 1 \in 1..Len(l)
  OBVIOUS
<1>2. /\ \A i \in 1..Len(l) : l[i].of \in Nat /\ l[i].part \in Nat
      /\ l[Len(l)].of = last /\ DOMAIN l = 1..Len(l) /\ DOMAIN t = 1..Len(t)
  <2>1. DOMAIN l = 1..Len(l) /\ DOMAIN t = 1..Len(t)
    BY <1>1
  <2>2. l[Len(l)].of = last
    BY DEF Chain
  <2> QED BY <2>1, <2>2, PieceType
<1> HIDE DEF t
<1>3. t = <<>> => l[1].of = last
  BY <1>1, <1>2
<1>4. ASSUME t # <<>>
      PROVE  t[1].of = IF t[1].part = 1 THEN l[1].of + 1 ELSE l[1].of
  <2>1. 2 \in 1..Len(l) /\ t[1] = l[2] /\ 1 \in 1..Len(l)
    BY <1>1, <1>4
  <2>2. l[1].of <= l[2].of /\ (l[2].part = 1 => l[1].of < l[2].of)
    BY <1>2, <2>1 DEF Chain
  <2>3. ASSUME NEW n \in l[1].of .. l[2].of
        PROVE  n = l[1].of \/ (l[2].part = 1 /\ n = l[2].of)
    <3>1. PICK j \in 1..2 : (j = 1 \/ l[j].part = 1) /\ l[j].of = n
      BY <1>2, <2>1, <2>3 DEF Chain
    <3> QED BY <3>1
  <2>4. l[1].of < l[2].of => l[2].part = 1 /\ l[2].of = l[1].of + 1
    <3> SUFFICES ASSUME l[1].of < l[2].of
                 PROVE  l[2].part = 1 /\ l[2].of = l[1].of + 1
      OBVIOUS
    <3>1. l[1].of + 1 \in l[1].of .. l[2].of
      BY <1>2, <2>1
    <3> QED BY <1>2, <2>1, <2>3, <3>1
  <2> QED BY <1>2, <2>1, <2>2, <2>4
<1>5. t # <<>> => t[Len(t)].of = last
  BY <1>1, <1>2
<1>6. \A i, j \in DOMAIN t : i < j =>
          t[i].of <= t[j].of /\ (t[j].part = 1 => t[i].of < t[j].of)
  <2> SUFFICES ASSUME NEW i \in DOMAIN t, NEW j \in DOMAIN t, i < j
               PROVE  t[i].of <= t[j].of /\ (t[j].part = 1 => t[i].of < t[j].of)
    OBVIOUS
  <2>1. i + 1 \in DOMAIN l /\ j + 1 \in DOMAIN l /\ i + 1 < j + 1
        /\ t[i] = l[i + 1] /\ t[j] = l[j + 1]
    BY <1>1, <1>2
  <2> QED BY <2>1 DEF Chain
<1>7. ASSUME NEW i \in DOMAIN t, NEW n \in t[1].of .. t[i].of
      PROVE  \E j \in 1..i : (j = 1 \/ t[j].part = 1) /\ t[j].of = n
  <2>1. /\ i + 1 \in DOMAIN l /\ t[i] = l[i + 1] /\ t[1] = l[2] /\ i \in 1..Len(t)
        /\ 2 \in DOMAIN l /\ 1 \in DOMAIN l
    BY <1>1, <1>2
  <2>2. l[1].of <= l[2].of
    BY <2>1 DEF Chain
  <2>3. n \in l[1].of .. l[i + 1].of /\ n >= l[2].of
    BY <1>2, <2>1, <2>2
  <2>4. PICK j \in 1..(i + 1) : (j = 1 \/ l[j].part = 1) /\ l[j].of = n
    BY <2>1, <2>3 DEF Chain
  <2>5. CASE j = 1
    <3>1. t[1].of = n
      BY <1>2, <2>1, <2>2, <2>3, <2>4, <2>5
    <3> QED BY <2>1, <3>1
  <2>6. CASE j # 1
    <3>1. j - 1 \in 1..i /\ t[j - 1] = l[j]
      BY <1>1, <2>1, <2>6
    <3> QED BY <2>4, <2>6, <3>1
  <2> QED BY <2>5, <2>6
<1>8. Chain(t, last)
  BY <1>5, <1>6, <1>7 DEF Chain
<1> QED BY <1>1, <1>3, <1>4, <1>8 DEF t

\* An answer, in k pieces.
Pieces(n, k) == [i \in 1..k |-> [of |-> n, part |-> i]]

Extended(l, n, k) == l \o Pieces(n, k)

LEMMA PiecesType ==
    ASSUME NEW n \in Request, NEW k \in 1..MaxPieces
    PROVE  /\ Pieces(n, k) \in Seq(Piece) /\ Len(Pieces(n, k)) = k /\ k \in Nat /\ k >= 1
           /\ \A i \in 1..k : Pieces(n, k)[i].of = n /\ Pieces(n, k)[i].part = i
<1>1. k \in Nat /\ k >= 1 /\ 1..k \subseteq 1..MaxPieces
  BY Bounds
<1>2. \A i \in 1..k : [of |-> n, part |-> i] \in Piece
  BY <1>1 DEF Piece
<1> QED BY <1>1, <1>2 DEF Pieces

LEMMA PiecesConcat ==
    ASSUME NEW a \in Seq(Piece), NEW b \in Seq(Piece)
    PROVE  /\ a \o b \in Seq(Piece) /\ Len(a \o b) = Len(a) + Len(b)
           /\ Len(a) \in Nat /\ DOMAIN (a \o b) = 1..(Len(a) + Len(b))
           /\ \A i \in 1..Len(a) : (a \o b)[i] = a[i]
           /\ \A i \in (Len(a) + 1)..(Len(a) + Len(b)) : (a \o b)[i] = b[i - Len(a)]
OBVIOUS

LEMMA AfterOnes ==
    ASSUME NEW L \in Nat, NEW k \in Nat, k >= 1, NEW i \in 1..(L + k), i > L
    PROVE  L + 1 \in (L + 1)..(L + k) /\ L + 1 \in 1..i /\ (L + 1) - L = 1
OBVIOUS

LEMMA ChainAppend ==
    ASSUME NEW l \in Seq(Piece), NEW last \in Nat, last + 1 \in Request, Chain(l, last),
           NEW k \in 1..MaxPieces, NEW m,
           m = Extended(l, last + 1, k)
    PROVE  /\ m \in Seq(Piece) /\ m # <<>> /\ Chain(m, last + 1)
           /\ l # <<>> => m[1] = l[1]
           /\ l = <<>> => m[1].of = last + 1 /\ m[1].part = 1
<1> DEFINE new == Pieces(last + 1, k)
           L == Len(l)
<1>1. /\ new \in Seq(Piece) /\ Len(new) = k /\ k \in Nat /\ k >= 1
      /\ \A i \in 1..k : new[i].of = last + 1 /\ new[i].part = i
  BY PiecesType
<1> HIDE DEF new
<1>2. /\ m \in Seq(Piece) /\ Len(m) = L + k /\ L \in Nat /\ DOMAIN m = 1..(L + k)
      /\ \A i \in 1..L : m[i] = l[i]
      /\ \A i \in (L + 1)..(L + k) : m[i] = new[i - L]
  <2>1. m = l \o new
    BY DEF new, Extended
  <2> HIDE DEF L
  <2>2. /\ m \in Seq(Piece) /\ Len(m) = Len(l) + Len(new)
        /\ Len(l) \in Nat /\ DOMAIN m = 1..(Len(l) + Len(new))
        /\ \A i \in 1..Len(l) : m[i] = l[i]
        /\ \A i \in (Len(l) + 1)..(Len(l) + Len(new)) : m[i] = new[i - Len(l)]
    <3> DEFINE j == l \o new
    <3>1. /\ j \in Seq(Piece) /\ Len(j) = Len(l) + Len(new)
          /\ Len(l) \in Nat /\ DOMAIN j = 1..(Len(l) + Len(new))
          /\ \A i \in 1..Len(l) : j[i] = l[i]
          /\ \A i \in (Len(l) + 1)..(Len(l) + Len(new)) : j[i] = new[i - Len(l)]
      <4>1. new \in Seq(Piece)
        BY <1>1
      <4> QED BY <4>1, PiecesConcat
    <3>2. m = j
      BY <2>1
    <3> HIDE DEF j
    <3> QED BY <3>1, <3>2
  <2>3. Len(new) = k
    BY <1>1
  <2> QED BY <2>2, <2>3 DEF L
<1>3. \A i \in (L + 1)..(L + k) : m[i].of = last + 1 /\ m[i].part = i - L
  <2>1. \A i \in (L + 1)..(L + k) : i - L \in 1..k
    BY <1>1, <1>2
  <2> QED BY <1>1, <1>2, <2>1
<1>4. /\ \A i \in 1..L : l[i].of \in Nat /\ l[i].part \in Nat /\ l[i].of <= last
      /\ DOMAIN l = 1..L
  <2>1. \A i \in 1..L : l[i].of \in Nat /\ l[i].part \in Nat
    BY <1>2, PieceType
  <2>2. \A i \in 1..L : i < L => l[i].of <= l[L].of
    BY <1>2 DEF Chain
  <2>3. L > 0 => l[L].of = last
    BY DEF Chain
  <2>4. DOMAIN l = 1..L
    OBVIOUS
  <2>5. ASSUME NEW i \in 1..L PROVE l[i].of <= last
    <3>1. i = L \/ i < L
      BY <1>2
    <3> QED BY <1>2, <2>1, <2>2, <2>3, <3>1
  <2> QED BY <2>1, <2>4, <2>5
<1>5. m[Len(m)].of = last + 1
  BY <1>1, <1>2, <1>3
<1>6. \A i, j \in DOMAIN m : i < j =>
          m[i].of <= m[j].of /\ (m[j].part = 1 => m[i].of < m[j].of)
  <2> SUFFICES ASSUME NEW i \in 1..(L + k), NEW j \in 1..(L + k), i < j
               PROVE  m[i].of <= m[j].of /\ (m[j].part = 1 => m[i].of < m[j].of)
    BY <1>2
  <2>1. CASE j <= L
    <3>1. i \in DOMAIN l /\ j \in DOMAIN l /\ m[i] = l[i] /\ m[j] = l[j]
      BY <1>2, <1>4, <2>1
    <3> QED BY <3>1 DEF Chain
  <2> HIDE DEF L
  <2>4. L \in Nat /\ k \in Nat /\ i \in Nat /\ j \in Nat /\ i >= 1 /\ i <= L + k /\ j <= L + k
    BY <1>1, <1>2
  <2>2. CASE j > L /\ i <= L
    <3>1. j \in (L + 1)..(L + k) /\ i \in 1..L
      BY <2>2, <2>4
    <3>2. m[j].of = last + 1 /\ m[i] = l[i] /\ l[i].of \in Nat /\ l[i].of <= last
      BY <1>2, <1>3, <1>4, <3>1
    <3> QED BY <3>2
  <2>3. CASE i > L
    <3>1. j \in (L + 1)..(L + k) /\ i \in (L + 1)..(L + k) /\ j - L # 1
      BY <2>3, <2>4
    <3> QED BY <1>3, <3>1
  <2> QED BY <2>1, <2>2, <2>3, <2>4
<1>7. ASSUME NEW i \in DOMAIN m, NEW n \in m[1].of .. m[i].of
      PROVE  \E j \in 1..i : (j = 1 \/ m[j].part = 1) /\ m[j].of = n
  <2>1. CASE i <= L
    <3>1. i \in DOMAIN l /\ m[i] = l[i] /\ m[1] = l[1] /\ \A j \in 1..i : m[j] = l[j]
      BY <1>2, <1>4, <2>1
    <3>2. \E j \in 1..i : (j = 1 \/ l[j].part = 1) /\ l[j].of = n
      BY <1>7, <3>1 DEF Chain
    <3> QED BY <3>1, <3>2
  <2>2. CASE i > L /\ n = last + 1
    <3>1. L + 1 \in (L + 1)..(L + k) /\ L + 1 \in 1..i /\ (L + 1) - L = 1
      <4>1. i \in 1..(L + k) /\ L \in Nat /\ k \in Nat /\ k >= 1 /\ i > L
        BY <1>1, <1>2, <1>7, <2>2
      <4> QED BY <4>1, AfterOnes
    <3>2. L + 1 \in 1..i /\ m[L + 1].of = n /\ m[L + 1].part = 1
      BY <1>3, <2>2, <3>1
    <3> QED BY <3>2
  <2>3. CASE i > L /\ n # last + 1
    <3>1. L # 0
      <4>1. L = 0 => m[1].of = last + 1 /\ m[i].of = last + 1
        BY <1>1, <1>2, <1>3, <2>3
      <4> QED BY <1>2, <2>3, <4>1
    <3>2. m[1] = l[1] /\ L \in DOMAIN l /\ l[L].of = last /\ m[i].of = last + 1
      <4>1. 1 \in 1..L /\ L \in DOMAIN l /\ l # <<>>
        BY <1>2, <1>4, <3>1
      <4>2. i \in (L + 1)..(L + k)
        BY <1>1, <1>2, <1>7, <2>3
      <4>3. l[L].of = last
        BY <4>1 DEF Chain
      <4> QED BY <1>2, <1>3, <4>1, <4>2, <4>3
    <3>3. n \in l[1].of .. l[L].of
      BY <1>4, <2>3, <3>2
    <3>4. PICK j \in 1..L : (j = 1 \/ l[j].part = 1) /\ l[j].of = n
      BY <3>2, <3>3 DEF Chain
    <3> QED BY <1>2, <2>3, <3>4
  <2>4. i <= L \/ i > L
    <3>1. i \in 1..(L + k) /\ L \in Nat
      BY <1>2, <1>7
    <3> QED BY <3>1
  <2> QED BY <2>1, <2>2, <2>3, <2>4
<1>8. Chain(m, last + 1)
  BY <1>5, <1>6, <1>7 DEF Chain
<1>9. /\ l # <<>> => m[1] = l[1]
      /\ l = <<>> => m[1].of = last + 1 /\ m[1].part = 1
  <2>1. l # <<>> => 1 \in 1..L
    BY <1>2
  <2>2. l = <<>> => L = 0 /\ 1 \in (L + 1)..(L + k)
    BY <1>2
  <2> QED BY <1>2, <1>3, <2>1, <2>2
<1>10. m # <<>>
  <2>1. Len(m) > 0
    BY <1>2
  <2>2. Len(<<>>) = 0
    OBVIOUS
  <2> HIDE DEF L
  <2> QED BY <2>1, <2>2
<1> QED BY <1>2, <1>8, <1>9, <1>10

-----------------------------------------------------------------------------
(* The tasks.                                                              *)

\* Who is to run is in the queue once; one task waits in the reader at most.
Turns ==
    /\ \A i \in DOMAIN ready : task[ready[i]].at = "ready"
    /\ \A i, j \in DOMAIN ready : ready[i] = ready[j] => i = j
    /\ \A c, d \in Caller : task[c].at = "waiting" /\ task[d].at = "waiting" => c = d

TasksOK == task \in [Caller -> Task] /\ ready \in Seq(Caller)

LEMMA TaskForms ==
    /\ Idle \in Task /\ Idle.at = "idle"
    /\ \A t \in Task :
          /\ t.at \in Calling \cup {"idle", "closing"}
          /\ t.at = "idle" <=> t = Idle
          /\ t.at \in Calling => t.request \in Request
BY DEF Task, Idle

LEMMA TaskTurns ==
    ASSUME NEW t \in Task, t.at \in Calling, NEW a \in Calling
    PROVE  /\ [t EXCEPT !.at = a] \in Task
           /\ [t EXCEPT !.at = a].at = a /\ [t EXCEPT !.at = a].request = t.request
BY DEF Task, Idle

(* Appending to a queue without repetition someone who is not in it.       *)
LEMMA QueueAppend ==
    ASSUME NEW q \in Seq(Caller), NEW c \in Caller,
           \A i, j \in DOMAIN q : q[i] = q[j] => i = j, \A i \in DOMAIN q : q[i] # c
    PROVE  LET r == Append(q, c) IN
           /\ r \in Seq(Caller)
           /\ \A i \in DOMAIN r : r[i] = c \/ \E j \in DOMAIN q : r[i] = q[j]
           /\ \A i, j \in DOMAIN r : r[i] = r[j] => i = j
OBVIOUS

LEMMA Concatenation ==
    ASSUME NEW a \in Seq(Caller), NEW b \in Seq(Caller)
    PROVE  /\ a \o b \in Seq(Caller) /\ Len(a \o b) = Len(a) + Len(b)
           /\ \A i \in 1..Len(a) : (a \o b)[i] = a[i]
           /\ \A i \in (Len(a) + 1)..(Len(a) + Len(b)) : (a \o b)[i] = b[i - Len(a)]
OBVIOUS

(* Taking out the only place of someone.                                   *)
LEMMA QueueRemove ==
    ASSUME NEW q \in Seq(Caller), NEW c \in Caller,
           \A i, j \in DOMAIN q : q[i] = q[j] => i = j
    PROVE  LET r == RemoveFirst(q, c) IN
           /\ r \in Seq(Caller)
           /\ \A i \in DOMAIN r : r[i] # c /\ \E j \in DOMAIN q : r[i] = q[j]
           /\ \A i, j \in DOMAIN r : r[i] = r[j] => i = j
<1>1. CASE \A i \in DOMAIN q : q[i] # c
  <2>1. RemoveFirst(q, c) = q
    BY <1>1 DEF RemoveFirst
  <2> QED BY <1>1, <2>1
<1>2. CASE \E i \in DOMAIN q : q[i] = c
  <2>1. PICK p \in DOMAIN q : q[p] = c
    BY <1>2
  <2>2. DOMAIN q = 1..Len(q) /\ p \in 1..Len(q) /\ Len(q) \in Nat
    BY <2>1
  <2>3. {i \in 1..Len(q) : q[i] = c} = {p}
    BY <2>1, <2>2
  <2>4. Min({p}) = p
    BY <2>2 DEF Min
  <2>5. SelectInSeq(q, LAMBDA v : v = c) = p
    BY <2>3, <2>4 DEF SelectInSeq
  <2>6. RemoveFirst(q, c) = SubSeq(q, 1, p - 1) \o SubSeq(q, p + 1, Len(q))
    BY <2>1, <2>2, <2>5 DEF RemoveFirst, RemoveAt
  <2> DEFINE r == SubSeq(q, 1, p - 1) \o SubSeq(q, p + 1, Len(q))
  <2>7. /\ r \in Seq(Caller) /\ Len(r) = Len(q) - 1
        /\ \A i \in 1..(p - 1) : r[i] = q[i]
        /\ \A i \in p..(Len(q) - 1) : r[i] = q[i + 1]
    <3> DEFINE a == SubSeq(q, 1, p - 1)
               b == SubSeq(q, p + 1, Len(q))
    <3>1. a \in Seq(Caller) /\ Len(a) = p - 1 /\ \A i \in 1..(p - 1) : a[i] = q[i]
      BY <2>2
    <3>2. b \in Seq(Caller) /\ Len(b) = Len(q) - p
      BY <2>2
    <3>3. \A i \in 1..(Len(q) - p) : b[i] = q[p + i]
      BY <2>2
    <3> HIDE DEF a, b
    <3>4. /\ a \o b \in Seq(Caller) /\ Len(a \o b) = Len(q) - 1
          /\ \A i \in 1..(p - 1) : (a \o b)[i] = a[i]
          /\ \A i \in p..(Len(q) - 1) : (a \o b)[i] = b[i - (p - 1)]
      <4>1. /\ a \o b \in Seq(Caller) /\ Len(a \o b) = Len(a) + Len(b)
            /\ \A i \in 1..Len(a) : (a \o b)[i] = a[i]
            /\ \A i \in (Len(a) + 1)..(Len(a) + Len(b)) : (a \o b)[i] = b[i - Len(a)]
        <5>1. a \in Seq(Caller) /\ b \in Seq(Caller)
          BY <3>1, <3>2
        <5> QED BY <5>1, Concatenation
      <4>2. Len(a) = p - 1 /\ Len(a) + 1 = p /\ Len(a) + Len(b) = Len(q) - 1
        BY <2>2, <3>1, <3>2
      <4> HIDE <3>1, <3>2
      <4> QED BY <4>1, <4>2
    <3>5. \A i \in p..(Len(q) - 1) : (a \o b)[i] = q[i + 1]
      <4> SUFFICES ASSUME NEW i \in p..(Len(q) - 1) PROVE (a \o b)[i] = q[i + 1]
        OBVIOUS
      <4>1. i - (p - 1) \in 1..(Len(q) - p) /\ p + (i - (p - 1)) = i + 1
        BY <2>2
      <4> QED BY <3>3, <3>4, <4>1
    <3> QED BY <3>1, <3>4, <3>5 DEF a, b
  <2> HIDE DEF r
  <2>8. \A i \in DOMAIN r : \E j \in DOMAIN q :
            j = (IF i < p THEN i ELSE i + 1) /\ r[i] = q[j] /\ j # p
    BY <2>2, <2>7
  <2>9. \A i \in DOMAIN r : r[i] # c
    BY <2>1, <2>8
  <2>10. \A i, j \in DOMAIN r : r[i] = r[j] => i = j
    <3> SUFFICES ASSUME NEW i \in DOMAIN r, NEW j \in DOMAIN r, r[i] = r[j] PROVE i = j
      OBVIOUS
    <3>1. i \in Int /\ j \in Int
      BY <2>7
    <3> QED BY <2>2, <2>8, <3>1
  <2>11. RemoveFirst(q, c) = r
    BY <2>6 DEF r
  <2>12. \A i \in DOMAIN r : r[i] # c /\ \E j \in DOMAIN q : r[i] = q[j]
    BY <2>8, <2>9
  <2> QED BY <2>7, <2>10, <2>11, <2>12
<1> QED BY <1>1, <1>2

(* feed_data and feed_eof.                                                 *)
LEMMA WakeKeeps ==
    ASSUME TasksOK, Turns, Wake
    PROVE  /\ TasksOK' /\ Turns'
           /\ Busy' = Busy /\ \A c \in Caller : task'[c].request = task[c].request
<1>1. CASE UNCHANGED <<task, ready>>
  BY <1>1 DEF TasksOK, Turns, Busy
<1>2. CASE ~UNCHANGED <<task, ready>>
  <2>1. PICK c \in Caller : /\ task[c].at = "waiting"
                            /\ task' = [task EXCEPT ![c].at = "ready"]
                            /\ ready' = Append(ready, c)
    BY <1>2 DEF Wake
  <2>2. /\ task' \in [Caller -> Task] /\ task'[c].at = "ready"
        /\ task'[c].request = task[c].request
        /\ \A d \in Caller : d # c => task'[d] = task[d]
    <3>1. task[c] \in Task /\ task' = [task EXCEPT ![c] = [task[c] EXCEPT !.at = "ready"]]
      BY <2>1 DEF TasksOK
    <3> QED BY <2>1, <3>1, TaskTurns DEF TasksOK
  <2>3. \A i \in DOMAIN ready : ready[i] # c /\ ready[i] \in Caller
    BY <2>1 DEF Turns, TasksOK
  <2>4. /\ ready' \in Seq(Caller)
        /\ \A i \in DOMAIN ready' : ready'[i] = c \/ \E j \in DOMAIN ready : ready'[i] = ready[j]
        /\ \A i, j \in DOMAIN ready' : ready'[i] = ready'[j] => i = j
    BY <2>1, <2>3, QueueAppend DEF TasksOK, Turns
  <2>5. \A i \in DOMAIN ready' : task'[ready'[i]].at = "ready"
    BY <2>2, <2>3, <2>4 DEF Turns
  <2>6. Busy' = Busy
    BY <2>1, <2>2 DEF Busy
  <2> QED BY <2>1, <2>2, <2>4, <2>5, <2>6 DEF TasksOK, Turns
<1> QED BY <1>1, <1>2

(* Someone who is not in the queue is put at its end.                      *)
LEMMA JoinTurns ==
    ASSUME TasksOK, Turns, NEW c \in Caller, NEW t \in Task, t.at = "ready",
           task[c].at # "ready",
           task' = [task EXCEPT ![c] = t], ready' = Append(ready, c)
    PROVE  TasksOK' /\ Turns'
<1>1. /\ task' \in [Caller -> Task] /\ task'[c] = t
      /\ \A d \in Caller : d # c => task'[d] = task[d]
  BY DEF TasksOK
<1>2. \A i \in DOMAIN ready : ready[i] # c /\ ready[i] \in Caller
  BY DEF Turns, TasksOK
<1>3. /\ ready' \in Seq(Caller)
      /\ \A i \in DOMAIN ready' : ready'[i] = c \/ \E j \in DOMAIN ready : ready'[i] = ready[j]
      /\ \A i, j \in DOMAIN ready' : ready'[i] = ready'[j] => i = j
  BY <1>2, QueueAppend DEF TasksOK, Turns
<1>4. \A i \in DOMAIN ready' : task'[ready'[i]].at = "ready"
  BY <1>1, <1>2, <1>3 DEF Turns
<1>5. \A a, b \in Caller : task'[a].at = "waiting" /\ task'[b].at = "waiting" => a = b
  BY <1>1 DEF Turns
<1> QED BY <1>1, <1>3, <1>4, <1>5 DEF TasksOK, Turns

(* _send_stdio up to the read.                                             *)
LEMMA WriteTurns ==
    ASSUME TasksOK, Turns, written \in Nat, NEW c \in Caller, task[c] = Idle, Write(c)
    PROVE  /\ TasksOK' /\ Turns'
           /\ Busy' = Busy \cup {c} /\ task'[c].request = written + 1
           /\ \A d \in Caller : d # c => task'[d] = task[d]
<1>1. written + 1 \in Request
  BY Bounds DEF Write, Request
<1>2. ASSUME NEW a \in {"ready", "draining"},
             task' = [task EXCEPT ![c] = [at |-> a, request |-> written + 1]]
      PROVE  /\ [at |-> a, request |-> written + 1] \in Task
             /\ task' \in [Caller -> Task] /\ Busy' = Busy \cup {c}
             /\ task'[c].at = a /\ task'[c].request = written + 1
             /\ \A d \in Caller : d # c => task'[d] = task[d]
  <2> DEFINE t == [at |-> a, request |-> written + 1]
  <2>1. t \in Task /\ t.at = a /\ t.request = written + 1 /\ t.at \in Calling
    BY <1>1, <1>2 DEF Task
  <2>2. task' = [task EXCEPT ![c] = t]
    BY <1>2
  <2> HIDE DEF t
  <2>3. /\ task' \in [Caller -> Task] /\ task'[c] = t
        /\ \A d \in Caller : d # c => task'[d] = task[d]
    BY <2>1, <2>2 DEF TasksOK
  <2>4. Busy' = Busy \cup {c}
    BY <2>1, <2>3 DEF Busy
  <2> QED BY <2>1, <2>3, <2>4 DEF t
<1>3. CASE /\ task' = [task EXCEPT ![c] = [at |-> "ready", request |-> written + 1]]
           /\ ready' = Append(ready, c)
  <2> DEFINE t == [at |-> "ready", request |-> written + 1]
  <2>1. t \in Task /\ t.at = "ready" /\ task[c].at # "ready"
    BY <1>2, <1>3, TaskForms
  <2>2. task' = [task EXCEPT ![c] = t] /\ ready' = Append(ready, c)
    BY <1>3
  <2> HIDE DEF t
  <2>3. TasksOK' /\ Turns'
    BY <2>1, <2>2, JoinTurns
  <2> QED BY <1>2, <1>3, <2>3
<1>4. CASE /\ task' = [task EXCEPT ![c] = [at |-> "draining", request |-> written + 1]]
           /\ UNCHANGED ready
  <2>1. /\ task' \in [Caller -> Task] /\ Busy' = Busy \cup {c} /\ task'[c].at = "draining"
        /\ task'[c].request = written + 1 /\ \A d \in Caller : d # c => task'[d] = task[d]
    BY <1>2, <1>4
  <2>2. \A i \in DOMAIN ready : ready[i] # c /\ ready[i] \in Caller
    BY TaskForms DEF Turns, TasksOK
  <2>3. Turns'
    BY <1>4, <2>1, <2>2 DEF Turns
  <2> QED BY <1>4, <2>1, <2>3 DEF TasksOK
<1> QED BY <1>3, <1>4 DEF Write

(* resume_writing.                                                         *)
LEMMA DrainTurns ==
    ASSUME TasksOK, Turns, Drain, UNCHANGED ready
    PROVE  /\ TasksOK' /\ Turns'
           /\ Busy' = Busy /\ \A c \in Caller : task'[c].request = task[c].request
<1>1. ASSUME NEW c \in Caller
      PROVE  /\ task'[c] \in Task /\ task'[c].request = task[c].request
             /\ \/ task'[c] = task[c]
                \/ task[c].at = "draining" /\ task'[c].at = "drained"
  <2>1. task[c] \in Task
    BY DEF TasksOK
  <2>2. CASE task'[c] = task[c]
    BY <2>1, <2>2
  <2>3. CASE task[c].at = "draining" /\ task'[c] = [task[c] EXCEPT !.at = "drained"]
    <3> DEFINE t == task[c]
    <3>1. /\ t \in Task /\ t.at = "draining" /\ t.at \in Calling
          /\ task'[c] = [t EXCEPT !.at = "drained"]
      BY <2>1, <2>3 DEF Calling
    <3> HIDE DEF t
    <3>2. /\ [t EXCEPT !.at = "drained"] \in Task
          /\ [t EXCEPT !.at = "drained"].at = "drained"
          /\ [t EXCEPT !.at = "drained"].request = t.request
      BY <3>1, TaskTurns
    <3>3. task'[c] \in Task /\ task'[c].at = "drained" /\ task'[c].request = t.request
      BY <3>1, <3>2
    <3> QED BY <3>1, <3>3 DEF t
  <2> QED BY <2>2, <2>3 DEF Drain
<1>2. task' \in [Caller -> Task]
  BY <1>1 DEF Drain
<1>3. \A i \in DOMAIN ready : ready[i] \in Caller
  BY DEF TasksOK
<1>4. Turns'
  BY <1>1, <1>3 DEF Turns
<1>5. Busy' = Busy
  BY <1>1 DEF Busy
<1> QED BY <1>1, <1>2, <1>4, <1>5 DEF TasksOK

(* A task is not to run any more: it returned, was given up, or waits.     *)
LEMMA LeaveTurns ==
    ASSUME TasksOK, Turns, NEW c \in Caller, NEW t \in Task, task[c].at # "closing",
           t.at = "waiting" => \A d \in Caller : task[d].at # "waiting",
           task' = [task EXCEPT ![c] = t], ready' = Without(c)
    PROVE  TasksOK' /\ Turns'
<1>1. /\ ready' \in Seq(Caller)
      /\ \A i \in DOMAIN ready' : ready'[i] # c /\ \E j \in DOMAIN ready : ready'[i] = ready[j]
      /\ \A i, j \in DOMAIN ready' : ready'[i] = ready'[j] => i = j
  BY QueueRemove DEF Without, TasksOK, Turns
<1>2. /\ task' \in [Caller -> Task] /\ task'[c] = t
      /\ \A d \in Caller : d # c => task'[d] = task[d]
  BY DEF TasksOK
<1>3. \A i \in DOMAIN ready : ready[i] \in Caller
  BY DEF TasksOK
<1>4. \A i \in DOMAIN ready' : task'[ready'[i]].at = "ready"
  BY <1>1, <1>2, <1>3 DEF Turns
<1>5. \A a, b \in Caller : task'[a].at = "waiting" /\ task'[b].at = "waiting" => a = b
  BY <1>2 DEF Turns
<1> QED BY <1>1, <1>2, <1>4, <1>5 DEF TasksOK, Turns

-----------------------------------------------------------------------------
(* The steps, for tasks that share the client or not.                      *)

PipeInv == StdioTypeOK /\ Order /\ Turns

LEMMA PipeFacts ==
    ASSUME StdioTypeOK, Order
    PROVE  /\ written \in 0..MaxRequests /\ written \in Nat /\ LastRead \in Nat
           /\ Len(requests) \in Nat /\ written = LastRead + Len(requests)
           /\ DOMAIN requests = 1..Len(requests)
           /\ Answered \in Nat
           /\ handling # 0 => handling = LastRead /\ LastRead = Answered + 1
           /\ lines # <<>> => lines[1] = Head(lines) /\ lines[1].of \in Nat
                                /\ lines[1].part \in Nat /\ lines[1].of \in Request
                                /\ lines[1].part >= 1
<1>1. /\ written \in 0..MaxRequests /\ Len(requests) \in Nat /\ Len(requests) <= written
      /\ DOMAIN requests = 1..Len(requests) /\ handling \in {0, LastRead}
  BY DEF StdioTypeOK, Order
<1>2. written \in Nat /\ LastRead \in Nat /\ written = LastRead + Len(requests)
  BY <1>1, Bounds DEF LastRead
<1>3. Answered \in Nat /\ (handling # 0 => handling = LastRead /\ LastRead = Answered + 1)
  BY <1>1, <1>2 DEF Answered
<1>4. ASSUME lines # <<>>
      PROVE  lines[1] = Head(lines) /\ lines[1] \in Piece
  BY <1>4 DEF StdioTypeOK
<1>5. \A p \in Piece : p.of \in Request /\ p.of \in Nat /\ p.part \in Nat /\ p.part >= 1
  BY Bounds DEF Piece, Request
<1> QED BY <1>1, <1>2, <1>3, <1>4, <1>5

Still == UNCHANGED <<written, requests, handling, lines>>

LEMMA StillOrder ==
    ASSUME StdioTypeOK, Order, Still
    PROVE  Order' /\ First' = First /\ Begun' = Begun
BY DEF Still, Order, Chain, First, Begun, Answered, LastRead

\* The server goes on with the next request, or with the next answer.
LEMMA ServerReadsStep ==
    ASSUME PipeInv, ServerReads
    PROVE  /\ PipeInv' /\ First' = First /\ Begun' = Begun /\ Busy' = Busy
           /\ \A c \in Caller : task'[c].request = task[c].request
<1> USE DEF PipeInv
<1>1. /\ handling = 0 /\ requests # <<>> /\ handling' = Head(requests) /\ requests' = Tail(requests)
      /\ Drain
      /\ UNCHANGED <<connected, process, written, lines, ready, got, givenUp, scraps, shared>>
  BY DEF ServerReads
<1>2. /\ requests \in Seq(Request) /\ Head(requests) = requests[1] /\ 1 \in DOMAIN requests
      /\ requests' \in Seq(Request) /\ Len(requests') = Len(requests) - 1
      /\ \A i \in DOMAIN requests' : i + 1 \in DOMAIN requests /\ requests'[i] = requests[i + 1]
  BY <1>1 DEF StdioTypeOK
<1>3. /\ handling' = LastRead + 1 /\ LastRead' = LastRead + 1 /\ handling' \in Request
  <2>1. requests[1] = LastRead + 1 /\ requests[1] \in Request
    BY <1>2 DEF Order
  <2>2. LastRead' = written - (Len(requests) - 1)
    BY <1>1, <1>2 DEF LastRead
  <2> QED BY <1>1, <1>2, <2>1, <2>2, PipeFacts
<1>4. Answered' = Answered /\ handling' # 0
  BY <1>1, <1>3, PipeFacts DEF Answered
<1>5. Order'
  <2>1. \A i \in DOMAIN requests' : requests'[i] = LastRead' + i
    <3> SUFFICES ASSUME NEW i \in DOMAIN requests' PROVE requests'[i] = LastRead' + i
      OBVIOUS
    <3>1. i \in Nat /\ requests'[i] = LastRead + (i + 1)
      BY <1>2 DEF Order
    <3> QED BY <1>3, <3>1, PipeFacts
  <2>2. Len(requests') <= written'
    BY <1>1, <1>2, PipeFacts DEF Order
  <2>3. Chain(lines', Answered')
    BY <1>1, <1>4 DEF Order
  <2> QED BY <1>3, <2>1, <2>2, <2>3 DEF Order
<1>6. TasksOK' /\ Turns' /\ Busy' = Busy /\ \A c \in Caller : task'[c].request = task[c].request
  BY <1>1, DrainTurns DEF TasksOK, StdioTypeOK
<1>7. StdioTypeOK'
  BY <1>1, <1>2, <1>3, <1>6 DEF StdioTypeOK, TasksOK, Request
<1>8. First' = First /\ Begun' = Begun
  BY <1>1, <1>4 DEF First, Begun
<1> QED BY <1>5, <1>6, <1>7, <1>8

LEMMA ServerAnswersStep ==
    ASSUME PipeInv, ServerAnswers
    PROVE  /\ PipeInv' /\ First' = First /\ Begun' = Begun /\ Busy' = Busy
           /\ \A c \in Caller : task'[c].request = task[c].request
<1> USE DEF PipeInv
<1>1. /\ handling # 0 /\ handling' = 0 /\ Wake
      /\ UNCHANGED <<connected, process, written, requests, got, givenUp, scraps, shared>>
  BY DEF ServerAnswers
<1>2. PICK k \in 1..MaxPieces :
         lines' = lines \o [i \in 1..k |-> [of |-> handling, part |-> i]]
  BY DEF ServerAnswers
<1>3. handling = Answered + 1 /\ handling \in Request /\ LastRead' = LastRead
      /\ Answered' = Answered + 1
  BY <1>1, PipeFacts DEF StdioTypeOK, Request, Answered, LastRead
<1>4. Chain(lines, Answered) /\ lines \in Seq(Piece)
  BY DEF Order, StdioTypeOK
<1>5. /\ lines' \in Seq(Piece) /\ lines' # <<>> /\ Chain(lines', Answered + 1)
      /\ lines # <<>> => lines'[1] = lines[1]
      /\ lines = <<>> => lines'[1].of = Answered + 1 /\ lines'[1].part = 1
  <2>1. lines' = Extended(lines, Answered + 1, k)
    BY <1>2, <1>3 DEF Pieces, Extended
  <2>2. Answered \in Nat /\ Answered + 1 \in Request
    BY <1>3, PipeFacts
  <2>3. lines \in Seq(Piece)
    BY <1>4
  <2>4. Chain(lines, Answered)
    BY <1>4
  <2>5. lines' \in Seq(Piece)
    BY <2>1, <2>2, <2>3, <2>4, ChainAppend
  <2>6. lines' # <<>> /\ Chain(lines', Answered + 1)
    BY <2>1, <2>2, <2>3, <2>4, ChainAppend
  <2>7. /\ lines # <<>> => lines'[1] = lines[1]
        /\ lines = <<>> => lines'[1].of = Answered + 1 /\ lines'[1].part = 1
    BY <2>1, <2>2, <2>3, <2>4, ChainAppend
  <2> QED BY <2>5, <2>6, <2>7
<1>6. Order'
  BY <1>1, <1>3, <1>5 DEF Order
<1>7. TasksOK' /\ Turns' /\ Busy' = Busy /\ \A c \in Caller : task'[c].request = task[c].request
  BY <1>1, WakeKeeps DEF TasksOK, StdioTypeOK
<1>8. StdioTypeOK'
  BY <1>1, <1>5, <1>7 DEF StdioTypeOK, TasksOK
<1>9. First' = First /\ Begun' = Begun
  BY <1>5 DEF First, Begun
<1> QED BY <1>6, <1>7, <1>8, <1>9

LEMMA ServerExitsStep ==
    ASSUME PipeInv, ServerExits
    PROVE  /\ PipeInv' /\ First' = First /\ Begun' = Begun /\ Busy' = Busy
           /\ \A c \in Caller : task'[c].request = task[c].request
<1> USE DEF PipeInv
<1>1. Wake /\ Still /\ process' = "exited" /\ UNCHANGED <<connected, got, givenUp, scraps, shared>>
  BY DEF ServerExits, serverVars, Still
<1>2. TasksOK' /\ Turns' /\ Busy' = Busy /\ \A c \in Caller : task'[c].request = task[c].request
  BY <1>1, WakeKeeps DEF TasksOK, StdioTypeOK
<1>3. StdioTypeOK'
  BY <1>1, <1>2 DEF StdioTypeOK, TasksOK, Still
<1> QED BY <1>1, <1>2, <1>3, StillOrder

\* A request is written.
LEMMA WriteStep ==
    ASSUME PipeInv, NEW c \in Caller, Connect(c) \/ Send(c)
    PROVE  /\ PipeInv' /\ First' = First /\ Begun' = Begun /\ Write(c)
           /\ Busy' = Busy \cup {c} /\ task'[c].request = written'
           /\ UNCHANGED <<givenUp, scraps>>
<1> USE DEF PipeInv
<1>1. /\ Write(c) /\ task[c] = Idle /\ process' = "running"
      /\ UNCHANGED <<connected, handling, lines, givenUp, scraps>>
  BY DEF Connect, Send
<1>2. /\ written < MaxRequests /\ written' = written + 1
      /\ requests' = Append(requests, written + 1)
      /\ got' = [got EXCEPT ![c] = 0] /\ shared' = (shared \/ Busy # {})
  BY <1>1 DEF Write
<1>3. /\ TasksOK' /\ Turns' /\ Busy' = Busy \cup {c} /\ task'[c].request = written + 1
  BY <1>1, WriteTurns, PipeFacts DEF TasksOK, StdioTypeOK
<1>4. written' \in 0..MaxRequests /\ written' \in Request
  BY <1>2, PipeFacts, Bounds DEF Request
<1>5. /\ requests' \in Seq(Request) /\ Len(requests') = Len(requests) + 1
      /\ DOMAIN requests' = DOMAIN requests \cup {Len(requests) + 1}
      /\ \A i \in DOMAIN requests : requests'[i] = requests[i]
      /\ requests'[Len(requests) + 1] = written + 1
  BY <1>2, <1>4 DEF StdioTypeOK
<1>6. LastRead' = LastRead /\ Answered' = Answered
  BY <1>1, <1>2, <1>5, PipeFacts DEF LastRead, Answered
<1>7. Order'
  <2>1. \A i \in DOMAIN requests' : requests'[i] = LastRead' + i
    <3>1. LastRead' + (Len(requests) + 1) = written + 1
      BY <1>6, PipeFacts
    <3>2. \A i \in DOMAIN requests : requests[i] = LastRead' + i
      BY <1>6 DEF Order
    <3> QED BY <1>5, <3>1, <3>2
  <2>2. Len(requests') <= written'
    BY <1>2, <1>5, PipeFacts DEF Order
  <2> QED BY <1>1, <1>6, <2>1, <2>2 DEF Order
<1>8. StdioTypeOK'
  <2>1. got' \in [Caller -> 0..MaxRequests]
    BY <1>2, Bounds DEF StdioTypeOK
  <2>2. shared' \in BOOLEAN
    BY <1>2 DEF StdioTypeOK
  <2> QED BY <1>1, <1>3, <1>4, <1>5, <2>1, <2>2 DEF StdioTypeOK, TasksOK
<1>9. First' = First /\ Begun' = Begun
  BY <1>1, <1>6 DEF First, Begun
<1> QED BY <1>1, <1>2, <1>3, <1>7, <1>8, <1>9

\* The line at the head of the pipe is taken: either the next answer is begun,
\* or one more piece of the answer that was begun is read.
LEMMA TakeStep ==
    ASSUME PipeInv, NEW c \in Caller, task[c].at = "ready", Take(c)
    PROVE  /\ PipeInv' /\ Busy' = Busy \ {c} /\ got'[c] = First /\ Begun' = First
           /\ First' \in {First, First + 1} /\ Begun' + scraps' = Begun + scraps + 1
           /\ \A d \in Caller : d # c => got'[d] = got[d]
           /\ UNCHANGED <<written, givenUp, shared>>
<1> USE DEF PipeInv
<1>1. /\ lines # <<>> /\ lines' = Tail(lines) /\ got' = [got EXCEPT ![c] = Head(lines).of]
      /\ scraps' = scraps + (IF Head(lines).part > 1 THEN 1 ELSE 0)
      /\ task' = [task EXCEPT ![c] = Idle] /\ ready' = Without(c)
      /\ UNCHANGED <<process, written, requests, handling, givenUp, shared>>
  BY DEF Take, serverVars
<1>2. connected' \in BOOLEAN
  BY DEF Take, StdioTypeOK
<1>3. TasksOK' /\ Turns'
  <2>1. TasksOK
    BY DEF TasksOK, StdioTypeOK
  <2> QED BY <1>1, <2>1, TaskForms, LeaveTurns
<1>4. Busy' = Busy \ {c}
  BY <1>1, TaskForms DEF Busy, StdioTypeOK
<1>5. /\ lines' \in Seq(Piece) /\ Chain(lines', Answered)
      /\ lines' = <<>> => lines[1].of = Answered
      /\ lines' # <<>> =>
            lines'[1].of = IF lines'[1].part = 1 THEN lines[1].of + 1 ELSE lines[1].of
  <2>1. lines \in Seq(Piece) /\ Chain(lines, Answered) /\ Answered \in Nat
    BY PipeFacts DEF StdioTypeOK, Order
  <2> QED BY <1>1, <2>1, ChainTail
<1>6. Answered' = Answered /\ LastRead' = LastRead
  BY <1>1 DEF Answered, LastRead
<1>7. Order'
  BY <1>1, <1>5, <1>6 DEF Order
<1>8. StdioTypeOK'
  <2>1. Head(lines).of \in 0..MaxRequests /\ scraps' \in Nat
    BY <1>1, PipeFacts, Bounds DEF StdioTypeOK, Request
  <2> QED BY <1>1, <1>2, <1>3, <1>5, <2>1 DEF StdioTypeOK, TasksOK
<1>9. First = lines[1].of /\ First \in Nat /\ lines[1].part \in Nat /\ lines[1].part >= 1
  BY <1>1, PipeFacts DEF First
<1>10. Begun' = First
  <2>1. CASE lines' = <<>>
    BY <1>5, <1>6, <1>9, <2>1, PipeFacts DEF Begun, First
  <2>2. CASE lines' # <<>>
    <3>1. lines'[1].part \in Nat /\ lines'[1].part >= 1
      <4>1. lines' \in Seq(Piece) /\ 1 \in DOMAIN lines'
        BY <1>5, <2>2
      <4>2. \A p \in Piece : p.part \in Nat /\ p.part >= 1
        BY Bounds DEF Piece
      <4> QED BY <4>1, <4>2
    <3> QED BY <1>5, <1>9, <2>2, <3>1 DEF Begun, First
  <2> QED BY <2>1, <2>2
<1>11. Begun = IF lines[1].part > 1 THEN First ELSE First - 1
  BY <1>1 DEF Begun
<1>12. scraps' = scraps + (IF lines[1].part > 1 THEN 1 ELSE 0) /\ scraps \in Nat
  BY <1>1, PipeFacts DEF StdioTypeOK
<1>13. Begun' + scraps' = Begun + scraps + 1
  BY <1>9, <1>10, <1>11, <1>12
<1>14. First' \in {First, First + 1}
  <2>1. CASE lines' = <<>>
    <3>1. First' = Answered + 1 /\ First = Answered
      BY <1>5, <1>6, <1>9, <2>1 DEF First
    <3> QED BY <3>1
  <2>2. CASE lines' # <<>>
    <3>1. First' = lines'[1].of
      BY <2>2 DEF First
    <3> QED BY <1>5, <1>9, <2>2, <3>1
  <2> QED BY <2>1, <2>2
<1>15. got'[c] = First /\ \A d \in Caller : d # c => got'[d] = got[d]
  BY <1>1, <1>9, PipeFacts DEF StdioTypeOK
<1> QED BY <1>1, <1>3, <1>4, <1>7, <1>8, <1>10, <1>13, <1>14, <1>15

\* A request is given up.
LEMMA GiveUpStep ==
    ASSUME PipeInv, NEW c \in Caller, c \in Busy, GiveUp(c)
    PROVE  /\ PipeInv' /\ Busy' = Busy \ {c} /\ First' = First /\ Begun' = Begun
           /\ givenUp' = givenUp \cup {task[c].request}
           /\ UNCHANGED <<written, scraps, shared, got>>
<1> USE DEF PipeInv
<1>1. /\ task' = [task EXCEPT ![c] = Idle] /\ ready' = Without(c) /\ Still
      /\ givenUp' = givenUp \cup {task[c].request}
      /\ UNCHANGED <<connected, process, got, scraps, shared>>
  BY DEF GiveUp, serverVars, Still
<1>2. task[c].at \in Calling /\ task[c].request \in Request
  BY TaskForms DEF Busy, StdioTypeOK
<1>3. TasksOK' /\ Turns'
  <2>1. TasksOK
    BY DEF TasksOK, StdioTypeOK
  <2> QED BY <1>1, <1>2, <2>1, TaskForms, LeaveTurns
<1>4. Busy' = Busy \ {c}
  BY <1>1, TaskForms DEF Busy, StdioTypeOK
<1>5. StdioTypeOK'
  BY <1>1, <1>2, <1>3 DEF StdioTypeOK, TasksOK, Still
<1> QED BY <1>1, <1>3, <1>4, <1>5, StillOrder DEF Still

\* A task that drained begins its read.
LEMMA DrainedStep ==
    ASSUME PipeInv, NEW c \in Caller, task[c].at = "drained",
           task' = [task EXCEPT ![c].at = "ready"], ready' = Append(ready, c), Still,
           UNCHANGED <<connected, process, got, givenUp, scraps, shared>>
    PROVE  /\ PipeInv' /\ First' = First /\ Begun' = Begun /\ Busy' = Busy
           /\ \A d \in Caller : task'[d].request = task[d].request
<1> USE DEF PipeInv
<1> DEFINE t == [task[c] EXCEPT !.at = "ready"]
<1>1. t \in Task /\ t.at = "ready" /\ t.request = task[c].request
  BY TaskTurns DEF StdioTypeOK
<1>2. task' = [task EXCEPT ![c] = t]
  OBVIOUS
<1> HIDE DEF t
<1>3. TasksOK' /\ Turns'
  <2>1. TasksOK
    BY DEF TasksOK, StdioTypeOK
  <2> QED BY <1>1, <1>2, <2>1, JoinTurns
<1>4. Busy' = Busy /\ \A d \in Caller : task'[d].request = task[d].request
  BY <1>1, <1>2 DEF Busy, StdioTypeOK
<1>5. StdioTypeOK'
  BY <1>3 DEF StdioTypeOK, TasksOK, Still
<1> QED BY <1>3, <1>4, <1>5, StillOrder

\* A task that found the pipe empty waits in the reader.
LEMMA WaitStep ==
    ASSUME PipeInv, NEW c \in Caller, task[c].at = "ready",
           \A d \in Caller : task[d].at # "waiting",
           task' = [task EXCEPT ![c].at = "waiting"], ready' = Without(c), Still,
           UNCHANGED <<connected, process, got, givenUp, scraps, shared>>
    PROVE  /\ PipeInv' /\ First' = First /\ Begun' = Begun /\ Busy' = Busy
           /\ \A d \in Caller : task'[d].request = task[d].request
<1> USE DEF PipeInv
<1> DEFINE t == [task[c] EXCEPT !.at = "waiting"]
<1>1. t \in Task /\ t.at = "waiting" /\ t.request = task[c].request
  BY TaskTurns DEF StdioTypeOK
<1>2. task' = [task EXCEPT ![c] = t]
  OBVIOUS
<1> HIDE DEF t
<1>3. TasksOK' /\ Turns'
  <2>1. TasksOK
    BY DEF TasksOK, StdioTypeOK
  <2> QED BY <1>1, <1>2, <2>1, LeaveTurns
<1>4. Busy' = Busy /\ \A d \in Caller : task'[d].request = task[d].request
  BY <1>1, <1>2 DEF Busy, StdioTypeOK
<1>5. StdioTypeOK'
  BY <1>3 DEF StdioTypeOK, TasksOK, Still
<1> QED BY <1>3, <1>4, <1>5, StillOrder

-----------------------------------------------------------------------------
(* Disconnecting.                                                          *)

LEMMA DisconnectStep ==
    ASSUME PipeInv, NEW c \in Caller, Disconnect(c)
    PROVE  /\ PipeInv' /\ First' = First /\ Begun' = Begun /\ Busy' = Busy
           /\ \A d \in Busy : task'[d].request = task[d].request
<1> USE DEF PipeInv
<1> DEFINE t == [at |-> "closing", request |-> 0]
<1>1. /\ task[c] = Idle /\ task' = [task EXCEPT ![c] = t] /\ Still
      /\ UNCHANGED <<connected, process, ready, got, givenUp, scraps, shared>>
  BY DEF Disconnect, serverVars, Still
<1>2. t \in Task /\ t.at = "closing"
  BY DEF Task
<1> HIDE DEF t
<1>3. /\ task' \in [Caller -> Task] /\ task'[c] = t
      /\ \A d \in Caller : d # c => task'[d] = task[d]
  BY <1>1, <1>2 DEF StdioTypeOK
<1>4. Busy' = Busy /\ \A d \in Busy : task'[d].request = task[d].request
  BY <1>1, <1>2, <1>3, TaskForms DEF Busy
<1>5. Turns'
  <2>1. \A i \in DOMAIN ready : ready[i] # c /\ ready[i] \in Caller
    BY <1>1, TaskForms DEF Turns, StdioTypeOK
  <2>2. \A i \in DOMAIN ready : task'[ready[i]].at = "ready"
    BY <1>3, <2>1 DEF Turns
  <2>3. \A a, b \in Caller : task'[a].at = "waiting" /\ task'[b].at = "waiting" => a = b
    BY <1>2, <1>3 DEF Turns
  <2> QED BY <1>1, <2>2, <2>3 DEF Turns
<1>6. StdioTypeOK'
  BY <1>1, <1>3 DEF StdioTypeOK, Still
<1> QED BY <1>1, <1>4, <1>5, <1>6, StillOrder

(* One task at most, as a queue.                                           *)
LEMMA OneToSeq ==
    ASSUME NEW S \in SUBSET Caller, \A a, b \in S : a = b
    PROVE  /\ SetToSeq(S) \in Seq(Caller)
           /\ \A i \in DOMAIN SetToSeq(S) : SetToSeq(S)[i] \in S
           /\ \A i, j \in DOMAIN SetToSeq(S) : SetToSeq(S)[i] = SetToSeq(S)[j] => i = j
<1> DEFINE n == Cardinality(S)
           q == SetToSeq(S)
<1>1. n \in Nat /\ \E f \in [1..n -> S] : \A a, b \in DOMAIN f : f[a] = f[b] => a = b
  <2>1. CASE S = {}
    <3>1. n = 0
      BY <2>1, FS_EmptySet
    <3> HIDE DEF n
    <3> DEFINE f == [i \in 1..n |-> i]
    <3>2. f \in [1..n -> S] /\ DOMAIN f = {}
      BY <3>1
    <3> HIDE DEF f
    <3> QED BY <3>1, <3>2
  <2>2. CASE S # {}
    <3>1. PICK d \in S : S = {d}
      BY <2>2
    <3>2. n = 1
      BY <3>1, FS_Singleton
    <3> HIDE DEF n
    <3> DEFINE f == [i \in 1..n |-> d]
    <3>3. f \in [1..n -> S] /\ DOMAIN f = {1}
      BY <3>1, <3>2
    <3> HIDE DEF f
    <3> QED BY <3>2, <3>3
  <2> QED BY <2>1, <2>2
<1>2. q \in [1..n -> S] /\ \A a, b \in DOMAIN q : q[a] = q[b] => a = b
  BY <1>1 DEF SetToSeq, IsInjective
<1> HIDE DEF n, q
<1>3. q \in Seq(Caller) /\ \A i \in DOMAIN q : q[i] \in S
  BY <1>1, <1>2
<1> QED BY <1>2, <1>3 DEF q

(* Who waits is woken, and goes to the end of the queue.                   *)
LEMMA QueueJoin ==
    ASSUME NEW a \in Seq(Caller), NEW b \in Seq(Caller),
           \A i, j \in DOMAIN a : a[i] = a[j] => i = j,
           \A i, j \in DOMAIN b : b[i] = b[j] => i = j,
           \A i \in DOMAIN a : \A j \in DOMAIN b : a[i] # b[j]
    PROVE  /\ a \o b \in Seq(Caller)
           /\ \A i \in DOMAIN (a \o b) : \/ \E j \in DOMAIN a : (a \o b)[i] = a[j]
                                         \/ \E j \in DOMAIN b : (a \o b)[i] = b[j]
           /\ \A i, j \in DOMAIN (a \o b) : (a \o b)[i] = (a \o b)[j] => i = j
<1> DEFINE r == a \o b
           m == Len(a)
           n == Len(b)
<1>1. /\ r \in Seq(Caller) /\ Len(r) = m + n
      /\ \A i \in 1..m : r[i] = a[i]
      /\ \A i \in (m + 1)..(m + n) : r[i] = b[i - m]
  BY Concatenation
<1>2. m \in Nat /\ n \in Nat /\ DOMAIN a = 1..m /\ DOMAIN b = 1..n
  OBVIOUS
<1>3. DOMAIN r = 1..(m + n)
  BY <1>1
<1> HIDE DEF r, m, n
<1>4. \A i \in DOMAIN r : \/ i \in DOMAIN a /\ r[i] = a[i]
                          \/ i - m \in DOMAIN b /\ r[i] = b[i - m]
  <2> SUFFICES ASSUME NEW i \in 1..(m + n)
               PROVE  \/ i \in 1..m /\ r[i] = a[i]
                      \/ i - m \in 1..n /\ r[i] = b[i - m]
    BY <1>2, <1>3
  <2>1. i \in 1..m \/ (i \in (m + 1)..(m + n) /\ i - m \in 1..n)
    BY <1>2
  <2> QED BY <1>1, <2>1
<1>5. \A i, j \in DOMAIN r : r[i] = r[j] => i = j
  <2> SUFFICES ASSUME NEW i \in DOMAIN r, NEW j \in DOMAIN r, r[i] = r[j] PROVE i = j
    OBVIOUS
  <2>1. i \in Int /\ j \in Int /\ (i - m = j - m => i = j)
    BY <1>2, <1>3
  <2> QED BY <1>4, <2>1
<1> QED BY <1>1, <1>4, <1>5 DEF r

LEMMA DisconnectedStep ==
    ASSUME PipeInv, NEW c \in Caller, Disconnected(c)
    PROVE  /\ PipeInv' /\ First' = First /\ Begun' = Begun /\ Busy' = Busy
           /\ \A d \in Busy : task'[d].request = task[d].request
<1> USE DEF PipeInv
<1> DEFINE S == {d \in Caller : task[d].at = "waiting"}
           q == SetToSeq(S)
<1>1. /\ task[c].at = "closing" /\ process' = "none" /\ connected' = FALSE
      /\ task' = [d \in Caller |->
             IF d = c THEN Idle
             ELSE IF d \in S THEN [task[d] EXCEPT !.at = "ready"] ELSE task[d]]
      /\ ready' = ready \o q /\ Still
      /\ UNCHANGED <<got, givenUp, scraps, shared>>
  BY DEF Disconnected, serverVars, Still
<1>2. /\ q \in Seq(Caller) /\ \A i \in DOMAIN q : q[i] \in S
      /\ \A i, j \in DOMAIN q : q[i] = q[j] => i = j
  BY OneToSeq DEF Turns
<1> HIDE DEF q
<1>3. /\ task'[c] = Idle /\ c \notin S
      /\ \A d \in S : /\ task'[d] \in Task /\ task'[d].at = "ready"
                      /\ task'[d].request = task[d].request
      /\ \A d \in Caller \ S : d # c => task'[d] = task[d]
  <2>1. \A d \in S : /\ d # c /\ task[d] \in Task /\ task[d].at = "waiting"
                     /\ task'[d] = [task[d] EXCEPT !.at = "ready"]
    <3> SUFFICES ASSUME NEW d \in S
                 PROVE  /\ d # c /\ task[d] \in Task /\ task[d].at = "waiting"
                        /\ task'[d] = [task[d] EXCEPT !.at = "ready"]
      OBVIOUS
    <3>1. d \in Caller /\ task[d].at = "waiting" /\ task[d] \in Task
      BY DEF StdioTypeOK
    <3>2. d # c
      BY <1>1, <3>1
    <3> HIDE DEF S
    <3> QED BY <1>1, <3>1, <3>2
  <2>2. \A d \in S : /\ task'[d] \in Task /\ task'[d].at = "ready"
                     /\ task'[d].request = task[d].request
    <3> SUFFICES ASSUME NEW d \in S
                 PROVE  /\ task'[d] \in Task /\ task'[d].at = "ready"
                        /\ task'[d].request = task[d].request
      OBVIOUS
    <3> DEFINE t == task[d]
    <3>1. t \in Task /\ t.at \in Calling /\ task'[d] = [t EXCEPT !.at = "ready"]
      BY <2>1
    <3> HIDE DEF t
    <3>2. /\ [t EXCEPT !.at = "ready"] \in Task
          /\ [t EXCEPT !.at = "ready"].at = "ready"
          /\ [t EXCEPT !.at = "ready"].request = t.request
      BY <3>1, TaskTurns
    <3>3. task'[d] \in Task /\ task'[d].at = "ready" /\ task'[d].request = t.request
      BY <3>1, <3>2
    <3> QED BY <3>3 DEF t
  <2> QED BY <1>1, <2>2
<1>4. task' \in [Caller -> Task]
  <2>1. \A d \in Caller : task'[d] \in Task
    BY <1>3, TaskForms DEF StdioTypeOK
  <2>2. task' = [d \in Caller |-> task'[d]]
    BY <1>1
  <2> QED BY <2>1, <2>2
<1>5. \A i \in DOMAIN ready : ready[i] # c /\ ready[i] \in Caller \ S
  BY <1>1 DEF Turns, StdioTypeOK
<1>6. /\ ready' \in Seq(Caller)
      /\ \A i \in DOMAIN ready' : \/ \E j \in DOMAIN ready : ready'[i] = ready[j]
                                  \/ \E j \in DOMAIN q : ready'[i] = q[j]
      /\ \A i, j \in DOMAIN ready' : ready'[i] = ready'[j] => i = j
  <2>1. ready \in Seq(Caller) /\ \A i, j \in DOMAIN ready : ready[i] = ready[j] => i = j
    BY DEF StdioTypeOK, Turns
  <2>2. \A i \in DOMAIN ready : \A j \in DOMAIN q : ready[i] # q[j]
    BY <1>2, <1>5
  <2>3. q \in Seq(Caller)
    BY <1>2
  <2> DEFINE r == ready \o q
  <2>4. /\ r \in Seq(Caller)
        /\ \A i \in DOMAIN r : \/ \E j \in DOMAIN ready : r[i] = ready[j]
                              \/ \E j \in DOMAIN q : r[i] = q[j]
        /\ \A i, j \in DOMAIN r : r[i] = r[j] => i = j
    BY <1>2, <2>1, <2>2, <2>3, QueueJoin
  <2>5. ready' = r
    BY <1>1
  <2> HIDE DEF r
  <2> QED BY <2>4, <2>5
<1>7. \A i \in DOMAIN ready' : task'[ready'[i]].at = "ready"
  <2>1. \A i \in DOMAIN ready : task'[ready[i]].at = "ready"
    BY <1>3, <1>5 DEF Turns
  <2>2. \A i \in DOMAIN q : task'[q[i]].at = "ready"
    BY <1>2, <1>3
  <2> QED BY <1>6, <2>1, <2>2
<1>8. \A a \in Caller : task'[a].at # "waiting"
  BY <1>3, TaskForms
<1>9. Turns'
  BY <1>6, <1>7, <1>8 DEF Turns
<1>10. Busy' = Busy /\ \A d \in Busy : task'[d].request = task[d].request
  BY <1>1, <1>3, TaskForms DEF Busy
<1>11. StdioTypeOK'
  BY <1>1, <1>4, <1>6 DEF StdioTypeOK, Still
<1> QED BY <1>1, <1>9, <1>10, <1>11, StillOrder

-----------------------------------------------------------------------------
(* The debt of tasks that use the client one at a time.                    *)

Pending == IF Busy = {} THEN 0 ELSE 1

\* The task that has a request on its way is the only one and the request the
\* last; what is given up, and what is read in pieces, is missing for good.
Debt ==
    ~shared =>
        /\ \A c \in Busy : Busy = {c} /\ task[c].request = written
        /\ givenUp \subseteq 1..written /\ (Busy # {} => written \notin givenUp)
        /\ Begun = written - Cardinality(givenUp) - Pending - scraps

StdioInv == PipeInv /\ Debt

LEMMA BegunType ==
    ASSUME PipeInv
    PROVE  First \in Nat /\ Begun \in Int /\ scraps \in Nat /\ written \in Nat
<1>1. First \in Nat
  BY PipeFacts DEF PipeInv, First
<1> QED BY <1>1, PipeFacts DEF PipeInv, Begun, StdioTypeOK

LEMMA GivenUpCount ==
    ASSUME NEW n \in Nat, NEW G \in SUBSET (1..n)
    PROVE  /\ Cardinality(G) \in Nat
           /\ \A m \in 1..n : m \notin G => Cardinality(G \cup {m}) = Cardinality(G) + 1
<1>1. IsFiniteSet(1..n)
  BY FS_Interval
<1>2. IsFiniteSet(G)
  BY <1>1, FS_Subset
<1> QED BY <1>2, FS_CardinalityType, FS_AddElement

\* A step of the server, or of a task that only waits or is woken.
LEMMA DebtStays ==
    ASSUME PipeInv, Debt, Begun' = Begun, Busy' = Busy,
           \A c \in Busy : task'[c].request = task[c].request,
           UNCHANGED <<written, givenUp, scraps, shared>>
    PROVE  Debt'
BY DEF Debt, Pending

LEMMA DebtOfWrite ==
    ASSUME PipeInv, Debt, NEW c \in Caller, Connect(c) \/ Send(c)
    PROVE  Debt'
<1>1. /\ Begun' = Begun /\ Busy' = Busy \cup {c} /\ task'[c].request = written'
      /\ UNCHANGED <<givenUp, scraps>>
      /\ written' = written + 1 /\ shared' = (shared \/ Busy # {})
  BY WriteStep DEF Write
<1>2. CASE shared'
  BY <1>2 DEF Debt
<1>3. CASE ~shared'
  <2>1. ~shared /\ Busy = {} /\ Busy' = {c}
    BY <1>1, <1>3
  <2>2. /\ givenUp \subseteq 1..written /\ Begun = written - Cardinality(givenUp) - scraps
        /\ Cardinality(givenUp) \in Nat /\ written \in Nat /\ scraps \in Nat
    <3>1. givenUp \subseteq 1..written /\ Begun = written - Cardinality(givenUp) - 0 - scraps
      BY <2>1 DEF Debt, Pending
    <3> QED BY <3>1, BegunType, GivenUpCount
  <2>3. written + 1 \notin givenUp /\ givenUp \subseteq 1..(written + 1)
    BY <2>2
  <2>4. Pending' = 1
    BY <2>1 DEF Pending
  <2>5. Begun' = written' - Cardinality(givenUp') - Pending' - scraps'
    BY <1>1, <2>2, <2>4
  <2> QED BY <1>1, <2>1, <2>3, <2>5 DEF Debt
<1> QED BY <1>2, <1>3

LEMMA DebtOfTake ==
    ASSUME PipeInv, Debt, NEW c \in Caller, task[c].at = "ready", Take(c)
    PROVE  /\ Debt'
           /\ ~shared => got'[c] = task[c].request - Cardinality(givenUp) - scraps'
<1>1. /\ Busy' = Busy \ {c} /\ got'[c] = First /\ Begun' = First
      /\ Begun' + scraps' = Begun + scraps + 1
      /\ UNCHANGED <<written, givenUp, shared>> /\ PipeInv'
  BY TakeStep
<1>2. CASE shared
  BY <1>1, <1>2 DEF Debt
<1>3. CASE ~shared
  <2>1. c \in Busy
    BY DEF Busy
  <2>2. /\ Busy = {c} /\ task[c].request = written /\ givenUp \subseteq 1..written
        /\ Begun = written - Cardinality(givenUp) - 1 - scraps
    BY <1>3, <2>1 DEF Debt, Pending
  <2>3. Cardinality(givenUp) \in Nat /\ written \in Nat /\ scraps \in Nat /\ Begun \in Int
    BY <2>2, BegunType, GivenUpCount
  <2>4. Begun' \in Int /\ scraps' \in Nat
    <3>1. First \in Nat
      BY BegunType
    <3> QED BY <1>1, <3>1 DEF PipeInv, StdioTypeOK
  <2>5. Begun' = written - Cardinality(givenUp) - scraps'
    BY <1>1, <2>2, <2>3, <2>4
  <2>6. Busy' = {} /\ Pending' = 0
    BY <1>1, <2>2 DEF Pending
  <2>7. Begun' = written' - Cardinality(givenUp') - Pending' - scraps'
    BY <1>1, <2>3, <2>4, <2>5, <2>6
  <2>8. Debt'
    BY <1>1, <2>2, <2>6, <2>7 DEF Debt
  <2> QED BY <1>1, <2>2, <2>5, <2>8
<1> QED BY <1>2, <1>3

LEMMA DebtOfGiveUp ==
    ASSUME PipeInv, Debt, NEW c \in Caller, c \in Busy, GiveUp(c)
    PROVE  Debt'
<1>1. /\ Busy' = Busy \ {c} /\ Begun' = Begun
      /\ givenUp' = givenUp \cup {task[c].request}
      /\ UNCHANGED <<written, scraps, shared>>
  BY GiveUpStep
<1>2. CASE shared
  BY <1>1, <1>2 DEF Debt
<1>3. CASE ~shared
  <2>1. /\ Busy = {c} /\ task[c].request = written /\ givenUp \subseteq 1..written
        /\ written \notin givenUp
        /\ Begun = written - Cardinality(givenUp) - 1 - scraps
    BY <1>3 DEF Debt, Pending
  <2>2. written \in 1..written /\ written \in Nat /\ scraps \in Nat
    <3>1. written \in Request /\ written \in Nat /\ scraps \in Nat
      BY <2>1, TaskForms, BegunType DEF Busy, PipeInv, StdioTypeOK
    <3> QED BY <3>1, Bounds DEF Request
  <2>3. /\ Cardinality(givenUp) \in Nat
        /\ Cardinality(givenUp') = Cardinality(givenUp) + 1
    BY <1>1, <2>1, <2>2, GivenUpCount
  <2>4. Busy' = {} /\ Pending' = 0
    BY <1>1, <2>1 DEF Pending
  <2>5. Begun' = written' - Cardinality(givenUp') - Pending' - scraps'
    BY <1>1, <2>1, <2>2, <2>3, <2>4
  <2>6. givenUp' \subseteq 1..written'
    BY <1>1, <2>1, <2>2
  <2> QED BY <1>1, <2>4, <2>5, <2>6 DEF Debt
<1> QED BY <1>2, <1>3

-----------------------------------------------------------------------------
(* The invariant.                                                          *)

LEMMA WhoReads ==
    ASSUME PipeInv, NEW c \in Caller, Read(c)
    PROVE  /\ task[c].at = "ready" /\ c \in Busy
           /\ \/ Take(c)
              \/ GiveUp(c)
              \/ /\ \A d \in Caller : task[d].at # "waiting"
                 /\ task' = [task EXCEPT ![c].at = "waiting"] /\ ready' = Without(c) /\ Still
                 /\ UNCHANGED <<connected, process, got, givenUp, scraps, shared>>
<1>1. task[c].at = "ready"
  <2>1. 1 \in DOMAIN ready /\ ready[1] = c
    BY DEF Read, PipeInv, StdioTypeOK
  <2> QED BY <2>1 DEF PipeInv, Turns
<1> QED BY <1>1 DEF Read, Busy, Still, serverVars

LEMMA WhoDrains ==
    ASSUME NEW c \in Caller, DrainEnds(c)
    PROVE  /\ c \in Busy
           /\ \/ GiveUp(c)
              \/ /\ task[c].at = "drained"
                 /\ task' = [task EXCEPT ![c].at = "ready"] /\ ready' = Append(ready, c) /\ Still
                 /\ UNCHANGED <<connected, process, got, givenUp, scraps, shared>>
BY DEF DrainEnds, Busy, Still, serverVars

LEMMA StdioInitInv ==
    ASSUME StdioInit
    PROVE  StdioInv
<1> USE DEF StdioInit
<1>1. StdioTypeOK
  <2>1. /\ connected \in BOOLEAN /\ process \in {"none", "running", "exited"}
        /\ written \in 0..MaxRequests /\ handling \in 0..MaxRequests
        /\ givenUp \in SUBSET Request /\ scraps \in Nat /\ shared \in BOOLEAN
    BY Bounds, 0 \in 0..MaxRequests
  <2>2. requests \in Seq(Request) /\ lines \in Seq(Piece) /\ ready \in Seq(Caller)
    OBVIOUS
  <2>3. task \in [Caller -> Task]
    BY TaskForms
  <2>4. got \in [Caller -> 0..MaxRequests]
    BY Bounds
  <2> QED BY <2>1, <2>2, <2>3, <2>4 DEF StdioTypeOK
<1>2. Order
  BY DEF Order, Chain, LastRead, Answered
<1>3. Turns /\ Busy = {}
  BY TaskForms DEF Turns, Busy
<1>4. Debt
  <2>1. Begun = 0
    <3>1. Len(requests) = 0 /\ written = 0
      OBVIOUS
    <3>2. LastRead = 0
      <4> HIDE DEF StdioInit
      <4> QED BY <3>1 DEF LastRead
    <3>3. Answered = 0 /\ lines = <<>>
      BY <3>2 DEF Answered
    <3>4. First = 1
      BY <3>3 DEF First
    <3> QED BY <3>3, <3>4 DEF Begun
  <2>2. Cardinality(givenUp) = 0
    BY FS_EmptySet
  <2> QED BY <1>3, <2>1, <2>2 DEF Debt, Pending
<1> QED BY <1>1, <1>2, <1>3, <1>4 DEF StdioInv, PipeInv

LEMMA StdioStepInv ==
    ASSUME StdioInv, [StdioNext]_stdioVars
    PROVE  StdioInv'
<1> USE DEF StdioInv
<1>1. CASE ServerReads
  <2>1. UNCHANGED <<written, givenUp, scraps, shared>>
    BY <1>1 DEF ServerReads
  <2> QED BY <1>1, <2>1, ServerReadsStep, DebtStays DEF Busy
<1>2. CASE ServerAnswers
  <2>1. UNCHANGED <<written, givenUp, scraps, shared>>
    BY <1>2 DEF ServerAnswers
  <2> QED BY <1>2, <2>1, ServerAnswersStep, DebtStays DEF Busy
<1>3. CASE ServerExits
  <2>1. UNCHANGED <<written, givenUp, scraps, shared>>
    BY <1>3 DEF ServerExits
  <2> QED BY <1>3, <2>1, ServerExitsStep, DebtStays DEF Busy
<1>4. ASSUME NEW c \in Caller, Connect(c) \/ Send(c) PROVE StdioInv'
  BY <1>4, WriteStep, DebtOfWrite
<1>5. ASSUME NEW c \in Caller, Read(c) PROVE StdioInv'
  <2>1. task[c].at = "ready" /\ c \in Busy
    BY <1>5, WhoReads
  <2>2. CASE Take(c)
    BY <2>1, <2>2, TakeStep, DebtOfTake
  <2>3. CASE GiveUp(c)
    BY <2>1, <2>3, GiveUpStep, DebtOfGiveUp
  <2>4. CASE /\ \A d \in Caller : task[d].at # "waiting"
             /\ task' = [task EXCEPT ![c].at = "waiting"] /\ ready' = Without(c) /\ Still
             /\ UNCHANGED <<connected, process, got, givenUp, scraps, shared>>
    <3>1. /\ PipeInv' /\ First' = First /\ Begun' = Begun /\ Busy' = Busy
          /\ \A d \in Caller : task'[d].request = task[d].request
      BY <2>1, <2>4, WaitStep
    <3> QED BY <2>4, <3>1, DebtStays DEF Busy, Still
  <2> QED BY <1>5, <2>2, <2>3, <2>4, WhoReads
<1>6. ASSUME NEW c \in Caller, Timeout(c) \/ Cancelled(c) PROVE StdioInv'
  BY <1>6, GiveUpStep, DebtOfGiveUp DEF Timeout, Cancelled, Busy
<1>7. ASSUME NEW c \in Caller, Disconnect(c) PROVE StdioInv'
  <2>1. UNCHANGED <<written, givenUp, scraps, shared>>
    BY <1>7 DEF Disconnect
  <2> QED BY <1>7, <2>1, DisconnectStep, DebtStays
<1>8. ASSUME NEW c \in Caller, Disconnected(c) PROVE StdioInv'
  <2>1. UNCHANGED <<written, givenUp, scraps, shared>>
    BY <1>8 DEF Disconnected
  <2> QED BY <1>8, <2>1, DisconnectedStep, DebtStays
<1>9. CASE UNCHANGED stdioVars
  <2>1. Still /\ UNCHANGED <<connected, process, task, ready, got, givenUp, scraps, shared>>
    BY <1>9 DEF stdioVars, serverVars, Still
  <2>2. StdioTypeOK' /\ Turns' /\ Busy' = Busy
    BY <2>1 DEF StdioTypeOK, Turns, Busy, Still, PipeInv
  <2>3. Order' /\ Begun' = Begun
    BY <2>1, StillOrder DEF PipeInv
  <2> QED BY <2>1, <2>2, <2>3, DebtStays DEF PipeInv, Still
<1>10. ASSUME NEW c \in Caller, DrainEnds(c) PROVE StdioInv'
  <2>1. CASE GiveUp(c)
    BY <1>10, <2>1, WhoDrains, GiveUpStep, DebtOfGiveUp
  <2>2. CASE /\ task[c].at = "drained"
             /\ task' = [task EXCEPT ![c].at = "ready"] /\ ready' = Append(ready, c) /\ Still
             /\ UNCHANGED <<connected, process, got, givenUp, scraps, shared>>
    <3>1. /\ PipeInv' /\ First' = First /\ Begun' = Begun /\ Busy' = Busy
          /\ \A d \in Caller : task'[d].request = task[d].request
      BY <2>2, DrainedStep
    <3> QED BY <2>2, <3>1, DebtStays DEF Busy, Still
  <2> QED BY <1>10, <2>1, <2>2, WhoDrains
<1> QED BY <1>1, <1>2, <1>3, <1>4, <1>5, <1>6, <1>7, <1>8, <1>9, <1>10 DEF StdioNext

\* However many tasks call the server and whatever it does, nothing leaves its
\* type, the pipes carry consecutive requests and answers, a task is in the
\* event loop's queue once and waits in the reader alone.
THEOREM StdioInvariant == StdioSpec => []StdioInv
<1> QED BY StdioInitInv, StdioStepInv, PTL DEF StdioSpec

\* Types of the client's state.
THEOREM StdioTypesHold == StdioSpec => []StdioTypeOK
<1>1. StdioInv => StdioTypeOK
  BY DEF StdioInv, PipeInv
<1> QED BY <1>1, StdioInvariant, PTL

\* _send_stdio takes the next line for its answer: while tasks use the client
\* one at a time, that answer is late by the requests that were given up before
\* and by the pieces that were read as answers, by no more and no less.
THEOREM AnswersAreLate == StdioSpec => LateByGivenUp
<1> DEFINE Late == \A c \in Caller :
                      Received(c) =>
                         \/ shared
                         \/ got'[c] = task[c].request - Cardinality(givenUp) - scraps'
<1>1. ASSUME StdioInv, [StdioNext]_stdioVars
      PROVE  [Late]_stdioVars
  <2> SUFFICES ASSUME NEW c \in Caller, Received(c), ~shared
               PROVE  got'[c] = task[c].request - Cardinality(givenUp) - scraps'
    OBVIOUS
  <2>1. ASSUME NEW d \in Caller, Take(d), task[d].at = "ready" PROVE c = d
    BY <1>1, <2>1, TakeStep DEF Received, StdioInv
  <2>2. CASE Take(c) /\ task[c].at = "ready"
    BY <1>1, <2>2, DebtOfTake DEF StdioInv
  <2>3. CASE UNCHANGED got
    BY <2>3 DEF Received
  <2>4. ASSUME NEW d \in Caller, Write(d) PROVE FALSE
    BY <1>1, <2>4 DEF Write, Received, StdioInv, PipeInv, StdioTypeOK
  <2>5. \/ UNCHANGED got
        \/ \E d \in Caller : Write(d) \/ (Take(d) /\ task[d].at = "ready")
    <3>1. ASSUME NEW d \in Caller, Read(d)
          PROVE  UNCHANGED got \/ (Take(d) /\ task[d].at = "ready")
      BY <1>1, <3>1, WhoReads DEF StdioInv, GiveUp
    <3>2. ASSUME NEW d \in Caller, Connect(d) \/ Send(d) PROVE Write(d)
      BY <3>2 DEF Connect, Send
    <3>3. CASE ServerReads \/ ServerAnswers \/ ServerExits \/ UNCHANGED stdioVars
      BY <3>3 DEF ServerReads, ServerAnswers, ServerExits, stdioVars
    <3>4. ASSUME NEW d \in Caller,
                 \/ DrainEnds(d) \/ Timeout(d) \/ Cancelled(d)
                 \/ Disconnect(d) \/ Disconnected(d)
          PROVE  UNCHANGED got
      BY <3>4 DEF DrainEnds, Timeout, Cancelled, GiveUp, Disconnect, Disconnected
    <3> QED BY <1>1, <3>1, <3>2, <3>3, <3>4 DEF StdioNext
  <2> QED BY <2>1, <2>2, <2>3, <2>4, <2>5
<1>2. LateByGivenUp <=> [][Late]_stdioVars
  BY PTL DEF LateByGivenUp
<1> QED BY <1>1, <1>2, StdioInvariant, PTL DEF StdioSpec

-----------------------------------------------------------------------------
(* The pipes as one queue of answers.                                      *)

\* The pieces a reader will take for the beginning of an answer, and Answers
\* of the pieces l.
Beginnings(l) == {i \in DOMAIN l : i = 1 \/ l[i].part = 1}
UpTo(l, m) == {j \in Beginnings(l) : j <= m}
AnswersOf(l) ==
    [n \in 1..Cardinality(Beginnings(l)) |->
        l[CHOOSE i \in Beginnings(l) : Cardinality(UpTo(l, i)) = n].of]

\* The numbers from a to b.
Run(a, b) == [n \in 1..(b - a + 1) |-> a + (n - 1)]

(* Up to a piece, as many answers begin as there are numbers up to its own.*)
LEMMA CountUpTo ==
    ASSUME NEW l \in Seq(Piece), NEW last \in Nat, Chain(l, last), NEW m \in DOMAIN l
    PROVE  /\ Cardinality(UpTo(l, m)) = l[m].of - l[1].of + 1
           /\ l[1].of \in Nat /\ l[m].of \in Nat /\ l[1].of <= l[m].of
<1> DEFINE S == UpTo(l, m)
           T == l[1].of .. l[m].of
           f == [j \in S |-> l[j].of]
<1>1. /\ DOMAIN l = 1..Len(l) /\ Len(l) \in Nat /\ m \in 1..Len(l) /\ 1 \in 1..Len(l)
      /\ \A i \in 1..Len(l) : l[i].of \in Nat
  <2>1. DOMAIN l = 1..Len(l) /\ Len(l) \in Nat
    OBVIOUS
  <2> QED BY <2>1, PieceType
<1>2. \A i, j \in 1..Len(l) : i < j =>
          l[i].of <= l[j].of /\ (l[j].part = 1 => l[i].of < l[j].of)
  BY <1>1 DEF Chain
<1>3. l[1].of <= l[m].of
  <2>1. m = 1 \/ 1 < m
    BY <1>1
  <2> QED BY <1>1, <1>2, <2>1
<1>4. \A j \in S : j \in 1..Len(l) /\ j <= m /\ (j = 1 \/ l[j].part = 1)
  BY <1>1 DEF UpTo, Beginnings
<1>5. f \in [S -> T]
  <2>1. ASSUME NEW j \in S PROVE l[j].of \in T
    <3>1. j \in 1..Len(l) /\ (j = m \/ j < m) /\ (j = 1 \/ 1 < j)
      BY <1>1, <1>4
    <3> QED BY <1>1, <1>2, <3>1
  <2> HIDE DEF S, T
  <2> QED BY <2>1
<1>6. \A i, j \in S : f[i] = f[j] => i = j
  <2> SUFFICES ASSUME NEW i \in S, NEW j \in S, l[i].of = l[j].of PROVE i = j
    OBVIOUS
  <2>1. /\ i \in 1..Len(l) /\ j \in 1..Len(l)
        /\ i = 1 \/ l[i].part = 1
        /\ j = 1 \/ l[j].part = 1
    BY <1>4
  <2>2. i = j \/ (i < j /\ j # 1) \/ (j < i /\ i # 1)
    BY <1>1, <2>1
  <2> QED BY <1>1, <1>2, <2>1, <2>2
<1>7. \A n \in T : \E j \in S : f[j] = n
  <2> SUFFICES ASSUME NEW n \in T PROVE \E j \in S : f[j] = n
    OBVIOUS
  <2>1. PICK j \in 1..m : (j = 1 \/ l[j].part = 1) /\ l[j].of = n
    BY DEF Chain
  <2>2. j \in S
    BY <1>1, <2>1 DEF UpTo, Beginnings
  <2> QED BY <2>1, <2>2
<1>8. IsFiniteSet(S)
  <2>1. S \in SUBSET (1..Len(l))
    BY <1>4
  <2>2. Len(l) \in Int /\ 1 \in Int
    BY <1>1
  <2>3. IsFiniteSet(1..Len(l))
    BY <2>2, FS_Interval
  <2> HIDE DEF S
  <2> QED BY <2>1, <2>3, FS_Subset
<1> HIDE DEF f, S, T
<1>9. f \in Bijection(S, T)
  <2>1. DOMAIN f = S
    BY <1>5
  <2>2. f \in Injection(S, T)
    BY <1>5, <1>6, <2>1 DEF Injection, IsInjective
  <2>3. f \in Surjection(S, T)
    BY <1>5, <1>7 DEF Surjection
  <2> QED BY <2>2, <2>3 DEF Bijection
<1>10. Cardinality(T) = Cardinality(S)
  BY <1>8, <1>9, FS_Bijection DEF ExistsBijection
<1>11. Cardinality(T) = l[m].of - l[1].of + 1
  <2>1. l[1].of \in Int /\ l[m].of \in Int /\ ~(l[1].of > l[m].of)
    BY <1>1, <1>3
  <2>2. Cardinality(l[1].of .. l[m].of) =
            IF l[1].of > l[m].of THEN 0 ELSE l[m].of - l[1].of + 1
    BY <2>1, FS_Interval
  <2> QED BY <2>1, <2>2 DEF T
<1> QED BY <1>1, <1>3, <1>10, <1>11 DEF S

(* The answers in the pipe are consecutive numbers up to the last.         *)
LEMMA AnswersAreRun ==
    ASSUME NEW l \in Seq(Piece), NEW last \in Nat, Chain(l, last)
    PROVE  AnswersOf(l) = IF l = <<>> THEN <<>> ELSE Run(l[1].of, last)
<1>1. CASE l = <<>>
  <2>1. Beginnings(l) = {} /\ Cardinality({}) = 0
    BY <1>1, FS_EmptySet DEF Beginnings
  <2>3. AnswersOf(l) = <<>>
    BY <2>1 DEF AnswersOf
  <2> QED BY <1>1, <2>3
<1>2. CASE l # <<>>
  <2> DEFINE a == l[1].of
             L == Len(l)
             B == Beginnings(l)
             N == last - a + 1
             at(n) == CHOOSE i \in B : Cardinality(UpTo(l, i)) = n
  <2>1. DOMAIN l = 1..L /\ L \in Nat /\ 1 \in 1..L /\ L \in 1..L
    BY <1>2
  <2>2. /\ l[L].of = last /\ a \in Nat /\ a <= last
        /\ \A m \in 1..L : /\ Cardinality(UpTo(l, m)) = l[m].of - a + 1
                           /\ l[m].of \in Nat
    BY <1>2, <2>1, CountUpTo DEF Chain
  <2>3. B = UpTo(l, L) /\ B \subseteq 1..L
    BY <2>1 DEF UpTo, Beginnings
  <2>4. Cardinality(B) = N /\ N \in Nat
    BY <2>1, <2>2, <2>3
  <2>5. ASSUME NEW n \in 1..N
        PROVE  l[at(n)].of = a + (n - 1)
    <3>1. a + (n - 1) \in a .. l[L].of
      BY <2>2, <2>5
    <3>2. PICK j \in 1..L : (j = 1 \/ l[j].part = 1) /\ l[j].of = a + (n - 1)
      BY <2>1, <3>1 DEF Chain
    <3>3. j \in B /\ Cardinality(UpTo(l, j)) = n
      BY <2>1, <2>2, <2>5, <3>2 DEF Beginnings
    <3>4. at(n) \in B /\ Cardinality(UpTo(l, at(n))) = n
      <4> HIDE DEF B
      <4> QED BY <3>3
    <3>5. at(n) \in 1..L
      BY <2>3, <3>4
    <3> HIDE DEF at
    <3>6. l[at(n)].of - a + 1 = n /\ l[at(n)].of \in Nat
      BY <2>2, <3>4, <3>5
    <3> QED BY <2>2, <2>5, <3>6
  <2>6. AnswersOf(l) = [n \in 1..N |-> l[at(n)].of]
    BY <2>4 DEF AnswersOf
  <2> HIDE DEF at
  <2>7. AnswersOf(l) = [n \in 1..N |-> a + (n - 1)]
    BY <2>5, <2>6
  <2> QED BY <1>2, <2>7 DEF Run
<1> QED BY <1>1, <1>2

LEMMA RunType ==
    ASSUME NEW a \in Int, NEW b \in Int, a <= b + 1
    PROVE  /\ Run(a, b) \in Seq(Int) /\ Len(Run(a, b)) = b - a + 1
           /\ b - a + 1 \in Nat
           /\ \A n \in 1..(b - a + 1) : Run(a, b)[n] = a + (n - 1)
<1>1. b - a + 1 \in Nat
  OBVIOUS
<1>2. \A n \in 1..(b - a + 1) : a + (n - 1) \in Int
  OBVIOUS
<1> QED BY <1>1, <1>2 DEF Run

LEMMA RunUnique ==
    ASSUME NEW a \in Int, NEW b \in Int, a <= b + 1, NEW s \in Seq(Int),
           Len(s) = b - a + 1, \A n \in 1..(b - a + 1) : s[n] = a + (n - 1)
    PROVE  s = Run(a, b)
<1>1. /\ Run(a, b) \in Seq(Int) /\ Len(Run(a, b)) = Len(s)
      /\ \A n \in 1..Len(s) : Run(a, b)[n] = s[n]
  BY RunType
<1> HIDE DEF Run
<1> DEFINE r == Run(a, b)
<1>2. r \in Seq(Int) /\ Len(r) = Len(s) /\ \A n \in 1..Len(s) : r[n] = s[n]
  BY <1>1
<1> HIDE DEF r
<1>3. s = r
  BY <1>2
<1> QED BY <1>3 DEF r

LEMMA IntConcat ==
    ASSUME NEW a \in Seq(Int), NEW b \in Seq(Int)
    PROVE  /\ a \o b \in Seq(Int) /\ Len(a \o b) = Len(a) + Len(b)
           /\ Len(a) \in Nat /\ Len(b) \in Nat
           /\ \A i \in 1..Len(a) : (a \o b)[i] = a[i]
           /\ \A i \in (Len(a) + 1)..(Len(a) + Len(b)) : (a \o b)[i] = b[i - Len(a)]
OBVIOUS

LEMMA EmptyRun == ASSUME NEW a \in Int PROVE Run(a + 1, a) = <<>>
<1> DEFINE r == Run(a + 1, a)
<1>1. a + 1 \in Int /\ a + 1 <= a + 1 /\ a - (a + 1) + 1 = 0
  OBVIOUS
<1>2. r \in Seq(Int) /\ Len(r) = 0
  BY <1>1, RunType
<1> HIDE DEF r
<1>3. r = <<>>
  BY <1>2
<1> QED BY <1>3 DEF r

LEMMA SingleRun == ASSUME NEW a \in Int PROVE Run(a, a) = <<a>>
<1> DEFINE r == Run(a, a)
<1>1. a <= a + 1 /\ a - a + 1 = 1 /\ a + (1 - 1) = a /\ 1 \in 1..1
  OBVIOUS
<1>2. r \in Seq(Int) /\ Len(r) = 1 /\ r[1] = a
  BY <1>1, RunType
<1> HIDE DEF r
<1>3. r = <<a>>
  BY <1>2
<1> QED BY <1>3 DEF r

Joined(a, b, c) == Run(a, b) \o Run(b + 1, c)

LEMMA RunJoin ==
    ASSUME NEW a \in Int, NEW b \in Int, NEW c \in Int, a <= b + 1, b <= c
    PROVE  Joined(a, b, c) = Run(a, c)
<1> DEFINE p == Run(a, b)
           q == Run(b + 1, c)
           r == p \o q
<1>1. /\ p \in Seq(Int) /\ Len(p) = b - a + 1
      /\ \A n \in 1..(b - a + 1) : p[n] = a + (n - 1)
  BY RunType
<1>2. /\ q \in Seq(Int) /\ Len(q) = c - b
      /\ \A n \in 1..(c - b) : q[n] = (b + 1) + (n - 1)
  <2>1. b + 1 \in Int /\ b + 1 <= c + 1 /\ c - (b + 1) + 1 = c - b
    OBVIOUS
  <2> QED BY <2>1, RunType
<1> HIDE DEF p, q
<1>3. /\ r \in Seq(Int) /\ Len(r) = Len(p) + Len(q)
      /\ \A i \in 1..Len(p) : r[i] = p[i]
      /\ \A i \in (Len(p) + 1)..(Len(p) + Len(q)) : r[i] = q[i - Len(p)]
  BY <1>1, <1>2, IntConcat
<1> HIDE DEF r
<1>4. Len(r) = c - a + 1
  BY <1>1, <1>2, <1>3
<1>5. \A n \in 1..(c - a + 1) : r[n] = a + (n - 1)
  <2> SUFFICES ASSUME NEW n \in 1..(c - a + 1) PROVE r[n] = a + (n - 1)
    OBVIOUS
  <2>1. CASE n <= b - a + 1
    BY <1>1, <1>3, <2>1
  <2>2. CASE n > b - a + 1
    <3>1. /\ n \in (Len(p) + 1)..(Len(p) + Len(q)) /\ n - Len(p) \in 1..(c - b)
          /\ (b + 1) + ((n - Len(p)) - 1) = a + (n - 1)
      BY <1>1, <1>2, <2>2
    <3>2. r[n] = q[n - Len(p)] /\ q[n - Len(p)] = (b + 1) + ((n - Len(p)) - 1)
      BY <1>2, <1>3, <3>1
    <3> QED BY <3>1, <3>2
  <2> QED BY <2>1, <2>2
<1>6. a <= c + 1
  OBVIOUS
<1>7. r = Run(a, c)
  BY <1>3, <1>4, <1>5, <1>6, RunUnique
<1> QED BY <1>7 DEF r, p, q, Joined

(* Both pipes, and the request h in the server between them, after w       *)
(* requests were written.                                                  *)
QueueOf(l, h, r) == AnswersOf(l) \o (IF h = 0 THEN <<>> ELSE <<h>>) \o r

LEMMA QueueIsRun ==
    ASSUME NEW l \in Seq(Piece), NEW r \in Seq(Nat), NEW h \in Nat, NEW w \in Nat,
           NEW last \in Nat, NEW ans \in Nat,
           last = w - Len(r), \A i \in DOMAIN r : r[i] = last + i,
           h = 0 => ans = last, h # 0 => h = last /\ last = ans + 1,
           Chain(l, ans)
    PROVE  /\ QueueOf(l, h, r) = Run(IF l = <<>> THEN ans + 1 ELSE l[1].of, w)
           /\ l # <<>> => l[1].of <= w /\ l[1].of <= ans
<1> DEFINE first == IF l = <<>> THEN ans + 1 ELSE l[1].of
           A == AnswersOf(l)
           H == IF h = 0 THEN <<>> ELSE <<h>>
<1>1. Len(r) \in Nat /\ DOMAIN r = 1..Len(r) /\ last <= w /\ ans <= last
  OBVIOUS
<1>2. l # <<>> => l[1].of \in Nat /\ l[1].of <= ans
  <2> SUFFICES ASSUME l # <<>> PROVE l[1].of \in Nat /\ l[1].of <= ans
    OBVIOUS
  <2>1. Len(l) \in DOMAIN l /\ l[Len(l)].of = ans
    BY DEF Chain
  <2> QED BY <2>1, CountUpTo
<1>3. first \in Nat /\ first <= ans + 1
  BY <1>2
<1>4. A = Run(first, ans)
  <2>1. CASE l = <<>>
    <3>1. <<>> = Run(ans + 1, ans)
      BY EmptyRun
    <3> QED BY <2>1, <3>1, AnswersAreRun
  <2> QED BY <2>1, AnswersAreRun
<1>5. r = Run(last + 1, w)
  <2>1. last + 1 \in Int /\ w \in Int /\ last + 1 <= w + 1 /\ w - (last + 1) + 1 = Len(r)
    BY <1>1
  <2>2. r \in Seq(Int)
    OBVIOUS
  <2>3. \A n \in 1..(w - (last + 1) + 1) : r[n] = (last + 1) + (n - 1)
    <3> SUFFICES ASSUME NEW n \in 1..Len(r) PROVE r[n] = (last + 1) + (n - 1)
      BY <2>1
    <3>1. n \in DOMAIN r /\ n \in Int
      BY <1>1
    <3>2. r[n] = last + n
      BY <3>1
    <3> QED BY <3>1, <3>2
  <2> QED BY <2>1, <2>2, <2>3, RunUnique
<1> HIDE DEF A, first
<1>6. A \o H = Run(first, last)
  <2>1. CASE h = 0
    <3>1. A \in Seq(Int)
      BY <1>3, <1>4, RunType
    <3>2. A \o <<>> = A
      BY <3>1
    <3> QED BY <1>4, <2>1, <3>2
  <2>2. CASE h # 0
    <3>1. <<last>> = Run(last, last)
      BY SingleRun
    <3>2. Joined(first, ans, last) = Run(first, last)
      <4>1. first \in Int /\ ans \in Int /\ last \in Int
        BY <1>3
      <4> QED BY <1>1, <1>3, <4>1, RunJoin
    <3>3. Joined(first, ans, last) = A \o <<last>>
      BY <1>4, <2>2, <3>1 DEF Joined
    <3> QED BY <2>2, <3>2, <3>3
  <2> QED BY <2>1, <2>2
<1>7. Joined(first, last, w) = Run(first, w)
  <2>1. first <= last + 1 /\ first \in Int /\ last \in Int /\ w \in Int
    BY <1>1, <1>3
  <2> QED BY <1>1, <2>1, RunJoin
<1>8. QueueOf(l, h, r) = Run(first, w)
  BY <1>5, <1>6, <1>7 DEF QueueOf, A, Joined
<1> QED BY <1>1, <1>2, <1>8 DEF first

LastOf(r, w) == w - Len(r)
AnsweredOf(h, r, w) == IF h = 0 THEN LastOf(r, w) ELSE LastOf(r, w) - 1
FirstOf(l, h, r, w) == IF l = <<>> THEN AnsweredOf(h, r, w) + 1 ELSE l[1].of

LEMMA QueueAt ==
    ASSUME NEW l \in Seq(Piece), NEW r \in Seq(Request), NEW h \in 0..MaxRequests,
           NEW w \in 0..MaxRequests, Len(r) <= w,
           \A i \in DOMAIN r : r[i] = LastOf(r, w) + i, h \in {0, LastOf(r, w)},
           Chain(l, AnsweredOf(h, r, w))
    PROVE  /\ QueueOf(l, h, r) = Run(FirstOf(l, h, r, w), w)
           /\ l # <<>> => l[1].of <= w
<1> DEFINE last == LastOf(r, w)
           ans == AnsweredOf(h, r, w)
<1>1. w \in Nat /\ h \in Nat /\ Len(r) \in Nat
  BY Bounds
<1>2. last = w - Len(r) /\ last \in Nat
  BY <1>1 DEF LastOf
<1>3. ans \in Nat /\ (h = 0 => ans = last) /\ (h # 0 => h = last /\ last = ans + 1)
  BY <1>1, <1>2 DEF AnsweredOf
<1>4. r \in Seq(Nat)
  <2>1. \A n \in Request : n \in Nat
    BY Bounds DEF Request
  <2>2. \A i \in 1..Len(r) : r[i] \in Nat
    BY <2>1
  <2> QED BY <1>1, <2>2
<1>5. (\A i \in DOMAIN r : r[i] = last + i) /\ Chain(l, ans)
  OBVIOUS
<1> HIDE DEF last, ans
<1>6. /\ QueueOf(l, h, r) = Run(IF l = <<>> THEN ans + 1 ELSE l[1].of, w)
      /\ l # <<>> => l[1].of <= w
  BY <1>1, <1>2, <1>3, <1>4, <1>5, QueueIsRun
<1> QED BY <1>6 DEF FirstOf, ans

LEMMA MappedQueue ==
    ASSUME PipeInv
    PROVE  /\ Answers \o Handled \o requests = Run(First, written)
           /\ lines # <<>> => First <= written
<1>1. Answers \o Handled \o requests = QueueOf(lines, handling, requests)
  BY DEF Answers, Handled, QueueOf, AnswersOf, Beginnings, UpTo
<1>2. First = FirstOf(lines, handling, requests, written)
  BY DEF First, FirstOf, Answered, AnsweredOf, LastRead, LastOf
<1>3. /\ lines \in Seq(Piece) /\ requests \in Seq(Request) /\ handling \in 0..MaxRequests
      /\ written \in 0..MaxRequests /\ Len(requests) <= written
      /\ \A i \in DOMAIN requests : requests[i] = LastOf(requests, written) + i
      /\ handling \in {0, LastOf(requests, written)}
      /\ Chain(lines, AnsweredOf(handling, requests, written))
  BY DEF PipeInv, StdioTypeOK, Order, Answered, AnsweredOf, LastRead, LastOf
<1>4. /\ QueueOf(lines, handling, requests) =
            Run(FirstOf(lines, handling, requests, written), written)
      /\ lines # <<>> => lines[1].of <= written
  BY <1>3, QueueAt
<1> QED BY <1>1, <1>2, <1>4 DEF First

LEMMA MappedQueueNext ==
    ASSUME PipeInv'
    PROVE  (Answers \o Handled \o requests)' = Run(First', written')
<1>1. (Answers \o Handled \o requests)' = QueueOf(lines', handling', requests')
  BY DEF Answers, Handled, QueueOf, AnswersOf, Beginnings, UpTo
<1>2. First' = FirstOf(lines', handling', requests', written')
  BY DEF First, FirstOf, Answered, AnsweredOf, LastRead, LastOf
<1>3. /\ lines' \in Seq(Piece) /\ requests' \in Seq(Request)
      /\ handling' \in 0..MaxRequests
      /\ written' \in 0..MaxRequests /\ Len(requests') <= written'
      /\ \A i \in DOMAIN requests' : requests'[i] = LastOf(requests', written') + i
      /\ handling' \in {0, LastOf(requests', written')}
      /\ Chain(lines', AnsweredOf(handling', requests', written'))
  BY DEF PipeInv, StdioTypeOK, Order, Answered, AnsweredOf, LastRead, LastOf
<1>4. QueueOf(lines', handling', requests') =
          Run(FirstOf(lines', handling', requests', written'), written')
  BY <1>3, QueueAt
<1> QED BY <1>1, <1>2, <1>4

(* Receiving from a run, and asking.                                       *)
LEMMA RunHead ==
    ASSUME NEW a \in Nat, NEW b \in Nat, a <= b
    PROVE  Run(a, b) # <<>> /\ Head(Run(a, b)) = a /\ Tail(Run(a, b)) = Run(a + 1, b)
<1> DEFINE r == Run(a, b)
           t == Tail(r)
<1>1. /\ r \in Seq(Int) /\ Len(r) = b - a + 1 /\ b - a + 1 >= 1
      /\ \A n \in 1..(b - a + 1) : r[n] = a + (n - 1)
  <2>1. a \in Int /\ b \in Int /\ a <= b + 1 /\ b - a + 1 >= 1
    OBVIOUS
  <2> QED BY <2>1, RunType
<1> HIDE DEF r
<1>2. r # <<>> /\ Head(r) = r[1] /\ r[1] = a
  BY <1>1
<1>3. t \in Seq(Int) /\ Len(t) = Len(r) - 1 /\ \A n \in 1..(Len(r) - 1) : t[n] = r[n + 1]
  BY <1>1, <1>2
<1> HIDE DEF t
<1>4. a + 1 \in Int /\ b \in Int /\ a + 1 <= b + 1 /\ b - (a + 1) + 1 = b - a
  OBVIOUS
<1>5. Len(t) = b - (a + 1) + 1
  BY <1>1, <1>3
<1>6. \A n \in 1..(b - (a + 1) + 1) : t[n] = (a + 1) + (n - 1)
  <2> SUFFICES ASSUME NEW n \in 1..(b - a) PROVE t[n] = (a + 1) + (n - 1)
    BY <1>4
  <2>1. n + 1 \in 1..(b - a + 1) /\ n \in 1..(Len(r) - 1) /\ a + ((n + 1) - 1) = (a + 1) + (n - 1)
    BY <1>1
  <2>2. t[n] = r[n + 1] /\ r[n + 1] = a + ((n + 1) - 1)
    BY <1>1, <1>3, <2>1
  <2> QED BY <2>1, <2>2
<1>7. t = Run(a + 1, b)
  BY <1>3, <1>4, <1>5, <1>6, RunUnique
<1> QED BY <1>2, <1>7 DEF r, t

LEMMA RunAppend ==
    ASSUME NEW a \in Nat, NEW b \in Nat, a <= b + 1
    PROVE  Run(a, b + 1) = Append(Run(a, b), b + 1)
<1> DEFINE r == Run(a, b)
<1>1. a \in Int /\ b \in Int /\ b + 1 \in Int /\ b <= b + 1
  OBVIOUS
<1>2. r \in Seq(Int) /\ Joined(a, b, b + 1) = Run(a, b + 1)
  BY <1>1, RunType, RunJoin
<1>3. Joined(a, b, b + 1) = r \o <<b + 1>>
  BY <1>1, SingleRun DEF Joined
<1> HIDE DEF r
<1>4. r \o <<b + 1>> = Append(r, b + 1)
  BY <1>2
<1> QED BY <1>2, <1>3, <1>4 DEF r

-----------------------------------------------------------------------------
(* The steps of the queue.                                                 *)

QueueNow == Answers \o Handled \o requests

LEMMA QueueStays ==
    ASSUME PipeInv, PipeInv', First' = First, written' = written
    PROVE  QueueNow' = QueueNow
<1>1. QueueNow = Run(First, written)
  BY MappedQueue DEF QueueNow
<1>2. QueueNow' = Run(First', written')
  BY MappedQueueNext DEF QueueNow
<1> QED BY <1>1, <1>2

LEMMA WriteAsks ==
    ASSUME PipeInv, NEW c \in Caller, Connect(c) \/ Send(c)
    PROVE  Queue!Ask(c)
<1>1. /\ PipeInv' /\ First' = First /\ written' = written + 1
      /\ got' = [got EXCEPT ![c] = 0]
  BY WriteStep DEF Write
<1>2. First \in Nat /\ written \in Nat
  BY BegunType
<1>3. First <= written + 1
  <2>1. CASE lines = <<>>
    <3>1. First = Answered + 1 /\ Answered <= written
      BY <2>1, PipeFacts DEF PipeInv, First, Answered
    <3> QED BY <1>2, <3>1, PipeFacts DEF PipeInv
  <2>2. CASE lines # <<>>
    BY <1>2, <2>2, MappedQueue
  <2> QED BY <2>1, <2>2
<1>4. QueueNow' = Append(QueueNow, written + 1)
  <2>1. QueueNow = Run(First, written)
    BY MappedQueue DEF QueueNow
  <2>2. QueueNow' = Run(First', written')
    BY <1>1, MappedQueueNext DEF QueueNow
  <2> QED BY <1>1, <1>2, <1>3, <2>1, <2>2, RunAppend
<1> QED BY <1>1, <1>4 DEF QueueNow, Queue!Ask

LEMMA TakeReceives ==
    ASSUME PipeInv, NEW c \in Caller, task[c].at = "ready", Take(c)
    PROVE  Queue!Receive(c)
<1>1. /\ PipeInv' /\ written' = written /\ Begun' = First /\ got' = [got EXCEPT ![c] = First]
      /\ lines # <<>>
  <2>1. lines # <<>> /\ got' = [got EXCEPT ![c] = Head(lines).of] /\ Head(lines) = lines[1]
    BY PipeFacts DEF Take, PipeInv
  <2>2. First = lines[1].of
    BY <2>1 DEF First
  <2> QED BY <2>1, <2>2, TakeStep
<1>2. First \in Nat /\ written \in Nat /\ First <= written
  BY <1>1, BegunType, MappedQueue
<1>3. First' = First \/ First' = First + 1
  BY TakeStep
<1>4. /\ QueueNow = Run(First, written) /\ QueueNow' = Run(First', written)
  BY <1>1, MappedQueue, MappedQueueNext DEF QueueNow
<1>5. QueueNow # <<>> /\ Head(QueueNow) = First /\ Tail(QueueNow) = Run(First + 1, written)
  BY <1>2, <1>4, RunHead
<1>6. QueueNow' \in {QueueNow, Tail(QueueNow)}
  BY <1>3, <1>4, <1>5
<1>7. got' = [got EXCEPT ![c] = Head(QueueNow)]
  BY <1>1, <1>5
<1> QED BY <1>1, <1>5, <1>6, <1>7 DEF QueueNow, Queue!Receive

(* Every other step leaves the queue and the answers alone.                *)
LEMMA OtherStutters ==
    ASSUME PipeInv, PipeInv', First' = First, UNCHANGED <<written, got>>
    PROVE  UNCHANGED Queue!queueVars
BY QueueStays DEF QueueNow, Queue!queueVars

\* The pipes and the server refine one queue of answers, for any callers,
\* interleaving, timeout, exit of the server, and reading in pieces: an answer
\* that was passed never comes back, none is skipped, and none comes before its
\* request was written.
THEOREM PipesAreAQueue == StdioSpec => ImplementsAnswerQueue
<1>1. StdioInit => Queue!Init
  <2> SUFFICES ASSUME StdioInit PROVE Queue!Init
    OBVIOUS
  <2>1. lines = <<>> /\ requests = <<>> /\ handling = 0
    BY DEF StdioInit
  <2>2. Answers = <<>>
    <3>1. Answers = AnswersOf(lines)
      BY DEF Answers, AnswersOf, Beginnings, UpTo
    <3>2. lines \in Seq(Piece) /\ Chain(lines, 0)
      BY <2>1 DEF Chain
    <3> QED BY <2>1, <3>1, <3>2, AnswersAreRun
  <2>3. Answers \o Handled \o requests = <<>>
    BY <2>1, <2>2 DEF Handled
  <2> QED BY <2>3 DEF StdioInit, Queue!Init
<1>2. ASSUME StdioInv, StdioInv', [StdioNext]_stdioVars
      PROVE  [Queue!Next]_(Queue!queueVars)
  <2> USE <1>2 DEF StdioInv
  <2>1. CASE ServerReads
    <3>1. First' = First /\ UNCHANGED <<written, got>>
      BY <2>1, ServerReadsStep DEF ServerReads
    <3> QED BY <3>1, OtherStutters
  <2>2. CASE ServerAnswers
    <3>1. First' = First /\ UNCHANGED <<written, got>>
      BY <2>2, ServerAnswersStep DEF ServerAnswers
    <3> QED BY <3>1, OtherStutters
  <2>3. CASE ServerExits
    <3>1. First' = First /\ UNCHANGED <<written, got>>
      BY <2>3, ServerExitsStep DEF ServerExits
    <3> QED BY <3>1, OtherStutters
  <2>4. ASSUME NEW c \in Caller, Connect(c) \/ Send(c)
        PROVE  Queue!Next
    BY <2>4, WriteAsks DEF Queue!Next
  <2>5. ASSUME NEW c \in Caller, Read(c)
        PROVE  Queue!Next \/ UNCHANGED Queue!queueVars
    <3>1. task[c].at = "ready" /\ c \in Busy
      BY <2>5, WhoReads
    <3>2. CASE Take(c)
      BY <3>1, <3>2, TakeReceives DEF Queue!Next
    <3>3. CASE GiveUp(c)
      BY <3>1, <3>3, GiveUpStep, OtherStutters
    <3>4. CASE /\ \A d \in Caller : task[d].at # "waiting"
               /\ task' = [task EXCEPT ![c].at = "waiting"] /\ ready' = Without(c) /\ Still
               /\ UNCHANGED <<connected, process, got, givenUp, scraps, shared>>
      BY <3>1, <3>4, WaitStep, OtherStutters DEF Still
    <3> QED BY <2>5, <3>2, <3>3, <3>4, WhoReads
  <2>6. ASSUME NEW c \in Caller, Timeout(c) \/ Cancelled(c)
        PROVE  UNCHANGED Queue!queueVars
    BY <2>6, GiveUpStep, OtherStutters DEF Timeout, Cancelled, Busy
  <2>7. ASSUME NEW c \in Caller, Disconnect(c)
        PROVE  UNCHANGED Queue!queueVars
    <3>1. First' = First /\ UNCHANGED <<written, got>>
      BY <2>7, DisconnectStep DEF Disconnect
    <3> QED BY <3>1, OtherStutters
  <2>8. ASSUME NEW c \in Caller, Disconnected(c)
        PROVE  UNCHANGED Queue!queueVars
    <3>1. First' = First /\ UNCHANGED <<written, got>>
      BY <2>8, DisconnectedStep DEF Disconnected
    <3> QED BY <3>1, OtherStutters
  <2>9. CASE UNCHANGED stdioVars
    <3>1. Still /\ UNCHANGED <<written, got>>
      BY <2>9 DEF stdioVars, serverVars, Still
    <3> QED BY <3>1, StillOrder, OtherStutters DEF PipeInv
  <2>10. ASSUME NEW c \in Caller, DrainEnds(c)
         PROVE  UNCHANGED Queue!queueVars
    <3>1. CASE GiveUp(c)
      BY <2>10, <3>1, WhoDrains, GiveUpStep, OtherStutters
    <3>2. CASE /\ task[c].at = "drained"
               /\ task' = [task EXCEPT ![c].at = "ready"] /\ ready' = Append(ready, c) /\ Still
               /\ UNCHANGED <<connected, process, got, givenUp, scraps, shared>>
      BY <3>2, DrainedStep, OtherStutters DEF Still
    <3> QED BY <2>10, <3>1, <3>2, WhoDrains
  <2> QED BY <2>1, <2>2, <2>3, <2>4, <2>5, <2>6, <2>7, <2>8, <2>9, <2>10 DEF StdioNext
<1> QED BY <1>1, <1>2, StdioInvariant, PTL DEF StdioSpec, ImplementsAnswerQueue, Queue!Spec
=============================================================================
