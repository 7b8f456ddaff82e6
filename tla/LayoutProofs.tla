---------------------------- MODULE LayoutProofs ----------------------------
(***************************************************************************)
(* Where the bytes of a message lie, and what the fixed-offset path does   *)
(* to them.  The offsets of a message say where its marked spans lie       *)
(* (NotingNotes), the encoder lays the same spans (MessageLaid), alike     *)
(* messages have the same ones (PiecesAlike), and so writing each of them  *)
(* over the encoding of the one gives that of the other (WritesAll).  The  *)
(* fields of the DataSetMessages have one span each (MessageTally).  What  *)
(* has been decoded owns the memory of its members and no more             *)
(* (DecodedAccounts).                                                      *)
(***************************************************************************)
EXTENDS BufferedMessage, MessageProofs

---------------------------------------------------------------------------
(* A walk over the pieces of a message. *)

Marks == Writable \cup {Unmarked, PublisherIdOffset, GroupIdOffset, WriterIdOffset, TimestampOffset,
                        PicosecondsOffset}
Spans == [size : Nat, mark : Marks, dsm : Nat, field : Nat]

\* The pieces P lie one after another from p to q, and G is so of every one and its place.
WalkedBy(P, p, q, G, L) ==
    /\ L \in [0..Len(P) -> Nat] /\ L[0] = p /\ L[Len(P)] = q
    /\ \A k \in 1..Len(P) : L[k] = L[k - 1] + P[k].size /\ <<P[k], L[k - 1]>> \in G
Walk(P, p, q, G) == P \in Seq(Spans) /\ \E L : WalkedBy(P, p, q, G, L)

\* Nothing to walk over.
LEMMA WalkNone ==
    ASSUME NEW p \in Nat, NEW G
    PROVE  Walk(<<>>, p, p, G)
<1> DEFINE L == [k \in 0..0 |-> p]
<1>1. WalkedBy(<<>>, p, p, G, L)
  BY DEF WalkedBy
<1> QED
  BY <1>1 DEF Walk

\* One piece.
LEMMA WalkOne ==
    ASSUME NEW s \in Spans, NEW p \in Nat, NEW G, <<s, p>> \in G
    PROVE  Walk(<<s>>, p, p + s.size, G)
<1>1. s.size \in Nat
  BY DEF Spans
<1> DEFINE L == [k \in 0..1 |-> IF k = 0 THEN p ELSE p + s.size]
<1>2. WalkedBy(<<s>>, p, p + s.size, G, L)
  BY <1>1 DEF WalkedBy
<1> QED
  BY <1>2 DEF Walk

\* One walk behind another.
LEMMA WalkConcat ==
    ASSUME NEW G, NEW P, NEW Q, NEW p, NEW q, NEW r, Walk(P, p, q, G), Walk(Q, q, r, G)
    PROVE  Walk(P \o Q, p, r, G)
<1>1. P \in Seq(Spans) /\ Q \in Seq(Spans)
  BY DEF Walk
<1>2. PICK L : WalkedBy(P, p, q, G, L)
  BY DEF Walk
<1>3. PICK M : WalkedBy(Q, q, r, G, M)
  BY DEF Walk
<1> DEFINE n == Len(P)
           l == Len(Q)
           R == P \o Q
           N == [k \in 0..(n + l) |-> IF k <= n THEN L[k] ELSE M[k - n]]
<1>4. n \in Nat /\ l \in Nat /\ Len(R) = n + l /\ R \in Seq(Spans)
      /\ (\A k \in 1..n : R[k] = P[k]) /\ \A k \in 1..l : R[n + k] = Q[k]
  BY <1>1
<1>5. /\ L \in [0..n -> Nat] /\ L[0] = p /\ L[n] = q
      /\ \A k \in 1..n : L[k] = L[k - 1] + P[k].size /\ <<P[k], L[k - 1]>> \in G
      /\ M \in [0..l -> Nat] /\ M[0] = q /\ M[l] = r
      /\ \A k \in 1..l : M[k] = M[k - 1] + Q[k].size /\ <<Q[k], M[k - 1]>> \in G
  BY <1>2, <1>3 DEF WalkedBy
<1> HIDE DEF R, n, l
<1>6. N \in [0..(n + l) -> Nat] /\ N[0] = p /\ N[n + l] = r
  BY <1>4, <1>5
<1>7. ASSUME NEW k \in 1..(n + l)
      PROVE  N[k] = N[k - 1] + R[k].size /\ <<R[k], N[k - 1]>> \in G
  <2>1. CASE k <= n
    <3>1. k \in 1..n /\ k - 1 <= n /\ N[k] = L[k] /\ N[k - 1] = L[k - 1]
      BY <1>4, <2>1
    <3> QED
      BY <1>4, <1>5, <3>1
  <2>2. CASE k > n
    <3>1. PICK i \in 1..l : k = n + i
      BY <1>4, <2>2
    <3>2. N[k] = M[i]
      <4>1. ~ (k <= n) /\ k - n = i /\ k \in 0..(n + l)
        BY <1>4, <2>2, <3>1
      <4> QED
        BY <4>1
    <3>4. N[k - 1] = M[i - 1]
      <4>1. CASE i = 1
        <5>1. k - 1 = n /\ n <= n /\ n \in 0..(n + l) /\ i - 1 = 0
          BY <1>4, <3>1, <4>1
        <5>2. N[n] = L[n]
          BY <5>1
        <5> QED
          BY <1>5, <5>1, <5>2
      <4>2. CASE i # 1
        <5>1. ~ (k - 1 <= n) /\ (k - 1) - n = i - 1 /\ k - 1 \in 0..(n + l)
          BY <1>4, <3>1, <4>2
        <5> QED
          BY <5>1
      <4> QED
        BY <4>1, <4>2
    <3>3. R[k] = Q[i]
      BY <1>4, <3>1
    <3> QED
      BY <1>5, <3>1, <3>2, <3>3, <3>4
  <2> QED
    BY <1>4, <2>1, <2>2
<1> HIDE DEF N
<1>8. WalkedBy(R, p, r, G, N)
  BY <1>4, <1>6, <1>7 DEF WalkedBy
<1> QED
  BY <1>4, <1>8 DEF Walk, R

---------------------------------------------------------------------------
(* The offsets that calcSize notes. *)

OffsetAt(s, pos) == [type |-> s.mark, offset |-> pos, dsm |-> s.dsm, field |-> s.field]
Located == [type : Marks, offset : Nat, dsm : Nat, field : Nat]
Notes   == [size : Nat, offsets : Seq(Located)]

\* f[k] is what has been noted of the first k pieces.
NotedBy(P, f) ==
    /\ f[0] = [size |-> 0, offsets |-> <<>>]
    /\ \A k \in 1..Len(P) : f[k] = Noted(f[k - 1], P[k])

\* The loop over the pieces notes them one by one.
LEMMA NotingRuns ==
    ASSUME NEW P, Len(P) \in Nat
    PROVE  \E f : NotedBy(P, f) /\ Noting(P) = f[Len(P)]
<1> DEFINE n == Len(P)
           zero == [size |-> 0, offsets |-> <<>>]
           Runs(f, m) == f = [k \in 0..m |-> IF k = 0 THEN zero ELSE Noted(f[k - 1], P[k])]
           Has(m) == \E f : Runs(f, m)
<1> HIDE DEF zero
<1>1. Has(0)
  <2>1. Runs([k \in 0..0 |-> zero], 0)
    OBVIOUS
  <2> QED
    BY <2>1
<1>2. ASSUME NEW m \in Nat, Has(m)
      PROVE  Has(m + 1)
  <2>1. PICK f : Runs(f, m)
    BY <1>2
  <2> DEFINE g == [k \in 0..(m + 1) |-> IF k = m + 1 THEN Noted(f[m], P[k]) ELSE f[k]]
  <2>2. ASSUME NEW k \in 0..(m + 1)
        PROVE  g[k] = IF k = 0 THEN zero ELSE Noted(g[k - 1], P[k])
    <3>1. CASE k = m + 1
      <4>1. k # 0 /\ k - 1 = m /\ m # m + 1 /\ m \in 0..(m + 1)
        BY <3>1
      <4>2. g[m] = f[m]
        BY <4>1
      <4> QED
        BY <3>1, <4>1, <4>2
    <3>2. CASE k # m + 1
      <4>1. k \in 0..m /\ (k # 0 => k - 1 \in 0..(m + 1) /\ k - 1 # m + 1)
        BY <3>2
      <4>2. f[k] = IF k = 0 THEN zero ELSE Noted(f[k - 1], P[k])
        BY <2>1, <4>1
      <4>3. g[k] = f[k] /\ (k # 0 => g[k - 1] = f[k - 1])
        BY <3>2, <4>1
      <4> QED
        BY <4>2, <4>3
    <3> QED
      BY <3>1, <3>2
  <2>3. Runs(g, m + 1)
    <3> DEFINE h == [k \in 0..(m + 1) |-> IF k = 0 THEN zero ELSE Noted(g[k - 1], P[k])]
    <3>1. \A k \in 0..(m + 1) : g[k] = h[k]
      <4> TAKE k \in 0..(m + 1)
      <4>1. h[k] = IF k = 0 THEN zero ELSE Noted(g[k - 1], P[k])
        OBVIOUS
      <4> HIDE DEF g, h
      <4> QED
        BY <2>2, <4>1
    <3>2. g = h
      <4>1. g = [k \in 0..(m + 1) |-> g[k]] /\ h = [k \in 0..(m + 1) |-> h[k]]
        OBVIOUS
      <4> HIDE DEF g, h
      <4> QED
        BY <3>1, <4>1
    <3> HIDE DEF g
    <3> QED
      BY <3>2
  <2> QED
    BY <2>3
<1> DEFINE T == {m \in Nat : Has(m)}
<1>3. Has(n)
  <2> HIDE DEF Has
  <2>1. 0 \in T /\ \A m \in Nat : m \in T => m + 1 \in T
    BY <1>1, <1>2
  <2>2. n \in T
    <3> HIDE DEF T
    <3> QED
      BY <2>1, Induction
  <2> QED
    BY <2>2
<1> DEFINE F == CHOOSE f : Runs(f, n)
<1>4. Runs(F, n)
  BY <1>3
<1>5. Noting(P) = F[n]
  BY DEF Noting, zero
<1> HIDE DEF F
<1>6. NotedBy(P, F)
  <2>1. F[0] = zero
    BY <1>4
  <2>2. ASSUME NEW k \in 1..n
        PROVE  F[k] = Noted(F[k - 1], P[k])
    <3>1. k \in 0..n /\ k # 0
      OBVIOUS
    <3> QED
      BY <1>4, <3>1
  <2> QED
    BY <2>1, <2>2 DEF NotedBy, zero
<1> QED
  BY <1>5, <1>6

\* L has the places of the pieces P, and J how many of them have been noted in O.
Noticed(P, L, J, O) ==
    /\ O \in Seq(Located) /\ L \in [0..Len(P) -> Nat] /\ L[0] = 0
    /\ J \in [0..Len(P) -> 0..Len(O)] /\ J[0] = 0 /\ J[Len(P)] = Len(O)
    /\ \A k \in 1..Len(P) :
          /\ L[k] = L[k - 1] + P[k].size
          /\ P[k].mark = Unmarked => J[k] = J[k - 1]
          /\ P[k].mark # Unmarked => J[k] = J[k - 1] + 1 /\ O[J[k]] = OffsetAt(P[k], L[k - 1])

\* One piece more is noted at the end of those before it, if it is marked.
LEMMA NotedMore ==
    ASSUME NEW a \in Notes, NEW s \in Spans, NEW b, b = Noted(a, s)
    PROVE  /\ b \in Notes /\ b.size = a.size + s.size
           /\ s.mark = Unmarked => b.offsets = a.offsets
           /\ s.mark # Unmarked => b.offsets = Append(a.offsets, OffsetAt(s, a.size))
<1> DEFINE o == OffsetAt(s, a.size)
<1>1. a.size \in Nat /\ a.offsets \in Seq(Located) /\ s.size \in Nat /\ s.mark \in Marks
      /\ s.dsm \in Nat /\ s.field \in Nat
  BY DEF Notes, Spans
<1>2. o \in Located
  BY <1>1 DEF OffsetAt, Located
<1>3. b = [size |-> a.size + s.size, offsets |-> IF s.mark = Unmarked THEN a.offsets ELSE Append(a.offsets, o)]
  BY DEF Noted, OffsetAt
<1> HIDE DEF o
<1>4. Append(a.offsets, o) \in Seq(Located)
  BY <1>1, <1>2
<1>5. b.size = a.size + s.size /\ b.offsets = (IF s.mark = Unmarked THEN a.offsets ELSE Append(a.offsets, o))
  BY <1>3
<1>6. b \in Notes
  BY <1>1, <1>3, <1>4 DEF Notes
<1> QED
  BY <1>5, <1>6 DEF o

\* The offsets noted of a message are its marked pieces in order.
LEMMA NotingNotes ==
    ASSUME NEW P \in Seq(Spans), NEW O, O = Noting(P).offsets
    PROVE  \E L, J : Noticed(P, L, J, O)
<1> DEFINE n == Len(P)
<1>1. n \in Nat
  OBVIOUS
<1>2. PICK f : NotedBy(P, f) /\ Noting(P) = f[n]
  BY <1>1, NotingRuns
<1>3. f[0] = [size |-> 0, offsets |-> <<>>] /\ \A k \in 1..n : P[k] \in Spans /\ f[k] = Noted(f[k - 1], P[k])
  BY <1>2 DEF NotedBy
<1> HIDE DEF n
<1>4. \A k \in 0..n : f[k] \in Notes
  <2> DEFINE T == {k \in Nat : k <= n => f[k] \in Notes}
  <2>1. 0 \in T
    <3>1. <<>> \in Seq(Located)
      OBVIOUS
    <3>2. f[0] \in Notes
      BY <1>3, <3>1 DEF Notes
    <3> QED
      BY <3>2
  <2>2. ASSUME NEW k \in Nat, k \in T
        PROVE  k + 1 \in T
    <3> SUFFICES ASSUME k + 1 <= n PROVE f[k + 1] \in Notes
      OBVIOUS
    <3>1. k <= n /\ k + 1 \in 1..n /\ (k + 1) - 1 = k
      BY <1>1
    <3> QED
      BY <1>3, <2>2, <3>1, NotedMore
  <2> HIDE DEF T
  <2>3. \A k \in Nat : k \in T
    BY <2>1, <2>2, Induction
  <2> QED
    BY <1>1, <2>3 DEF T
<1> DEFINE L == [k \in 0..n |-> f[k].size]
           J == [k \in 0..n |-> Len(f[k].offsets)]
<1>5. \A k \in 0..n : f[k].offsets \in Seq(Located) /\ Len(f[k].offsets) \in Nat /\ f[k].size \in Nat
  BY <1>4 DEF Notes
<1>6. \A k \in 1..n : /\ f[k].size = f[k - 1].size + P[k].size
                      /\ P[k].mark = Unmarked => f[k].offsets = f[k - 1].offsets
                      /\ P[k].mark # Unmarked =>
                            f[k].offsets = Append(f[k - 1].offsets, OffsetAt(P[k], f[k - 1].size))
  <2> TAKE k \in 1..n
  <2>1. k - 1 \in 0..n
    BY <1>1
  <2>2. f[k - 1] \in Notes /\ P[k] \in Spans /\ f[k] = Noted(f[k - 1], P[k])
    BY <1>3, <1>4, <2>1
  <2> DEFINE a == f[k - 1]
             b == f[k]
             s == P[k]
  <2>3. a \in Notes /\ s \in Spans /\ b = Noted(a, s)
    BY <2>2
  <2> HIDE DEF a, b, s
  <2>4. /\ b.size = a.size + s.size
        /\ s.mark = Unmarked => b.offsets = a.offsets
        /\ s.mark # Unmarked => b.offsets = Append(a.offsets, OffsetAt(s, a.size))
    BY <2>3, NotedMore
  <2> QED
    BY <2>4 DEF a, b, s
<1>7. \A l \in 0..n : \A k \in 0..l : /\ Len(f[k].offsets) <= Len(f[l].offsets)
                                      /\ \A i \in 1..Len(f[k].offsets) : f[l].offsets[i] = f[k].offsets[i]
  <2> DEFINE Q(k, l) == /\ Len(f[k].offsets) <= Len(f[l].offsets)
                        /\ \A i \in 1..Len(f[k].offsets) : f[l].offsets[i] = f[k].offsets[i]
             T == {l \in Nat : l <= n => \A k \in 0..l : Q(k, l)}
  <2>1. 0 \in T
    <3>1. \A k \in 0..0 : k = 0
      OBVIOUS
    <3>2. Q(0, 0)
      BY <1>1, <1>5
    <3> HIDE DEF Q
    <3> QED
      BY <3>1, <3>2
  <2>2. ASSUME NEW l \in Nat, l \in T
        PROVE  l + 1 \in T
    <3> SUFFICES ASSUME l + 1 <= n, NEW k \in 0..(l + 1) PROVE Q(k, l + 1)
      <4> HIDE DEF Q
      <4> QED
        OBVIOUS
    <3>1. l <= n /\ l + 1 \in 1..n /\ (l + 1) - 1 = l /\ l \in 0..n /\ l + 1 \in 0..n
      BY <1>1
    <3>2. Q(l, l + 1)
      <4> DEFINE a == f[l].offsets
                 b == f[l + 1].offsets
                 e == OffsetAt(P[l + 1], f[l].size)
      <4>1. a \in Seq(Located) /\ (b = a \/ b = Append(a, e))
        BY <1>5, <1>6, <3>1
      <4> HIDE DEF a, b, e
      <4>2. Len(a) <= Len(b) /\ \A i \in 1..Len(a) : b[i] = a[i]
        BY <4>1
      <4> QED
        BY <4>2 DEF a, b
    <3>3. CASE k = l + 1
      <4>1. Len(f[k].offsets) \in Nat
        BY <1>5, <3>1, <3>3
      <4> QED
        BY <3>3, <4>1
    <3>4. CASE k # l + 1
      <4>1. k \in 0..l /\ k \in 0..n
        <5> HIDE DEF T
        <5> QED
          BY <1>1, <3>1, <3>4
      <4>2. Q(k, l)
        <5> HIDE DEF Q
        <5> QED
          BY <2>2, <3>1, <4>1
      <4>3. Len(f[k].offsets) \in Nat /\ Len(f[l].offsets) \in Nat /\ Len(f[l + 1].offsets) \in Nat
        BY <1>5, <3>1, <4>1
      <4> DEFINE a == f[k].offsets
                 b == f[l].offsets
                 c == f[l + 1].offsets
      <4>4. /\ Len(a) <= Len(b) /\ \A i \in 1..Len(a) : b[i] = a[i]
            /\ Len(b) <= Len(c) /\ \A i \in 1..Len(b) : c[i] = b[i]
            /\ Len(a) \in Nat /\ Len(b) \in Nat /\ Len(c) \in Nat
        BY <3>2, <4>2, <4>3
      <4> HIDE DEF a, b, c, T
      <4>5. Len(a) <= Len(c) /\ \A i \in 1..Len(a) : c[i] = a[i]
        BY <4>4
      <4> QED
        BY <4>5 DEF a, c
    <3> QED
      BY <3>3, <3>4
  <2> HIDE DEF Q
  <2>3. \A l \in Nat : l \in T
    <3> HIDE DEF T
    <3> QED
      BY <2>1, <2>2, Induction
  <2>4. \A l \in 0..n : \A k \in 0..l : Q(k, l)
    BY <1>1, <2>3
  <2> QED
    BY <2>4 DEF Q
<1>8. O = f[n].offsets
  BY <1>2 DEF n
<1>9. \A k \in 0..n : /\ Len(f[k].offsets) <= Len(O)
                      /\ \A i \in 1..Len(f[k].offsets) : O[i] = f[k].offsets[i]
  BY <1>1, <1>7, <1>8
<1>10. /\ O \in Seq(Located) /\ L \in [0..n -> Nat] /\ L[0] = 0
       /\ J \in [0..n -> 0..Len(O)] /\ J[0] = 0 /\ J[n] = Len(O)
  <2>1. O \in Seq(Located) /\ L \in [0..n -> Nat] /\ J[n] = Len(O)
    BY <1>1, <1>5, <1>8
  <2>2. J \in [0..n -> 0..Len(O)]
    BY <1>5, <1>9, <2>1
  <2>3. L[0] = 0 /\ J[0] = 0
    BY <1>1, <1>3
  <2> QED
    BY <2>1, <2>2, <2>3
<1>11. ASSUME NEW k \in 1..n
       PROVE  /\ L[k] = L[k - 1] + P[k].size
              /\ P[k].mark = Unmarked => J[k] = J[k - 1]
              /\ P[k].mark # Unmarked => J[k] = J[k - 1] + 1 /\ O[J[k]] = OffsetAt(P[k], L[k - 1])
  <2>1. k \in 0..n /\ k - 1 \in 0..n
    BY <1>1
  <2> DEFINE a == f[k - 1].offsets
             b == f[k].offsets
             e == OffsetAt(P[k], f[k - 1].size)
  <2>2. L[k] = f[k].size /\ L[k - 1] = f[k - 1].size /\ J[k] = Len(b) /\ J[k - 1] = Len(a)
    BY <2>1
  <2>3. a \in Seq(Located) /\ (P[k].mark = Unmarked => b = a) /\ (P[k].mark # Unmarked => b = Append(a, e))
        /\ \A i \in 1..Len(b) : O[i] = b[i]
    BY <1>5, <1>6, <1>9, <2>1
  <2>4. f[k].size = f[k - 1].size + P[k].size
    BY <1>6
  <2>5. e = OffsetAt(P[k], L[k - 1])
    BY <2>2
  <2> HIDE DEF a, b, e, L, J
  <2>6. CASE P[k].mark = Unmarked
    BY <2>2, <2>3, <2>4, <2>6
  <2>7. CASE P[k].mark # Unmarked
    <3>1. b = Append(a, e) /\ Len(b) = Len(a) + 1 /\ b[Len(b)] = e /\ Len(b) \in 1..Len(b)
      BY <2>3, <2>7
    <3>2. O[Len(b)] = e
      BY <2>3, <3>1
    <3> QED
      BY <2>2, <2>4, <2>5, <2>7, <3>1, <3>2
  <2> QED
    BY <2>6, <2>7
<1> HIDE DEF L, J
<1>12. Noticed(P, L, J, O)
  <2> USE DEF n
  <2> QED
    BY <1>10, <1>11 DEF Noticed
<1> QED
  BY <1>12

\* The places in a walk from the start are those noticed.
LEMMA SamePlaces ==
    ASSUME NEW P \in Seq(Spans), NEW q, NEW G, NEW L, WalkedBy(P, 0, q, G, L), NEW M, NEW J, NEW O,
           Noticed(P, M, J, O)
    PROVE  \A k \in 0..Len(P) : M[k] = L[k]
<1> DEFINE n == Len(P)
           T == {k \in Nat : k <= n => M[k] = L[k]}
<1>1. n \in Nat /\ L[0] = 0 /\ M[0] = 0 /\ \A k \in 1..n : L[k] = L[k - 1] + P[k].size /\ M[k] = M[k - 1] + P[k].size
  <2>1. n \in Nat
    OBVIOUS
  <2>2. L[0] = 0 /\ \A k \in 1..n : L[k] = L[k - 1] + P[k].size
    BY DEF WalkedBy
  <2>3. M[0] = 0 /\ \A k \in 1..n : M[k] = M[k - 1] + P[k].size
    BY DEF Noticed
  <2> QED
    BY <2>1, <2>2, <2>3
<1> HIDE DEF n
<1>2. 0 \in T
  BY <1>1
<1>3. ASSUME NEW k \in Nat, k \in T
      PROVE  k + 1 \in T
  <2> SUFFICES ASSUME k + 1 <= n PROVE M[k + 1] = L[k + 1]
    OBVIOUS
  <2>1. k <= n /\ k + 1 \in 1..n /\ (k + 1) - 1 = k
    BY <1>1
  <2>2. M[k] = L[k] /\ L[k + 1] = L[k] + P[k + 1].size /\ M[k + 1] = M[k] + P[k + 1].size
    BY <1>1, <1>3, <2>1
  <2> QED
    BY <2>2
<1> HIDE DEF T
<1>4. \A k \in Nat : k \in T
  BY <1>2, <1>3, Induction
<1> QED
  BY <1>1, <1>4 DEF T, n

---------------------------------------------------------------------------
(* The loop of updateBufferedMessage. *)

\* f[k] is what updateBufferedMessage has made of out with the first k offsets.
WrittenBy(out, O, m, f) ==
    /\ f[0] = [rv |-> "Good", stop |-> FALSE, out |-> out]
    /\ \A k \in 1..Len(O) : f[k] = WriteOffset(f[k - 1], O[k], m)

\* The loop over the offsets writes them one by one.
LEMMA UpdateRuns ==
    ASSUME NEW out, NEW m, NEW O, Len(O) \in Nat
    PROVE  \E f : WrittenBy(out, O, m, f) /\ UpdateBufferedMessage(out, O, m) = f[Len(O)]
<1> DEFINE n == Len(O)
           zero == [rv |-> "Good", stop |-> FALSE, out |-> out]
           Runs(f, h) == f = [k \in 0..h |-> IF k = 0 THEN zero ELSE WriteOffset(f[k - 1], O[k], m)]
           Has(h) == \E f : Runs(f, h)
<1> HIDE DEF zero
<1>1. Has(0)
  <2>1. Runs([k \in 0..0 |-> zero], 0)
    OBVIOUS
  <2> QED
    BY <2>1
<1>2. ASSUME NEW h \in Nat, Has(h)
      PROVE  Has(h + 1)
  <2>1. PICK f : Runs(f, h)
    BY <1>2
  <2> DEFINE g == [k \in 0..(h + 1) |-> IF k = h + 1 THEN WriteOffset(f[h], O[k], m) ELSE f[k]]
  <2>2. ASSUME NEW k \in 0..(h + 1)
        PROVE  g[k] = IF k = 0 THEN zero ELSE WriteOffset(g[k - 1], O[k], m)
    <3>1. CASE k = h + 1
      <4>1. k # 0 /\ k - 1 = h /\ h # h + 1 /\ h \in 0..(h + 1)
        BY <3>1
      <4>2. g[h] = f[h]
        BY <4>1
      <4> QED
        BY <3>1, <4>1, <4>2
    <3>2. CASE k # h + 1
      <4>1. k \in 0..h /\ (k # 0 => k - 1 \in 0..(h + 1) /\ k - 1 # h + 1)
        BY <3>2
      <4>2. f[k] = IF k = 0 THEN zero ELSE WriteOffset(f[k - 1], O[k], m)
        BY <2>1, <4>1
      <4>3. g[k] = f[k] /\ (k # 0 => g[k - 1] = f[k - 1])
        BY <3>2, <4>1
      <4> QED
        BY <4>2, <4>3
    <3> QED
      BY <3>1, <3>2
  <2>3. Runs(g, h + 1)
    <3> DEFINE w == [k \in 0..(h + 1) |-> IF k = 0 THEN zero ELSE WriteOffset(g[k - 1], O[k], m)]
    <3>1. \A k \in 0..(h + 1) : g[k] = w[k]
      <4> TAKE k \in 0..(h + 1)
      <4>1. w[k] = IF k = 0 THEN zero ELSE WriteOffset(g[k - 1], O[k], m)
        OBVIOUS
      <4> HIDE DEF g, w
      <4> QED
        BY <2>2, <4>1
    <3>2. g = w
      <4>1. g = [k \in 0..(h + 1) |-> g[k]] /\ w = [k \in 0..(h + 1) |-> w[k]]
        OBVIOUS
      <4> HIDE DEF g, w
      <4> QED
        BY <3>1, <4>1
    <3> HIDE DEF g
    <3> QED
      BY <3>2
  <2> QED
    BY <2>3
<1> DEFINE T == {h \in Nat : Has(h)}
<1>3. Has(n)
  <2> HIDE DEF Has
  <2>1. 0 \in T /\ \A h \in Nat : h \in T => h + 1 \in T
    BY <1>1, <1>2
  <2>2. n \in T
    <3> HIDE DEF T
    <3> QED
      BY <2>1, Induction
  <2> QED
    BY <2>2
<1> DEFINE F == CHOOSE f : Runs(f, n)
<1>4. Runs(F, n)
  BY <1>3
<1>5. UpdateBufferedMessage(out, O, m) = F[n]
  BY DEF UpdateBufferedMessage, zero
<1> HIDE DEF F
<1>6. WrittenBy(out, O, m, F)
  <2>1. F[0] = zero
    BY <1>4
  <2>2. ASSUME NEW k \in 1..n
        PROVE  F[k] = WriteOffset(F[k - 1], O[k], m)
    <3>1. k \in 0..n /\ k # 0
      OBVIOUS
    <3> QED
      BY <1>4, <3>1
  <2> QED
    BY <2>1, <2>2 DEF WrittenBy, zero
<1> QED
  BY <1>5, <1>6

---------------------------------------------------------------------------
(* What stands at the marked pieces, and what updateBufferedMessage writes. *)

\* The bytes of a marked piece of the message m.
Marked(s, m) ==
    CASE s.mark = PublisherIdOffset -> PublisherBytes(m)
      [] s.mark = GroupIdOffset     -> LE(m.val["writerGroupId"], 2)
      [] s.mark = WriterIdOffset    -> NumbersBytes(m.ids, Len(m.ids), 2)
      [] s.mark = SequenceOffset    -> LE(m.val["sequenceNumber"], 2)
      [] s.mark = DSMSequenceOffset -> LE(m.dsms[s.dsm].val["sequenceNr"], 2)
      [] s.mark = TimestampOffset   -> LE(m.val["timestamp"], 8)
      [] s.mark = PicosecondsOffset -> LE(m.val["picoseconds"], 2)
      [] s.mark = DataValueOffset   -> EncodeDataValue(m.dsms[s.dsm].fields[s.field])
      [] s.mark = VariantOffset     -> EncodeVariant(m.dsms[s.dsm].fields[s.field].value)

\* Where the marks stand.
Legal(s, m, reader) ==
    /\ s.mark \in {PublisherIdOffset, GroupIdOffset, WriterIdOffset} => reader
    /\ s.mark = TimestampOffset => "timestamp" \in m.on
    /\ s.mark = PicosecondsOffset => "picoseconds" \in m.on
    /\ s.mark \in {DSMSequenceOffset, DataValueOffset, VariantOffset} => s.dsm \in 1..DSMCount(m)
    /\ s.mark = DSMSequenceOffset => "sequenceNr" \in m.dsms[s.dsm].on
    /\ s.mark \in {DataValueOffset, VariantOffset} =>
          /\ m.dsms[s.dsm].type = KeyFrame /\ s.field \in 1..Len(m.dsms[s.dsm].fields)
          /\ s.mark = DataValueOffset <=> m.dsms[s.dsm].enc # VariantEncoding
    /\ s.mark = DataValueOffset => m.dsms[s.dsm].enc = DataValueEncoding

\* x and y have the same bytes behind p up to q.
SameIn(x, y, p, q) == \A i \in (p + 1)..q : y[i] = x[i]

\* The piece s of m stands at pos of y, which has the bytes of x but for the marked pieces.
Holding(s, pos, x, y, m, reader) ==
    /\ Legal(s, m, reader)
    /\ s.mark = Unmarked => SameIn(x, y, pos, pos + s.size)
    /\ s.mark # Unmarked => /\ Marked(s, m) \in Seq(Octet) /\ Len(Marked(s, m)) = s.size
                            /\ Follows(y, pos, Marked(s, m))
Good(x, y, m, reader) == {t \in Spans \X Nat : Holding(t[1], t[2], x, y, m, reader)}

\* updateBufferedMessage writes at a marked piece of m what belongs there.
WritesMarked(m) ==
    \A s \in Spans, pos \in Nat : Legal(s, m, FALSE) /\ s.mark # Unmarked
        => s.mark \in Writable /\ NewContent(OffsetAt(s, pos), m) = Marked(s, m)

\* The first l bytes of y, and behind them those of x.
Mixed(x, y, l) == [i \in 1..Len(x) |-> IF i <= l THEN y[i] ELSE x[i]]
Writing(out)   == [rv |-> "Good", stop |-> FALSE, out |-> out]

\* The buffer changes, and the status stays.
LEMMA WritingMore ==
    ASSUME NEW out, NEW b, NEW a, a = Writing(out), NEW c, c = [a EXCEPT !.rv = "Good", !.out = b]
    PROVE  c = Writing(b)
<1> DEFINE e == Writing(b)
<1>1. c = [f \in {"rv", "stop", "out"} |-> c[f]] /\ e = [f \in {"rv", "stop", "out"} |-> e[f]]
  BY DEF Writing
<1>2. c.rv = e.rv /\ c.stop = e.stop /\ c.out = e.out
  BY DEF Writing
<1> HIDE DEF e
<1>3. c = e
  BY <1>1, <1>2
<1> QED
  BY <1>3 DEF e

\* One offset is written.
LEMMA WriteOne ==
    ASSUME NEW out, NEW m, NEW o, o.type \in Writable, NEW c, c = NewContent(o, m), o.offset + Len(c) <= Len(out)
    PROVE  WriteOffset(Writing(out), o, m) = Writing(Overwrite(out, o.offset, c))
<1> DEFINE a == Writing(out)
<1>1. a.stop = FALSE /\ a.out = out /\ a.rv = "Good"
  BY DEF Writing
<1>2. WriteOffset(a, o, m) = [a EXCEPT !.rv = "Good", !.out = Overwrite(a.out, o.offset, c)]
  <2> HIDE DEF a
  <2> QED
    BY <1>1 DEF WriteOffset
<1> DEFINE b == Overwrite(out, o.offset, c)
           e == WriteOffset(a, o, m)
<1>3. Overwrite(a.out, o.offset, c) = b
  BY <1>1
<1> HIDE DEF a, b
<1>4. e = [a EXCEPT !.rv = "Good", !.out = b]
  BY <1>2, <1>3
<1>5. a = Writing(out)
  BY DEF a
<1> HIDE DEF e
<1>6. e = Writing(b)
  BY <1>4, <1>5, WritingMore
<1> QED
  BY <1>6 DEF a, b, e

\* The bytes of a marked piece are written.
LEMMA MixedMore ==
    ASSUME NEW x \in Seq(Octet), NEW y \in Seq(Octet), Len(y) = Len(x), NEW l \in Nat, NEW c \in Seq(Octet),
           l + Len(c) <= Len(x), Follows(y, l, c)
    PROVE  Overwrite(Mixed(x, y, l), l, c) = Mixed(x, y, l + Len(c))
<1> DEFINE n == Len(x)
           z == Len(c)
           a == Mixed(x, y, l)
           b == Overwrite(a, l, c)
           e == Mixed(x, y, l + z)
<1>1. n \in Nat /\ z \in Nat /\ Len(y) = n /\ l + z <= n
  OBVIOUS
<1>2. DOMAIN a = 1..n /\ \A i \in 1..n : a[i] = IF i <= l THEN y[i] ELSE x[i]
  BY DEF Mixed
<1>3. \A i \in 1..n : e[i] = IF i <= l + z THEN y[i] ELSE x[i]
  BY DEF Mixed
<1>4. b = [i \in 1..n |-> IF i \in (l + 1)..(l + z) THEN c[i - l] ELSE a[i]]
  <2> HIDE DEF a
  <2> QED
    BY <1>2 DEF Overwrite
<1>5. \A i \in 1..z : y[l + i] = c[i]
  <2> TAKE i \in 1..z
  <2>1. l + i <= n
    BY <1>1
  <2> QED
    BY <2>1 DEF Follows
<1>6. e = [i \in 1..n |-> IF i <= l + z THEN y[i] ELSE x[i]]
  BY DEF Mixed
<1> HIDE DEF n, z, a, b, e
<1>7. \A i \in 1..n : b[i] = e[i]
  <2> TAKE i \in 1..n
  <2>1. CASE i \in (l + 1)..(l + z)
    <3>1. i - l \in 1..z /\ l + (i - l) = i /\ i <= l + z
      BY <1>1, <2>1
    <3>2. y[i] = c[i - l]
      BY <1>5, <3>1
    <3> QED
      BY <1>3, <1>4, <2>1, <3>1, <3>2
  <2>2. CASE i \notin (l + 1)..(l + z)
    <3>1. i <= l + z <=> i <= l
      BY <1>1, <2>2
    <3> QED
      BY <1>2, <1>3, <1>4, <2>2, <3>1
  <2> QED
    BY <2>1, <2>2
<1>8. b = [i \in 1..n |-> b[i]] /\ e = [i \in 1..n |-> e[i]]
  BY <1>4, <1>6
<1>9. b = e
  BY <1>7, <1>8
<1> QED
  BY <1>9 DEF b, e, a, z

\* The bytes of an unmarked piece stay.
LEMMA MixedSame ==
    ASSUME NEW x \in Seq(Octet), NEW y \in Seq(Octet), NEW l \in Nat, NEW k \in Nat, SameIn(x, y, l, l + k)
    PROVE  Mixed(x, y, l) = Mixed(x, y, l + k)
<1>1. Len(x) \in Nat
  OBVIOUS
<1> QED
  BY <1>1 DEF Mixed, SameIn

\* The places of a walk lie between its ends.
LEMMA PlacesGrow ==
    ASSUME NEW P \in Seq(Spans), NEW p, NEW q, NEW G, NEW L, WalkedBy(P, p, q, G, L)
    PROVE  \A k \in 0..Len(P) : L[k] \in Nat /\ p <= L[k] /\ L[k] <= q
<1> DEFINE n == Len(P)
           T == {l \in Nat : l <= n => \A k \in 0..l : L[k] <= L[l]}
<1>1. n \in Nat /\ \A k \in 1..n : P[k] \in Spans
  OBVIOUS
<1>2. L \in [0..n -> Nat] /\ L[0] = p /\ L[n] = q /\ \A k \in 1..n : L[k] = L[k - 1] + P[k].size
  BY DEF WalkedBy
<1> HIDE DEF n
<1>3. \A k \in 1..n : L[k - 1] <= L[k]
  <2> TAKE k \in 1..n
  <2>1. k - 1 \in 0..n /\ P[k].size \in Nat
    BY <1>1 DEF Spans
  <2> QED
    BY <1>2, <2>1
<1>4. 0 \in T
  BY <1>1, <1>2
<1>5. ASSUME NEW l \in Nat, l \in T
      PROVE  l + 1 \in T
  <2> SUFFICES ASSUME l + 1 <= n, NEW k \in 0..(l + 1) PROVE L[k] <= L[l + 1]
    OBVIOUS
  <2>1. l <= n /\ l + 1 \in 1..n /\ (l + 1) - 1 = l /\ l \in 0..n /\ l + 1 \in 0..n /\ k \in 0..n
    BY <1>1
  <2>2. L[l] <= L[l + 1] /\ L[l] \in Nat /\ L[l + 1] \in Nat /\ L[k] \in Nat
    BY <1>2, <1>3, <2>1
  <2>3. k # l + 1 => L[k] <= L[l]
    BY <1>5, <2>1
  <2> QED
    BY <2>2, <2>3
<1>6. \A l \in Nat : l \in T
  <2> HIDE DEF T
  <2> QED
    BY <1>4, <1>5, Induction
<1>7. \A k \in 0..n : L[k] <= L[n] /\ L[0] <= L[k]
  <2>1. \A l \in 0..n : \A k \in 0..l : L[k] <= L[l]
    BY <1>1, <1>6
  <2> QED
    BY <1>1, <2>1
<1> QED
  BY <1>2, <1>7 DEF n

\* The bytes of two alike messages along the pieces, and behind them.
Along(x, y, m, P, q, reader) ==
    /\ x \in Seq(Octet) /\ y \in Seq(Octet) /\ Len(y) = Len(x) /\ q \in Nat /\ q <= Len(x)
    /\ P \in Seq(Spans) /\ Walk(P, 0, q, Good(x, y, m, reader)) /\ SameIn(x, y, q, Len(x))

\* Along the pieces of the publisher.
Publishing(x, y, m, P, q) == Along(x, y, m, P, q, FALSE)

\* A message of which every changing value has an offset of its own is written in place.
LEMMA WritesAll ==
    ASSUME NEW x, NEW y, NEW m, NEW P, NEW q, Publishing(x, y, m, P, q), WritesMarked(m),
           NEW O, O = Noting(P).offsets, NEW u, u = UpdateBufferedMessage(x, O, m)
    PROVE  u.rv = "Good" /\ u.out = y
<1>0. /\ x \in Seq(Octet) /\ y \in Seq(Octet) /\ Len(y) = Len(x) /\ q <= Len(x)
      /\ P \in Seq(Spans) /\ Walk(P, 0, q, Good(x, y, m, FALSE)) /\ SameIn(x, y, q, Len(x))
  BY DEF Along, Publishing
<1> USE <1>0
<1> DEFINE n == Len(P)
<1>1. PICK L : WalkedBy(P, 0, q, Good(x, y, m, FALSE), L)
  BY DEF Walk
<1>2. PICK M, J : Noticed(P, M, J, O)
  BY NotingNotes
<1>3. O \in Seq(Located) /\ Len(O) \in Nat /\ J \in [0..n -> 0..Len(O)] /\ J[0] = 0 /\ J[n] = Len(O)
  BY <1>2 DEF Noticed
<1>4. PICK f : WrittenBy(x, O, m, f) /\ UpdateBufferedMessage(x, O, m) = f[Len(O)]
  BY <1>3, UpdateRuns
<1>5. f[0] = Writing(x) /\ \A k \in 1..Len(O) : f[k] = WriteOffset(f[k - 1], O[k], m)
  BY <1>4 DEF WrittenBy, Writing
<1>6. n \in Nat /\ \A k \in 0..n : L[k] \in Nat /\ L[k] <= q /\ M[k] = L[k]
  <2>1. \A k \in 0..Len(P) : L[k] \in Nat /\ 0 <= L[k] /\ L[k] <= q
    BY <1>1, PlacesGrow
  <2>2. \A k \in 0..Len(P) : M[k] = L[k]
    <3> DEFINE G == Good(x, y, m, FALSE)
    <3>1. WalkedBy(P, 0, q, G, L)
      BY <1>1
    <3> HIDE DEF G
    <3> QED
      BY <1>2, <3>1, SamePlaces
  <2> QED
    BY <2>1, <2>2
<1>7. L[0] = 0 /\ L[n] = q
  BY <1>1 DEF WalkedBy
<1> DEFINE R(k) == f[J[k]] = Writing(Mixed(x, y, L[k]))
           T == {k \in Nat : k <= n => R(k)}
<1>8. 0 \in T
  <2>1. Mixed(x, y, 0) = x
    <3>1. x = [i \in 1..Len(x) |-> x[i]]
      OBVIOUS
    <3>2. Mixed(x, y, 0) = [i \in 1..Len(x) |-> x[i]]
      BY DEF Mixed
    <3> QED
      BY <3>1, <3>2
  <2> QED
    BY <1>3, <1>5, <1>7, <2>1
<1>9. ASSUME NEW h \in Nat, h \in T
      PROVE  h + 1 \in T
  <2> SUFFICES ASSUME h + 1 <= n PROVE R(h + 1)
    OBVIOUS
  <2> DEFINE k == h + 1
             s == P[k]
             l == L[h]
  <2>1. h <= n /\ k \in 1..n /\ k - 1 = h /\ h \in 0..n /\ k \in 0..n
    BY <1>6
  <2>2. R(h)
    BY <1>9, <2>1
  <2>3. L[k] = l + s.size /\ <<s, l>> \in Good(x, y, m, FALSE)
    BY <1>1, <2>1 DEF WalkedBy
  <2>4. s \in Spans /\ l \in Nat /\ L[k] \in Nat /\ L[k] <= q /\ s.size \in Nat
    <3>1. s \in Spans
      BY <2>1
    <3> QED
      BY <1>6, <2>1, <3>1 DEF Spans
  <2>5. /\ s.mark = Unmarked => J[k] = J[h]
        /\ s.mark # Unmarked => J[k] = J[h] + 1 /\ O[J[k]] = OffsetAt(s, l)
    BY <1>2, <1>6, <2>1 DEF Noticed
  <2>6. Holding(s, l, x, y, m, FALSE)
    BY <2>3 DEF Good
  <2> HIDE DEF s, l, k
  <2>7. CASE s.mark = Unmarked
    <3>1. SameIn(x, y, l, l + s.size)
      BY <2>6, <2>7 DEF Holding
    <3>2. Mixed(x, y, l) = Mixed(x, y, l + s.size)
      <4> DEFINE z == s.size
      <4>1. z \in Nat /\ l \in Nat /\ SameIn(x, y, l, l + z)
        BY <2>4, <3>1
      <4> HIDE DEF z
      <4>2. Mixed(x, y, l) = Mixed(x, y, l + z)
        BY <4>1, MixedSame
      <4> QED
        BY <4>2 DEF z
    <3> QED
      BY <2>2, <2>3, <2>5, <2>7, <3>2 DEF l, k
  <2>8. CASE s.mark # Unmarked
    <3> DEFINE c == Marked(s, m)
               o == OffsetAt(s, l)
               a == Mixed(x, y, l)
    <3>1. c \in Seq(Octet) /\ Len(c) = s.size /\ Follows(y, l, c) /\ Legal(s, m, FALSE)
      BY <2>6, <2>8 DEF Holding
    <3>2. s.mark \in Writable /\ NewContent(o, m) = c
      BY <2>4, <2>8, <3>1 DEF WritesMarked
    <3>3. o.type = s.mark /\ o.offset = l
      BY DEF OffsetAt
    <3>4. J[k] = J[h] + 1 /\ O[J[k]] = o /\ J[h] \in Nat /\ J[k] \in 1..Len(O) /\ J[k] - 1 = J[h]
      <4>1. J[k] = J[h] + 1 /\ O[J[k]] = o
        BY <2>5, <2>8
      <4>2. k \in 0..n /\ h \in 0..n
        BY <2>1
      <4>3. J[h] \in 0..Len(O) /\ J[k] \in 0..Len(O)
        BY <1>3, <4>2
      <4> HIDE DEF o
      <4> QED
        BY <1>3, <4>1, <4>3
    <3>5. f[J[h]] = Writing(a)
      BY <2>2 DEF l
    <3>6. Len(a) = Len(x) /\ l + Len(c) <= Len(x)
      <4>1. Len(x) \in Nat
        OBVIOUS
      <4>2. Len(a) = Len(x)
        BY <4>1 DEF Mixed
      <4>3. l + s.size <= Len(x)
        <5> DEFINE z == Len(x)
        <5>1. q <= z /\ q \in Nat
          BY <1>6, <1>7
        <5> HIDE DEF z
        <5>2. l + s.size <= z
          BY <2>3, <2>4, <4>1, <5>1 DEF z
        <5> QED
          BY <5>2 DEF z
      <4> QED
        BY <3>1, <4>2, <4>3
    <3>7. Overwrite(a, l, c) = Mixed(x, y, l + Len(c))
      <4> HIDE DEF c
      <4> QED
        BY <2>4, <3>1, <3>6, MixedMore
    <3> HIDE DEF c, o, a
    <3>8. WriteOffset(Writing(a), o, m) = Writing(Overwrite(a, o.offset, c))
      BY <3>2, <3>3, <3>6, WriteOne
    <3>9. f[J[k]] = WriteOffset(f[J[k] - 1], O[J[k]], m)
      BY <1>5, <3>4
    <3>10. f[J[k]] = Writing(Mixed(x, y, L[k]))
      BY <2>3, <3>1, <3>3, <3>4, <3>5, <3>7, <3>8, <3>9
    <3> QED
      BY <3>10 DEF k
  <2> QED
    BY <2>7, <2>8
<1>10. R(n)
  <2> HIDE DEF R
  <2>1. \A k \in Nat : k \in T
    <3> HIDE DEF T
    <3> QED
      BY <1>8, <1>9, Induction
  <2> QED
    BY <1>6, <2>1
<1>11. Mixed(x, y, q) = y
  <2>1. y = [i \in 1..Len(x) |-> y[i]]
    OBVIOUS
  <2>2. q \in Nat
    BY <1>6, <1>7
  <2>3. \A i \in 1..Len(x) : (IF i <= q THEN y[i] ELSE x[i]) = y[i]
    BY <2>2 DEF SameIn
  <2>4. Mixed(x, y, q) = [i \in 1..Len(x) |-> y[i]]
    BY <2>3 DEF Mixed
  <2> QED
    BY <2>1, <2>4
<1>12. u = Writing(y)
  BY <1>3, <1>4, <1>7, <1>10, <1>11
<1> QED
  BY <1>12 DEF Writing

UpdateCodes == {"Good", "BadNotSupported", "BadEncodingError"}

\* A state of the loop over a buffer of n bytes.
Buffering(a, n) ==
    /\ a = [rv |-> a.rv, stop |-> a.stop, out |-> a.out] /\ a.rv \in UpdateCodes /\ a.stop \in BOOLEAN
    /\ a.out \in Seq(Octet) /\ Len(a.out) = n /\ (a.stop => a.rv = "BadNotSupported")

\* One offset keeps the buffer a buffer of that size, and a kind that is not writable stops.
LEMMA WriteKeeps ==
    ASSUME NEW n \in Nat, NEW a, Buffering(a, n), NEW o \in Located, NEW m,
           o.type \in Writable => NewContent(o, m) \in Seq(Octet), NEW b, b = WriteOffset(a, o, m)
    PROVE  Buffering(b, n) /\ (a.stop => b = a) /\ (o.type \notin Writable => b.stop)
<1>1. a = [rv |-> a.rv, stop |-> a.stop, out |-> a.out] /\ a.rv \in UpdateCodes /\ a.stop \in BOOLEAN
      /\ a.out \in Seq(Octet) /\ Len(a.out) = n /\ (a.stop => a.rv = "BadNotSupported")
  BY DEF Buffering
<1>2. CASE a.stop
  BY <1>2 DEF WriteOffset
<1>3. CASE ~a.stop /\ o.type \notin Writable
  <2>1. b = [a EXCEPT !.rv = "BadNotSupported", !.stop = TRUE]
    BY <1>3 DEF WriteOffset
  <2>2. b = [rv |-> "BadNotSupported", stop |-> TRUE, out |-> a.out]
    <3> DEFINE e == [rv |-> "BadNotSupported", stop |-> TRUE, out |-> a.out]
    <3>1. DOMAIN a = {"rv", "stop", "out"}
      BY <1>1
    <3>2. b = [f \in {"rv", "stop", "out"} |-> b[f]] /\ e = [f \in {"rv", "stop", "out"} |-> e[f]]
      BY <2>1, <3>1
    <3>3. b.rv = e.rv /\ b.stop = e.stop /\ b.out = e.out
      BY <2>1, <3>1
    <3> HIDE DEF e
    <3> QED
      BY <3>2, <3>3 DEF e
  <2>3. b.rv = "BadNotSupported" /\ b.stop = TRUE /\ b.out = a.out
    BY <2>2
  <2>4. Buffering(b, n)
    BY <1>1, <2>2, <2>3 DEF Buffering, UpdateCodes
  <2> QED
    BY <1>3, <2>3, <2>4
<1>4. CASE ~a.stop /\ o.type \in Writable
  <2> DEFINE c == NewContent(o, m)
  <2>1. c \in Seq(Octet) /\ Len(c) \in Nat
    BY <1>4
  <2>2. CASE o.offset + Len(c) <= Len(a.out)
    <3> DEFINE w == Overwrite(a.out, o.offset, c)
    <3>1. w \in Seq(Octet) /\ Len(w) = n
      <4> DEFINE z == a.out
      <4>1. z \in Seq(Octet) /\ Len(z) = n /\ o.offset \in Nat
        BY <1>1 DEF Located
      <4> HIDE DEF z, c
      <4>2. Overwrite(z, o.offset, c) \in Seq(Octet) /\ Len(Overwrite(z, o.offset, c)) = n
        <5>1. \A k \in 1..n : z[k] \in Octet /\ (k \in (o.offset + 1)..(o.offset + Len(c)) => c[k - o.offset] \in Octet)
          BY <2>1, <4>1
        <5>2. Overwrite(z, o.offset, c) = [k \in 1..n |-> IF k \in (o.offset + 1)..(o.offset + Len(c)) THEN c[k - o.offset] ELSE z[k]]
          BY <4>1 DEF Overwrite
        <5>3. Overwrite(z, o.offset, c) \in [1..n -> Octet]
          BY <5>1, <5>2
        <5> QED
          BY <5>3
      <4> QED
        BY <4>2 DEF z
    <3>2. b = [a EXCEPT !.rv = "Good", !.out = w]
      BY <1>4, <2>2 DEF WriteOffset
    <3> HIDE DEF w
    <3>3. a = Writing(a.out) \/ a # Writing(a.out)
      OBVIOUS
    <3>4. b = [rv |-> "Good", stop |-> a.stop, out |-> w]
      <4> DEFINE e == [rv |-> "Good", stop |-> a.stop, out |-> w]
      <4>1. DOMAIN a = {"rv", "stop", "out"}
        BY <1>1
      <4>2. b = [f \in {"rv", "stop", "out"} |-> b[f]] /\ e = [f \in {"rv", "stop", "out"} |-> e[f]]
        BY <3>2, <4>1
      <4>3. b.rv = e.rv /\ b.stop = e.stop /\ b.out = e.out
        BY <3>2, <4>1
      <4> HIDE DEF e
      <4> QED
        BY <4>2, <4>3 DEF e
    <3>5. b.rv = "Good" /\ b.stop = a.stop /\ b.out = w
      BY <3>4
    <3> QED
      BY <1>1, <1>4, <3>1, <3>4, <3>5 DEF Buffering, UpdateCodes
  <2>3. CASE ~(o.offset + Len(c) <= Len(a.out))
    <3>1. b = [a EXCEPT !.rv = "BadEncodingError"]
      BY <1>4, <2>3 DEF WriteOffset
    <3>2. b = [rv |-> "BadEncodingError", stop |-> a.stop, out |-> a.out]
      <4> DEFINE e == [rv |-> "BadEncodingError", stop |-> a.stop, out |-> a.out]
      <4>1. DOMAIN a = {"rv", "stop", "out"}
        BY <1>1
      <4>2. b = [f \in {"rv", "stop", "out"} |-> b[f]] /\ e = [f \in {"rv", "stop", "out"} |-> e[f]]
        BY <3>1, <4>1
      <4>3. b.rv = e.rv /\ b.stop = e.stop /\ b.out = e.out
        BY <3>1, <4>1
      <4> HIDE DEF e
      <4> QED
        BY <4>2, <4>3 DEF e
    <3>3. b.rv = "BadEncodingError" /\ b.stop = a.stop /\ b.out = a.out
      BY <3>2
    <3> QED
      BY <1>1, <1>4, <3>2, <3>3 DEF Buffering, UpdateCodes
  <2> QED
    BY <2>2, <2>3
<1> QED
  BY <1>1, <1>2, <1>3, <1>4 DEF Buffering

\* Whatever the offsets, the buffer stays a buffer of its size; a message with an offset of
\* a kind that is not writable is not sent.
LEMMA UpdateKeeps ==
    ASSUME NEW x \in Seq(Octet), NEW m, NEW O \in Seq(Located), NEW u, u = UpdateBufferedMessage(x, O, m),
           \A k \in 1..Len(O) : O[k].type \in Writable => NewContent(O[k], m) \in Seq(Octet)
    PROVE  /\ u.rv \in UpdateCodes /\ u.out \in Seq(Octet) /\ Len(u.out) = Len(x)
           /\ (\E k \in 1..Len(O) : O[k].type \notin Writable) => u.rv = "BadNotSupported"
<1> DEFINE n == Len(x)
           l == Len(O)
<1>1. n \in Nat /\ l \in Nat /\ \A k \in 1..l : O[k] \in Located
  OBVIOUS
<1>2. PICK f : WrittenBy(x, O, m, f) /\ u = f[l]
  BY <1>1, UpdateRuns
<1>3. f[0] = [rv |-> "Good", stop |-> FALSE, out |-> x] /\ \A k \in 1..l : f[k] = WriteOffset(f[k - 1], O[k], m)
  BY <1>2 DEF WrittenBy
<1>4. Buffering(f[0], n)
  <2>1. f[0].rv = "Good" /\ f[0].stop = FALSE /\ f[0].out = x
    BY <1>3
  <2> QED
    BY <1>3, <2>1 DEF Buffering, UpdateCodes
<1> HIDE DEF n, l
<1> DEFINE Bad(k) == \E i \in 1..k : O[i].type \notin Writable
           T == {k \in Nat : k <= l => Buffering(f[k], n) /\ (Bad(k) => f[k].stop)}
<1>5. 0 \in T
  BY <1>4
<1>6. ASSUME NEW k \in Nat, k \in T
      PROVE  k + 1 \in T
  <2> SUFFICES ASSUME k + 1 <= l PROVE Buffering(f[k + 1], n) /\ (Bad(k + 1) => f[k + 1].stop)
    OBVIOUS
  <2> DEFINE j == k + 1
  <2>1. j \in 1..l /\ j - 1 = k /\ k <= l
    BY <1>1
  <2>2. Buffering(f[k], n) /\ (Bad(k) => f[k].stop)
    BY <1>6, <2>1
  <2>3. Bad(j) => Bad(k) \/ O[j].type \notin Writable
    OBVIOUS
  <2> HIDE DEF j, Bad
  <2>4. f[j] = WriteOffset(f[k], O[j], m) /\ O[j] \in Located
        /\ (O[j].type \in Writable => NewContent(O[j], m) \in Seq(Octet))
    BY <1>1, <1>3, <2>1 DEF l
  <2>5. Buffering(f[j], n) /\ (f[k].stop => f[j] = f[k]) /\ (O[j].type \notin Writable => f[j].stop)
    BY <1>1, <2>2, <2>4, WriteKeeps
  <2>6. Buffering(f[j], n) /\ (Bad(j) => f[j].stop)
    BY <2>2, <2>3, <2>5
  <2> QED
    BY <2>6 DEF j
<1>7. Buffering(u, n) /\ (Bad(l) => u.stop)
  <2> HIDE DEF Bad
  <2>1. \A k \in Nat : k \in T
    <3> HIDE DEF T
    <3> QED
      BY <1>5, <1>6, Induction
  <2> QED
    BY <1>1, <1>2, <2>1
<1> QED
  BY <1>7 DEF Buffering, n, l

---------------------------------------------------------------------------
(* The pieces of a message along its bytes. *)

\* The bytes b stand at p of x.
At(x, p, b) == b \in Seq(Octet) /\ p \in Nat /\ p + Len(b) <= Len(x) /\ Follows(x, p, b)

\* Where a stands in x and b stands in y, at the same place, the pieces P of w lie there, and
\* the two differ in the marked pieces only.
Laid(P, a, b, w, reader) ==
    /\ P \in Seq(Spans) /\ a \in Seq(Octet) /\ b \in Seq(Octet) /\ Len(a) = Len(b)
    /\ \A x \in Seq(Octet), y \in Seq(Octet), p \in Nat :
          At(x, p, a) /\ At(y, p, b) => Walk(P, p, p + Len(b), Good(x, y, w, reader))

\* What stands at a place, part by part.
LEMMA AtConcat ==
    ASSUME NEW x \in Seq(Octet), NEW p \in Nat, NEW a \in Seq(Octet), NEW b \in Seq(Octet)
    PROVE  At(x, p, a \o b) <=> At(x, p, a) /\ At(x, p + Len(a), b)
<1>1. /\ Follows(x, p, a \o b) <=> Follows(x, p, a) /\ Follows(x, p + Len(a), b)
      /\ Len(a \o b) = Len(a) + Len(b) /\ a \o b \in Seq(Octet)
      /\ Len(a) \in Nat /\ Len(b) \in Nat
  BY FollowsConcat
<1> DEFINE c == a \o b
           k == Len(a)
           l == Len(b)
           n == Len(x)
<1>2. n \in Nat /\ k \in Nat /\ l \in Nat /\ Len(c) = k + l /\ c \in Seq(Octet)
  BY <1>1
<1>3. p + (k + l) <= n <=> p + k <= n /\ (p + k) + l <= n
  <2> HIDE DEF c, k, l, n
  <2> QED
    BY <1>2
<1>4. p + k \in Nat
  BY <1>2
<1> QED
  BY <1>1, <1>2, <1>3, <1>4 DEF At

\* No pieces.
LEMMA LaidNone ==
    ASSUME NEW w, NEW reader
    PROVE  Laid(<<>>, <<>>, <<>>, w, reader)
<1>1. <<>> \in Seq(Spans) /\ <<>> \in Seq(Octet) /\ Len(<<>>) = 0
  OBVIOUS
<1>2. ASSUME NEW x \in Seq(Octet), NEW y \in Seq(Octet), NEW p \in Nat
      PROVE  Walk(<<>>, p, p + 0, Good(x, y, w, reader))
  BY WalkNone
<1> QED
  BY <1>1, <1>2 DEF Laid

\* One unmarked piece, whose bytes are the same in both.
LEMMA LaidUnmarked ==
    ASSUME NEW b \in Seq(Octet), NEW n, n = Len(b), NEW w, NEW reader, NEW s \in Spans, s.size = n, s.mark = Unmarked
    PROVE  Laid(<<s>>, b, b, w, reader)
<1>1. n \in Nat /\ s.size = n /\ s.mark = Unmarked
  OBVIOUS
<1>2. s \in Spans
  OBVIOUS
<1>3. ASSUME NEW x \in Seq(Octet), NEW y \in Seq(Octet), NEW p \in Nat, At(x, p, b), At(y, p, b)
      PROVE  Walk(<<s>>, p, p + Len(b), Good(x, y, w, reader))
  <2>1. SameIn(x, y, p, p + n)
    <3> SUFFICES ASSUME NEW i \in (p + 1)..(p + n) PROVE y[i] = x[i]
      BY DEF SameIn
    <3> DEFINE k == i - p
    <3>1. k \in 1..n /\ p + k = i
      BY <1>1
    <3>2. p + k <= Len(x) /\ p + k <= Len(y)
      <4>1. p + n <= Len(x) /\ p + n <= Len(y)
        BY <1>3 DEF At
      <4>2. Len(x) \in Nat /\ Len(y) \in Nat
        OBVIOUS
      <4> HIDE DEF k
      <4> QED
        BY <1>1, <3>1, <4>1, <4>2
    <3>3. Follows(x, p, b) /\ Follows(y, p, b)
      BY <1>3 DEF At
    <3> HIDE DEF k
    <3>4. x[p + k] = b[k] /\ y[p + k] = b[k]
      BY <3>1, <3>2, <3>3 DEF Follows
    <3> QED
      BY <3>1, <3>4
  <2>2. Holding(s, p, x, y, w, reader)
    <3>1. Legal(s, w, reader)
      BY <1>1 DEF Legal, Unmarked, PublisherIdOffset, GroupIdOffset, WriterIdOffset, TimestampOffset,
                  PicosecondsOffset, DSMSequenceOffset, DataValueOffset, VariantOffset
    <3> QED
      BY <1>1, <2>1, <3>1 DEF Holding
  <2>3. <<s, p>> \in Good(x, y, w, reader)
    BY <1>2, <2>2 DEF Good
  <2> QED
    BY <1>1, <1>2, <2>3, WalkOne
<1>4. <<s>> \in Seq(Spans)
  BY <1>2
<1> QED
  BY <1>3, <1>4 DEF Laid

\* One piece whose bytes are the same in both.
LEMMA LaidSame ==
    ASSUME NEW b \in Seq(Octet), NEW n, n = Len(b), NEW w, NEW reader, NEW s, s = Span(n, Unmarked)
    PROVE  Laid(<<s>>, b, b, w, reader)
<1>1. n \in Nat /\ s.size = n /\ s.mark = Unmarked
  BY DEF Span
<1>2. s \in Spans
  BY <1>1 DEF Span, Spans, Marks
<1> QED
  BY <1>1, <1>2, LaidUnmarked

\* One marked piece.
LEMMA LaidMarked ==
    ASSUME NEW a \in Seq(Octet), NEW b \in Seq(Octet), Len(a) = Len(b), NEW w, NEW reader,
           NEW s \in Spans, s.size = Len(b), s.mark # Unmarked, b = Marked(s, w), Legal(s, w, reader)
    PROVE  Laid(<<s>>, a, b, w, reader)
<1>1. ASSUME NEW x \in Seq(Octet), NEW y \in Seq(Octet), NEW p \in Nat, At(x, p, a), At(y, p, b)
      PROVE  Walk(<<s>>, p, p + Len(b), Good(x, y, w, reader))
  <2>1. Follows(y, p, b)
    BY <1>1 DEF At
  <2>2. Holding(s, p, x, y, w, reader)
    BY <2>1 DEF Holding
  <2>3. <<s, p>> \in Good(x, y, w, reader)
    BY <2>2 DEF Good
  <2>4. Walk(<<s>>, p, p + s.size, Good(x, y, w, reader))
    BY <2>3, WalkOne
  <2> QED
    BY <2>4
<1>2. <<s>> \in Seq(Spans)
  OBVIOUS
<1> QED
  BY <1>1, <1>2 DEF Laid

\* Pieces behind pieces.
LEMMA LaidConcat ==
    ASSUME NEW P, NEW Q, NEW a, NEW b, NEW c, NEW d, NEW w, NEW reader,
           Laid(P, a, b, w, reader), Laid(Q, c, d, w, reader)
    PROVE  Laid(P \o Q, a \o c, b \o d, w, reader)
<1>1. /\ P \in Seq(Spans) /\ a \in Seq(Octet) /\ b \in Seq(Octet) /\ Len(a) = Len(b)
      /\ Q \in Seq(Spans) /\ c \in Seq(Octet) /\ d \in Seq(Octet) /\ Len(c) = Len(d)
  BY DEF Laid
<1>2. /\ P \o Q \in Seq(Spans) /\ a \o c \in Seq(Octet) /\ b \o d \in Seq(Octet)
      /\ Len(a \o c) = Len(a) + Len(c) /\ Len(b \o d) = Len(b) + Len(d)
      /\ Len(a) \in Nat /\ Len(b) \in Nat /\ Len(c) \in Nat /\ Len(d) \in Nat
  <2>1. P \o Q \in Seq(Spans)
    BY <1>1
  <2>2. a \o c \in Seq(Octet) /\ Len(a \o c) = Len(a) + Len(c) /\ Len(a) \in Nat /\ Len(c) \in Nat
    BY <1>1, OctetsConcat
  <2>3. b \o d \in Seq(Octet) /\ Len(b \o d) = Len(b) + Len(d) /\ Len(b) \in Nat /\ Len(d) \in Nat
    BY <1>1, OctetsConcat
  <2> QED
    BY <2>1, <2>2, <2>3
<1>3. ASSUME NEW x \in Seq(Octet), NEW y \in Seq(Octet), NEW p \in Nat, At(x, p, a \o c), At(y, p, b \o d)
      PROVE  Walk(P \o Q, p, p + Len(b \o d), Good(x, y, w, reader))
  <2>1. At(x, p, a) /\ At(x, p + Len(a), c) /\ At(y, p, b) /\ At(y, p + Len(b), d)
    BY <1>1, <1>3, AtConcat
  <2> DEFINE G == Good(x, y, w, reader)
             k == Len(b)
             l == Len(d)
  <2>2. p + k \in Nat /\ (p + k) + l = p + (k + l) /\ Len(a) = k
    BY <1>1, <1>2
  <2>3. Walk(P, p, p + k, G)
    BY <2>1 DEF Laid
  <2>4. Walk(Q, p + k, (p + k) + l, G)
    BY <2>1, <2>2 DEF Laid
  <2>5. Len(b \o d) = k + l
    BY <1>2
  <2> HIDE DEF G, k, l
  <2> QED
    BY <2>2, <2>3, <2>4, <2>5, WalkConcat DEF G
<1> QED
  BY <1>1, <1>2, <1>3 DEF Laid

\* What is laid.
LEMMA LaidType ==
    ASSUME NEW P, NEW a, NEW b, NEW w, NEW reader, Laid(P, a, b, w, reader)
    PROVE  P \in Seq(Spans) /\ a \in Seq(Octet) /\ b \in Seq(Octet) /\ Len(a) = Len(b) /\ Len(b) \in Nat
BY DEF Laid

\* Lists of pieces, one after another.
LEMMA LaidEach ==
    ASSUME NEW S, NEW A, NEW B, NEW w, NEW reader, NEW n \in Nat,
           S \in Seq(Seq(Spans)), A \in Seq(Seq(Octet)), B \in Seq(Seq(Octet)),
           Len(S) = n, Len(A) = n, Len(B) = n,
           \A i \in 1..n : Laid(S[i], A[i], B[i], w, reader)
    PROVE  Laid(FlattenSeq(S), FlattenSeq(A), FlattenSeq(B), w, reader)
<1> DEFINE Q(k) == Laid(Joined(S, k), Joined(A, k), Joined(B, k), w, reader)
           T == {k \in Nat : k <= n => Q(k)}
<1>1. /\ Joined(S, 0) = <<>> /\ Joined(S, n) = FlattenSeq(S)
      /\ \A k \in 1..n : Joined(S, k) = Joined(S, k - 1) \o S[k]
  BY JoinedMore
<1>2. /\ Joined(A, 0) = <<>> /\ Joined(A, n) = FlattenSeq(A)
      /\ \A k \in 1..n : Joined(A, k) = Joined(A, k - 1) \o A[k]
  BY JoinedMore
<1>3. /\ Joined(B, 0) = <<>> /\ Joined(B, n) = FlattenSeq(B)
      /\ \A k \in 1..n : Joined(B, k) = Joined(B, k - 1) \o B[k]
  BY JoinedMore
<1>4. 0 \in T
  BY <1>1, <1>2, <1>3, LaidNone
<1>5. ASSUME NEW k \in Nat, k \in T
      PROVE  k + 1 \in T
  <2> SUFFICES ASSUME k + 1 <= n PROVE Q(k + 1)
    OBVIOUS
  <2> DEFINE j == k + 1
  <2>1. j \in 1..n /\ j - 1 = k /\ k <= n
    OBVIOUS
  <2>2. Q(k)
    BY <1>5, <2>1
  <2> HIDE DEF j
  <2>3. Joined(S, j) = Joined(S, k) \o S[j] /\ Joined(A, j) = Joined(A, k) \o A[j]
        /\ Joined(B, j) = Joined(B, k) \o B[j]
    BY <1>1, <1>2, <1>3, <2>1
  <2>4. Laid(S[j], A[j], B[j], w, reader)
    BY <2>1
  <2>5. Q(j)
    BY <2>2, <2>3, <2>4, LaidConcat
  <2> QED
    BY <2>5 DEF j
<1>6. Q(n)
  <2> HIDE DEF Q
  <2>1. \A k \in Nat : k \in T
    <3> HIDE DEF T
    <3> QED
      BY <1>4, <1>5, Induction
  <2> QED
    BY <2>1
<1> QED
  BY <1>1, <1>2, <1>3, <1>6

\* A row of pieces.
LEMMA LaidRow ==
    ASSUME NEW P \in Seq(Spans), NEW A, NEW B, NEW w, NEW reader, NEW n \in Nat,
           A \in Seq(Seq(Octet)), B \in Seq(Seq(Octet)), Len(P) = n, Len(A) = n, Len(B) = n,
           \A i \in 1..n : Laid(<<P[i]>>, A[i], B[i], w, reader)
    PROVE  Laid(P, FlattenSeq(A), FlattenSeq(B), w, reader)
<1> DEFINE F(k) == [i \in 1..k |-> P[i]]
           Q(k) == Laid(F(k), Joined(A, k), Joined(B, k), w, reader)
           T == {k \in Nat : k <= n => Q(k)}
<1>1. F(0) = <<>> /\ F(n) = P /\ \A k \in 1..n : F(k) = F(k - 1) \o <<P[k]>>
  <2>1. F(0) = <<>> /\ F(n) = P
    OBVIOUS
  <2>2. ASSUME NEW k \in 1..n
        PROVE  F(k) = F(k - 1) \o <<P[k]>>
    <3> DEFINE s == F(k - 1)
    <3>1. s \in Seq(Spans) /\ Len(s) = k - 1 /\ \A i \in 1..(k - 1) : s[i] = P[i]
      OBVIOUS
    <3>2. F(k) \in Seq(Spans) /\ Len(F(k)) = k /\ \A i \in 1..k : F(k)[i] = P[i]
      OBVIOUS
    <3> HIDE DEF F, s
    <3>3. F(k) = s \o <<P[k]>>
      BY <3>1, <3>2
    <3> QED
      BY <3>3 DEF s
  <2> HIDE DEF F
  <2> QED
    BY <2>1, <2>2
<1>2. /\ Joined(A, 0) = <<>> /\ Joined(A, n) = FlattenSeq(A)
      /\ \A k \in 1..n : Joined(A, k) = Joined(A, k - 1) \o A[k]
  BY JoinedMore
<1>3. /\ Joined(B, 0) = <<>> /\ Joined(B, n) = FlattenSeq(B)
      /\ \A k \in 1..n : Joined(B, k) = Joined(B, k - 1) \o B[k]
  BY JoinedMore
<1> HIDE DEF F
<1>4. 0 \in T
  BY <1>1, <1>2, <1>3, LaidNone
<1>5. ASSUME NEW k \in Nat, k \in T
      PROVE  k + 1 \in T
  <2> SUFFICES ASSUME k + 1 <= n PROVE Q(k + 1)
    OBVIOUS
  <2> DEFINE j == k + 1
  <2>1. j \in 1..n /\ j - 1 = k /\ k <= n
    OBVIOUS
  <2>2. Q(k)
    BY <1>5, <2>1
  <2> HIDE DEF j
  <2>3. F(j) = F(k) \o <<P[j]>> /\ Joined(A, j) = Joined(A, k) \o A[j]
        /\ Joined(B, j) = Joined(B, k) \o B[j]
    BY <1>1, <1>2, <1>3, <2>1
  <2>4. Laid(<<P[j]>>, A[j], B[j], w, reader)
    BY <2>1
  <2>5. Q(j)
    BY <2>2, <2>3, <2>4, LaidConcat
  <2> QED
    BY <2>5 DEF j
<1>6. Q(n)
  <2> HIDE DEF Q
  <2>1. \A k \in Nat : k \in T
    <3> HIDE DEF T
    <3> QED
      BY <1>4, <1>5, Induction
  <2> QED
    BY <2>1
<1> QED
  BY <1>1, <1>2, <1>3, <1>6

---------------------------------------------------------------------------
(* Messages that differ in the values the offsets point to. *)

\* The same field with another value of the same type and size.
AlikeField(v, u) ==
    /\ v.on = u.on /\ v.val = u.val /\ v.value.type = u.value.type /\ v.value.arr = u.value.arr
    /\ Len(v.value.data) = Len(u.value.data)

AlikeDSM(d, e) ==
    /\ d.on = e.on /\ d.type = e.type /\ d.enc = e.enc /\ Len(d.fields) = Len(e.fields)
    /\ \A f \in DSMFields \ {"sequenceNr"} : d.val[f] = e.val[f]
    /\ d.type # KeyFrame => d.fields = e.fields
    /\ d.type = KeyFrame => \A i \in 1..Len(d.fields) : AlikeField(d.fields[i], e.fields[i])

Alike(m, w) ==
    /\ m.on = w.on /\ m.version = w.version /\ m.pubType = w.pubType /\ m.nmType = w.nmType
    /\ m.pubString = w.pubString /\ m.nonce = w.nonce /\ m.footer = w.footer
    /\ m.signature = w.signature /\ m.ids = w.ids /\ m.promoted = w.promoted /\ m.sizes = w.sizes
    /\ \A f \in NMFields \ {"sequenceNumber"} : m.val[f] = w.val[f]
    /\ Len(m.dsms) = Len(w.dsms) /\ \A i \in 1..Len(m.dsms) : AlikeDSM(m.dsms[i], w.dsms[i])

---------------------------------------------------------------------------
(* The headers along their pieces. *)

\* An optional piece whose bytes are the same in both.
LEMMA LaidIf ==
    ASSUME NEW c \in BOOLEAN, NEW b \in Seq(Octet), NEW n, c => n = Len(b), ~c => b = <<>>, NEW w, NEW reader,
           NEW P, P = IF c THEN <<Span(n, Unmarked)>> ELSE <<>>
    PROVE  Laid(P, b, b, w, reader)
<1>1. CASE c
  <2> DEFINE s == Span(n, Unmarked)
  <2>1. P = <<s>>
    BY <1>1
  <2> QED
    BY <1>1, <2>1, LaidSame
<1>2. CASE ~c
  BY <1>2, LaidNone
<1> QED
  BY <1>1, <1>2

\* An optional number, marked or not.
LEMMA LaidOption ==
    ASSUME NEW f, NEW n \in Widths, NEW on, NEW u, NEW v, u[f] \in Unsigned(n), v[f] \in Unsigned(n),
           NEW w, NEW reader, NEW s \in Spans, s.size = n,
           s.mark = Unmarked => s = Span(n, Unmarked) /\ u[f] = v[f],
           s.mark # Unmarked /\ f \in on => Legal(s, w, reader) /\ Marked(s, w) = LE(v[f], n),
           NEW P, P = IF f \in on THEN <<s>> ELSE <<>>
    PROVE  Laid(P, OptionalBytes(on, u, f, n), OptionalBytes(on, v, f, n), w, reader)
<1>1. CASE f \notin on
  BY <1>1, LaidNone DEF OptionalBytes
<1>2. CASE f \in on
  <2> DEFINE a == LE(u[f], n)
             b == LE(v[f], n)
  <2>1. a \in Seq(Octet) /\ Len(a) = n /\ b \in Seq(Octet) /\ Len(b) = n
    <3>1. n \in Nat /\ u[f] \in Nat /\ v[f] \in Nat
      BY DEF Widths, Unsigned
    <3> QED
      BY <3>1, LEType
  <2>2. OptionalBytes(on, u, f, n) = a /\ OptionalBytes(on, v, f, n) = b /\ P = <<s>>
    BY <1>2 DEF OptionalBytes
  <2>3. s.mark = Unmarked => a = b
    OBVIOUS
  <2>4. s.mark # Unmarked => Legal(s, w, reader) /\ Marked(s, w) = b
    BY <1>2
  <2> HIDE DEF a, b
  <2>5. CASE s.mark = Unmarked
    <3>1. s = Span(n, Unmarked)
      BY <2>5
    <3>2. Laid(<<s>>, b, b, w, reader)
      BY <2>1, <3>1, LaidSame
    <3> QED
      BY <2>2, <2>3, <2>5, <3>2
  <2>6. CASE s.mark # Unmarked
    <3>1. Laid(<<s>>, a, b, w, reader)
      BY <2>1, <2>4, <2>6, LaidMarked
    <3> QED
      BY <2>2, <3>1
  <2> QED
    BY <2>5, <2>6
<1> QED
  BY <1>1, <1>2

\* Spans of a message that are in no DataSetMessage.
LEMMA SpanType ==
    ASSUME NEW n \in Nat, NEW mark \in Marks, NEW s, s = Span(n, mark)
    PROVE  s \in Spans /\ s.size = n /\ s.mark = mark /\ s.dsm = 0 /\ s.field = 0
BY DEF Span, Spans

\* The flags.
LEMMA FlagsLaid ==
    ASSUME NEW m \in NetworkMessages, NEW w \in NetworkMessages, Alike(m, w), NEW reader
    PROVE  Laid(<<Span(FlagsSize(w), Unmarked)>>, FlagsBytes(m), FlagsBytes(w), w, reader)
<1>1. m.version = w.version /\ m.on = w.on /\ m.pubType = w.pubType /\ m.nmType = w.nmType
  BY DEF Alike
<1>2. (ExtendedFlags1Enabled(m) <=> ExtendedFlags1Enabled(w)) /\ (ExtendedFlags2Enabled(m) <=> ExtendedFlags2Enabled(w))
  BY <1>1 DEF ExtendedFlags1Enabled, ExtendedFlags2Enabled
<1>3. NMFlag(m) = NMFlag(w) /\ Ext1Flag(m) = Ext1Flag(w) /\ Ext2Flag(m) = Ext2Flag(w)
  BY <1>1, <1>2 DEF NMFlag, Ext1Flag, Ext2Flag
<1>4. FlagsBytes(m) = FlagsBytes(w)
  BY <1>2, <1>3 DEF FlagsBytes
<1> DEFINE b == FlagsBytes(w)
           n == FlagsSize(w)
           s == Span(n, Unmarked)
<1>5. b \in Seq(Octet) /\ Len(b) = n
  BY FlagsPiece, PieceType
<1> HIDE DEF b, n
<1>6. Laid(<<s>>, b, b, w, reader)
  BY <1>5, LaidSame
<1> QED
  BY <1>4, <1>6 DEF b, n

\* The publisher id.
LEMMA PublisherLaid ==
    ASSUME NEW m \in NetworkMessages, NEW w \in NetworkMessages, Alike(m, w), NEW reader \in BOOLEAN
    PROVE  Laid(PublisherIdPiece(w, reader), PublisherBytes(m), PublisherBytes(w), w, reader)
<1>1. m.on = w.on /\ m.pubType = w.pubType /\ m.pubString = w.pubString /\ m.val["publisherId"] = w.val["publisherId"]
  <2>1. "publisherId" \in NMFields \ {"sequenceNumber"}
    BY DEF NMFields
  <2> QED
    BY <2>1 DEF Alike
<1>2. PublisherBytes(m) = PublisherBytes(w)
  BY <1>1 DEF PublisherBytes
<1> DEFINE b == PublisherBytes(w)
           n == IF w.pubType = StringId THEN ArraySize(w.pubString, 1) ELSE PublisherIdWidth(w.pubType)
           mark == ForReader(reader, PublisherIdOffset)
           s == Span(n, mark)
<1>3. b \in Seq(Octet) /\ Len(b) = PublisherSize(w) /\ PublisherSize(w) \in Nat
  BY PublisherPiece, PieceType
<1>4. PublisherIdPiece(w, reader) = IF "publisherId" \in w.on THEN <<s>> ELSE <<>>
  BY DEF PublisherIdPiece, SpanIf
<1>5. CASE "publisherId" \notin w.on
  <2>1. b = <<>>
    BY <1>5 DEF PublisherBytes
  <2> HIDE DEF s, b
  <2>2. PublisherIdPiece(w, reader) = <<>>
    BY <1>4, <1>5
  <2> QED
    BY <1>2, <2>1, <2>2, LaidNone DEF b
<1>6. CASE "publisherId" \in w.on
  <2>1. PublisherSize(w) = n
    BY <1>6 DEF PublisherSize
  <2>2. n \in Nat /\ Len(b) = n
    BY <1>3, <2>1
  <2>3. PublisherIdPiece(w, reader) = <<s>>
    BY <1>4, <1>6
  <2>4. mark \in Marks /\ (reader => mark = PublisherIdOffset) /\ (~reader => mark = Unmarked)
    BY DEF ForReader, Marks
  <2>5. PublisherBytes(m) = b /\ PublisherBytes(w) = b
    BY <1>2
  <2> HIDE DEF b, n, mark
  <2>6. s \in Spans /\ s.size = n /\ s.mark = mark
    BY <2>2, <2>4, SpanType
  <2>7. CASE ~reader
    <3>1. s = Span(n, Unmarked)
      BY <2>4, <2>7
    <3>2. Laid(<<s>>, b, b, w, reader)
      BY <1>3, <2>2, <3>1, LaidSame
    <3> QED
      BY <2>3, <2>5, <3>2
  <2>8. CASE reader
    <3>1. s.mark = PublisherIdOffset /\ s.mark # Unmarked
      BY <2>4, <2>6, <2>8 DEF PublisherIdOffset, Unmarked
    <3>2. Marked(s, w) = b
      BY <2>5, <3>1 DEF Marked, SequenceOffset, DSMSequenceOffset, DataValueOffset, VariantOffset, PublisherIdOffset,
                        GroupIdOffset, WriterIdOffset, TimestampOffset, PicosecondsOffset
    <3>3. Legal(s, w, reader)
      BY <2>8, <3>1 DEF Legal, PublisherIdOffset, GroupIdOffset, WriterIdOffset, TimestampOffset,
                  PicosecondsOffset, DSMSequenceOffset, DataValueOffset, VariantOffset
    <3> HIDE DEF s
    <3>4. Laid(<<s>>, b, b, w, reader)
      BY <1>3, <2>2, <2>6, <3>1, <3>2, <3>3, LaidMarked
    <3> QED
      BY <2>3, <2>5, <3>4
  <2> QED
    BY <2>7, <2>8
<1> QED
  BY <1>5, <1>6

---------------------------------------------------------------------------
(* The optional numbers of the message. *)

\* What Alike says of the message itself.
LEMMA AlikeHas ==
    ASSUME NEW m, NEW w, Alike(m, w)
    PROVE  /\ m.on = w.on /\ m.version = w.version /\ m.pubType = w.pubType /\ m.nmType = w.nmType
           /\ m.pubString = w.pubString /\ m.nonce = w.nonce /\ m.footer = w.footer
           /\ m.signature = w.signature /\ m.ids = w.ids /\ m.promoted = w.promoted /\ m.sizes = w.sizes
           /\ \A f \in NMFields \ {"sequenceNumber"} : m.val[f] = w.val[f]
           /\ DSMCount(m) = DSMCount(w)
<1>1. m.on = w.on /\ m.ids = w.ids
  BY DEF Alike
<1>2. DSMCount(m) = DSMCount(w)
  BY <1>1 DEF DSMCount
<1> QED
  BY <1>2 DEF Alike

\* An optional number, whose piece is marked when it may differ.
LEMMA NumberLaid ==
    ASSUME NEW m, NEW w, Alike(m, w), NEW reader, NEW f \in NMFields, NEW n \in Widths,
           m.val[f] \in Unsigned(n), w.val[f] \in Unsigned(n), NEW mark \in Marks,
           mark = Unmarked => f # "sequenceNumber", NEW s, s = Span(n, mark),
           mark # Unmarked /\ f \in w.on => Legal(s, w, reader) /\ Marked(s, w) = LE(w.val[f], n)
    PROVE  Laid(SpanIf(w, f, n, mark), OptionalBytes(m.on, m.val, f, n), OptionalBytes(w.on, w.val, f, n), w, reader)
<1> DEFINE u == m.val
           v == w.val
           on == w.on
           P == SpanIf(w, f, n, mark)
<1>1. m.on = on
  BY AlikeHas
<1>2. n \in Nat
  BY DEF Widths
<1>3. s \in Spans /\ s.size = n /\ s.mark = mark
  BY <1>2, SpanType
<1>4. s.mark = Unmarked => s = Span(n, Unmarked) /\ u[f] = v[f]
  <2>1. mark = Unmarked => f \in NMFields \ {"sequenceNumber"}
    OBVIOUS
  <2> QED
    BY <1>3, <2>1, AlikeHas
<1>5. P = IF f \in on THEN <<s>> ELSE <<>>
  BY DEF SpanIf
<1>6. s.mark # Unmarked /\ f \in on => Legal(s, w, reader) /\ Marked(s, w) = LE(v[f], n)
  BY <1>3
<1>7. u[f] \in Unsigned(n) /\ v[f] \in Unsigned(n)
  OBVIOUS
<1> HIDE DEF u, v, on, P
<1>8. Laid(P, OptionalBytes(on, u, f, n), OptionalBytes(on, v, f, n), w, reader)
  BY <1>3, <1>4, <1>5, <1>6, <1>7, LaidOption
<1> QED
  BY <1>1, <1>8 DEF u, v, on, P

\* The marks of the numbers in front of the DataSetMessages.
LEMMA NumberMarks ==
    ASSUME NEW w, NEW reader, NEW s
    PROVE  /\ s.mark = GroupIdOffset => (reader => Legal(s, w, reader)) /\ Marked(s, w) = LE(w.val["writerGroupId"], 2)
           /\ s.mark = SequenceOffset => Legal(s, w, reader) /\ Marked(s, w) = LE(w.val["sequenceNumber"], 2)
           /\ s.mark = TimestampOffset => ("timestamp" \in w.on => Legal(s, w, reader))
                                          /\ Marked(s, w) = LE(w.val["timestamp"], 8)
           /\ s.mark = PicosecondsOffset => ("picoseconds" \in w.on => Legal(s, w, reader))
                                            /\ Marked(s, w) = LE(w.val["picoseconds"], 2)
           /\ s.mark = WriterIdOffset => (reader => Legal(s, w, reader)) /\ Marked(s, w) = NumbersBytes(w.ids, Len(w.ids), 2)
<1> USE DEF PublisherIdOffset, GroupIdOffset, WriterIdOffset, TimestampOffset, SequenceOffset,
            PicosecondsOffset, DSMSequenceOffset, DataValueOffset, VariantOffset, Unmarked
<1>1. ASSUME s.mark = GroupIdOffset
      PROVE  (reader => Legal(s, w, reader)) /\ Marked(s, w) = LE(w.val["writerGroupId"], 2)
  BY <1>1 DEF Legal, Marked
<1>2. ASSUME s.mark = SequenceOffset
      PROVE  Legal(s, w, reader) /\ Marked(s, w) = LE(w.val["sequenceNumber"], 2)
  BY <1>2 DEF Legal, Marked
<1>3. ASSUME s.mark = TimestampOffset
      PROVE  ("timestamp" \in w.on => Legal(s, w, reader)) /\ Marked(s, w) = LE(w.val["timestamp"], 8)
  BY <1>3 DEF Legal, Marked
<1>4. ASSUME s.mark = PicosecondsOffset
      PROVE  ("picoseconds" \in w.on => Legal(s, w, reader)) /\ Marked(s, w) = LE(w.val["picoseconds"], 2)
  BY <1>4 DEF Legal, Marked
<1>5. ASSUME s.mark = WriterIdOffset
      PROVE  (reader => Legal(s, w, reader)) /\ Marked(s, w) = NumbersBytes(w.ids, Len(w.ids), 2)
  BY <1>5 DEF Legal, Marked
<1> QED
  BY <1>1, <1>2, <1>3, <1>4, <1>5

\* Marks are not the same as no mark.
LEMMA MarksAre ==
    /\ Unmarked \in Marks /\ GroupIdOffset \in Marks /\ SequenceOffset \in Marks /\ TimestampOffset \in Marks
    /\ PicosecondsOffset \in Marks /\ WriterIdOffset \in Marks /\ DSMSequenceOffset \in Marks
    /\ DataValueOffset \in Marks /\ VariantOffset \in Marks
    /\ Unmarked \notin {GroupIdOffset, SequenceOffset, TimestampOffset, PicosecondsOffset, WriterIdOffset,
                        DSMSequenceOffset, DataValueOffset, VariantOffset}
BY DEF Marks, Writable, PublisherIdOffset, GroupIdOffset, WriterIdOffset, TimestampOffset, SequenceOffset,
       PicosecondsOffset, DSMSequenceOffset, DataValueOffset, VariantOffset, Unmarked

\* The id of the DataSet class.
LEMMA ClassIs ==
    ASSUME NEW m \in NetworkMessages
    PROVE  ClassBytes(m) = OptionalBytes(m.on, m.val, "classId", 16)
<1>1. \A g : g = ClassTo(m) => g[1] = <<>> \o OptionalBytes(m.on, m.val, "classId", 16)
  <2> TAKE g
  <2> HAVE g = ClassTo(m)
  <2>1. FieldsFit(m.val, ClassLayout) /\ <<>> \in Seq(Octet) /\ ClassLayout \in Seq(NMFields \X Widths)
    BY NumbersFit, LayoutsAre
  <2>2. g = Fielded(<<>>, m.on, m.val, ClassLayout)
    BY DEF ClassTo
  <2>3. g[0] = <<>> /\ Grows(g, m.on, m.val, ClassLayout)
    BY <2>1, <2>2, FieldedMore
  <2>4. 1 \in 1..Len(ClassLayout) /\ 1 - 1 = 0 /\ ClassLayout[1] = <<"classId", 16>>
    BY LayoutsAre
  <2>5. g[1] = g[1 - 1] \o OptionalBytes(m.on, m.val, ClassLayout[1][1], ClassLayout[1][2])
    BY <2>3, <2>4 DEF Grows
  <2>6. ClassLayout[1][1] = "classId" /\ ClassLayout[1][2] = 16
    BY <2>4
  <2> QED
    BY <2>3, <2>4, <2>5, <2>6
<1>2. OptionalBytes(m.on, m.val, "classId", 16) \in Seq(Octet)
  <2>1. 16 \in Widths /\ m.val["classId"] \in Unsigned(16)
    BY NumbersFit DEF Widths
  <2> QED
    BY <2>1, OptionalBytesType
<1> QED
  BY <1>1, <1>2 DEF ClassBytes

\* It lies along its piece.
LEMMA ClassLaid ==
    ASSUME NEW m \in NetworkMessages, NEW w \in NetworkMessages, Alike(m, w), NEW reader
    PROVE  Laid(SpanIf(w, "classId", 16, Unmarked), ClassBytes(m), ClassBytes(w), w, reader)
<1>1. 16 \in Widths /\ m.val["classId"] \in Unsigned(16) /\ w.val["classId"] \in Unsigned(16)
  BY NumbersFit DEF Widths
<1>2. "classId" \in NMFields /\ "classId" # "sequenceNumber" /\ Unmarked \in Marks
  BY MarksAre DEF NMFields
<1> DEFINE f == "classId"
           n == 16
           s == Span(n, Unmarked)
<1>3. f \in NMFields /\ n \in Widths /\ m.val[f] \in Unsigned(n) /\ w.val[f] \in Unsigned(n) /\ f # "sequenceNumber"
  BY <1>1, <1>2
<1> HIDE DEF f, n
<1>4. Laid(SpanIf(w, f, n, Unmarked), OptionalBytes(m.on, m.val, f, n), OptionalBytes(w.on, w.val, f, n), w, reader)
  BY <1>2, <1>3, NumberLaid
<1> QED
  BY <1>4, ClassIs DEF f, n

\* The group header.
LEMMA GroupLaid ==
    ASSUME NEW m \in NetworkMessages, NEW w \in NetworkMessages, Alike(m, w), NEW reader \in BOOLEAN
    PROVE  Laid(GroupPieces(w, reader), GroupBytes(m), GroupBytes(w), w, reader)
<1>1. m.on = w.on
  BY AlikeHas
<1>2. CASE "groupHeader" \notin w.on
  <2>1. GroupPieces(w, reader) = <<>> /\ GroupBytes(m) = <<>> /\ GroupBytes(w) = <<>>
    BY <1>1, <1>2 DEF GroupPieces, GroupBytes
  <2> QED
    BY <2>1, LaidNone
<1>3. CASE "groupHeader" \in w.on
  <2> DEFINE g == GroupTo(m)
             h == GroupTo(w)
             mark == ForReader(reader, GroupIdOffset)
             Q == <<Span(1, Unmarked)>>
             S1 == SpanIf(w, "writerGroupId", 2, mark)
             S2 == SpanIf(w, "groupVersion", 4, Unmarked)
             S3 == SpanIf(w, "nmNumber", 2, Unmarked)
             S4 == SpanIf(w, "sequenceNumber", 2, SequenceOffset)
             O(x, f, n) == OptionalBytes(x.on, x.val, f, n)
  <2>1. GroupBytes(m) = g[4] /\ GroupBytes(w) = h[4] /\ GroupPieces(w, reader) = Q \o S1 \o S2 \o S3 \o S4
    BY <1>1, <1>3 DEF GroupBytes, GroupPieces
  <2>2. /\ g[0] = <<GroupFlag(m)>> /\ g[1] = g[0] \o O(m, "writerGroupId", 2) /\ g[2] = g[1] \o O(m, "groupVersion", 4)
        /\ g[3] = g[2] \o O(m, "nmNumber", 2) /\ g[4] = g[3] \o O(m, "sequenceNumber", 2)
    BY GroupGrows
  <2>3. /\ h[0] = <<GroupFlag(w)>> /\ h[1] = h[0] \o O(w, "writerGroupId", 2) /\ h[2] = h[1] \o O(w, "groupVersion", 4)
        /\ h[3] = h[2] \o O(w, "nmNumber", 2) /\ h[4] = h[3] \o O(w, "sequenceNumber", 2)
    BY GroupGrows
  <2>4. Laid(Q, g[0], h[0], w, reader)
    <3> DEFINE b == <<GroupFlag(w)>>
               n == 1
               s == Span(n, Unmarked)
    <3>1. b \in Seq(Octet) /\ Len(b) = n
      BY GroupGrows, OneByte
    <3>2. g[0] = b /\ h[0] = b
      <4>1. GroupFlag(m) = GroupFlag(w)
        BY <1>1 DEF GroupFlag
      <4> QED
        BY <2>2, <2>3, <4>1
    <3> HIDE DEF b, n
    <3>3. Laid(<<s>>, b, b, w, reader)
      BY <3>1, LaidSame
    <3> QED
      BY <3>2, <3>3 DEF n
  <2>5. Laid(S1, O(m, "writerGroupId", 2), O(w, "writerGroupId", 2), w, reader)
    <3> DEFINE f == "writerGroupId"
               n == 2
               s == Span(n, mark)
    <3>1. f \in NMFields /\ f # "sequenceNumber" /\ n \in Widths /\ n \in Nat /\ m.val[f] \in Unsigned(n) /\ w.val[f] \in Unsigned(n)
      BY NumbersFit DEF Widths, NMFields
    <3>2. mark \in Marks /\ (mark # Unmarked => mark = GroupIdOffset /\ reader)
      BY MarksAre DEF ForReader
    <3>3. LE(w.val[f], n) = LE(w.val["writerGroupId"], 2)
      OBVIOUS
    <3> HIDE DEF f, n, mark
    <3>4. s.mark = mark
      BY <3>1, <3>2, SpanType
    <3>5. mark # Unmarked => Legal(s, w, reader) /\ Marked(s, w) = LE(w.val[f], n)
      BY <3>2, <3>3, <3>4, NumberMarks
    <3> HIDE DEF s
    <3>6. s = Span(n, mark)
      BY DEF s
    <3>7. Laid(SpanIf(w, f, n, mark), O(m, f, n), O(w, f, n), w, reader)
      BY <3>1, <3>2, <3>5, <3>6, NumberLaid
    <3> QED
      BY <3>7 DEF f, n, mark
  <2>6. Laid(S2, O(m, "groupVersion", 4), O(w, "groupVersion", 4), w, reader)
    <3> DEFINE f == "groupVersion"
               n == 4
    <3>1. f \in NMFields /\ f # "sequenceNumber" /\ n \in Widths /\ m.val[f] \in Unsigned(n) /\ w.val[f] \in Unsigned(n)
      BY NumbersFit DEF Widths, NMFields
    <3> HIDE DEF f, n
    <3>2. Laid(SpanIf(w, f, n, Unmarked), O(m, f, n), O(w, f, n), w, reader)
      BY <3>1, MarksAre, NumberLaid
    <3> QED
      BY <3>2 DEF f, n
  <2>7. Laid(S3, O(m, "nmNumber", 2), O(w, "nmNumber", 2), w, reader)
    <3> DEFINE f == "nmNumber"
               n == 2
    <3>1. f \in NMFields /\ f # "sequenceNumber" /\ n \in Widths /\ m.val[f] \in Unsigned(n) /\ w.val[f] \in Unsigned(n)
      BY NumbersFit DEF Widths, NMFields
    <3> HIDE DEF f, n
    <3>2. Laid(SpanIf(w, f, n, Unmarked), O(m, f, n), O(w, f, n), w, reader)
      BY <3>1, MarksAre, NumberLaid
    <3> QED
      BY <3>2 DEF f, n
  <2>8. Laid(S4, O(m, "sequenceNumber", 2), O(w, "sequenceNumber", 2), w, reader)
    <3> DEFINE f == "sequenceNumber"
               n == 2
               s == Span(n, SequenceOffset)
    <3>1. f \in NMFields /\ n \in Widths /\ n \in Nat /\ m.val[f] \in Unsigned(n) /\ w.val[f] \in Unsigned(n)
      BY NumbersFit DEF Widths, NMFields
    <3>3. LE(w.val[f], n) = LE(w.val["sequenceNumber"], 2)
      OBVIOUS
    <3> HIDE DEF f, n
    <3>4. s.mark = SequenceOffset
      BY <3>1, MarksAre, SpanType
    <3>5. Legal(s, w, reader) /\ Marked(s, w) = LE(w.val[f], n)
      BY <3>3, <3>4, NumberMarks
    <3>6. SequenceOffset # Unmarked /\ SequenceOffset \in Marks
      BY MarksAre
    <3> HIDE DEF s
    <3>7. s = Span(n, SequenceOffset)
      BY DEF s
    <3>8. Laid(SpanIf(w, f, n, SequenceOffset), O(m, f, n), O(w, f, n), w, reader)
      BY <3>1, <3>5, <3>6, <3>7, NumberLaid
    <3> QED
      BY <3>8 DEF f, n
  <2> HIDE DEF g, h, Q, S1, S2, S3, S4, O
  <2>9. Laid(Q \o S1, g[1], h[1], w, reader)
    BY <2>2, <2>3, <2>4, <2>5, LaidConcat
  <2>10. Laid(Q \o S1 \o S2, g[2], h[2], w, reader)
    BY <2>2, <2>3, <2>9, <2>6, LaidConcat
  <2>11. Laid(Q \o S1 \o S2 \o S3, g[3], h[3], w, reader)
    BY <2>2, <2>3, <2>10, <2>7, LaidConcat
  <2>12. Laid(Q \o S1 \o S2 \o S3 \o S4, g[4], h[4], w, reader)
    BY <2>2, <2>3, <2>11, <2>8, LaidConcat
  <2> QED
    BY <2>1, <2>12
<1> QED
  BY <1>2, <1>3

\* The payload header.
LEMMA WriterLaid ==
    ASSUME NEW m \in NetworkMessages, NEW w \in NetworkMessages, Alike(m, w), NEW reader \in BOOLEAN
    PROVE  Laid(PayloadHeaderPieces(w, reader), WriterBytes(m), WriterBytes(w), w, reader)
<1>1. m.on = w.on /\ m.ids = w.ids
  BY AlikeHas
<1>2. WriterBytes(m) = WriterBytes(w)
  BY <1>1 DEF WriterBytes
<1>3. CASE "payloadHeader" \notin w.on
  <2>1. PayloadHeaderPieces(w, reader) = <<>> /\ WriterBytes(w) = <<>>
    BY <1>3 DEF PayloadHeaderPieces, WriterBytes
  <2> QED
    BY <1>2, <2>1, LaidNone
<1>4. CASE "payloadHeader" \in w.on
  <2> DEFINE n == 2 * Len(w.ids)
             mark == ForReader(reader, WriterIdOffset)
             s == Span(n, mark)
             one == 1
             q == Span(one, Unmarked)
             a == <<Len(w.ids)>>
             b == NumbersBytes(w.ids, Len(w.ids), 2)
  <2>1. a \in Seq(Octet) /\ Len(a) = one
    <3>1. Len(w.ids) \in Octet
      <4>1. Len(w.ids) \in Unsigned(1)
        BY MessageHas
      <4>2. Unsigned(1) = Octet
        BY DEF Unsigned, Limit, Octet
      <4> QED
        BY <4>1, <4>2
    <3> QED
      BY <3>1, OneByte
  <2>2. b \in Seq(Octet) /\ Len(b) = n /\ n \in Nat
    <3> DEFINE l == Len(w.ids)
               x == w.ids
    <3>1. l \in Nat /\ 2 \in Widths /\ \A i \in 1..l : x[i] \in Nat
      <4>1. x \in Seq(Unsigned(2))
        BY MessageHas
      <4>2. Unsigned(2) \subseteq Nat
        BY DEF Unsigned
      <4> QED
        BY <4>1, <4>2 DEF Widths
    <3> HIDE DEF l, x
    <3>2. Piece(FlattenSeq([i \in 1..l |-> Must(LE(x[i], 2))]), NumbersBytes(x, l, 2), 2 * l)
      BY <3>1, NumbersPiece
    <3> QED
      BY <3>2, PieceType DEF l, x
  <2>3. WriterBytes(w) = a \o b /\ PayloadHeaderPieces(w, reader) = <<q>> \o <<s>>
    <3>1. PayloadHeaderPieces(w, reader) = <<q, s>>
      BY <1>4 DEF PayloadHeaderPieces
    <3> HIDE DEF q, s
    <3>2. <<q, s>> = <<q>> \o <<s>>
      OBVIOUS
    <3> QED
      BY <1>4, <3>1, <3>2 DEF WriterBytes
  <2>4. mark \in Marks /\ (reader => mark = WriterIdOffset) /\ (~reader => mark = Unmarked) /\ WriterIdOffset # Unmarked
    BY MarksAre DEF ForReader
  <2>5. b = NumbersBytes(w.ids, Len(w.ids), 2)
    OBVIOUS
  <2> HIDE DEF n, mark, one, a, b
  <2>6. s \in Spans /\ s.size = n /\ s.mark = mark
    BY <2>2, <2>4, SpanType
  <2>7. Laid(<<q>>, a, a, w, reader)
    BY <2>1, LaidSame
  <2>8. Laid(<<s>>, b, b, w, reader)
    <3>1. CASE ~reader
      <4>1. s = Span(n, Unmarked)
        BY <2>4, <3>1
      <4> QED
        BY <2>2, <4>1, LaidSame
    <3>2. CASE reader
      <4>1. s.mark = WriterIdOffset /\ s.mark # Unmarked
        BY <2>4, <2>6, <3>2
      <4>2. Legal(s, w, reader) /\ Marked(s, w) = b
        BY <2>5, <3>2, <4>1, NumberMarks
      <4> HIDE DEF s
      <4> QED
        BY <2>2, <2>6, <4>1, <4>2, LaidMarked
    <3> QED
      BY <3>1, <3>2
  <2> HIDE DEF q, s
  <2> QED
    BY <1>2, <2>3, <2>7, <2>8, LaidConcat
<1> QED
  BY <1>3, <1>4

\* The time stamps, one and the other.
LEMMA StampIs ==
    ASSUME NEW m \in NetworkMessages
    PROVE  /\ StampBytes(m) = OptionalBytes(m.on, m.val, "timestamp", 8) \o OptionalBytes(m.on, m.val, "picoseconds", 2)
           /\ OptionalBytes(m.on, m.val, "timestamp", 8) \in Seq(Octet)
           /\ OptionalBytes(m.on, m.val, "picoseconds", 2) \in Seq(Octet)
<1>1. OptionalBytes(m.on, m.val, "timestamp", 8) \in Seq(Octet)
  <2>1. 8 \in Widths /\ m.val["timestamp"] \in Unsigned(8)
    BY NumbersFit DEF Widths
  <2> QED
    BY <2>1, OptionalBytesType
<1>2. OptionalBytes(m.on, m.val, "picoseconds", 2) \in Seq(Octet)
  <2>1. 2 \in Widths /\ m.val["picoseconds"] \in Unsigned(2)
    BY NumbersFit DEF Widths
  <2> QED
    BY <2>1, OptionalBytesType
<1>3. StampBytes(m) = (<<>> \o OptionalBytes(m.on, m.val, "timestamp", 8)) \o OptionalBytes(m.on, m.val, "picoseconds", 2)
  BY StampGrows DEF StampBytes
<1> DEFINE a == OptionalBytes(m.on, m.val, "timestamp", 8)
<1>4. <<>> \o a = a
  <2> HIDE DEF a
  <2> QED
    BY <1>1 DEF a
<1> QED
  BY <1>1, <1>2, <1>3, <1>4

\* They lie along their pieces.
LEMMA StampLaid ==
    ASSUME NEW m \in NetworkMessages, NEW w \in NetworkMessages, Alike(m, w), NEW reader
    PROVE  Laid(SpanIf(w, "timestamp", 8, TimestampOffset) \o SpanIf(w, "picoseconds", 2, PicosecondsOffset),
                StampBytes(m), StampBytes(w), w, reader)
<1>1. Laid(SpanIf(w, "timestamp", 8, TimestampOffset), OptionalBytes(m.on, m.val, "timestamp", 8),
           OptionalBytes(w.on, w.val, "timestamp", 8), w, reader)
  <2> DEFINE f == "timestamp"
             n == 8
             s == Span(n, TimestampOffset)
  <2>1. f \in NMFields /\ n \in Widths /\ n \in Nat /\ m.val[f] \in Unsigned(n) /\ w.val[f] \in Unsigned(n)
    BY NumbersFit DEF Widths, NMFields
  <2>2. LE(w.val[f], n) = LE(w.val["timestamp"], 8) /\ (f \in w.on <=> "timestamp" \in w.on)
    OBVIOUS
  <2> HIDE DEF f, n
  <2>3. s.mark = TimestampOffset
    BY <2>1, MarksAre, SpanType
  <2>4. f \in w.on => Legal(s, w, reader) /\ Marked(s, w) = LE(w.val[f], n)
    BY <2>2, <2>3, NumberMarks
  <2>5. TimestampOffset # Unmarked /\ TimestampOffset \in Marks
    BY MarksAre
  <2> HIDE DEF s
  <2>6. s = Span(n, TimestampOffset)
    BY DEF s
  <2>7. Laid(SpanIf(w, f, n, TimestampOffset), OptionalBytes(m.on, m.val, f, n), OptionalBytes(w.on, w.val, f, n), w, reader)
    BY <2>1, <2>4, <2>5, <2>6, NumberLaid
  <2> QED
    BY <2>7 DEF f, n
<1>2. Laid(SpanIf(w, "picoseconds", 2, PicosecondsOffset), OptionalBytes(m.on, m.val, "picoseconds", 2),
           OptionalBytes(w.on, w.val, "picoseconds", 2), w, reader)
  <2> DEFINE f == "picoseconds"
             n == 2
             s == Span(n, PicosecondsOffset)
  <2>1. f \in NMFields /\ n \in Widths /\ n \in Nat /\ m.val[f] \in Unsigned(n) /\ w.val[f] \in Unsigned(n)
    BY NumbersFit DEF Widths, NMFields
  <2>2. LE(w.val[f], n) = LE(w.val["picoseconds"], 2) /\ (f \in w.on <=> "picoseconds" \in w.on)
    OBVIOUS
  <2> HIDE DEF f, n
  <2>3. s.mark = PicosecondsOffset
    BY <2>1, MarksAre, SpanType
  <2>4. f \in w.on => Legal(s, w, reader) /\ Marked(s, w) = LE(w.val[f], n)
    BY <2>2, <2>3, NumberMarks
  <2>5. PicosecondsOffset # Unmarked /\ PicosecondsOffset \in Marks
    BY MarksAre
  <2> HIDE DEF s
  <2>6. s = Span(n, PicosecondsOffset)
    BY DEF s
  <2>7. Laid(SpanIf(w, f, n, PicosecondsOffset), OptionalBytes(m.on, m.val, f, n), OptionalBytes(w.on, w.val, f, n), w, reader)
    BY <2>1, <2>4, <2>5, <2>6, NumberLaid
  <2> QED
    BY <2>7 DEF f, n
<1> QED
  BY <1>1, <1>2, LaidConcat, StampIs

\* The promoted fields.
LEMMA PromotedLaid ==
    ASSUME NEW m \in NetworkMessages, NEW w \in NetworkMessages, Alike(m, w), NEW reader
    PROVE  Laid(PromotedPieces(w), PromotedBytes(m), PromotedBytes(w), w, reader)
<1>1. m.on = w.on /\ m.promoted = w.promoted
  BY AlikeHas
<1>2. PromotedBytes(m) = PromotedBytes(w)
  BY <1>1 DEF PromotedBytes, PromotedSize, PromotedOf
<1> DEFINE b == PromotedBytes(w)
           n == 2 + PromotedSize(w)
           c == "promoted" \in w.on
           P == PromotedPieces(w)
<1>3. b \in Seq(Octet) /\ Len(b) = (IF c THEN n ELSE 0)
  BY PromotedPiece, PieceType
<1>4. P = IF c THEN <<Span(n, Unmarked)>> ELSE <<>>
  BY DEF PromotedPieces, SpanIf, PromotedSize, SumOf
<1>5. ~c => b = <<>>
  BY DEF PromotedBytes
<1>6. c \in BOOLEAN
  OBVIOUS
<1> HIDE DEF b, n, c, P
<1>7. c => n = Len(b)
  BY <1>3
<1>8. Laid(P, b, b, w, reader)
  BY <1>3, <1>4, <1>5, <1>6, <1>7, LaidIf
<1> QED
  BY <1>2, <1>8 DEF b, P

\* The security header.
LEMMA SecurityLaid ==
    ASSUME NEW m \in NetworkMessages, NEW w \in NetworkMessages, Alike(m, w), NEW reader
    PROVE  Laid(SecurityPieces(w), SecurityBytes(m), SecurityBytes(w), w, reader)
<1>1. m.on = w.on /\ m.nonce = w.nonce /\ m.val["tokenId"] = w.val["tokenId"] /\ m.val["footerSize"] = w.val["footerSize"]
  <2>1. "tokenId" \in NMFields \ {"sequenceNumber"} /\ "footerSize" \in NMFields \ {"sequenceNumber"}
    BY DEF NMFields
  <2> QED
    BY <2>1, AlikeHas
<1>2. SecurityBytes(m) = SecurityBytes(w)
  BY <1>1 DEF SecurityBytes, SecurityFlag
<1>3. CASE "security" \notin w.on
  <2>1. SecurityPieces(w) = <<>> /\ SecurityBytes(w) = <<>>
    BY <1>3 DEF SecurityPieces, SecurityBytes
  <2> QED
    BY <1>2, <2>1, LaidNone
<1>4. CASE "security" \in w.on
  <2> DEFINE t == <<SecurityFlag(w)>>
             u == LE(w.val["tokenId"], 4)
             v == <<Len(w.nonce)>>
             x == w.nonce
             a == t \o u \o v \o x
             c == "footer" \in w.on
             b == IF c THEN LE(w.val["footerSize"], 2) ELSE <<>>
             n == 6 + Len(w.nonce)
             two == 2
             s == Span(n, Unmarked)
             F == SpanIf(w, "footer", 2, Unmarked)
  <2>1. SecurityBytes(w) = a \o b /\ SecurityPieces(w) = <<s>> \o F
    BY <1>4 DEF SecurityBytes, SecurityPieces
  <2>2. a \in Seq(Octet) /\ Len(a) = n
    <3>1. t \in Seq(Octet) /\ Len(t) = 1
      BY SecurityPiece, OneByte
    <3>2. u \in Seq(Octet) /\ Len(u) = 4
      <4>1. w.val["tokenId"] \in Nat /\ 4 \in Nat
        BY MessageHas DEF Unsigned
      <4> QED
        BY <4>1, LEType
    <3>3. v \in Seq(Octet) /\ Len(v) = 1
      BY SecurityPiece, OneByte
    <3>4. x \in Seq(Octet) /\ Len(x) \in Nat
      <4>1. x \in Seq(Octet)
        BY MessageHas
      <4> QED
        BY <4>1
    <3>8. n = 6 + Len(x)
      OBVIOUS
    <3> HIDE DEF t, u, v, x, n
    <3>5. t \o u \in Seq(Octet) /\ Len(t \o u) = Len(t) + Len(u)
      BY <3>1, <3>2, OctetsConcat
    <3>6. t \o u \o v \in Seq(Octet) /\ Len(t \o u \o v) = Len(t \o u) + Len(v)
      BY <3>3, <3>5, OctetsConcat
    <3>7. a \in Seq(Octet) /\ Len(a) = Len(t \o u \o v) + Len(x)
      BY <3>4, <3>6, OctetsConcat
    <3>9. Len(a) = 6 + Len(x)
      BY <3>1, <3>2, <3>3, <3>4, <3>5, <3>6, <3>7
    <3> QED
      BY <3>7, <3>8, <3>9
  <2>3. b \in Seq(Octet) /\ (c => two = Len(b)) /\ (~c => b = <<>>)
    <3>1. w.val["footerSize"] \in Nat /\ 2 \in Nat
      BY MessageHas DEF Unsigned
    <3>2. LE(w.val["footerSize"], 2) \in Seq(Octet) /\ Len(LE(w.val["footerSize"], 2)) = 2
      BY <3>1, LEType
    <3> QED
      BY <3>2
  <2>4. F = (IF c THEN <<Span(two, Unmarked)>> ELSE <<>>) /\ c \in BOOLEAN
    BY DEF SpanIf
  <2> HIDE DEF a, b, c, n, two, F
  <2>5. Laid(<<s>>, a, a, w, reader)
    BY <2>2, LaidSame
  <2>6. Laid(F, b, b, w, reader)
    BY <2>3, <2>4, LaidIf
  <2> HIDE DEF s
  <2> QED
    BY <1>2, <2>1, <2>5, <2>6, LaidConcat
<1> QED
  BY <1>3, <1>4

---------------------------------------------------------------------------
(* The pieces of a DataSetMessage. *)

\* A piece in DataSetMessage n, at field i of it.
SpanIn(size, mark, n, i) == [size |-> size, mark |-> mark, dsm |-> n, field |-> i]

\* Such pieces.
LEMMA SpanInType ==
    ASSUME NEW size \in Nat, NEW mark \in Marks, NEW n \in Nat, NEW i \in Nat, NEW s, s = SpanIn(size, mark, n, i)
    PROVE  s \in Spans /\ s.size = size /\ s.mark = mark /\ s.dsm = n /\ s.field = i
BY DEF SpanIn, Spans

\* A piece that is put into DataSetMessage n.
LEMMA SpanMoves ==
    ASSUME NEW s \in Spans, NEW n
    PROVE  [s EXCEPT !.dsm = n] = SpanIn(s.size, s.mark, n, s.field)
BY DEF SpanIn, Spans

\* The pieces of a list, moved.
LEMMA InMessageType ==
    ASSUME NEW P \in Seq(Spans), NEW n \in Nat
    PROVE  /\ InMessage(P, n) \in Seq(Spans) /\ Len(InMessage(P, n)) = Len(P)
           /\ \A k \in 1..Len(P) : InMessage(P, n)[k] = SpanIn(P[k].size, P[k].mark, n, P[k].field)
<1> DEFINE l == Len(P)
           Q == InMessage(P, n)
<1>1. l \in Nat /\ DOMAIN P = 1..l /\ \A k \in 1..l : P[k] \in Spans
  OBVIOUS
<1>2. Q = [k \in 1..l |-> [P[k] EXCEPT !.dsm = n]]
  BY <1>1 DEF InMessage
<1>3. \A k \in 1..l : Q[k] = SpanIn(P[k].size, P[k].mark, n, P[k].field)
  BY <1>1, <1>2, SpanMoves
<1>4. \A k \in 1..l : SpanIn(P[k].size, P[k].mark, n, P[k].field) \in Spans
  <2> TAKE k \in 1..l
  <2>1. P[k].size \in Nat /\ P[k].mark \in Marks /\ P[k].field \in Nat
    BY <1>1 DEF Spans
  <2> QED
    BY <2>1 DEF SpanIn, Spans
<1> HIDE DEF l, Q
<1>5. Q = [k \in 1..l |-> SpanIn(P[k].size, P[k].mark, n, P[k].field)]
  BY <1>2, <1>3
<1>6. Q \in Seq(Spans) /\ Len(Q) = l
  BY <1>1, <1>4, <1>5
<1> QED
  BY <1>3, <1>6 DEF l, Q

\* They are moved one list after the other.
LEMMA InMessageConcat ==
    ASSUME NEW P \in Seq(Spans), NEW Q \in Seq(Spans), NEW n \in Nat
    PROVE  InMessage(P \o Q, n) = InMessage(P, n) \o InMessage(Q, n)
<1> DEFINE k == Len(P)
           l == Len(Q)
           R == P \o Q
           A == InMessage(P, n)
           B == InMessage(Q, n)
           C == InMessage(R, n)
<1>1. k \in Nat /\ l \in Nat /\ R \in Seq(Spans) /\ Len(R) = k + l
      /\ \A i \in 1..(k + l) : R[i] = IF i <= k THEN P[i] ELSE Q[i - k]
  OBVIOUS
<1>2. A \in Seq(Spans) /\ Len(A) = k /\ \A i \in 1..k : A[i] = SpanIn(P[i].size, P[i].mark, n, P[i].field)
  BY InMessageType
<1>3. B \in Seq(Spans) /\ Len(B) = l /\ \A i \in 1..l : B[i] = SpanIn(Q[i].size, Q[i].mark, n, Q[i].field)
  BY InMessageType
<1>4. C \in Seq(Spans) /\ Len(C) = k + l /\ \A i \in 1..(k + l) : C[i] = SpanIn(R[i].size, R[i].mark, n, R[i].field)
  <2>1. C \in Seq(Spans) /\ Len(C) = Len(R) /\ \A i \in 1..Len(R) : C[i] = SpanIn(R[i].size, R[i].mark, n, R[i].field)
    BY <1>1, InMessageType
  <2> QED
    BY <1>1, <2>1
<1> HIDE DEF k, l, R, A, B, C
<1>5. A \o B \in Seq(Spans) /\ Len(A \o B) = k + l
      /\ \A i \in 1..(k + l) : (A \o B)[i] = IF i <= k THEN A[i] ELSE B[i - k]
  <2>1. A \in Seq(Spans) /\ B \in Seq(Spans) /\ Len(A) = k /\ Len(B) = l
    BY <1>2, <1>3
  <2>2. A \o B \in Seq(Spans) /\ Len(A \o B) = Len(A) + Len(B)
        /\ \A i \in 1..(Len(A) + Len(B)) : (A \o B)[i] = IF i <= Len(A) THEN A[i] ELSE B[i - Len(A)]
    <3> HIDE DEF Spans
    <3>1. A \in Seq(Spans) /\ B \in Seq(Spans)
      BY <2>1
    <3> QED
      BY <3>1, SMTT(60)
  <2> QED
    BY <2>1, <2>2
<1>6. ASSUME NEW i \in 1..(k + l)
      PROVE  C[i] = (A \o B)[i]
  <2>1. CASE i <= k
    <3>1. i \in 1..k /\ R[i] = P[i] /\ (A \o B)[i] = A[i]
      BY <1>1, <1>5, <2>1
    <3> QED
      BY <1>2, <1>4, <3>1
  <2>2. CASE ~(i <= k)
    <3>1. i - k \in 1..l /\ R[i] = Q[i - k] /\ (A \o B)[i] = B[i - k]
      BY <1>1, <1>5, <2>2
    <3> QED
      BY <1>3, <1>4, <3>1
  <2> QED
    BY <2>1, <2>2
<1>7. C = A \o B
  BY <1>4, <1>5, <1>6
<1> QED
  BY <1>7 DEF A, B, C, R

\* One piece, and none.
LEMMA InMessageOne ==
    ASSUME NEW size \in Nat, NEW mark \in Marks, NEW n \in Nat
    PROVE  /\ InMessage(<<Span(size, mark)>>, n) = <<SpanIn(size, mark, n, 0)>>
           /\ <<Span(size, mark)>> \in Seq(Spans) /\ InMessage(<<>>, n) = <<>> /\ <<>> \in Seq(Spans)
<1> DEFINE s == Span(size, mark)
           P == <<s>>
           Q == InMessage(P, n)
<1>1. s \in Spans /\ s.size = size /\ s.mark = mark /\ s.field = 0
  BY SpanType
<1> HIDE DEF s
<1>2. P \in Seq(Spans) /\ Len(P) = 1 /\ P[1] = s
  BY <1>1
<1>3. <<>> \in Seq(Spans) /\ Len(<<>>) = 0
  OBVIOUS
<1> HIDE DEF P
<1>4. Q \in Seq(Spans) /\ Len(Q) = 1 /\ Q[1] = SpanIn(size, mark, n, 0)
  BY <1>1, <1>2, InMessageType
<1>5. Q = <<SpanIn(size, mark, n, 0)>>
  <2> HIDE DEF Q
  <2> QED
    BY <1>4
<1>6. InMessage(<<>>, n) = <<>>
  <2> DEFINE R == InMessage(<<>>, n)
  <2>1. R \in Seq(Spans) /\ Len(R) = 0
    BY <1>3, InMessageType
  <2> HIDE DEF R
  <2>2. R = <<>>
    BY <2>1
  <2> QED
    BY <2>2 DEF R
<1> QED
  BY <1>2, <1>3, <1>5, <1>6 DEF P, Q, s

\* Sequences of bytes may be put together in any order.
LEMMA OctetsAssoc ==
    ASSUME NEW a \in Seq(Octet), NEW b \in Seq(Octet), NEW c \in Seq(Octet)
    PROVE  (a \o b) \o c = a \o (b \o c)
OBVIOUS

---------------------------------------------------------------------------
(* The header of a DataSetMessage along its pieces. *)

\* What stands behind the sequence number, and its size.
RestBytes(d) == OptionalBytes(d.on, d.val, "timestamp", 8) \o OptionalBytes(d.on, d.val, "picoSeconds", 2)
                \o OptionalBytes(d.on, d.val, "status", 2) \o OptionalBytes(d.on, d.val, "majorVersion", 4)
                \o OptionalBytes(d.on, d.val, "minorVersion", 4)
RestSize(d)  == SizeIf(d, "timestamp", 8) + SizeIf(d, "picoSeconds", 2) + SizeIf(d, "status", 2)
                + SizeIf(d, "majorVersion", 4) + SizeIf(d, "minorVersion", 4)

\* The header in three parts.
LEMMA HeaderIs ==
    ASSUME NEW d \in DataSetMessages
    PROVE  /\ HeaderBytes(d) = (FlagBytes(d) \o OptionalBytes(d.on, d.val, "sequenceNr", 2)) \o RestBytes(d)
           /\ RestBytes(d) \in Seq(Octet) /\ Len(RestBytes(d)) = RestSize(d) /\ RestSize(d) \in Nat
           /\ OptionalBytes(d.on, d.val, "sequenceNr", 2) \in Seq(Octet)
<1> DEFINE O(f, n) == OptionalBytes(d.on, d.val, f, n)
           Z(f, n) == IF f \in d.on THEN n ELSE 0
           o1 == O("sequenceNr", 2)
           o2 == O("timestamp", 8)
           o3 == O("picoSeconds", 2)
           o4 == O("status", 2)
           o5 == O("majorVersion", 4)
           o6 == O("minorVersion", 4)
           n2 == Z("timestamp", 8)
           n3 == Z("picoSeconds", 2)
           n4 == Z("status", 2)
           n5 == Z("majorVersion", 4)
           n6 == Z("minorVersion", 4)
           a == FlagBytes(d) \o o1
           g == HeaderTo(d)
<1>1. 2 \in Widths /\ 4 \in Widths /\ 8 \in Widths
  BY DEF Widths
<1>2. \A f \in DSMFields, n \in Widths : d.val[f] \in Unsigned(n) => O(f, n) \in Seq(Octet) /\ Len(O(f, n)) = Z(f, n) /\ Z(f, n) \in Nat
  <2> TAKE f \in DSMFields, n \in Widths
  <2> DEFINE v == d.val
             on == d.on
             b == OptionalBytes(on, v, f, n)
             z == IF f \in on THEN n ELSE 0
  <2>1. ASSUME v[f] \in Unsigned(n)
        PROVE  b \in Seq(Octet) /\ Len(b) = z /\ z \in Nat
    <3> HIDE DEF v, on
    <3> QED
      BY <2>1, OptionalBytesType
  <2> QED
    BY <2>1
<1>3. o1 \in Seq(Octet) /\ o2 \in Seq(Octet) /\ o3 \in Seq(Octet) /\ o4 \in Seq(Octet) /\ o5 \in Seq(Octet) /\ o6 \in Seq(Octet)
  BY <1>1, <1>2, DSMHas DEF DSMFields
<1>4. Len(o2) = n2 /\ Len(o3) = n3 /\ Len(o4) = n4 /\ Len(o5) = n5 /\ Len(o6) = n6
  BY <1>1, <1>2, DSMHas DEF DSMFields
<1>5. n2 \in Nat /\ n3 \in Nat /\ n4 \in Nat /\ n5 \in Nat /\ n6 \in Nat
  OBVIOUS
<1>6. /\ g[0] = FlagBytes(d) /\ g[1] = g[0] \o o1 /\ g[2] = g[1] \o o2 /\ g[3] = g[2] \o o3
      /\ g[4] = g[3] \o o4 /\ g[5] = g[4] \o o5 /\ g[6] = g[5] \o o6
  BY HeaderGrows
<1>7. FlagBytes(d) \in Seq(Octet)
  BY HeaderFlags
<1>8. RestBytes(d) = o2 \o o3 \o o4 \o o5 \o o6 /\ RestSize(d) = n2 + n3 + n4 + n5 + n6 /\ HeaderBytes(d) = g[6]
  BY DEF RestBytes, RestSize, HeaderBytes, SizeIf
<1> HIDE DEF O, Z, o1, o2, o3, o4, o5, o6, n2, n3, n4, n5, n6, g
<1>9. a \in Seq(Octet) /\ g[1] = a
  BY <1>3, <1>6, <1>7
<1> HIDE DEF a
<1>10. g[2] = a \o o2 /\ o2 \o o3 \in Seq(Octet) /\ Len(o2 \o o3) = n2 + n3
  BY <1>3, <1>4, <1>6, <1>9, OctetsConcat
<1>11. g[3] = a \o (o2 \o o3) /\ o2 \o o3 \o o4 \in Seq(Octet) /\ Len(o2 \o o3 \o o4) = n2 + n3 + n4
  <2>1. g[3] = a \o (o2 \o o3)
    <3>1. g[3] = (a \o o2) \o o3
      BY <1>6, <1>10
    <3>2. o2 \in Seq(Octet) /\ o3 \in Seq(Octet) /\ a \in Seq(Octet)
      BY <1>3, <1>9
    <3> QED
      BY <3>1, <3>2, OctetsAssoc
  <2>2. o2 \o o3 \o o4 \in Seq(Octet) /\ Len(o2 \o o3 \o o4) = Len(o2 \o o3) + Len(o4)
    BY <1>3, <1>10, OctetsConcat
  <2> QED
    BY <1>4, <1>10, <2>1, <2>2
<1>12. g[4] = a \o (o2 \o o3 \o o4) /\ o2 \o o3 \o o4 \o o5 \in Seq(Octet) /\ Len(o2 \o o3 \o o4 \o o5) = n2 + n3 + n4 + n5
  <2> DEFINE x == o2 \o o3
  <2>1. g[4] = a \o (x \o o4)
    <3>1. g[4] = (a \o x) \o o4
      BY <1>6, <1>11
    <3>2. x \in Seq(Octet) /\ o4 \in Seq(Octet) /\ a \in Seq(Octet)
      BY <1>3, <1>9, <1>10
    <3> HIDE DEF x
    <3> QED
      BY <3>1, <3>2, OctetsAssoc
  <2>2. o2 \o o3 \o o4 \o o5 \in Seq(Octet) /\ Len(o2 \o o3 \o o4 \o o5) = Len(o2 \o o3 \o o4) + Len(o5)
    BY <1>3, <1>11, OctetsConcat
  <2> QED
    BY <1>4, <1>11, <2>1, <2>2
<1>13. g[5] = a \o (o2 \o o3 \o o4 \o o5) /\ o2 \o o3 \o o4 \o o5 \o o6 \in Seq(Octet)
       /\ Len(o2 \o o3 \o o4 \o o5 \o o6) = n2 + n3 + n4 + n5 + n6
  <2> DEFINE x == o2 \o o3 \o o4
  <2>1. g[5] = a \o (x \o o5)
    <3>1. g[5] = (a \o x) \o o5
      BY <1>6, <1>12
    <3>2. x \in Seq(Octet) /\ o5 \in Seq(Octet) /\ a \in Seq(Octet)
      BY <1>3, <1>9, <1>11
    <3> HIDE DEF x
    <3> QED
      BY <3>1, <3>2, OctetsAssoc
  <2>2. o2 \o o3 \o o4 \o o5 \o o6 \in Seq(Octet) /\ Len(o2 \o o3 \o o4 \o o5 \o o6) = Len(o2 \o o3 \o o4 \o o5) + Len(o6)
    BY <1>3, <1>12, OctetsConcat
  <2> QED
    BY <1>4, <1>12, <2>1, <2>2
<1>14. g[6] = a \o (o2 \o o3 \o o4 \o o5 \o o6)
  <2> DEFINE x == o2 \o o3 \o o4 \o o5
  <2>1. g[6] = (a \o x) \o o6
    BY <1>6, <1>13
  <2>2. x \in Seq(Octet) /\ o6 \in Seq(Octet) /\ a \in Seq(Octet)
    BY <1>3, <1>9, <1>12
  <2> HIDE DEF x
  <2>3. g[6] = a \o (x \o o6)
    BY <2>1, <2>2, OctetsAssoc
  <2> QED
    BY <2>3 DEF x
<1> QED
  BY <1>3, <1>5, <1>8, <1>13, <1>14 DEF a, o1, O

\* What AlikeDSM says of the header.
LEMMA AlikeHeader ==
    ASSUME NEW d \in DataSetMessages, NEW e \in DataSetMessages, AlikeDSM(d, e)
    PROVE  /\ d.on = e.on /\ d.type = e.type /\ d.enc = e.enc /\ Len(d.fields) = Len(e.fields)
           /\ FlagBytes(d) = FlagBytes(e) /\ RestBytes(d) = RestBytes(e)
           /\ (DataSetFlags2Enabled(d) <=> DataSetFlags2Enabled(e)) /\ HeaderSize(d) = HeaderSize(e)
<1>1. d.on = e.on /\ d.type = e.type /\ d.enc = e.enc /\ Len(d.fields) = Len(e.fields)
  BY DEF AlikeDSM
<1>2. DataSetFlags2Enabled(d) <=> DataSetFlags2Enabled(e)
  BY <1>1 DEF DataSetFlags2Enabled
<1>3. Flag1(d) = Flag1(e) /\ Flag2(d) = Flag2(e)
  BY <1>1, <1>2 DEF Flag1, Flag2
<1>4. FlagBytes(d) = FlagBytes(e)
  BY <1>2, <1>3 DEF FlagBytes
<1>5. /\ d.val["timestamp"] = e.val["timestamp"] /\ d.val["picoSeconds"] = e.val["picoSeconds"]
      /\ d.val["status"] = e.val["status"] /\ d.val["majorVersion"] = e.val["majorVersion"]
      /\ d.val["minorVersion"] = e.val["minorVersion"]
  BY DEF AlikeDSM, DSMFields
<1>6. RestBytes(d) = RestBytes(e)
  BY <1>1, <1>5 DEF RestBytes, OptionalBytes
<1>7. HeaderSize(d) = HeaderSize(e)
  BY <1>1, <1>2 DEF HeaderSize, SizeIf
<1> QED
  BY <1>1, <1>2, <1>4, <1>6, <1>7

---------------------------------------------------------------------------
(* The fields of a DataSetMessage along their pieces. *)

\* The offset of a field is that of the encoding of its message.
FieldMark(enc) == IF enc = VariantEncoding THEN VariantOffset ELSE DataValueOffset

\* Alike fields are of one size.
LEMMA AlikeSizes ==
    ASSUME NEW v \in DataValues, NEW u \in DataValues, AlikeField(v, u), NEW enc
    PROVE  /\ ValueSizeIn(v, enc) = ValueSizeIn(u, enc) /\ ValueSizeIn(u, enc) \in Nat
           /\ ValueBytesIn(v, enc) \in Seq(Octet) /\ Len(ValueBytesIn(v, enc)) = ValueSizeIn(u, enc)
           /\ ValueBytesIn(u, enc) \in Seq(Octet) /\ Len(ValueBytesIn(u, enc)) = ValueSizeIn(u, enc)
<1>1. VariantSize(v.value) = VariantSize(u.value)
  <2>1. v.value.type = u.value.type /\ v.value.arr = u.value.arr /\ Len(v.value.data) = Len(u.value.data)
    BY DEF AlikeField
  <2>2. ArraySize(v.value.data, WidthOf(v.value.type)) = ArraySize(u.value.data, WidthOf(u.value.type))
    BY <2>1 DEF ArraySize
  <2> QED
    BY <2>1, <2>2 DEF VariantSize
<1>2. DataValueSize(v) = DataValueSize(u)
  <2>1. v.on = u.on
    BY DEF AlikeField
  <2> QED
    BY <1>1, <2>1 DEF DataValueSize
<1>3. ValueSizeIn(v, enc) = ValueSizeIn(u, enc)
  BY <1>1, <1>2 DEF ValueSizeIn
<1>4. /\ ValueBytesIn(v, enc) \in Seq(Octet) /\ Len(ValueBytesIn(v, enc)) = ValueSizeIn(v, enc)
      /\ ValueBytesIn(u, enc) \in Seq(Octet) /\ Len(ValueBytesIn(u, enc)) = ValueSizeIn(u, enc)
      /\ ValueSizeIn(u, enc) \in Nat
  BY ValuePiece, PieceType
<1> QED
  BY <1>3, <1>4

\* What Alike says of one DataSetMessage.
LEMMA AlikeAt ==
    ASSUME NEW m \in NetworkMessages, NEW w \in NetworkMessages, Alike(m, w), NEW i \in 1..DSMCount(w),
           NEW d, d = m.dsms[i], NEW e, e = w.dsms[i]
    PROVE  d \in DataSetMessages /\ e \in DataSetMessages /\ AlikeDSM(d, e) /\ i \in Nat
<1>1. DSMCount(m) = DSMCount(w) /\ i \in 1..DSMCount(m)
  BY AlikeHas
<1>2. d \in DataSetMessages /\ e \in DataSetMessages
  BY <1>1, SizesFit
<1>3. Len(m.dsms) = Len(w.dsms) /\ i \in 1..Len(m.dsms)
  <2>1. Len(m.dsms) = Len(w.dsms)
    BY DEF Alike
  <2>2. DSMCount(w) <= Len(w.dsms) /\ DSMCount(w) \in Nat /\ w.dsms \in Seq(DataSetMessages)
    BY MessageHas
  <2>3. Len(w.dsms) \in Nat
    BY <2>2
  <2> QED
    BY <2>1, <2>2, <2>3
<1>4. AlikeDSM(m.dsms[i], w.dsms[i])
  BY <1>3 DEF Alike
<1>5. i \in Nat
  OBVIOUS
<1> QED
  BY <1>2, <1>4, <1>5

\* A field of a key frame.
LEMMA FieldLaid ==
    ASSUME NEW m \in NetworkMessages, NEW w \in NetworkMessages, Alike(m, w), NEW i \in 1..DSMCount(w),
           NEW d, d = m.dsms[i], NEW e, e = w.dsms[i], e.type = KeyFrame, e.enc # RawData,
           NEW k \in 1..Len(e.fields), NEW reader,
           NEW s, s = SpanIn(ValueSizeIn(e.fields[k], e.enc), FieldMark(e.enc), i, k)
    PROVE  Laid(<<s>>, FieldBytes(d, k), FieldBytes(e, k), w, reader)
<1> DEFINE v == d.fields[k]
           u == e.fields[k]
           enc == e.enc
           n == ValueSizeIn(u, enc)
           a == ValueBytesIn(v, enc)
           b == ValueBytesIn(u, enc)
           mark == FieldMark(enc)
<1>1. d \in DataSetMessages /\ e \in DataSetMessages /\ AlikeDSM(d, e) /\ i \in Nat
  BY AlikeAt
<1>2. d.type = e.type /\ d.enc = enc /\ Len(d.fields) = Len(e.fields)
  BY <1>1, AlikeHeader
<1>3. v \in DataValues /\ u \in DataValues /\ AlikeField(v, u)
  <2>1. d.fields \in Seq(DataValues) /\ e.fields \in Seq(DataValues) /\ k \in 1..Len(d.fields)
    BY <1>1, <1>2, DSMHas
  <2>2. AlikeField(d.fields[k], e.fields[k])
    BY <1>1, <1>2, <2>1 DEF AlikeDSM
  <2> QED
    BY <2>1, <2>2
<1>4. FieldBytes(d, k) = a /\ FieldBytes(e, k) = b
  BY <1>2 DEF FieldBytes
<1>5. n \in Nat /\ a \in Seq(Octet) /\ Len(a) = n /\ b \in Seq(Octet) /\ Len(b) = n
  BY <1>3, AlikeSizes
<1>6. enc \in 0..2 /\ k \in Nat /\ mark \in Marks /\ mark # Unmarked
  <2>1. enc \in 0..2
    BY <1>1, DSMHas
  <2> QED
    BY <2>1, MarksAre DEF FieldMark
<1>7. s.size = n /\ s.mark = mark /\ s.dsm = i /\ s.field = k /\ s \in Spans
  <2>1. s = SpanIn(n, mark, i, k)
    OBVIOUS
  <2> HIDE DEF n, mark
  <2> QED
    BY <1>1, <1>5, <1>6, <2>1, SpanInType
<1>8. Marked(s, w) = b
  <2>1. CASE enc = VariantEncoding
    <3>1. b = EncodeVariant(u.value)
      BY <2>1 DEF ValueBytesIn
    <3>2. s.mark = VariantOffset
      BY <1>7, <2>1 DEF FieldMark
    <3>3. Marked(s, w) = EncodeVariant(w.dsms[s.dsm].fields[s.field].value)
      BY <3>2 DEF Marked, SequenceOffset, DSMSequenceOffset, DataValueOffset, VariantOffset, PublisherIdOffset,
                  GroupIdOffset, WriterIdOffset, TimestampOffset, PicosecondsOffset
    <3> QED
      BY <1>7, <3>1, <3>3
  <2>2. CASE enc # VariantEncoding
    <3>1. b = EncodeDataValue(u)
      BY <2>2 DEF ValueBytesIn
    <3>2. s.mark = DataValueOffset
      BY <1>7, <2>2 DEF FieldMark
    <3>3. Marked(s, w) = EncodeDataValue(w.dsms[s.dsm].fields[s.field])
      BY <3>2 DEF Marked, SequenceOffset, DSMSequenceOffset, DataValueOffset, VariantOffset, PublisherIdOffset,
                  GroupIdOffset, WriterIdOffset, TimestampOffset, PicosecondsOffset
    <3> QED
      BY <1>7, <3>1, <3>3
  <2> QED
    BY <2>1, <2>2
<1>9. Legal(s, w, reader)
  <2>1. mark \in {DataValueOffset, VariantOffset} /\ (mark = DataValueOffset <=> enc # VariantEncoding)
    BY DEF FieldMark, DataValueOffset, VariantOffset
  <2>2. mark = DataValueOffset => enc = DataValueEncoding
    BY <1>6, <2>1 DEF DataValueEncoding, VariantEncoding, RawData
  <2>3. /\ s.mark \notin {PublisherIdOffset, GroupIdOffset, WriterIdOffset} /\ s.mark # TimestampOffset
        /\ s.mark # PicosecondsOffset /\ s.mark # DSMSequenceOffset
    BY <1>7, <2>1 DEF DataValueOffset, VariantOffset, PublisherIdOffset, GroupIdOffset, WriterIdOffset,
                      TimestampOffset, PicosecondsOffset, DSMSequenceOffset
  <2>4. s.dsm \in 1..DSMCount(w) /\ w.dsms[s.dsm] = e /\ s.field \in 1..Len(e.fields)
    BY <1>7
  <2> HIDE DEF mark, enc
  <2> QED
    BY <1>7, <2>1, <2>2, <2>3, <2>4 DEF Legal, enc
<1> HIDE DEF a, b, n, mark
<1>10. Laid(<<s>>, a, b, w, reader)
  BY <1>5, <1>6, <1>7, <1>8, <1>9, LaidMarked
<1> QED
  BY <1>4, <1>10

\* The rows of the fields.
FieldRow(e, i) == [k \in 1..Len(e.fields) |-> SpanIn(ValueSizeIn(e.fields[k], e.enc), FieldMark(e.enc), i, k)]

\* All the fields of a key frame.
LEMMA FieldsLaid ==
    ASSUME NEW m \in NetworkMessages, NEW w \in NetworkMessages, Alike(m, w), NEW i \in 1..DSMCount(w),
           NEW d, d = m.dsms[i], NEW e, e = w.dsms[i], e.type = KeyFrame, e.enc # RawData, NEW reader
    PROVE  Laid(FieldRow(e, i), FlattenSeq(FieldsOf(d)), FlattenSeq(FieldsOf(e)), w, reader)
<1> DEFINE n == Len(e.fields)
           P == FieldRow(e, i)
           A == FieldsOf(d)
           B == FieldsOf(e)
<1>1. d \in DataSetMessages /\ e \in DataSetMessages /\ AlikeDSM(d, e) /\ i \in Nat
  BY AlikeAt
<1>2. d.type = e.type /\ d.enc = e.enc /\ Len(d.fields) = n
  BY <1>1, AlikeHeader
<1>3. n \in Nat
  BY <1>1, DSMHas DEF Unsigned
<1>4. \A k \in 1..n : Laid(<<P[k]>>, A[k], B[k], w, reader)
  <2> TAKE k \in 1..n
  <2>1. P[k] = SpanIn(ValueSizeIn(e.fields[k], e.enc), FieldMark(e.enc), i, k)
    BY DEF FieldRow
  <2>2. A[k] = FieldBytes(d, k) /\ B[k] = FieldBytes(e, k)
    BY <1>2 DEF FieldsOf
  <2>3. Laid(<<P[k]>>, FieldBytes(d, k), FieldBytes(e, k), w, reader)
    <3> HIDE DEF P
    <3> QED
      BY <2>1, FieldLaid
  <2> QED
    BY <2>2, <2>3
<1>5. A \in Seq(Seq(Octet)) /\ Len(A) = n /\ B \in Seq(Seq(Octet)) /\ Len(B) = n
  BY <1>1, <1>2, FieldsPiece
<1>6. P \in Seq(Spans) /\ Len(P) = n
  <2>1. \A k \in 1..n : P[k] \in Spans
    <3> TAKE k \in 1..n
    <3>1. Laid(<<P[k]>>, A[k], B[k], w, reader)
      BY <1>4
    <3> HIDE DEF P, A, B
    <3>2. <<P[k]>> \in Seq(Spans)
      BY <3>1, LaidType
    <3> QED
      BY <3>2
  <2>2. P = [k \in 1..n |-> P[k]]
    BY DEF FieldRow
  <2> HIDE DEF P, n
  <2> QED
    BY <1>3, <2>1, <2>2
<1> HIDE DEF n, P, A, B
<1> QED
  BY <1>3, <1>4, <1>5, <1>6, LaidRow DEF P, A, B

---------------------------------------------------------------------------
(* A DataSetMessage along its pieces. *)

\* The flags.
LEMMA DSMFlagsLaid ==
    ASSUME NEW d \in DataSetMessages, NEW e \in DataSetMessages, AlikeDSM(d, e), NEW i \in Nat, NEW w, NEW reader
    PROVE  Laid(InMessage(DSMFlagPieces(e), i), FlagBytes(d), FlagBytes(e), w, reader) /\ DSMFlagPieces(e) \in Seq(Spans)
<1> DEFINE b == FlagBytes(e)
           n == IF DataSetFlags2Enabled(e) THEN 2 ELSE 1
           s == SpanIn(n, Unmarked, i, 0)
<1>1. FlagBytes(d) = b
  BY AlikeHeader
<1>2. b \in Seq(Octet) /\ Len(b) = n /\ n \in Nat
  <2>1. b \in Seq(Octet)
    BY HeaderFlags
  <2>2. Len(b) = n
    BY DEF FlagBytes
  <2> QED
    BY <2>1, <2>2
<1>3. DSMFlagPieces(e) = <<Span(n, Unmarked)>>
  BY DEF DSMFlagPieces
<1> HIDE DEF b, n
<1>4. Unmarked \in Marks /\ 0 \in Nat
  BY MarksAre
<1>5. InMessage(DSMFlagPieces(e), i) = <<s>> /\ DSMFlagPieces(e) \in Seq(Spans)
  BY <1>2, <1>3, <1>4, InMessageOne
<1>6. s \in Spans /\ s.size = n /\ s.mark = Unmarked
  BY <1>2, <1>4, SpanInType
<1> HIDE DEF s
<1>7. Laid(<<s>>, b, b, w, reader)
  BY <1>2, <1>6, LaidUnmarked
<1> QED
  BY <1>1, <1>5, <1>7 DEF b

\* The sequence number.
LEMMA DSMSequenceLaid ==
    ASSUME NEW m \in NetworkMessages, NEW w \in NetworkMessages, Alike(m, w), NEW i \in 1..DSMCount(w),
           NEW d, d = m.dsms[i], NEW e, e = w.dsms[i], NEW reader
    PROVE  /\ Laid(InMessage(SpanIf(e, "sequenceNr", 2, DSMSequenceOffset), i),
                   OptionalBytes(d.on, d.val, "sequenceNr", 2), OptionalBytes(e.on, e.val, "sequenceNr", 2), w, reader)
           /\ SpanIf(e, "sequenceNr", 2, DSMSequenceOffset) \in Seq(Spans)
<1> DEFINE f == "sequenceNr"
           n == 2
           Q == SpanIf(e, f, n, DSMSequenceOffset)
           P == InMessage(Q, i)
           u == d.val
           v == e.val
           on == e.on
           s == SpanIn(n, DSMSequenceOffset, i, 0)
<1>1. d \in DataSetMessages /\ e \in DataSetMessages /\ AlikeDSM(d, e) /\ i \in Nat
  BY AlikeAt
<1>2. d.on = on
  BY <1>1, AlikeHeader
<1>3. u[f] \in Unsigned(n) /\ v[f] \in Unsigned(n) /\ n \in Widths /\ n \in Nat
  BY <1>1, DSMHas DEF Widths
<1>4. Q = IF f \in on THEN <<Span(n, DSMSequenceOffset)>> ELSE <<>>
  BY DEF SpanIf
<1>5. /\ f \in on => Legal(s, w, reader)
      /\ Marked(s, w) = LE(v[f], n)
      /\ s \in Spans /\ s.size = n /\ s.mark = DSMSequenceOffset
  <2>1. s \in Spans /\ s.size = n /\ s.mark = DSMSequenceOffset /\ s.dsm = i
    <3> HIDE DEF n
    <3> QED
      BY <1>1, <1>3, MarksAre, SpanInType
  <2> HIDE DEF s
  <2>2. Marked(s, w) = LE(w.dsms[s.dsm].val["sequenceNr"], 2)
    BY <2>1 DEF Marked, SequenceOffset, DSMSequenceOffset, DataValueOffset, VariantOffset, PublisherIdOffset,
                GroupIdOffset, WriterIdOffset, TimestampOffset, PicosecondsOffset
  <2>3. f \in on => Legal(s, w, reader)
    BY <2>1 DEF Legal, DSMSequenceOffset, DataValueOffset, VariantOffset, PublisherIdOffset,
                GroupIdOffset, WriterIdOffset, TimestampOffset, PicosecondsOffset
  <2> QED
    BY <2>1, <2>2, <2>3
<1>6. DSMSequenceOffset # Unmarked /\ DSMSequenceOffset \in Marks
  BY MarksAre
<1> HIDE DEF f, n, u, v, on, s, Q
<1>7. Q \in Seq(Spans) /\ P = IF f \in on THEN <<s>> ELSE <<>>
  <2>1. CASE f \in on
    <3>1. Q = <<Span(n, DSMSequenceOffset)>>
      BY <1>4, <2>1
    <3>2. InMessage(<<Span(n, DSMSequenceOffset)>>, i) = <<s>> /\ <<Span(n, DSMSequenceOffset)>> \in Seq(Spans)
      BY <1>1, <1>3, <1>6, InMessageOne DEF s
    <3> QED
      BY <2>1, <3>1, <3>2
  <2>2. CASE f \notin on
    <3>1. Q = <<>>
      BY <1>4, <2>2
    <3>2. InMessage(<<>>, i) = <<>> /\ <<>> \in Seq(Spans)
      BY <1>1, <1>3, <1>6, InMessageOne
    <3> QED
      BY <2>2, <3>1, <3>2
  <2> QED
    BY <2>1, <2>2
<1> HIDE DEF P
<1>8. s.mark = Unmarked => s = Span(n, Unmarked) /\ u[f] = v[f]
  BY <1>5, <1>6
<1>9. s.mark # Unmarked /\ f \in on => Legal(s, w, reader) /\ Marked(s, w) = LE(v[f], n)
  BY <1>5
<1>10. Laid(P, OptionalBytes(on, u, f, n), OptionalBytes(on, v, f, n), w, reader)
  BY <1>3, <1>5, <1>7, <1>8, <1>9, LaidOption
<1> QED
  BY <1>2, <1>7, <1>10 DEF P, Q, f, n, u, v, on

\* The other fields of the header.
LEMMA RestLaid ==
    ASSUME NEW d \in DataSetMessages, NEW e \in DataSetMessages, AlikeDSM(d, e), NEW i \in Nat, NEW w, NEW reader,
           NEW Q, Q = <<Span(RestSize(e), Unmarked)>>
    PROVE  Laid(InMessage(Q, i), RestBytes(d), RestBytes(e), w, reader) /\ Q \in Seq(Spans)
<1> DEFINE b == RestBytes(e)
           n == RestSize(e)
           s == SpanIn(n, Unmarked, i, 0)
<1>1. RestBytes(d) = b
  BY AlikeHeader
<1>2. b \in Seq(Octet) /\ Len(b) = n /\ n \in Nat
  BY HeaderIs
<1> HIDE DEF b, n
<1>3. Unmarked \in Marks /\ 0 \in Nat
  BY MarksAre
<1>4. InMessage(Q, i) = <<s>> /\ Q \in Seq(Spans)
  BY <1>2, <1>3, InMessageOne DEF n
<1>5. s \in Spans /\ s.size = n /\ s.mark = Unmarked
  BY <1>2, <1>3, SpanInType
<1> HIDE DEF s
<1>6. Laid(<<s>>, b, b, w, reader)
  BY <1>2, <1>5, LaidUnmarked
<1> QED
  BY <1>1, <1>4, <1>6 DEF b

\* What stands behind the header.
BodyPieces(d) ==
    IF d.type = KeyFrame /\ d.enc # RawData
    THEN <<Span(2, Unmarked)>> \o [i \in DOMAIN d.fields |-> [FieldSpan(d, i) EXCEPT !.field = i]]
    ELSE <<Span(DSMSize(d) - HeaderSize(d), Unmarked)>>

\* The pieces of the fields.
LEMMA FieldPieces ==
    ASSUME NEW e \in DataSetMessages, e.type = KeyFrame, e.enc # RawData, NEW i \in Nat,
           NEW R, R = [k \in DOMAIN e.fields |-> [FieldSpan(e, k) EXCEPT !.field = k]]
    PROVE  R \in Seq(Spans) /\ InMessage(R, i) = FieldRow(e, i)
<1> DEFINE n == Len(e.fields)
           size(k) == ValueSizeIn(e.fields[k], e.enc)
           mark == FieldMark(e.enc)
<1>1. e.fields \in Seq(DataValues) /\ n \in Nat /\ DOMAIN e.fields = 1..n
  <2>1. e.fields \in Seq(DataValues)
    BY DSMHas
  <2> QED
    BY <2>1
<1>2. \A k \in 1..n : FieldSpan(e, k) = Span(size(k), mark)
  BY DEF FieldSpan, ValueSizeIn, FieldMark
<1>3. \A k \in 1..n : size(k) \in Nat /\ mark \in Marks
  <2> TAKE k \in 1..n
  <2>1. e.fields[k] \in DataValues
    BY <1>1
  <2>2. size(k) \in Nat
    BY <2>1, ValuePiece, PieceType
  <2> QED
    BY <2>2, MarksAre DEF FieldMark
<1> HIDE DEF size, mark
<1>4. \A k \in 1..n : [FieldSpan(e, k) EXCEPT !.field = k] = SpanIn(size(k), mark, 0, k)
  <2> TAKE k \in 1..n
  <2>1. [Span(size(k), mark) EXCEPT !.field = k] = SpanIn(size(k), mark, 0, k)
    BY DEF Span, SpanIn
  <2> QED
    BY <1>2, <2>1
<1>5. R = [k \in 1..n |-> SpanIn(size(k), mark, 0, k)]
  BY <1>1, <1>4
<1> DEFINE T(k) == SpanIn(size(k), mark, 0, k)
<1>t. \A k \in 1..n : T(k) \in Spans /\ T(k).size = size(k) /\ T(k).mark = mark /\ T(k).field = k
  <2> TAKE k \in 1..n
  <2> DEFINE z == size(k)
  <2>1. z \in Nat /\ mark \in Marks /\ k \in Nat /\ 0 \in Nat
    BY <1>3
  <2> HIDE DEF z
  <2>2. SpanIn(z, mark, 0, k) \in Spans /\ SpanIn(z, mark, 0, k).size = z /\ SpanIn(z, mark, 0, k).mark = mark
        /\ SpanIn(z, mark, 0, k).field = k
    BY <2>1 DEF SpanIn, Spans
  <2> QED
    BY <2>2 DEF z
<1>r. R = [k \in 1..n |-> T(k)]
  BY <1>5
<1> HIDE DEF T, n
<1>6. \A k \in 1..n : /\ R[k] \in Spans /\ R[k].size = size(k) /\ R[k].mark = mark /\ R[k].field = k
  BY <1>r, <1>t
<1>7. R \in Seq(Spans) /\ Len(R) = n
  <2>1. n \in Nat /\ \A k \in 1..n : T(k) \in Spans
    BY <1>1, <1>t
  <2>2. [k \in 1..n |-> T(k)] \in Seq(Spans) /\ Len([k \in 1..n |-> T(k)]) = n
    BY <2>1
  <2> QED
    BY <1>r, <2>2
<1> DEFINE P == InMessage(R, i)
           F == FieldRow(e, i)
<1>8. P \in Seq(Spans) /\ Len(P) = n /\ \A k \in 1..n : P[k] = SpanIn(size(k), mark, i, k)
  <2>1. P \in Seq(Spans) /\ Len(P) = Len(R) /\ \A k \in 1..Len(R) : P[k] = SpanIn(R[k].size, R[k].mark, i, R[k].field)
    BY <1>7, InMessageType
  <2> HIDE DEF P, n
  <2> QED
    BY <1>6, <1>7, <2>1
<1>9. F = [k \in 1..n |-> SpanIn(size(k), mark, i, k)]
  BY DEF FieldRow, size, mark, n
<1> HIDE DEF P, F, n
<1>10. P = [k \in 1..n |-> SpanIn(size(k), mark, i, k)]
  BY <1>8
<1> QED
  BY <1>7, <1>9, <1>10 DEF P, F

\* They lie along it.
LEMMA BodyLaid ==
    ASSUME NEW m \in NetworkMessages, NEW w \in NetworkMessages, Alike(m, w), NEW i \in 1..DSMCount(w),
           NEW d, d = m.dsms[i], NEW e, e = w.dsms[i], Encodable(e), NEW reader
    PROVE  Laid(InMessage(BodyPieces(e), i), BodyBytes(d), BodyBytes(e), w, reader) /\ BodyPieces(e) \in Seq(Spans)
<1>1. d \in DataSetMessages /\ e \in DataSetMessages /\ AlikeDSM(d, e) /\ i \in Nat
  BY AlikeAt
<1>2. d.type = e.type /\ d.enc = e.enc /\ Len(d.fields) = Len(e.fields)
  BY <1>1, AlikeHeader
<1>3. Unmarked \in Marks /\ 0 \in Nat /\ 2 \in Nat
  BY MarksAre
<1>4. CASE e.type = KeyFrame /\ e.enc # RawData
  <2> DEFINE R == [k \in DOMAIN e.fields |-> [FieldSpan(e, k) EXCEPT !.field = k]]
             n == 2
             q == Span(n, Unmarked)
             s == SpanIn(n, Unmarked, i, 0)
             c == LE(Len(e.fields), 2)
             a == FlattenSeq(FieldsOf(d))
             b == FlattenSeq(FieldsOf(e))
  <2>1. BodyPieces(e) = <<q>> \o R
    BY <1>4 DEF BodyPieces
  <2>2. BodyBytes(d) = c \o a /\ BodyBytes(e) = c \o b
    BY <1>2, <1>4 DEF BodyBytes, KeyFrame, KeepAlive
  <2>3. R \in Seq(Spans) /\ InMessage(R, i) = FieldRow(e, i)
    BY <1>1, <1>4, FieldPieces
  <2>4. Laid(FieldRow(e, i), a, b, w, reader)
    BY <1>4, FieldsLaid
  <2>5. c \in Seq(Octet) /\ Len(c) = n /\ n \in Nat
    <3>1. Len(e.fields) \in Nat /\ 2 \in Nat
      BY <1>1, DSMHas DEF Unsigned
    <3> QED
      BY <3>1, LEType
  <2> HIDE DEF R, n, a, b, c
  <2>6. s \in Spans /\ s.size = n /\ s.mark = Unmarked
    <3>1. n \in Nat /\ Unmarked \in Marks /\ i \in Nat /\ 0 \in Nat
      BY <1>1, <1>3, <2>5
    <3>2. s = SpanIn(n, Unmarked, i, 0)
      BY DEF s
    <3> HIDE DEF s
    <3> QED
      BY <3>1, <3>2, SpanInType
  <2>7. InMessage(<<q>>, i) = <<s>> /\ <<q>> \in Seq(Spans)
    BY <1>1, <1>3, <2>5, InMessageOne
  <2> HIDE DEF s, q
  <2>8. Laid(<<s>>, c, c, w, reader)
    BY <2>5, <2>6, LaidUnmarked
  <2>9. InMessage(<<q>> \o R, i) = <<s>> \o FieldRow(e, i)
    BY <1>1, <2>3, <2>7, InMessageConcat
  <2>10. Laid(<<s>> \o FieldRow(e, i), c \o a, c \o b, w, reader)
    BY <2>4, <2>8, LaidConcat
  <2>11. <<q>> \o R \in Seq(Spans)
    BY <2>3, <2>7
  <2> QED
    BY <2>1, <2>2, <2>9, <2>10, <2>11
<1>5. CASE ~(e.type = KeyFrame /\ e.enc # RawData)
  <2> DEFINE b == BodyBytes(e)
             n == DSMSize(e) - HeaderSize(e)
             s == SpanIn(n, Unmarked, i, 0)
  <2>1. e.type # KeyFrame
    BY <1>5 DEF Encodable, KeyFrame, KeepAlive
  <2>2. d.fields = e.fields
    BY <1>1, <1>2, <2>1 DEF AlikeDSM
  <2>3. BodyBytes(d) = b
    BY <1>2, <2>2 DEF BodyBytes, FieldsOf, FieldBytes
  <2>4. b \in Seq(Octet)
    <3>1. CASE e.type = KeepAlive
      BY <3>1 DEF BodyBytes
    <3>2. CASE e.type # KeepAlive
      <4>1. e.type \in {KeyFrame, DeltaFrame}
        BY <3>2 DEF Encodable
      <4>2. Piece(Must(LE(Len(e.fields), 2)) \o FlattenSeq(FramesOf(e)),
                  LE(Len(e.fields), 2) \o FlattenSeq(FieldsOf(e)), 2 + SumFunction(SizesOf(e)))
        BY <1>1, <4>1, FieldsPiece
      <4>3. b = LE(Len(e.fields), 2) \o FlattenSeq(FieldsOf(e))
        BY <3>2 DEF BodyBytes
      <4> QED
        BY <4>2, <4>3, PieceType
    <3> QED
      BY <3>1, <3>2
  <2>5. Len(b) = n /\ n \in Nat
    <3> DEFINE h == HeaderBytes(e)
               x == DSMBytes(e)
    <3>1. h \in Seq(Octet) /\ Len(h) = HeaderSize(e) /\ HeaderSize(e) \in Nat
      BY <1>1, HeaderPiece, PieceType
    <3>2. Len(x) = DSMSize(e) /\ DSMSize(e) \in Nat
      BY <1>1, DSMPiece, PieceType
    <3>3. x = h \o b
      BY DEF DSMBytes
    <3> HIDE DEF h, x, b
    <3>4. Len(x) = Len(h) + Len(b) /\ Len(b) \in Nat
      BY <2>4, <3>1, <3>3, OctetsConcat
    <3> QED
      BY <3>1, <3>2, <3>4
  <2>6. BodyPieces(e) = <<Span(n, Unmarked)>>
    BY <1>5 DEF BodyPieces
  <2> HIDE DEF b, n
  <2>7. InMessage(<<Span(n, Unmarked)>>, i) = <<s>> /\ <<Span(n, Unmarked)>> \in Seq(Spans)
    BY <1>1, <1>3, <2>5, InMessageOne
  <2>8. s \in Spans /\ s.size = n /\ s.mark = Unmarked
    <3>1. n \in Nat /\ Unmarked \in Marks /\ i \in Nat /\ 0 \in Nat
      BY <1>1, <1>3, <2>5
    <3>2. s = SpanIn(n, Unmarked, i, 0)
      BY DEF s
    <3> HIDE DEF s
    <3> QED
      BY <3>1, <3>2, SpanInType
  <2> HIDE DEF s
  <2>9. Laid(<<s>>, b, b, w, reader)
    BY <2>4, <2>5, <2>8, LaidUnmarked
  <2> QED
    BY <2>3, <2>6, <2>7, <2>9 DEF b
<1> QED
  BY <1>4, <1>5

\* The DataSetMessage.
LEMMA DSMLaid ==
    ASSUME NEW m \in NetworkMessages, NEW w \in NetworkMessages, Alike(m, w), NEW i \in 1..DSMCount(w),
           NEW d, d = m.dsms[i], NEW e, e = w.dsms[i], Encodable(e), NEW reader
    PROVE  Laid(InMessage(DSMPieces(e), i), DSMBytes(d), DSMBytes(e), w, reader) /\ DSMPieces(e) \in Seq(Spans)
<1> DEFINE Q1 == DSMFlagPieces(e)
           Q2 == SpanIf(e, "sequenceNr", 2, DSMSequenceOffset)
           Q3 == <<Span(RestSize(e), Unmarked)>>
           Q4 == BodyPieces(e)
           O(x) == OptionalBytes(x.on, x.val, "sequenceNr", 2)
<1>1. d \in DataSetMessages /\ e \in DataSetMessages /\ AlikeDSM(d, e) /\ i \in Nat
  BY AlikeAt
<1>2. DSMPieces(e) = Q1 \o Q2 \o Q3 \o Q4
  BY DEF DSMPieces, RestSize, BodyPieces
<1>3. HeaderBytes(d) = (FlagBytes(d) \o O(d)) \o RestBytes(d) /\ HeaderBytes(e) = (FlagBytes(e) \o O(e)) \o RestBytes(e)
  BY <1>1, HeaderIs
<1>4. Laid(InMessage(Q1, i), FlagBytes(d), FlagBytes(e), w, reader) /\ Q1 \in Seq(Spans)
  BY <1>1, DSMFlagsLaid
<1>5. Laid(InMessage(Q2, i), O(d), O(e), w, reader) /\ Q2 \in Seq(Spans)
  BY DSMSequenceLaid
<1>6. Laid(InMessage(Q3, i), RestBytes(d), RestBytes(e), w, reader) /\ Q3 \in Seq(Spans)
  BY <1>1, RestLaid
<1>7. Laid(InMessage(Q4, i), BodyBytes(d), BodyBytes(e), w, reader) /\ Q4 \in Seq(Spans)
  BY BodyLaid
<1> HIDE DEF Q1, Q2, Q3, Q4, O
<1>8. Q1 \o Q2 \in Seq(Spans) /\ Q1 \o Q2 \o Q3 \in Seq(Spans) /\ Q1 \o Q2 \o Q3 \o Q4 \in Seq(Spans)
  BY <1>4, <1>5, <1>6, <1>7
<1>9. InMessage(Q1 \o Q2, i) = InMessage(Q1, i) \o InMessage(Q2, i)
  BY <1>1, <1>4, <1>5, InMessageConcat
<1>10. InMessage(Q1 \o Q2 \o Q3, i) = InMessage(Q1 \o Q2, i) \o InMessage(Q3, i)
  BY <1>1, <1>6, <1>8, InMessageConcat
<1>11. InMessage(Q1 \o Q2 \o Q3 \o Q4, i) = InMessage(Q1 \o Q2 \o Q3, i) \o InMessage(Q4, i)
  BY <1>1, <1>7, <1>8, InMessageConcat
<1>12. Laid(InMessage(Q1 \o Q2, i), FlagBytes(d) \o O(d), FlagBytes(e) \o O(e), w, reader)
  BY <1>4, <1>5, <1>9, LaidConcat
<1>13. Laid(InMessage(Q1 \o Q2 \o Q3, i), HeaderBytes(d), HeaderBytes(e), w, reader)
  BY <1>3, <1>6, <1>10, <1>12, LaidConcat
<1>14. Laid(InMessage(Q1 \o Q2 \o Q3 \o Q4, i), HeaderBytes(d) \o BodyBytes(d), HeaderBytes(e) \o BodyBytes(e), w, reader)
  BY <1>7, <1>11, <1>13, LaidConcat
<1> QED
  BY <1>2, <1>8, <1>14 DEF DSMBytes

---------------------------------------------------------------------------
(* A message along its pieces. *)

\* Pieces may be put together in any order, too.
LEMMA SpansAssoc ==
    ASSUME NEW P \in Seq(Spans), NEW Q \in Seq(Spans), NEW R \in Seq(Spans)
    PROVE  (P \o Q) \o R = P \o (Q \o R)
OBVIOUS

\* Alike messages are of one size, DataSetMessage by DataSetMessage.
LEMMA AlikeEncodable ==
    ASSUME NEW m \in NetworkMessages, NEW w \in NetworkMessages, Alike(m, w), NEW i \in 1..DSMCount(w), Encodable(w.dsms[i])
    PROVE  /\ Encodable(m.dsms[i]) /\ DSMSize(m.dsms[i]) = DSMSize(w.dsms[i])
           /\ DSMBytes(m.dsms[i]) \in Seq(Octet) /\ DSMBytes(w.dsms[i]) \in Seq(Octet)
<1> DEFINE d == m.dsms[i]
           e == w.dsms[i]
<1>1. d \in DataSetMessages /\ e \in DataSetMessages /\ AlikeDSM(d, e)
  BY AlikeAt
<1>2. Encodable(d)
  <2>1. d.type = e.type /\ d.enc = e.enc
    BY <1>1, AlikeHeader
  <2> QED
    BY <2>1 DEF Encodable
<1>3. /\ DSMBytes(d) \in Seq(Octet) /\ Len(DSMBytes(d)) = DSMSize(d)
      /\ DSMBytes(e) \in Seq(Octet) /\ Len(DSMBytes(e)) = DSMSize(e)
  BY <1>1, <1>2, DSMPiece, PieceType
<1>4. Laid(InMessage(DSMPieces(e), i), DSMBytes(d), DSMBytes(e), w, FALSE)
  BY DSMLaid
<1>5. Len(DSMBytes(d)) = Len(DSMBytes(e))
  BY <1>4, LaidType
<1> QED
  BY <1>2, <1>3, <1>5

\* The table of the sizes.
TablePieces(m) == IF DSMCount(m) > 1 THEN <<Span(2 * DSMCount(m), Unmarked)>> ELSE <<>>

\* It is the same in both.
LEMMA TableLaid ==
    ASSUME NEW m \in NetworkMessages, NEW w \in NetworkMessages, Alike(m, w), AllEncodable(w), NEW reader
    PROVE  Laid(TablePieces(w), TableBytes(m), TableBytes(w), w, reader)
<1> DEFINE n == DSMCount(w)
           T == TableOf(w)
           b == TableBytes(w)
           c == n > 1
           z == 2 * n
           P == TablePieces(w)
<1>1. DSMCount(m) = n /\ m.sizes = w.sizes /\ n \in Nat
  BY AlikeHas, MessageHas
<1>2. \A i \in 1..n : SizeAt(m, i) = SizeAt(w, i)
  <2> TAKE i \in 1..n
  <2>1. Encodable(w.dsms[i])
    BY DEF AllEncodable
  <2>2. DSMSize(m.dsms[i]) = DSMSize(w.dsms[i])
    BY <2>1, AlikeEncodable
  <2> QED
    BY <1>1, <2>2 DEF SizeAt
<1>3. TableOf(m) = T
  BY <1>1, <1>2 DEF TableOf
<1>4. TableBytes(m) = b
  BY <1>1, <1>3 DEF TableBytes
<1>5. P = (IF c THEN <<Span(z, Unmarked)>> ELSE <<>>) /\ c \in BOOLEAN /\ (~c => b = <<>>)
  BY <1>1 DEF TablePieces, TableBytes
<1>6. c => b = NumbersBytes(T, n, 2)
  BY DEF TableBytes
<1>7. \A i \in 1..n : T[i] \in Nat
  <2> TAKE i \in 1..n
  <2>1. SizeAt(w, i) \in Unsigned(2)
    BY SizesFit
  <2> QED
    BY <2>1 DEF TableOf, Unsigned
<1> HIDE DEF n, T, b
<1>8. c => b \in Seq(Octet) /\ Len(b) = z
  <2>1. 2 \in Widths
    BY DEF Widths
  <2>2. Piece(FlattenSeq([i \in 1..n |-> Must(LE(T[i], 2))]), NumbersBytes(T, n, 2), 2 * n)
    BY <1>1, <1>7, <2>1, NumbersPiece
  <2>3. NumbersBytes(T, n, 2) \in Seq(Octet) /\ Len(NumbersBytes(T, n, 2)) = 2 * n
    BY <2>2, PieceType
  <2> QED
    BY <1>6, <2>3
<1>9. b \in Seq(Octet)
  <2>1. ~c => b \in Seq(Octet)
    BY <1>5
  <2> HIDE DEF c
  <2> QED
    BY <1>8, <2>1
<1> HIDE DEF c, z, P
<1>10. c => z = Len(b)
  BY <1>8
<1>11. Laid(P, b, b, w, reader)
  BY <1>5, <1>9, <1>10, LaidIf
<1> QED
  BY <1>4, <1>11 DEF P, b

\* The pieces of the DataSetMessages.
PiecesOf(m) == [i \in 1..DSMCount(m) |-> InMessage(DSMPieces(m.dsms[i]), i)]

\* They lie along them.
LEMMA DSMsLaid ==
    ASSUME NEW m \in NetworkMessages, NEW w \in NetworkMessages, Alike(m, w), AllEncodable(w), NEW reader
    PROVE  Laid(FlattenSeq(PiecesOf(w)), FlattenSeq(DSMsOf(m)), FlattenSeq(DSMsOf(w)), w, reader)
<1> DEFINE n == DSMCount(w)
           S == PiecesOf(w)
           A == DSMsOf(m)
           B == DSMsOf(w)
<1>1. DSMCount(m) = n /\ n \in Nat
  BY AlikeHas, MessageHas
<1>2. \A i \in 1..n : Laid(InMessage(DSMPieces(w.dsms[i]), i), DSMBytes(m.dsms[i]), DSMBytes(w.dsms[i]), w, reader)
  <2> TAKE i \in 1..n
  <2>1. Encodable(w.dsms[i])
    BY DEF AllEncodable
  <2> QED
    BY <2>1, DSMLaid
<1>3. \A i \in 1..n : S[i] = InMessage(DSMPieces(w.dsms[i]), i) /\ A[i] = DSMBytes(m.dsms[i]) /\ B[i] = DSMBytes(w.dsms[i])
  BY <1>1 DEF PiecesOf, DSMsOf
<1>4. \A i \in 1..n : Laid(S[i], A[i], B[i], w, reader)
  BY <1>2, <1>3
<1>5. S = [i \in 1..n |-> S[i]] /\ A = [i \in 1..n |-> A[i]] /\ B = [i \in 1..n |-> B[i]]
  BY <1>1 DEF PiecesOf, DSMsOf
<1> HIDE DEF n, S, A, B
<1>6. \A i \in 1..n : S[i] \in Seq(Spans) /\ A[i] \in Seq(Octet) /\ B[i] \in Seq(Octet)
  BY <1>4, LaidType
<1>7. S \in Seq(Seq(Spans)) /\ Len(S) = n
  BY <1>1, <1>5, <1>6
<1>8. A \in Seq(Seq(Octet)) /\ Len(A) = n
  BY <1>1, <1>5, <1>6
<1>9. B \in Seq(Seq(Octet)) /\ Len(B) = n
  BY <1>1, <1>5, <1>6
<1> QED
  BY <1>1, <1>4, <1>7, <1>8, <1>9, LaidEach DEF S, A, B

\* The bytes whose size is added up with the offsets: all but the trailer.
SizedBytes(m) ==
    FlagsBytes(m) \o PublisherBytes(m) \o ClassBytes(m) \o GroupBytes(m) \o WriterBytes(m)
    \o StampBytes(m) \o PromotedBytes(m) \o SecurityBytes(m) \o PayloadBytes(m)

\* They lie along the pieces whose offsets are noted.
LEMMA MessageLaid ==
    ASSUME NEW m \in NetworkMessages, NEW w \in NetworkMessages, Alike(m, w), AllEncodable(w), NEW reader \in BOOLEAN
    PROVE  Laid(MessagePieces(w, reader), SizedBytes(m), SizedBytes(w), w, reader)
<1> DEFINE P1 == <<Span(FlagsSize(w), Unmarked)>>
           P2 == PublisherIdPiece(w, reader)
           P3 == SpanIf(w, "classId", 16, Unmarked)
           P4 == GroupPieces(w, reader)
           P5 == PayloadHeaderPieces(w, reader)
           S1 == SpanIf(w, "timestamp", 8, TimestampOffset)
           S2 == SpanIf(w, "picoseconds", 2, PicosecondsOffset)
           P7 == PromotedPieces(w)
           P8 == SecurityPieces(w)
           P9 == TablePieces(w)
           D  == FlattenSeq(PiecesOf(w))
           x(k) == FlattenSeq(DSMsOf(k))
<1>1. MessagePieces(w, reader) = P1 \o P2 \o P3 \o P4 \o P5 \o S1 \o S2 \o P7 \o P8 \o P9 \o D
  BY DEF MessagePieces, FlagsSize, TablePieces, PiecesOf, Each
<1>2. /\ PayloadBytes(m) = TableBytes(m) \o x(m) /\ PayloadBytes(w) = TableBytes(w) \o x(w)
  BY DEF PayloadBytes
<1>3. Laid(P1, FlagsBytes(m), FlagsBytes(w), w, reader)
  BY FlagsLaid
<1>4. Laid(P2, PublisherBytes(m), PublisherBytes(w), w, reader)
  BY PublisherLaid
<1>5. Laid(P3, ClassBytes(m), ClassBytes(w), w, reader)
  BY ClassLaid
<1>6. Laid(P4, GroupBytes(m), GroupBytes(w), w, reader)
  BY GroupLaid
<1>7. Laid(P5, WriterBytes(m), WriterBytes(w), w, reader)
  BY WriterLaid
<1>8. Laid(S1 \o S2, StampBytes(m), StampBytes(w), w, reader)
  BY StampLaid
<1>9. Laid(P7, PromotedBytes(m), PromotedBytes(w), w, reader)
  BY PromotedLaid
<1>10. Laid(P8, SecurityBytes(m), SecurityBytes(w), w, reader)
  BY SecurityLaid
<1>11. Laid(P9, TableBytes(m), TableBytes(w), w, reader)
  BY TableLaid
<1>12. Laid(D, x(m), x(w), w, reader)
  BY DSMsLaid
<1>13. S1 \in Seq(Spans) /\ S2 \in Seq(Spans)
  <2>1. 8 \in Nat /\ 2 \in Nat /\ TimestampOffset \in Marks /\ PicosecondsOffset \in Marks
    BY MarksAre
  <2>2. Span(8, TimestampOffset) \in Spans /\ Span(2, PicosecondsOffset) \in Spans
    BY <2>1 DEF Span, Spans
  <2>3. S1 = <<>> \/ S1 = <<Span(8, TimestampOffset)>>
    BY DEF SpanIf
  <2>4. S2 = <<>> \/ S2 = <<Span(2, PicosecondsOffset)>>
    BY DEF SpanIf
  <2> DEFINE s1 == Span(8, TimestampOffset)
             s2 == Span(2, PicosecondsOffset)
  <2> HIDE DEF s1, s2, S1, S2
  <2>5. <<>> \in Seq(Spans) /\ <<s1>> \in Seq(Spans) /\ <<s2>> \in Seq(Spans)
    BY <2>2 DEF s1, s2
  <2> QED
    BY <2>3, <2>4, <2>5 DEF s1, s2
<1> HIDE DEF P1, P2, P3, P4, P5, S1, S2, P7, P8, P9, D, x
<1> DEFINE A2 == P1 \o P2
           A3 == A2 \o P3
           A4 == A3 \o P4
           A5 == A4 \o P5
           b2(k) == FlagsBytes(k) \o PublisherBytes(k)
           b3(k) == b2(k) \o ClassBytes(k)
           b4(k) == b3(k) \o GroupBytes(k)
           b5(k) == b4(k) \o WriterBytes(k)
           b6(k) == b5(k) \o StampBytes(k)
           b7(k) == b6(k) \o PromotedBytes(k)
           b8(k) == b7(k) \o SecurityBytes(k)
<1>14. Laid(A2, b2(m), b2(w), w, reader)
  BY <1>3, <1>4, LaidConcat
<1>15. Laid(A3, b3(m), b3(w), w, reader)
  <2> HIDE DEF A2, b2
  <2> QED
    BY <1>14, <1>5, LaidConcat
<1>16. Laid(A4, b4(m), b4(w), w, reader)
  <2> HIDE DEF A3, b3
  <2> QED
    BY <1>15, <1>6, LaidConcat
<1>17. Laid(A5, b5(m), b5(w), w, reader)
  <2> HIDE DEF A4, b4
  <2> QED
    BY <1>16, <1>7, LaidConcat
<1> DEFINE A6 == A5 \o S1 \o S2
           A7 == A6 \o P7
           A8 == A7 \o P8
           A9 == A8 \o P9
           b9(k) == b8(k) \o TableBytes(k)
<1>18. Laid(A6, b6(m), b6(w), w, reader)
  <2>1. A5 \in Seq(Spans)
    BY <1>17, LaidType
  <2> HIDE DEF A5, b5
  <2>2. Laid(A5 \o (S1 \o S2), b6(m), b6(w), w, reader)
    BY <1>17, <1>8, LaidConcat
  <2>3. A5 \o (S1 \o S2) = A6
    BY <1>13, <2>1, SpansAssoc
  <2> QED
    BY <2>2, <2>3
<1>19. Laid(A7, b7(m), b7(w), w, reader)
  <2> HIDE DEF A6, b6
  <2> QED
    BY <1>18, <1>9, LaidConcat
<1>20. Laid(A8, b8(m), b8(w), w, reader)
  <2> HIDE DEF A7, b7
  <2> QED
    BY <1>19, <1>10, LaidConcat
<1>21. Laid(A9, b9(m), b9(w), w, reader)
  <2> HIDE DEF A8, b8
  <2> QED
    BY <1>20, <1>11, LaidConcat
<1>22. Laid(A9 \o D, b9(m) \o x(m), b9(w) \o x(w), w, reader)
  <2> HIDE DEF A9, b9
  <2> QED
    BY <1>21, <1>12, LaidConcat
<1>23. /\ SizedBytes(m) = b8(m) \o (TableBytes(m) \o x(m))
       /\ SizedBytes(w) = b8(w) \o (TableBytes(w) \o x(w))
  BY <1>2 DEF SizedBytes
<1>24. /\ b8(m) \in Seq(Octet) /\ TableBytes(m) \in Seq(Octet) /\ x(m) \in Seq(Octet)
       /\ b8(w) \in Seq(Octet) /\ TableBytes(w) \in Seq(Octet) /\ x(w) \in Seq(Octet)
  <2> HIDE DEF b8, A8
  <2> QED
    BY <1>20, <1>11, <1>12, LaidType
<1>25. SizedBytes(m) = b9(m) \o x(m) /\ SizedBytes(w) = b9(w) \o x(w)
  <2> HIDE DEF b8
  <2>1. b8(m) \o (TableBytes(m) \o x(m)) = (b8(m) \o TableBytes(m)) \o x(m)
    <3> DEFINE p == b8(m)
               q == TableBytes(m)
               r == x(m)
    <3>1. p \in Seq(Octet) /\ q \in Seq(Octet) /\ r \in Seq(Octet)
      BY <1>24
    <3> HIDE DEF p, q, r
    <3>2. (p \o q) \o r = p \o (q \o r)
      BY <3>1, OctetsAssoc
    <3> QED
      BY <3>2 DEF p, q, r
  <2>2. b8(w) \o (TableBytes(w) \o x(w)) = (b8(w) \o TableBytes(w)) \o x(w)
    BY <1>24, OctetsAssoc
  <2> QED
    BY <1>23, <2>1, <2>2
<1>26. MessagePieces(w, reader) = A9 \o D
  BY <1>1
<1> HIDE DEF A9, b9
<1> QED
  BY <1>22, <1>25, <1>26

---------------------------------------------------------------------------
(* Alike messages have the same pieces. *)

\* Alike DataSetMessages.
LEMMA DSMPiecesAlike ==
    ASSUME NEW m \in NetworkMessages, NEW w \in NetworkMessages, Alike(m, w), NEW i \in 1..DSMCount(w), Encodable(w.dsms[i]),
           NEW d, d = m.dsms[i], NEW e, e = w.dsms[i]
    PROVE  DSMPieces(d) = DSMPieces(e)
<1>1. d \in DataSetMessages /\ e \in DataSetMessages /\ AlikeDSM(d, e) /\ i \in Nat
  BY AlikeAt
<1>2. /\ d.on = e.on /\ d.type = e.type /\ d.enc = e.enc /\ Len(d.fields) = Len(e.fields)
      /\ (DataSetFlags2Enabled(d) <=> DataSetFlags2Enabled(e)) /\ HeaderSize(d) = HeaderSize(e)
  BY <1>1, AlikeHeader
<1>3. DSMSize(d) = DSMSize(e)
  BY AlikeEncodable
<1>4. DSMFlagPieces(d) = DSMFlagPieces(e)
  BY <1>2 DEF DSMFlagPieces
<1>5. SpanIf(d, "sequenceNr", 2, DSMSequenceOffset) = SpanIf(e, "sequenceNr", 2, DSMSequenceOffset)
  BY <1>2 DEF SpanIf
<1>6. RestSize(d) = RestSize(e)
  BY <1>2 DEF RestSize, SizeIf
<1>7. BodyPieces(d) = BodyPieces(e)
  <2>1. CASE e.type = KeyFrame /\ e.enc # RawData
    <3> DEFINE n == Len(e.fields)
               R(x) == [k \in DOMAIN x.fields |-> [FieldSpan(x, k) EXCEPT !.field = k]]
    <3>1. d.fields \in Seq(DataValues) /\ e.fields \in Seq(DataValues) /\ Len(d.fields) = n
      BY <1>1, <1>2, <2>1, DSMHas
    <3>2. DOMAIN d.fields = 1..n /\ DOMAIN e.fields = 1..n
      BY <3>1
    <3>3. ASSUME NEW k \in 1..n
          PROVE  FieldSpan(d, k) = FieldSpan(e, k)
      <4>1. AlikeField(d.fields[k], e.fields[k]) /\ d.fields[k] \in DataValues /\ e.fields[k] \in DataValues
        BY <1>1, <1>2, <2>1, <3>1 DEF AlikeDSM
      <4>2. ValueSizeIn(d.fields[k], e.enc) = ValueSizeIn(e.fields[k], e.enc)
        BY <4>1, AlikeSizes
      <4>3. FieldSpan(d, k) = Span(ValueSizeIn(d.fields[k], e.enc), FieldMark(e.enc))
        BY <1>2 DEF FieldSpan, ValueSizeIn, FieldMark
      <4>4. FieldSpan(e, k) = Span(ValueSizeIn(e.fields[k], e.enc), FieldMark(e.enc))
        BY DEF FieldSpan, ValueSizeIn, FieldMark
      <4> QED
        BY <4>2, <4>3, <4>4
    <3>4. R(d) = R(e)
      BY <3>2, <3>3
    <3>5. BodyPieces(d) = <<Span(2, Unmarked)>> \o R(d) /\ BodyPieces(e) = <<Span(2, Unmarked)>> \o R(e)
      BY <1>2, <2>1 DEF BodyPieces
    <3> QED
      BY <3>4, <3>5
  <2>2. CASE ~(e.type = KeyFrame /\ e.enc # RawData)
    BY <1>2, <1>3, <2>2 DEF BodyPieces
  <2> QED
    BY <2>1, <2>2
<1>8. /\ DSMPieces(d) = DSMFlagPieces(d) \o SpanIf(d, "sequenceNr", 2, DSMSequenceOffset)
                        \o <<Span(RestSize(d), Unmarked)>> \o BodyPieces(d)
      /\ DSMPieces(e) = DSMFlagPieces(e) \o SpanIf(e, "sequenceNr", 2, DSMSequenceOffset)
                        \o <<Span(RestSize(e), Unmarked)>> \o BodyPieces(e)
  BY DEF DSMPieces, RestSize, BodyPieces
<1> QED
  BY <1>4, <1>5, <1>6, <1>7, <1>8

\* Alike messages.
LEMMA PiecesAlike ==
    ASSUME NEW m \in NetworkMessages, NEW w \in NetworkMessages, Alike(m, w), AllEncodable(w), NEW reader
    PROVE  MessagePieces(m, reader) = MessagePieces(w, reader)
<1>1. /\ m.on = w.on /\ m.pubType = w.pubType /\ m.nmType = w.nmType /\ m.pubString = w.pubString
      /\ m.nonce = w.nonce /\ m.ids = w.ids /\ m.promoted = w.promoted /\ DSMCount(m) = DSMCount(w)
  BY AlikeHas
<1>2. FlagsSize(m) = FlagsSize(w)
  BY <1>1 DEF FlagsSize, ExtendedFlags1Enabled, ExtendedFlags2Enabled
<1>3. PublisherIdPiece(m, reader) = PublisherIdPiece(w, reader)
  BY <1>1 DEF PublisherIdPiece, SpanIf
<1>4. SpanIf(m, "classId", 16, Unmarked) = SpanIf(w, "classId", 16, Unmarked)
  BY <1>1 DEF SpanIf
<1>5. GroupPieces(m, reader) = GroupPieces(w, reader)
  BY <1>1 DEF GroupPieces, SpanIf
<1>6. PayloadHeaderPieces(m, reader) = PayloadHeaderPieces(w, reader)
  BY <1>1 DEF PayloadHeaderPieces
<1>7. /\ SpanIf(m, "timestamp", 8, TimestampOffset) = SpanIf(w, "timestamp", 8, TimestampOffset)
      /\ SpanIf(m, "picoseconds", 2, PicosecondsOffset) = SpanIf(w, "picoseconds", 2, PicosecondsOffset)
  BY <1>1 DEF SpanIf
<1>8. PromotedPieces(m) = PromotedPieces(w)
  BY <1>1 DEF PromotedPieces, SpanIf
<1>9. SecurityPieces(m) = SecurityPieces(w)
  BY <1>1 DEF SecurityPieces, SpanIf
<1>10. TablePieces(m) = TablePieces(w)
  BY <1>1 DEF TablePieces
<1>11. PiecesOf(m) = PiecesOf(w)
  <2>1. \A i \in 1..DSMCount(w) : DSMPieces(m.dsms[i]) = DSMPieces(w.dsms[i])
    BY DSMPiecesAlike DEF AllEncodable
  <2> QED
    BY <1>1, <2>1 DEF PiecesOf
<1>12. \A x : MessagePieces(x, reader) =
                 <<Span(FlagsSize(x), Unmarked)>> \o PublisherIdPiece(x, reader) \o SpanIf(x, "classId", 16, Unmarked)
                 \o GroupPieces(x, reader) \o PayloadHeaderPieces(x, reader)
                 \o SpanIf(x, "timestamp", 8, TimestampOffset) \o SpanIf(x, "picoseconds", 2, PicosecondsOffset)
                 \o PromotedPieces(x) \o SecurityPieces(x) \o TablePieces(x) \o FlattenSeq(PiecesOf(x))
  BY DEF MessagePieces, FlagsSize, TablePieces, PiecesOf, Each
<1> QED
  BY <1>2, <1>3, <1>4, <1>5, <1>6, <1>7, <1>8, <1>9, <1>10, <1>11, <1>12

\* Alike is symmetric.
LEMMA AlikeSymmetric ==
    ASSUME NEW m, NEW w, Alike(m, w)
    PROVE  Alike(w, m)
<1>1. ASSUME NEW d, NEW e, AlikeDSM(d, e)
      PROVE  AlikeDSM(e, d)
  BY <1>1 DEF AlikeDSM, AlikeField
<1> QED
  BY <1>1 DEF Alike

\* And transitive.
LEMMA AlikeTransitive ==
    ASSUME NEW m, NEW w, NEW x, Alike(m, w), Alike(w, x)
    PROVE  Alike(m, x)
<1>1. ASSUME NEW d, NEW e, NEW f, AlikeDSM(d, e), AlikeDSM(e, f)
      PROVE  AlikeDSM(d, f)
  BY <1>1 DEF AlikeDSM, AlikeField
<1> QED
  BY <1>1 DEF Alike

\* Alike messages are encoded or refused alike, and their trailers are the same.
LEMMA AlikeSendable ==
    ASSUME NEW m \in NetworkMessages, NEW w \in NetworkMessages, Alike(m, w), Sendable(w)
    PROVE  Sendable(m) /\ TrailerBytes(m) = TrailerBytes(w)
<1>1. /\ m.on = w.on /\ m.nmType = w.nmType /\ m.ids = w.ids /\ m.footer = w.footer /\ m.signature = w.signature
      /\ DSMCount(m) = DSMCount(w) /\ m.val["footerSize"] = w.val["footerSize"]
  <2>1. "footerSize" \in NMFields \ {"sequenceNumber"}
    BY DEF NMFields
  <2> QED
    BY <2>1, AlikeHas
<1>2. AllEncodable(m)
  BY <1>1, AlikeEncodable DEF AllEncodable, Sendable
<1>3. ~NoWriters(m) /\ ~EndlessFooter(m)
  BY <1>1 DEF Sendable, NoWriters, EndlessFooter
<1>4. TrailerBytes(m) = TrailerBytes(w)
  BY <1>1 DEF TrailerBytes
<1> QED
  BY <1>1, <1>2, <1>3, <1>4 DEF Sendable

---------------------------------------------------------------------------
(* Writing a message over an alike one. *)

\* They are those of the pieces, and behind them the same trailer.
LEMMA MessageAlong ==
    ASSUME NEW m \in NetworkMessages, NEW w \in NetworkMessages, Alike(m, w), Sendable(w), NEW reader \in BOOLEAN,
           NEW P, P = MessagePieces(w, reader)
    PROVE  \E q : Along(MessageBytes(m), MessageBytes(w), w, P, q, reader)
<1> DEFINE x == MessageBytes(m)
           y == MessageBytes(w)
           a == SizedBytes(m)
           b == SizedBytes(w)
           t == TrailerBytes(w)
           q == Len(b)
<1>1. Sendable(m) /\ TrailerBytes(m) = t
  BY AlikeSendable
<1>2. x = a \o t /\ y = b \o t
  BY <1>1 DEF MessageBytes, SizedBytes
<1>3. AllEncodable(w)
  BY DEF Sendable
<1>4. Laid(P, a, b, w, reader)
  BY <1>3, MessageLaid
<1>5. P \in Seq(Spans) /\ a \in Seq(Octet) /\ b \in Seq(Octet) /\ Len(a) = q /\ q \in Nat
  BY <1>4, LaidType
<1>6. t \in Seq(Octet)
  BY TrailerPiece, PieceType DEF Sendable
<1> HIDE DEF a, b, t
<1>7. /\ x \in Seq(Octet) /\ y \in Seq(Octet) /\ Len(x) = q + Len(t) /\ Len(y) = q + Len(t) /\ Len(t) \in Nat
  BY <1>2, <1>5, <1>6, OctetsConcat
<1> HIDE DEF x, y
<1>8. ASSUME NEW c \in Seq(Octet)
      PROVE  Follows(c, 0, c)
  BY DEF Follows
<1>9. Follows(x, 0, a) /\ Follows(y, 0, b)
  <2>1. Follows(x, 0, a \o t) /\ Follows(y, 0, b \o t)
    BY <1>2, <1>7, <1>8
  <2> QED
    BY <2>1, <1>5, <1>6, FollowsConcat
<1>10. At(x, 0, a) /\ At(y, 0, b)
  BY <1>5, <1>7, <1>9 DEF At
<1>11. Walk(P, 0, q, Good(x, y, w, reader))
  <2>1. Walk(P, 0, 0 + q, Good(x, y, w, reader))
    BY <1>4, <1>7, <1>10 DEF Laid
  <2>2. 0 + q = q
    BY <1>5
  <2> QED
    BY <2>1, <2>2
<1>12. SameIn(x, y, q, Len(x))
  <2> SUFFICES ASSUME NEW i \in (q + 1)..Len(x)
               PROVE  y[i] = x[i]
    BY DEF SameIn
  <2>1. i - q \in 1..Len(t) /\ i = q + (i - q)
    BY <1>5, <1>7
  <2>2. x[i] = t[i - q] /\ y[i] = t[i - q]
    BY <1>2, <1>5, <1>6, <1>7, <2>1
  <2> QED
    BY <2>2
<1>13. q <= Len(x) /\ Len(y) = Len(x)
  BY <1>5, <1>7
<1>14. Along(x, y, w, P, q, reader)
  BY <1>5, <1>7, <1>11, <1>12, <1>13 DEF Along
<1> QED
  BY <1>14 DEF x, y

\* The offsets of the publisher.
PublisherOffsets(m) == Offsets(m, FALSE)

---------------------------------------------------------------------------
(* A message with a time stamp of its own. *)

\* Some piece has the mark.
HasMark(P, mark) == P \in Seq(Spans) /\ \E k \in 1..Len(P) : P[k].mark = mark

\* A mark stays where pieces are put together.
LEMMA HasConcat ==
    ASSUME NEW P \in Seq(Spans), NEW Q \in Seq(Spans), NEW mark, HasMark(P, mark) \/ HasMark(Q, mark)
    PROVE  HasMark(P \o Q, mark) /\ P \o Q \in Seq(Spans)
<1>1. P \o Q \in Seq(Spans) /\ Len(P \o Q) = Len(P) + Len(Q) /\ Len(P) \in Nat /\ Len(Q) \in Nat
  OBVIOUS
<1>2. CASE HasMark(P, mark)
  <2>1. PICK k \in 1..Len(P) : P[k].mark = mark
    BY <1>2 DEF HasMark
  <2>2. k \in 1..Len(P \o Q) /\ (P \o Q)[k] = P[k]
    BY <1>1
  <2> QED
    BY <1>1, <2>1, <2>2 DEF HasMark
<1>3. CASE HasMark(Q, mark)
  <2>1. PICK k \in 1..Len(Q) : Q[k].mark = mark
    BY <1>3 DEF HasMark
  <2> DEFINE j == Len(P) + k
  <2>2. j \in 1..Len(P \o Q) /\ (P \o Q)[j] = Q[k]
    BY <1>1
  <2> HIDE DEF j
  <2> QED
    BY <1>1, <2>1, <2>2 DEF HasMark
<1> QED
  BY <1>2, <1>3

\* Pieces put together are pieces.
LEMMA SpansConcat ==
    ASSUME NEW P \in Seq(Spans), NEW Q \in Seq(Spans)
    PROVE  P \o Q \in Seq(Spans)
OBVIOUS

\* The marks of the time stamp.
StampMarks == {TimestampOffset, PicosecondsOffset}

\* A message with a time stamp, or the picoseconds of one, has a piece with its mark.
LEMMA StampsMarked ==
    ASSUME NEW w \in NetworkMessages, Sendable(w), w.on \cap {"timestamp", "picoseconds"} # {},
           NEW P, P = MessagePieces(w, FALSE)
    PROVE  \E mark \in StampMarks : HasMark(P, mark)
<1> DEFINE P1 == <<Span(FlagsSize(w), Unmarked)>>
           P2 == PublisherIdPiece(w, FALSE)
           P3 == SpanIf(w, "classId", 16, Unmarked)
           P4 == GroupPieces(w, FALSE)
           P5 == PayloadHeaderPieces(w, FALSE)
           s1 == Span(8, TimestampOffset)
           s2 == Span(2, PicosecondsOffset)
           S1 == SpanIf(w, "timestamp", 8, TimestampOffset)
           S2 == SpanIf(w, "picoseconds", 2, PicosecondsOffset)
           P7 == PromotedPieces(w)
           P8 == SecurityPieces(w)
           P9 == TablePieces(w)
           D  == FlattenSeq(PiecesOf(w))
<1>1. P = P1 \o P2 \o P3 \o P4 \o P5 \o S1 \o S2 \o P7 \o P8 \o P9 \o D
  BY DEF MessagePieces, FlagsSize, TablePieces, PiecesOf, Each
<1>2. Alike(w, w) /\ AllEncodable(w) /\ FALSE \in BOOLEAN
  BY DEF Alike, AlikeDSM, AlikeField, Sendable
<1>3. P1 \in Seq(Spans)
  BY <1>2, FlagsLaid, LaidType
<1>4. P2 \in Seq(Spans)
  BY <1>2, PublisherLaid, LaidType
<1>5. P3 \in Seq(Spans)
  BY <1>2, ClassLaid, LaidType
<1>6. P4 \in Seq(Spans)
  BY <1>2, GroupLaid, LaidType
<1>7. P5 \in Seq(Spans)
  BY <1>2, WriterLaid, LaidType
<1>8. P7 \in Seq(Spans)
  BY <1>2, PromotedLaid, LaidType
<1>9. P8 \in Seq(Spans)
  BY <1>2, SecurityLaid, LaidType
<1>10. P9 \in Seq(Spans)
  BY <1>2, TableLaid, LaidType
<1>11. D \in Seq(Spans)
  BY <1>2, DSMsLaid, LaidType
<1>12. s1 \in Spans /\ s2 \in Spans /\ s1.mark = TimestampOffset /\ s2.mark = PicosecondsOffset
  <2>1. 8 \in Nat /\ 2 \in Nat /\ TimestampOffset \in Marks /\ PicosecondsOffset \in Marks
    BY MarksAre
  <2> QED
    BY <2>1 DEF Span, Spans
<1>13. /\ S1 = (IF "timestamp" \in w.on THEN <<s1>> ELSE <<>>)
       /\ S2 = (IF "picoseconds" \in w.on THEN <<s2>> ELSE <<>>)
  BY DEF SpanIf
<1> HIDE DEF P1, P2, P3, P4, P5, s1, s2, S1, S2, P7, P8, P9, D
<1>14. S1 \in Seq(Spans) /\ S2 \in Seq(Spans)
  BY <1>12, <1>13
<1>15. "timestamp" \in w.on => HasMark(S1, TimestampOffset)
  <2> SUFFICES ASSUME "timestamp" \in w.on PROVE HasMark(S1, TimestampOffset)
    OBVIOUS
  <2>1. S1 = <<s1>>
    BY <1>13
  <2>2. 1 \in 1..Len(S1) /\ S1[1].mark = TimestampOffset
    BY <1>12, <2>1
  <2> QED
    BY <1>14, <2>2 DEF HasMark
<1>16. "picoseconds" \in w.on => HasMark(S2, PicosecondsOffset)
  <2> SUFFICES ASSUME "picoseconds" \in w.on PROVE HasMark(S2, PicosecondsOffset)
    OBVIOUS
  <2>1. S2 = <<s2>>
    BY <1>13
  <2>2. 1 \in 1..Len(S2) /\ S2[1].mark = PicosecondsOffset
    BY <1>12, <2>1
  <2> QED
    BY <1>14, <2>2 DEF HasMark
<1> DEFINE A5 == P1 \o P2 \o P3 \o P4 \o P5
           A6 == A5 \o S1
           A7 == A6 \o S2
           A8 == A7 \o P7
           A9 == A8 \o P8
           B9 == A9 \o P9
<1>17. A5 \in Seq(Spans)
  BY <1>3, <1>4, <1>5, <1>6, <1>7, SpansConcat
<1>18. P = B9 \o D
  BY <1>1
<1> HIDE DEF A5
<1>19. A6 \in Seq(Spans) /\ A7 \in Seq(Spans) /\ A8 \in Seq(Spans) /\ A9 \in Seq(Spans) /\ B9 \in Seq(Spans)
  BY <1>8, <1>9, <1>10, <1>14, <1>17, SpansConcat
<1>20. PICK mark \in StampMarks : HasMark(S1, mark) \/ HasMark(S2, mark)
  BY <1>15, <1>16 DEF StampMarks
<1>21. HasMark(A7, mark)
  <2>1. CASE HasMark(S1, mark)
    <3>1. HasMark(A6, mark)
      BY <1>14, <1>17, <2>1, HasConcat
    <3> HIDE DEF A6
    <3> QED
      BY <1>14, <1>19, <3>1, HasConcat
  <2>2. CASE HasMark(S2, mark)
    <3> HIDE DEF A6
    <3> QED
      BY <1>14, <1>19, <2>2, HasConcat
  <2> QED
    BY <1>20, <2>1, <2>2
<1> HIDE DEF A7
<1>22. HasMark(A8, mark)
  BY <1>8, <1>19, <1>21, HasConcat
<1> HIDE DEF A8
<1>23. HasMark(A9, mark)
  BY <1>9, <1>19, <1>22, HasConcat
<1> HIDE DEF A9
<1>24. HasMark(B9, mark)
  BY <1>10, <1>19, <1>23, HasConcat
<1> HIDE DEF B9
<1>25. HasMark(B9 \o D, mark)
  BY <1>11, <1>19, <1>24, HasConcat
<1> QED
  BY <1>18, <1>25

\* Every offset that is noted is that of a marked piece.
OfPiece(o, P, L, n) == \E k \in 1..n : P[k].mark # Unmarked /\ o = OffsetAt(P[k], L[k - 1])

\* All of them are.
LEMMA OffsetsOfPieces ==
    ASSUME NEW P \in Seq(Spans), NEW L, NEW J, NEW O, Noticed(P, L, J, O)
    PROVE  \A i \in 1..Len(O) : OfPiece(O[i], P, L, Len(P))
<1> DEFINE n == Len(P)
           T == {k \in Nat : k <= n => \A i \in 1..J[k] : OfPiece(O[i], P, L, k)}
<1>1. /\ n \in Nat /\ O \in Seq(Located) /\ Len(O) \in Nat /\ J \in [0..n -> 0..Len(O)] /\ J[0] = 0 /\ J[n] = Len(O)
      /\ \A k \in 1..n :
          /\ P[k].mark = Unmarked => J[k] = J[k - 1]
          /\ P[k].mark # Unmarked => J[k] = J[k - 1] + 1 /\ O[J[k]] = OffsetAt(P[k], L[k - 1])
  BY DEF Noticed
<1> HIDE DEF n
<1>2. 0 \in T
  BY <1>1
<1>3. ASSUME NEW k \in Nat, k \in T
      PROVE  k + 1 \in T
  <2> SUFFICES ASSUME k + 1 <= n, NEW i \in 1..J[k + 1] PROVE OfPiece(O[i], P, L, k + 1)
    OBVIOUS
  <2> DEFINE j == k + 1
  <2>1. j \in 1..n /\ j - 1 = k /\ k <= n /\ k \in 0..n /\ j \in 0..n
    BY <1>1
  <2>2. \A h \in 1..J[k] : OfPiece(O[h], P, L, k)
    BY <1>3, <2>1
  <2>3. J[k] \in Nat /\ J[j] \in Nat /\ i \in 1..J[j]
    <3> HIDE DEF j
    <3>1. J[k] \in 0..Len(O) /\ J[j] \in 0..Len(O)
      BY <1>1, <2>1
    <3> QED
      BY <1>1, <3>1 DEF j
  <2>4. \A o : OfPiece(o, P, L, k) => OfPiece(o, P, L, j)
    BY <2>1 DEF OfPiece
  <2> HIDE DEF j
  <2>5. CASE P[j].mark = Unmarked
    <3>1. J[j] = J[k]
      BY <1>1, <2>1, <2>5
    <3> QED
      BY <2>2, <2>3, <2>4, <3>1 DEF j
  <2>6. CASE P[j].mark # Unmarked
    <3>1. J[j] = J[k] + 1 /\ O[J[j]] = OffsetAt(P[j], L[j - 1])
      BY <1>1, <2>1, <2>6
    <3>2. i \in 1..J[k] \/ i = J[j]
      BY <2>3, <3>1
    <3>3. CASE i = J[j]
      <4>1. j \in 1..j
        BY <2>1
      <4> QED
        BY <2>6, <3>1, <3>3, <4>1 DEF OfPiece, j
    <3>4. CASE i \in 1..J[k]
      BY <2>2, <2>4, <3>4 DEF j
    <3> QED
      BY <3>2, <3>3, <3>4
  <2> QED
    BY <2>5, <2>6
<1>4. \A k \in Nat : k \in T
  <2> HIDE DEF T
  <2> QED
    BY <1>2, <1>3, Induction
<1>5. n \in T
  BY <1>1, <1>4
<1>6. \A i \in 1..J[n] : OfPiece(O[i], P, L, n)
  BY <1>1, <1>5
<1> QED
  BY <1>1, <1>6 DEF n

---------------------------------------------------------------------------
(* What the publisher's update does to any buffer. *)

\* A Variant taken as a scalar has bytes of its own.
LEMMA ScalarBytes ==
    ASSUME NEW v \in Variants
    PROVE  EncodeVariant(AsScalar(v)) \in Seq(Octet)
<1>1. CASE ~(v.arr /\ v.data # <<>>)
  BY <1>1, VariantBytes DEF AsScalar
<1>2. CASE v.arr /\ v.data # <<>>
  <2> DEFINE u == AsScalar(v)
             n == WidthOf(v.type)
  <2>1. v # EmptyVariant
    BY <1>2 DEF EmptyVariant
  <2>2. /\ v \in [type : 1..25, arr : BOOLEAN, data : Seq(Unsigned(4))] /\ n # 0
        /\ \A i \in DOMAIN v.data : v.data[i] \in Unsigned(n)
    BY <2>1 DEF Variants
  <2>3. u = [v EXCEPT !.arr = FALSE]
    BY <1>2 DEF AsScalar
  <2>4. u.type = v.type /\ u.arr = FALSE /\ u.data = v.data
    BY <2>2, <2>3
  <2>5. n \in Widths /\ n \in Nat
    BY <2>2, WidthOfType DEF Widths
  <2>6. v.data[1] \in Nat
    <3> DEFINE e == v.data
    <3>1. e \in Seq(Unsigned(4)) /\ e # <<>>
      BY <1>2, <2>2
    <3> HIDE DEF e
    <3>2. 1 \in DOMAIN e
      BY <3>1
    <3>3. e[1] \in Unsigned(4)
      BY <3>1, <3>2
    <3> QED
      BY <3>3 DEF Unsigned, e
  <2>7. EncodeVariant(u) = <<v.type>> \o LE(v.data[1], n)
    <3>0. v.type \in 1..25
      BY <2>2
    <3>1. v.type \in Nat /\ v.type # 0 /\ v.type + 0 = v.type
      BY <3>0
    <3>2. EncodeVariant(u) = <<v.type + 0>> \o LE(v.data[1], n)
      <4> HIDE DEF u
      <4> QED
        BY <2>4, <3>1 DEF EncodeVariant
    <3> QED
      BY <3>1, <3>2
  <2>8. <<v.type>> \in Seq(Octet)
    <3>1. v.type \in Octet
      BY <2>2 DEF Octet
    <3> DEFINE t == v.type
    <3> HIDE DEF t
    <3>2. t \in Octet
      BY <3>1 DEF t
    <3>3. <<t>> \in Seq(Octet)
      BY <3>2
    <3> QED
      BY <3>3 DEF t
  <2>9. LE(v.data[1], n) \in Seq(Octet)
    BY <2>5, <2>6, LEType
  <2> QED
    BY <2>7, <2>8, <2>9, OctetsConcat
<1> QED
  BY <1>1, <1>2

\* A piece of the publisher's.
PublisherLegal(s, w) == s \in Spans /\ Legal(s, w, FALSE)

\* What is written there is bytes.
LEMMA ContentBytes ==
    ASSUME NEW w \in NetworkMessages, NEW s, PublisherLegal(s, w), s.mark \in Writable, NEW pos,
           NEW o, o = OffsetAt(s, pos)
    PROVE  NewContent(o, w) \in Seq(Octet)
<1>1. o.type = s.mark /\ o.dsm = s.dsm /\ o.field = s.field
  BY DEF OffsetAt
<1>2. w.dsms \in Seq(DataSetMessages) /\ DSMCount(w) <= Len(w.dsms) /\ DSMCount(w) \in Nat
  BY MessageHas
<1>3. ASSUME s.mark \in {DSMSequenceOffset, DataValueOffset, VariantOffset}
      PROVE  w.dsms[s.dsm] \in DataSetMessages
  <2>1. s.dsm \in 1..DSMCount(w)
    BY <1>3 DEF PublisherLegal, Legal
  <2>2. s.dsm \in 1..Len(w.dsms)
    BY <1>2, <2>1
  <2> QED
    BY <1>2, <2>2
<1>4. ASSUME s.mark \in {DataValueOffset, VariantOffset}
      PROVE  /\ w.dsms[s.dsm].fields \in Seq(DataValues) /\ s.field \in 1..Len(w.dsms[s.dsm].fields)
  <2>1. w.dsms[s.dsm] \in DataSetMessages
    BY <1>3, <1>4
  <2>2. w.dsms[s.dsm].type = KeyFrame /\ s.field \in 1..Len(w.dsms[s.dsm].fields)
    BY <1>4 DEF PublisherLegal, Legal
  <2> QED
    BY <2>1, <2>2, DSMHas
<1>5. CASE s.mark = SequenceOffset
  <2>1. NewContent(o, w) = LE(w.val["sequenceNumber"], 2)
    BY <1>1, <1>5 DEF NewContent, SequenceOffset, DSMSequenceOffset, DataValueOffset, VariantOffset
  <2>2. w.val["sequenceNumber"] \in Nat /\ 2 \in Nat
    BY NumbersFit DEF Unsigned
  <2> QED
    BY <2>1, <2>2, LEType
<1>6. CASE s.mark = DSMSequenceOffset
  <2>1. NewContent(o, w) = LE(w.dsms[s.dsm].val["sequenceNr"], 2)
    BY <1>1, <1>6 DEF NewContent, SequenceOffset, DSMSequenceOffset, DataValueOffset, VariantOffset
  <2>2. w.dsms[s.dsm].val["sequenceNr"] \in Unsigned(2)
    BY <1>3, <1>6, DSMHas
  <2>3. w.dsms[s.dsm].val["sequenceNr"] \in Nat /\ 2 \in Nat
    BY <2>2 DEF Unsigned
  <2> QED
    BY <2>1, <2>3, LEType
<1>7. CASE s.mark = DataValueOffset
  <2> DEFINE f == w.dsms[s.dsm].fields
  <2>1. NewContent(o, w) = EncodeDataValue(f[1])
    BY <1>1, <1>7 DEF NewContent, SequenceOffset, DSMSequenceOffset, DataValueOffset, VariantOffset
  <2>2. f \in Seq(DataValues) /\ s.field \in 1..Len(f)
    BY <1>4, <1>7
  <2> HIDE DEF f
  <2>3. f[1] \in DataValues
    BY <2>2
  <2> QED
    BY <2>1, <2>3, DataValueBytes
<1>8. CASE s.mark = VariantOffset
  <2> DEFINE f == w.dsms[s.dsm].fields
  <2>1. NewContent(o, w) = EncodeVariant(AsScalar(f[s.field].value))
    BY <1>1, <1>8 DEF NewContent, SequenceOffset, DSMSequenceOffset, DataValueOffset, VariantOffset
  <2>2. f \in Seq(DataValues) /\ s.field \in 1..Len(f)
    BY <1>4, <1>8
  <2> HIDE DEF f
  <2>3. f[s.field] \in DataValues
    BY <2>2
  <2> QED
    BY <2>1, <2>3, DataValueHas, ScalarBytes
<1> QED
  BY <1>5, <1>6, <1>7, <1>8 DEF Writable

\* Every piece of a message is one of the publisher's.
LEMMA PiecesLegal ==
    ASSUME NEW w \in NetworkMessages, Sendable(w), NEW P, P = MessagePieces(w, FALSE)
    PROVE  P \in Seq(Spans) /\ \A k \in 1..Len(P) : PublisherLegal(P[k], w)
<1> DEFINE x == MessageBytes(w)
<1>1. Alike(w, w) /\ FALSE \in BOOLEAN
  BY DEF Alike, AlikeDSM, AlikeField
<1>2. PICK q : Along(x, x, w, P, q, FALSE)
  BY <1>1, MessageAlong
<1>3. P \in Seq(Spans) /\ Walk(P, 0, q, Good(x, x, w, FALSE))
  BY <1>2 DEF Along
<1>4. PICK L : WalkedBy(P, 0, q, Good(x, x, w, FALSE), L)
  BY <1>3 DEF Walk
<1>5. \A k \in 1..Len(P) : <<P[k], L[k - 1]>> \in Good(x, x, w, FALSE)
  BY <1>4 DEF WalkedBy
<1>6. \A k \in 1..Len(P) : Holding(P[k], L[k - 1], x, x, w, FALSE) /\ P[k] \in Spans
  BY <1>5 DEF Good
<1> QED
  BY <1>3, <1>6 DEF Holding, PublisherLegal

\* Whatever the buffer holds, it stays a buffer of its size, and with a time stamp that
\* cannot be brought up to date the message is refused.
LEMMA UpdateStays ==
    ASSUME NEW x \in Seq(Octet), NEW w \in NetworkMessages, Sendable(w),
           NEW O, O = PublisherOffsets(w), NEW u, u = UpdateBufferedMessage(x, O, w)
    PROVE  /\ u.rv \in UpdateCodes /\ u.out \in Seq(Octet) /\ Len(u.out) = Len(x)
           /\ w.on \cap {"timestamp", "picoseconds"} # {} => u.rv = "BadNotSupported"
<1> DEFINE P == MessagePieces(w, FALSE)
<1>1. P \in Seq(Spans) /\ \A k \in 1..Len(P) : PublisherLegal(P[k], w)
  BY PiecesLegal
<1>2. O = Noting(P).offsets
  BY DEF Offsets, PublisherOffsets
<1>3. w.on \cap {"timestamp", "picoseconds"} # {} => \E mark \in StampMarks : HasMark(P, mark)
  BY StampsMarked
<1> HIDE DEF P
<1>4. PICK L, J : Noticed(P, L, J, O)
  BY <1>1, <1>2, NotingNotes
<1>5. \A i \in 1..Len(O) : OfPiece(O[i], P, L, Len(P))
  BY <1>1, <1>4, OffsetsOfPieces
<1>6. O \in Seq(Located) /\ Len(O) \in Nat
  BY <1>4 DEF Noticed
<1>7. ASSUME NEW i \in 1..Len(O), O[i].type \in Writable
      PROVE  NewContent(O[i], w) \in Seq(Octet)
  <2>1. PICK k \in 1..Len(P) : P[k].mark # Unmarked /\ O[i] = OffsetAt(P[k], L[k - 1])
    BY <1>5 DEF OfPiece
  <2> DEFINE s == P[k]
             pos == L[k - 1]
             o == O[i]
  <2>2. PublisherLegal(s, w) /\ o = OffsetAt(s, pos)
    BY <1>1, <2>1
  <2> HIDE DEF s, pos, o
  <2>3. s.mark \in Writable
    BY <1>7, <2>2 DEF OffsetAt, o
  <2>4. NewContent(o, w) \in Seq(Octet)
    BY <2>2, <2>3, ContentBytes
  <2> QED
    BY <2>4 DEF o
<1>8. /\ u.rv \in UpdateCodes /\ u.out \in Seq(Octet) /\ Len(u.out) = Len(x)
      /\ (\E i \in 1..Len(O) : O[i].type \notin Writable) => u.rv = "BadNotSupported"
  BY <1>6, <1>7, UpdateKeeps
<1>9. ASSUME NEW mark \in StampMarks, HasMark(P, mark)
      PROVE  \E i \in 1..Len(O) : O[i].type \notin Writable
  <2>1. PICK k \in 1..Len(P) : P[k].mark = mark
    BY <1>9 DEF HasMark
  <2>2. mark # Unmarked /\ mark \notin Writable
    BY DEF StampMarks, TimestampOffset, PicosecondsOffset, Unmarked, Writable, SequenceOffset,
           DSMSequenceOffset, DataValueOffset, VariantOffset
  <2>3. J[k] = J[k - 1] + 1 /\ O[J[k]] = OffsetAt(P[k], L[k - 1])
    BY <1>4, <2>1, <2>2 DEF Noticed
  <2>4. J \in [0..Len(P) -> 0..Len(O)] /\ k \in 0..Len(P) /\ k - 1 \in 0..Len(P)
    BY <1>1, <1>4 DEF Noticed
  <2>5. J[k] \in 0..Len(O) /\ J[k - 1] \in 0..Len(O)
    BY <2>4
  <2>6. J[k] \in 1..Len(O)
    BY <1>6, <2>3, <2>5
  <2>7. O[J[k]].type = mark
    BY <2>1, <2>3 DEF OffsetAt
  <2> QED
    BY <2>2, <2>6, <2>7
<1> QED
  BY <1>3, <1>8, <1>9

\* The pieces of a message, section by section.
LEMMA MessagePiecesAre ==
    ASSUME NEW x, NEW reader
    PROVE  MessagePieces(x, reader) =
                 <<Span(FlagsSize(x), Unmarked)>> \o PublisherIdPiece(x, reader) \o SpanIf(x, "classId", 16, Unmarked)
                 \o GroupPieces(x, reader) \o PayloadHeaderPieces(x, reader)
                 \o SpanIf(x, "timestamp", 8, TimestampOffset) \o SpanIf(x, "picoseconds", 2, PicosecondsOffset)
                 \o PromotedPieces(x) \o SecurityPieces(x) \o TablePieces(x) \o FlattenSeq(PiecesOf(x))
BY DEF MessagePieces, FlagsSize, TablePieces, PiecesOf, Each

---------------------------------------------------------------------------
(* How many of the offsets are those of fields. *)

FieldMarks == {DataValueOffset, VariantOffset}

Weight(s)  == IF s.mark \in FieldMarks THEN 1 ELSE 0
Weighed(P) == [k \in 1..Len(P) |-> SpanIn(Weight(P[k]), P[k].mark, P[k].dsm, P[k].field)]

\* A marked piece of the header is there because the feature is.
Backed(s, m) ==
    /\ s.mark = PublisherIdOffset => "publisherId" \in m.on
    /\ s.mark = GroupIdOffset     => {"groupHeader", "writerGroupId"} \subseteq m.on
    /\ s.mark = WriterIdOffset    => "payloadHeader" \in m.on
    /\ s.mark = SequenceOffset    => {"groupHeader", "sequenceNumber"} \subseteq m.on

\* With one DataSetMessage, the piece behind c fields is that of field c + 1.
Numbered(s, c, m) == Backed(s, m) /\ (s.mark \in FieldMarks /\ DSMCount(m) = 1 => s.field = c + 1)
Counting(m) == {t \in Spans \X Nat : Numbered(t[1], t[2], m)}

\* The pieces P lead from p counted fields to q.
Tally(P, p, q, m) == P \in Seq(Spans) /\ Walk(Weighed(P), p, q, Counting(m))

\* A piece on the scales.
LEMMA WeighedType ==
    ASSUME NEW P \in Seq(Spans)
    PROVE  /\ Weighed(P) \in Seq(Spans) /\ Len(Weighed(P)) = Len(P)
           /\ \A k \in 1..Len(P) : /\ Weighed(P)[k].size = Weight(P[k]) /\ Weighed(P)[k].mark = P[k].mark
                                   /\ Weighed(P)[k].dsm = P[k].dsm /\ Weighed(P)[k].field = P[k].field
<1>1. Len(P) \in Nat /\ \A k \in 1..Len(P) : P[k] \in Spans
  OBVIOUS
<1>2. ASSUME NEW k \in 1..Len(P)
      PROVE  LET s == SpanIn(Weight(P[k]), P[k].mark, P[k].dsm, P[k].field)
             IN  s \in Spans /\ s.size = Weight(P[k]) /\ s.mark = P[k].mark /\ s.dsm = P[k].dsm /\ s.field = P[k].field
  <2>1. P[k].mark \in Marks /\ P[k].dsm \in Nat /\ P[k].field \in Nat
    BY <1>1 DEF Spans
  <2>2. Weight(P[k]) \in Nat
    BY DEF Weight
  <2> DEFINE x == Weight(P[k])
             y == P[k].mark
             d == P[k].dsm
             f == P[k].field
  <2>3. x \in Nat /\ y \in Marks /\ d \in Nat /\ f \in Nat
    BY <2>1, <2>2
  <2> HIDE DEF x, y, d, f
  <2>4. LET s == SpanIn(x, y, d, f)
        IN  s \in Spans /\ s.size = x /\ s.mark = y /\ s.dsm = d /\ s.field = f
    BY <2>3, SpanInType
  <2> QED
    BY <2>4 DEF x, y, d, f
<1>3. Weighed(P) \in Seq(Spans) /\ Len(Weighed(P)) = Len(P)
  BY <1>1, <1>2 DEF Weighed
<1>4. \A k \in 1..Len(P) : Weighed(P)[k] = SpanIn(Weight(P[k]), P[k].mark, P[k].dsm, P[k].field)
  BY DEF Weighed
<1> QED
  BY <1>2, <1>3, <1>4

\* The pieces of two sequences, one behind the other.
LEMMA SpansJoined ==
    ASSUME NEW A \in Seq(Spans), NEW B \in Seq(Spans)
    PROVE  /\ A \o B \in Seq(Spans) /\ Len(A \o B) = Len(A) + Len(B)
           /\ \A i \in 1..(Len(A) + Len(B)) : (A \o B)[i] = IF i <= Len(A) THEN A[i] ELSE B[i - Len(A)]
OBVIOUS

\* Pieces are weighed one by one.
LEMMA WeighedConcat ==
    ASSUME NEW P \in Seq(Spans), NEW Q \in Seq(Spans)
    PROVE  Weighed(P \o Q) = Weighed(P) \o Weighed(Q)
<1> DEFINE k == Len(P)
           l == Len(Q)
           R == P \o Q
           W(s) == SpanIn(Weight(s), s.mark, s.dsm, s.field)
           A == Weighed(P)
           B == Weighed(Q)
           C == Weighed(R)
<1>1. k \in Nat /\ l \in Nat /\ R \in Seq(Spans) /\ Len(R) = k + l
      /\ \A i \in 1..(k + l) : R[i] = IF i <= k THEN P[i] ELSE Q[i - k]
  OBVIOUS
<1>2. A \in Seq(Spans) /\ Len(A) = k /\ B \in Seq(Spans) /\ Len(B) = l /\ C \in Seq(Spans) /\ Len(C) = k + l
  BY <1>1, WeighedType
<1>3. /\ \A i \in 1..k : A[i] = W(P[i])
      /\ \A i \in 1..l : B[i] = W(Q[i])
      /\ \A i \in 1..(k + l) : C[i] = W(R[i])
  BY <1>1 DEF Weighed
<1> HIDE DEF A, B, C, W, R, k, l
<1>5. A \o B \in Seq(Spans) /\ Len(A \o B) = k + l
      /\ \A i \in 1..(k + l) : (A \o B)[i] = IF i <= k THEN A[i] ELSE B[i - k]
  <2>1. A \in Seq(Spans) /\ B \in Seq(Spans) /\ Len(A) = k /\ Len(B) = l
    BY <1>2
  <2>2. A \o B \in Seq(Spans) /\ Len(A \o B) = Len(A) + Len(B)
        /\ \A i \in 1..(Len(A) + Len(B)) : (A \o B)[i] = IF i <= Len(A) THEN A[i] ELSE B[i - Len(A)]
    BY <2>1, SpansJoined
  <2> QED
    BY <2>1, <2>2
<1>6. ASSUME NEW i \in 1..(k + l)
      PROVE  C[i] = (A \o B)[i]
  <2>1. CASE i <= k
    <3>1. i \in 1..k /\ R[i] = P[i] /\ (A \o B)[i] = A[i]
      BY <1>1, <1>5, <2>1
    <3> QED
      BY <1>3, <3>1
  <2>2. CASE ~(i <= k)
    <3>1. i - k \in 1..l /\ R[i] = Q[i - k] /\ (A \o B)[i] = B[i - k]
      BY <1>1, <1>5, <2>2
    <3> QED
      BY <1>3, <3>1
  <2> QED
    BY <2>1, <2>2
<1>7. C = A \o B
  <2>1. C \in Seq(Spans) /\ Len(C) = k + l
    BY <1>2
  <2> QED
    BY <1>5, <1>6, <2>1
<1> QED
  BY <1>7 DEF A, B, C, R

\* No pieces.
LEMMA TallyNone ==
    ASSUME NEW p \in Nat, NEW m
    PROVE  Tally(<<>>, p, p, m)
<1>1. Weighed(<<>>) = <<>>
  BY DEF Weighed
<1> QED
  BY <1>1, WalkNone DEF Tally

\* One sequence of pieces behind another.
LEMMA TallyConcat ==
    ASSUME NEW P, NEW Q, NEW p, NEW q, NEW r, NEW m, Tally(P, p, q, m), Tally(Q, q, r, m)
    PROVE  Tally(P \o Q, p, r, m)
<1>1. P \in Seq(Spans) /\ Q \in Seq(Spans) /\ Walk(Weighed(P), p, q, Counting(m)) /\ Walk(Weighed(Q), q, r, Counting(m))
  BY DEF Tally
<1>2. Walk(Weighed(P) \o Weighed(Q), p, r, Counting(m))
  BY <1>1, WalkConcat
<1>3. P \o Q \in Seq(Spans) /\ Weighed(P \o Q) = Weighed(P) \o Weighed(Q)
  BY <1>1, WeighedConcat
<1> QED
  BY <1>2, <1>3 DEF Tally

\* Many of them.
LEMMA TallyEach ==
    ASSUME NEW S \in Seq(Seq(Spans)), NEW m, NEW C, C[0] \in Nat,
           \A i \in 1..Len(S) : Tally(S[i], C[i - 1], C[i], m)
    PROVE  Tally(FlattenSeq(S), C[0], C[Len(S)], m)
<1> DEFINE n == Len(S)
           P(k) == k <= n => Tally(Joined(S, k), C[0], C[k], m)
<1>1. n \in Nat
  OBVIOUS
<1>2. Joined(S, 0) = <<>> /\ Joined(S, n) = FlattenSeq(S)
      /\ \A k \in 1..n : Joined(S, k) = Joined(S, k - 1) \o S[k]
  BY JoinedMore
<1> HIDE DEF n
<1>3. P(0)
  BY <1>2, TallyNone
<1>4. ASSUME NEW k \in Nat, P(k)
      PROVE  P(k + 1)
  <2>1. SUFFICES ASSUME k + 1 <= n
                 PROVE  Tally(Joined(S, k + 1), C[0], C[k + 1], m)
    OBVIOUS
  <2>2. k + 1 \in 1..n /\ (k + 1) - 1 = k /\ k <= n
    BY <1>1, <2>1
  <2>3. Tally(Joined(S, k), C[0], C[k], m)
    BY <1>4, <2>2
  <2>4. Tally(S[k + 1], C[k], C[k + 1], m)
    BY <2>2 DEF n
  <2>5. Joined(S, k + 1) = Joined(S, k) \o S[k + 1]
    BY <1>2, <2>2
  <2> QED
    BY <2>3, <2>4, <2>5, TallyConcat
<1> DEFINE T == {k \in Nat : P(k)}
<1>5. \A k \in Nat : P(k)
  <2> HIDE DEF P
  <2>1. 0 \in T /\ \A k \in T : k + 1 \in T
    BY <1>3, <1>4
  <2>2. \A k \in Nat : k \in T
    <3> HIDE DEF T
    <3> QED
      BY <2>1, Induction
  <2> QED
    BY <2>2
<1> QED
  BY <1>1, <1>2, <1>5 DEF n

\* Pieces none of which is that of a field.
Plain(P, m) == P \in Seq(Spans) /\ \A k \in 1..Len(P) : P[k].mark \notin FieldMarks /\ Backed(P[k], m)

\* They count nothing.
LEMMA PlainTally ==
    ASSUME NEW P, NEW m, Plain(P, m), NEW p \in Nat
    PROVE  Tally(P, p, p, m)
<1> DEFINE n == Len(P)
           W == Weighed(P)
           L == [k \in 0..n |-> p]
<1>1. P \in Seq(Spans) /\ n \in Nat /\ \A k \in 1..n : P[k].mark \notin FieldMarks /\ Backed(P[k], m)
  BY DEF Plain
<1>2. W \in Seq(Spans) /\ Len(W) = n /\ \A k \in 1..n : W[k].size = Weight(P[k]) /\ W[k].mark = P[k].mark
  BY <1>1, WeighedType
<1> HIDE DEF W, n
<1>3. ASSUME NEW k \in 1..n
      PROVE  W[k].size = 0 /\ <<W[k], p>> \in Counting(m)
  <2>1. W[k].size = 0 /\ W[k] \in Spans
    BY <1>1, <1>2 DEF Weight
  <2>2. Numbered(W[k], p, m)
    BY <1>1, <1>2 DEF Numbered, Backed
  <2> QED
    BY <2>1, <2>2 DEF Counting
<1>4. WalkedBy(W, p, p, Counting(m), L)
  <2>1. L \in [0..n -> Nat] /\ L[0] = p /\ L[n] = p /\ \A k \in 1..n : L[k] = p /\ L[k - 1] = p
    BY <1>1
  <2> HIDE DEF L
  <2>2. \A k \in 1..n : L[k] = L[k - 1] + W[k].size /\ <<W[k], L[k - 1]>> \in Counting(m)
    BY <1>3, <2>1
  <2> QED
    BY <1>2, <2>1, <2>2 DEF WalkedBy
<1> QED
  BY <1>1, <1>2, <1>4 DEF Tally, Walk, W

\* The marks of the header.
LEMMA PlainMarks ==
    /\ Unmarked \in Marks \ FieldMarks /\ PublisherIdOffset \in Marks \ FieldMarks
    /\ GroupIdOffset \in Marks \ FieldMarks /\ WriterIdOffset \in Marks \ FieldMarks
    /\ SequenceOffset \in Marks \ FieldMarks /\ DSMSequenceOffset \in Marks \ FieldMarks
    /\ TimestampOffset \in Marks \ FieldMarks /\ PicosecondsOffset \in Marks \ FieldMarks
BY DEF Marks, FieldMarks, Writable, PublisherIdOffset, GroupIdOffset, WriterIdOffset, TimestampOffset, SequenceOffset,
       PicosecondsOffset, DSMSequenceOffset, DataValueOffset, VariantOffset, Unmarked

\* Which features a mark needs.
LEMMA BackedBy ==
    ASSUME NEW s, NEW m
    PROVE  /\ s.mark \in {Unmarked, DSMSequenceOffset, TimestampOffset, PicosecondsOffset} => Backed(s, m)
           /\ s.mark = PublisherIdOffset /\ "publisherId" \in m.on => Backed(s, m)
           /\ s.mark = GroupIdOffset /\ {"groupHeader", "writerGroupId"} \subseteq m.on => Backed(s, m)
           /\ s.mark = WriterIdOffset /\ "payloadHeader" \in m.on => Backed(s, m)
           /\ s.mark = SequenceOffset /\ {"groupHeader", "sequenceNumber"} \subseteq m.on => Backed(s, m)
           /\ s.mark \in FieldMarks => Backed(s, m)
BY DEF Backed, FieldMarks, PublisherIdOffset, GroupIdOffset, WriterIdOffset, TimestampOffset, SequenceOffset,
       PicosecondsOffset, DSMSequenceOffset, DataValueOffset, VariantOffset, Unmarked

\* No pieces.
LEMMA PlainNone ==
    ASSUME NEW m
    PROVE  Plain(<<>>, m)
BY DEF Plain

\* One piece.
LEMMA PlainOne ==
    ASSUME NEW s \in Spans, s.mark \notin FieldMarks, NEW m, Backed(s, m)
    PROVE  Plain(<<s>>, m)
<1> DEFINE P == <<s>>
<1>1. P \in Seq(Spans) /\ Len(P) = 1 /\ P[1] = s
  OBVIOUS
<1> HIDE DEF P
<1>2. \A k \in 1..Len(P) : P[k] = s
  BY <1>1
<1>3. Plain(P, m)
  BY <1>1, <1>2 DEF Plain
<1> QED
  BY <1>3 DEF P

\* One sequence of pieces behind another.
LEMMA PlainConcat ==
    ASSUME NEW P, NEW Q, NEW m, Plain(P, m), Plain(Q, m)
    PROVE  Plain(P \o Q, m)
<1> DEFINE R == P \o Q
<1>1. P \in Seq(Spans) /\ Q \in Seq(Spans) /\ Len(P) \in Nat /\ Len(Q) \in Nat
  BY DEF Plain
<1>2. R \in Seq(Spans) /\ Len(R) = Len(P) + Len(Q)
      /\ \A i \in 1..(Len(P) + Len(Q)) : R[i] = IF i <= Len(P) THEN P[i] ELSE Q[i - Len(P)]
  BY <1>1, SpansJoined
<1> HIDE DEF R
<1>3. ASSUME NEW i \in 1..Len(R)
      PROVE  R[i].mark \notin FieldMarks /\ Backed(R[i], m)
  <2>1. CASE i <= Len(P)
    <3>1. i \in 1..Len(P) /\ R[i] = P[i]
      BY <1>1, <1>2, <2>1
    <3> QED
      BY <3>1 DEF Plain
  <2>2. CASE ~(i <= Len(P))
    <3>1. i - Len(P) \in 1..Len(Q) /\ R[i] = Q[i - Len(P)]
      BY <1>1, <1>2, <2>2
    <3> QED
      BY <3>1 DEF Plain
  <2> QED
    BY <2>1, <2>2
<1>4. Plain(R, m)
  BY <1>2, <1>3 DEF Plain
<1> QED
  BY <1>4 DEF R

\* A piece of the header.
LEMMA PlainSpan ==
    ASSUME NEW n \in Nat, NEW mark \in Marks \ FieldMarks, NEW m, NEW s, s = Span(n, mark), Backed(s, m)
    PROVE  Plain(<<s>>, m)
<1>1. s \in Spans /\ s.mark = mark
  BY SpanType
<1> QED
  BY <1>1, PlainOne

\* A piece that is there with its feature.
LEMMA PlainSpanIf ==
    ASSUME NEW n, NEW mark \in Marks \ FieldMarks, NEW m, NEW f, f \in m.on => n \in Nat,
           NEW s, s = Span(n, mark), f \in m.on => Backed(s, m)
    PROVE  Plain(SpanIf(m, f, n, mark), m)
<1>1. CASE f \in m.on
  <2>1. SpanIf(m, f, n, mark) = <<s>>
    BY <1>1 DEF SpanIf
  <2>2. n \in Nat /\ Backed(s, m)
    BY <1>1
  <2> QED
    BY <2>1, <2>2, PlainSpan
<1>2. CASE f \notin m.on
  <2>1. SpanIf(m, f, n, mark) = <<>>
    BY <1>2 DEF SpanIf
  <2> QED
    BY <2>1, PlainNone
<1> QED
  BY <1>1, <1>2

\* A piece without a mark.
LEMMA PlainUnmarked ==
    ASSUME NEW n \in Nat, NEW m, NEW s, s = Span(n, Unmarked)
    PROVE  Plain(<<s>>, m)
<1>1. s.mark = Unmarked /\ Unmarked \in Marks \ FieldMarks
  BY PlainMarks DEF Span
<1>2. Backed(s, m)
  BY <1>1, BackedBy
<1> QED
  BY <1>1, <1>2, PlainSpan

\* Such a piece with its feature.
LEMMA PlainUnmarkedIf ==
    ASSUME NEW n, NEW m, NEW f, f \in m.on => n \in Nat
    PROVE  Plain(SpanIf(m, f, n, Unmarked), m)
<1> DEFINE s == Span(n, Unmarked)
<1>1. s.mark = Unmarked /\ Unmarked \in Marks \ FieldMarks
  BY PlainMarks DEF Span
<1> HIDE DEF s
<1>2. Backed(s, m)
  BY <1>1, BackedBy
<1>3. s = Span(n, Unmarked)
  BY DEF s
<1> QED
  BY <1>1, <1>2, <1>3, PlainSpanIf

\* A piece only a subscriber marks.
LEMMA PlainReader ==
    ASSUME NEW reader \in BOOLEAN, NEW mark \in Marks \ FieldMarks, NEW r, r = ForReader(reader, mark)
    PROVE  r \in Marks \ FieldMarks /\ (r = mark \/ r = Unmarked)
BY PlainMarks DEF ForReader

\* The publisher id.
LEMMA PublisherPlain ==
    ASSUME NEW m \in NetworkMessages, NEW reader \in BOOLEAN
    PROVE  Plain(PublisherIdPiece(m, reader), m)
<1> DEFINE n == IF m.pubType = StringId THEN ArraySize(m.pubString, 1) ELSE PublisherIdWidth(m.pubType)
           r == ForReader(reader, PublisherIdOffset)
           s == Span(n, r)
           f == "publisherId"
<1>1. r \in Marks \ FieldMarks /\ (r = PublisherIdOffset \/ r = Unmarked)
  BY PlainMarks, PlainReader
<1>2. n \in Nat
  <2>1. Len(m.pubString) \in Nat
    BY MessageHas DEF Unsigned
  <2> QED
    BY <2>1 DEF ArraySize, PublisherIdWidth
<1>3. PublisherIdPiece(m, reader) = SpanIf(m, f, n, r)
  BY DEF PublisherIdPiece
<1> HIDE DEF n, r
<1>4. s.mark = r
  BY DEF Span
<1> HIDE DEF s
<1>5. f \in m.on => Backed(s, m)
  BY <1>1, <1>4, BackedBy
<1>6. s = Span(n, r)
  BY DEF s
<1> HIDE DEF f
<1> QED
  BY <1>1, <1>2, <1>3, <1>5, <1>6, PlainSpanIf

\* The group header.
LEMMA GroupPlain ==
    ASSUME NEW m \in NetworkMessages, NEW reader \in BOOLEAN
    PROVE  Plain(GroupPieces(m, reader), m)
<1>1. CASE "groupHeader" \notin m.on
  <2>1. GroupPieces(m, reader) = <<>>
    BY <1>1 DEF GroupPieces
  <2> QED
    BY <2>1, PlainNone
<1>2. CASE "groupHeader" \in m.on
  <2> DEFINE r  == ForReader(reader, GroupIdOffset)
             q  == Span(1, Unmarked)
             Q  == <<q>>
             S1 == SpanIf(m, "writerGroupId", 2, r)
             S2 == SpanIf(m, "groupVersion", 4, Unmarked)
             S3 == SpanIf(m, "nmNumber", 2, Unmarked)
             S4 == SpanIf(m, "sequenceNumber", 2, SequenceOffset)
  <2>1. GroupPieces(m, reader) = Q \o S1 \o S2 \o S3 \o S4
    BY <1>2 DEF GroupPieces
  <2>2. Plain(Q, m)
    <3>1. 1 \in Nat /\ q = Span(1, Unmarked)
      OBVIOUS
    <3> HIDE DEF q
    <3> QED
      BY <3>1, PlainUnmarked
  <2>3. Plain(S1, m)
    <3> DEFINE n == 2
               s == Span(n, r)
               f == "writerGroupId"
    <3>1. r \in Marks \ FieldMarks /\ (r = GroupIdOffset \/ r = Unmarked)
      BY PlainMarks, PlainReader
    <3>2. n \in Nat
      OBVIOUS
    <3> HIDE DEF r, n
    <3>3. s.mark = r
      BY DEF Span
    <3> HIDE DEF s
    <3>4. f \in m.on => Backed(s, m)
      BY <1>2, <3>1, <3>3, BackedBy
    <3>5. s = Span(n, r)
      BY DEF s
    <3> HIDE DEF f
    <3>6. Plain(SpanIf(m, f, n, r), m)
      BY <3>1, <3>2, <3>4, <3>5, PlainSpanIf
    <3> QED
      BY <3>6 DEF f, n
  <2>4. Plain(S2, m) /\ Plain(S3, m)
    <3>1. 4 \in Nat /\ 2 \in Nat
      OBVIOUS
    <3> QED
      BY <3>1, PlainUnmarkedIf
  <2>5. Plain(S4, m)
    <3> DEFINE n == 2
               s == Span(n, SequenceOffset)
               f == "sequenceNumber"
    <3>1. n \in Nat /\ SequenceOffset \in Marks \ FieldMarks
      BY PlainMarks
    <3> HIDE DEF n
    <3>3. s.mark = SequenceOffset
      BY DEF Span
    <3> HIDE DEF s
    <3>4. f \in m.on => Backed(s, m)
      BY <1>2, <3>3, BackedBy
    <3>5. s = Span(n, SequenceOffset)
      BY DEF s
    <3> HIDE DEF f
    <3>6. Plain(SpanIf(m, f, n, SequenceOffset), m)
      BY <3>1, <3>4, <3>5, PlainSpanIf
    <3> QED
      BY <3>6 DEF f, n
  <2> HIDE DEF Q, S1, S2, S3, S4
  <2>6. Plain(Q \o S1 \o S2 \o S3 \o S4, m)
    BY <2>2, <2>3, <2>4, <2>5, PlainConcat
  <2> QED
    BY <2>1, <2>6
<1> QED
  BY <1>1, <1>2

\* Two pieces are one behind the other.
LEMMA TwoPieces ==
    ASSUME NEW q \in Spans, NEW s \in Spans
    PROVE  <<q, s>> = <<q>> \o <<s>>
<1> DEFINE a == <<q>>
           b == <<s>>
           c == <<q, s>>
           d == a \o b
<1>1. a \in Seq(Spans) /\ b \in Seq(Spans) /\ Len(a) = 1 /\ Len(b) = 1 /\ a[1] = q /\ b[1] = s
  OBVIOUS
<1>2. c \in Seq(Spans) /\ Len(c) = 2 /\ c[1] = q /\ c[2] = s
  OBVIOUS
<1> HIDE DEF a, b, c
<1>3. /\ d \in Seq(Spans) /\ Len(d) = Len(a) + Len(b)
      /\ \A i \in 1..(Len(a) + Len(b)) : d[i] = IF i <= Len(a) THEN a[i] ELSE b[i - Len(a)]
  BY <1>1, SpansJoined
<1> HIDE DEF d
<1>4. Len(d) = 2 /\ d[1] = q /\ d[2] = s
  BY <1>1, <1>3
<1>5. \A i \in 1..2 : d[i] = c[i]
  BY <1>2, <1>4
<1>6. d = c
  BY <1>2, <1>3, <1>4, <1>5
<1> QED
  BY <1>6 DEF a, b, c, d

\* The payload header.
LEMMA WriterPlain ==
    ASSUME NEW m \in NetworkMessages, NEW reader \in BOOLEAN
    PROVE  Plain(PayloadHeaderPieces(m, reader), m)
<1>1. CASE "payloadHeader" \notin m.on
  <2>1. PayloadHeaderPieces(m, reader) = <<>>
    BY <1>1 DEF PayloadHeaderPieces
  <2> QED
    BY <2>1, PlainNone
<1>2. CASE "payloadHeader" \in m.on
  <2> DEFINE one == 1
             n == 2 * Len(m.ids)
             r == ForReader(reader, WriterIdOffset)
             q == Span(one, Unmarked)
             s == Span(n, r)
  <2>1. PayloadHeaderPieces(m, reader) = <<q>> \o <<s>>
    <3>1. PayloadHeaderPieces(m, reader) = <<q, s>>
      BY <1>2 DEF PayloadHeaderPieces
    <3>2. q \in Spans /\ s \in Spans
      <4>1. Len(m.ids) \in Nat /\ n \in Nat /\ one \in Nat
        BY MessageHas DEF Unsigned
      <4>2. r \in Marks /\ Unmarked \in Marks
        BY PlainMarks, PlainReader
      <4> HIDE DEF n, one, r
      <4> QED
        BY <4>1, <4>2, SpanType
    <3> HIDE DEF q, s
    <3>3. <<q, s>> = <<q>> \o <<s>>
      BY <3>2, TwoPieces
    <3> QED
      BY <3>1, <3>3
  <2>2. n \in Nat /\ one \in Nat
    <3>1. Len(m.ids) \in Nat
      BY MessageHas DEF Unsigned
    <3> QED
      BY <3>1
  <2>3. r \in Marks \ FieldMarks /\ (r = WriterIdOffset \/ r = Unmarked)
    BY PlainMarks, PlainReader
  <2> HIDE DEF r, n, one
  <2>4. Plain(<<q>>, m)
    BY <2>2, PlainUnmarked
  <2>5. s.mark = r
    BY DEF Span
  <2>6. Backed(s, m)
    <3> HIDE DEF s
    <3> QED
      BY <1>2, <2>3, <2>5, BackedBy
  <2>7. Plain(<<s>>, m)
    BY <2>2, <2>3, <2>6, PlainSpan
  <2> HIDE DEF q, s
  <2> QED
    BY <2>1, <2>4, <2>7, PlainConcat
<1> QED
  BY <1>1, <1>2

\* The sections of the header whose pieces are plain spans of bytes.
LEMMA SectionsPlain ==
    ASSUME NEW m \in NetworkMessages, NEW reader \in BOOLEAN, AllEncodable(m)
    PROVE  /\ Plain(<<Span(FlagsSize(m), Unmarked)>>, m) /\ Plain(SpanIf(m, "classId", 16, Unmarked), m)
           /\ Plain(SpanIf(m, "timestamp", 8, TimestampOffset), m)
           /\ Plain(SpanIf(m, "picoseconds", 2, PicosecondsOffset), m)
           /\ Plain(PromotedPieces(m), m) /\ Plain(SecurityPieces(m), m) /\ Plain(TablePieces(m), m)
<1>1. Plain(<<Span(FlagsSize(m), Unmarked)>>, m)
  <2> DEFINE n == FlagsSize(m)
  <2>1. n \in Nat
    BY DEF FlagsSize
  <2> HIDE DEF n
  <2>2. Plain(<<Span(n, Unmarked)>>, m)
    BY <2>1, PlainUnmarked
  <2> QED
    BY <2>2 DEF n
<1>2. Plain(SpanIf(m, "classId", 16, Unmarked), m)
  <2>1. 16 \in Nat
    OBVIOUS
  <2> QED
    BY <2>1, PlainUnmarkedIf
<1>3. ASSUME NEW f, NEW n \in Nat, NEW mark \in {TimestampOffset, PicosecondsOffset}
      PROVE  Plain(SpanIf(m, f, n, mark), m)
  <2> DEFINE s == Span(n, mark)
  <2>1. s.mark = mark
    BY DEF Span
  <2> HIDE DEF s
  <2>2. mark \in Marks \ FieldMarks /\ Backed(s, m)
    BY <2>1, PlainMarks, BackedBy
  <2>3. s = Span(n, mark)
    BY DEF s
  <2> QED
    BY <2>2, <2>3, PlainSpanIf
<1>4. /\ Plain(SpanIf(m, "timestamp", 8, TimestampOffset), m)
      /\ Plain(SpanIf(m, "picoseconds", 2, PicosecondsOffset), m)
  <2>1. 8 \in Nat /\ 2 \in Nat
    OBVIOUS
  <2> QED
    BY <1>3, <2>1
<1>5. ASSUME NEW P, NEW b, NEW c, Laid(P, b, c, m, reader),
             P = <<>> \/ \E n : P = <<Span(n, Unmarked)>>
      PROVE  Plain(P, m)
  <2>1. P \in Seq(Spans)
    BY <1>5, LaidType
  <2>2. ASSUME NEW n, P = <<Span(n, Unmarked)>>
        PROVE  Plain(P, m)
    <3> DEFINE s == Span(n, Unmarked)
    <3>1. P = <<s>> /\ s.mark = Unmarked
      BY <2>2 DEF Span
    <3> HIDE DEF s
    <3>2. s \in Spans
      BY <2>1, <3>1
    <3>3. s.mark \notin FieldMarks /\ Backed(s, m)
      BY <3>1, PlainMarks, BackedBy
    <3> QED
      BY <3>1, <3>2, <3>3, PlainOne
  <2>3. P = <<>> => Plain(P, m)
    BY PlainNone
  <2> QED
    BY <1>5, <2>2, <2>3
<1>6. Alike(m, m)
  BY DEF Alike, AlikeDSM, AlikeField
<1>7. Plain(PromotedPieces(m), m)
  <2>1. Laid(PromotedPieces(m), PromotedBytes(m), PromotedBytes(m), m, reader)
    BY <1>6, PromotedLaid
  <2>2. PromotedPieces(m) = <<>> \/ \E n : PromotedPieces(m) = <<Span(n, Unmarked)>>
    BY DEF PromotedPieces, SpanIf
  <2> QED
    BY <1>5, <2>1, <2>2
<1>8. Plain(TablePieces(m), m)
  <2>1. Laid(TablePieces(m), TableBytes(m), TableBytes(m), m, reader)
    BY <1>6, TableLaid
  <2>2. TablePieces(m) = <<>> \/ \E n : TablePieces(m) = <<Span(n, Unmarked)>>
    BY DEF TablePieces
  <2> QED
    BY <1>5, <2>1, <2>2
<1>9. Plain(SecurityPieces(m), m)
  <2>1. CASE "security" \notin m.on
    <3>1. SecurityPieces(m) = <<>>
      BY <2>1 DEF SecurityPieces
    <3> QED
      BY <3>1, PlainNone
  <2>2. CASE "security" \in m.on
    <3> DEFINE n == 6 + Len(m.nonce)
               k == 2
               Q == <<Span(n, Unmarked)>>
               F == SpanIf(m, "footer", k, Unmarked)
    <3>1. SecurityPieces(m) = Q \o F
      BY <2>2 DEF SecurityPieces
    <3>2. n \in Nat /\ k \in Nat
      <4>1. Len(m.nonce) \in Nat
        BY MessageHas DEF Unsigned
      <4> QED
        BY <4>1
    <3> HIDE DEF n, k
    <3>3. Plain(Q, m)
      BY <3>2, PlainUnmarked
    <3>4. Plain(F, m)
      BY <3>2, PlainUnmarkedIf
    <3> HIDE DEF Q, F
    <3> QED
      BY <3>1, <3>3, <3>4, PlainConcat
  <2> QED
    BY <2>1, <2>2
<1> QED
  BY <1>1, <1>2, <1>4, <1>7, <1>8, <1>9

\* The pieces of a DataSetMessage know which one it is.
LEMMA PlainInMessage ==
    ASSUME NEW P, NEW m, Plain(P, m), NEW i \in Nat
    PROVE  Plain(InMessage(P, i), m)
<1> DEFINE Q == InMessage(P, i)
<1>1. P \in Seq(Spans) /\ \A k \in 1..Len(P) : P[k].mark \notin FieldMarks /\ Backed(P[k], m)
  BY DEF Plain
<1>2. Q \in Seq(Spans) /\ Len(Q) = Len(P)
      /\ \A k \in 1..Len(P) : Q[k] = SpanIn(P[k].size, P[k].mark, i, P[k].field)
  BY <1>1, InMessageType
<1> HIDE DEF Q
<1>3. ASSUME NEW k \in 1..Len(Q)
      PROVE  Q[k].mark = P[k].mark /\ P[k].mark \notin FieldMarks /\ Backed(P[k], m)
  <2>1. k \in 1..Len(P) /\ Q[k] = SpanIn(P[k].size, P[k].mark, i, P[k].field)
    BY <1>2
  <2>2. Q[k].mark = P[k].mark
    BY <2>1 DEF SpanIn
  <2> QED
    BY <1>1, <2>1, <2>2
<1>4. \A k \in 1..Len(Q) : Q[k].mark \notin FieldMarks /\ Backed(Q[k], m)
  BY <1>3 DEF Backed
<1>5. Plain(Q, m)
  BY <1>2, <1>4 DEF Plain
<1> QED
  BY <1>5 DEF Q

\* The fields count one by one.
LEMMA RowTally ==
    ASSUME NEW m, NEW e, NEW i, NEW P, P = FieldRow(e, i), P \in Seq(Spans), Len(P) = Len(e.fields),
           NEW p \in Nat, DSMCount(m) = 1 => p = 0
    PROVE  Tally(P, p, p + Len(P), m)
<1> DEFINE n == Len(P)
           W == Weighed(P)
           L == [k \in 0..n |-> p + k]
           mark == FieldMark(e.enc)
<1>1. n \in Nat /\ \A k \in 1..n : P[k].mark = mark /\ P[k].field = k
  <2>1. \A k \in 1..Len(e.fields) : P[k] = SpanIn(ValueSizeIn(e.fields[k], e.enc), mark, i, k)
    BY DEF FieldRow
  <2> HIDE DEF mark
  <2>2. \A k \in 1..Len(e.fields) : P[k].mark = mark /\ P[k].field = k
    <3> TAKE k \in 1..Len(e.fields)
    <3>1. P[k] = SpanIn(ValueSizeIn(e.fields[k], e.enc), mark, i, k)
      BY <2>1
    <3> QED
      BY <3>1 DEF SpanIn
  <2>3. n \in Nat
    OBVIOUS
  <2> QED
    BY <2>2, <2>3
<1>2. mark \in FieldMarks
  BY DEF FieldMark, FieldMarks
<1>3. W \in Seq(Spans) /\ Len(W) = n /\ \A k \in 1..n : W[k].size = Weight(P[k]) /\ W[k].mark = P[k].mark
      /\ W[k].field = P[k].field
  BY WeighedType
<1> HIDE DEF W, n, mark
<1>4. ASSUME NEW k \in 1..n
      PROVE  W[k].size = 1 /\ <<W[k], p + k - 1>> \in Counting(m)
  <2>1. W[k].size = 1 /\ W[k] \in Spans /\ W[k].mark = mark /\ W[k].field = k
    BY <1>1, <1>2, <1>3 DEF Weight
  <2>2. Backed(W[k], m)
    BY <1>2, <2>1, BackedBy
  <2>3. Numbered(W[k], p + k - 1, m)
    BY <1>1, <2>1, <2>2 DEF Numbered
  <2>4. p + k - 1 \in Nat
    BY <1>1
  <2> QED
    BY <2>1, <2>3, <2>4 DEF Counting
<1>5. L \in [0..n -> Nat] /\ L[0] = p /\ L[n] = p + n
  BY <1>1
<1>6. \A k \in 1..n : L[k] = p + k /\ L[k - 1] = p + k - 1
  BY <1>1
<1> HIDE DEF L
<1>7. \A k \in 1..n : L[k] = L[k - 1] + W[k].size /\ <<W[k], L[k - 1]>> \in Counting(m)
  BY <1>1, <1>4, <1>6
<1>8. WalkedBy(W, p, p + n, Counting(m), L)
  BY <1>3, <1>5, <1>7 DEF WalkedBy
<1>9. Tally(P, p, p + n, m)
  BY <1>3, <1>8 DEF Tally, Walk, W
<1> QED
  BY <1>9 DEF n

\* The fields of a DataSetMessage that have offsets.
FieldsCounted(d) == IF d.type = KeyFrame /\ d.enc # RawData THEN Len(d.fields) ELSE 0

\* The pieces of its payload.
LEMMA BodyTally ==
    ASSUME NEW m \in NetworkMessages, NEW i \in 1..DSMCount(m), NEW e, e = m.dsms[i], Encodable(e),
           NEW p \in Nat, DSMCount(m) = 1 => p = 0
    PROVE  Tally(InMessage(BodyPieces(e), i), p, p + FieldsCounted(e), m)
<1>0. e \in DataSetMessages /\ i \in Nat /\ Len(e.fields) \in Nat
  BY SizesFit, DSMHas DEF Unsigned
<1>1. Alike(m, m)
  BY DEF Alike, AlikeDSM, AlikeField
<1>2. CASE e.type = KeyFrame /\ e.enc # RawData
  <2> DEFINE R == [k \in DOMAIN e.fields |-> [FieldSpan(e, k) EXCEPT !.field = k]]
             Q == <<Span(2, Unmarked)>>
             P == FieldRow(e, i)
  <2>1. BodyPieces(e) = Q \o R
    BY <1>2 DEF BodyPieces
  <2>2. R \in Seq(Spans) /\ InMessage(R, i) = P
    BY <1>0, <1>2, FieldPieces
  <2>3. P \in Seq(Spans) /\ Len(P) = Len(e.fields)
    <3>1. Laid(P, FlattenSeq(FieldsOf(e)), FlattenSeq(FieldsOf(e)), m, FALSE)
      BY <1>1, <1>2, FieldsLaid
    <3>2. Len(P) = Len(e.fields)
      BY <1>0 DEF FieldRow
    <3> QED
      BY <3>1, <3>2, LaidType
  <2>4. Plain(Q, m)
    <3> DEFINE n == 2
    <3>1. n \in Nat
      OBVIOUS
    <3> HIDE DEF n
    <3>2. Plain(<<Span(n, Unmarked)>>, m)
      BY <3>1, PlainUnmarked
    <3> QED
      BY <3>2 DEF n
  <2> HIDE DEF Q, R, P
  <2>5. Q \in Seq(Spans)
    BY <2>4 DEF Plain
  <2>6. InMessage(Q \o R, i) = InMessage(Q, i) \o P
    BY <1>0, <2>2, <2>5, InMessageConcat
  <2>7. Tally(InMessage(Q, i), p, p, m)
    BY <1>0, <2>4, PlainInMessage, PlainTally
  <2>8. Tally(P, p, p + Len(P), m)
    BY <2>3, RowTally DEF P
  <2>9. Tally(InMessage(Q, i) \o P, p, p + Len(P), m)
    BY <2>7, <2>8, TallyConcat
  <2> QED
    BY <1>2, <2>1, <2>3, <2>6, <2>9 DEF FieldsCounted
<1>3. CASE ~(e.type = KeyFrame /\ e.enc # RawData)
  <2> DEFINE n == DSMSize(e) - HeaderSize(e)
             s == Span(n, Unmarked)
             P == <<s>>
  <2>1. BodyPieces(e) = P
    BY <1>3 DEF BodyPieces
  <2>2. BodyPieces(e) \in Seq(Spans)
    BY <1>1, BodyLaid
  <2>3. s.mark = Unmarked
    BY DEF Span
  <2>4. s \in Spans
    <3> HIDE DEF s
    <3> QED
      BY <2>1, <2>2
  <2>5. Plain(P, m)
    <3> HIDE DEF s
    <3>1. s.mark \notin FieldMarks /\ Backed(s, m)
      BY <2>3, PlainMarks, BackedBy
    <3> QED
      BY <2>4, <3>1, PlainOne
  <2> HIDE DEF P
  <2>6. Tally(InMessage(P, i), p, p, m)
    BY <1>0, <2>5, PlainInMessage, PlainTally
  <2>7. FieldsCounted(e) = 0 /\ p + 0 = p
    BY <1>3 DEF FieldsCounted
  <2> QED
    BY <2>1, <2>6, <2>7
<1> QED
  BY <1>2, <1>3

\* The pieces of a DataSetMessage.
LEMMA DSMTally ==
    ASSUME NEW m \in NetworkMessages, NEW i \in 1..DSMCount(m), NEW e, e = m.dsms[i], Encodable(e),
           NEW p \in Nat, DSMCount(m) = 1 => p = 0
    PROVE  Tally(InMessage(DSMPieces(e), i), p, p + FieldsCounted(e), m)
<1> DEFINE Q1 == DSMFlagPieces(e)
           Q2 == SpanIf(e, "sequenceNr", 2, DSMSequenceOffset)
           Q3 == <<Span(RestSize(e), Unmarked)>>
           Q4 == BodyPieces(e)
           Q  == Q1 \o Q2 \o Q3
<1>0. e \in DataSetMessages /\ i \in Nat
  BY SizesFit
<1>1. Alike(m, m) /\ AlikeDSM(e, e)
  BY DEF Alike, AlikeDSM, AlikeField
<1>2. DSMPieces(e) = Q \o Q4
  BY DEF DSMPieces, RestSize, BodyPieces
<1>3. Q4 \in Seq(Spans) /\ Tally(InMessage(Q4, i), p, p + FieldsCounted(e), m)
  BY <1>1, BodyLaid, BodyTally
<1>4. Plain(Q1, m)
  <2>1. ASSUME NEW n \in {1, 2}
        PROVE  Plain(<<Span(n, Unmarked)>>, m)
    <3>1. n \in Nat
      OBVIOUS
    <3> QED
      BY <3>1, PlainUnmarked
  <2>2. \E n \in {1, 2} : Q1 = <<Span(n, Unmarked)>>
    BY DEF DSMFlagPieces
  <2> HIDE DEF Q1
  <2> QED
    BY <2>1, <2>2
<1>5. Plain(Q2, m)
  <2> DEFINE n == 2
             s == Span(n, DSMSequenceOffset)
  <2>1. n \in Nat
    OBVIOUS
  <2> HIDE DEF n
  <2>2. s \in Spans /\ s.mark = DSMSequenceOffset
    BY <2>1, PlainMarks, SpanType
  <2>3. Q2 = <<>> \/ Q2 = <<s>>
    BY DEF SpanIf, n
  <2> HIDE DEF s, Q2
  <2>4. s.mark \notin FieldMarks /\ Backed(s, m)
    BY <2>2, PlainMarks, BackedBy
  <2> QED
    BY <2>2, <2>3, <2>4, PlainOne, PlainNone
<1>6. Plain(Q3, m)
  <2> DEFINE n == RestSize(e)
  <2>1. n \in Nat
    BY <1>0, HeaderIs
  <2> HIDE DEF n
  <2>2. Plain(<<Span(n, Unmarked)>>, m)
    BY <2>1, PlainUnmarked
  <2> QED
    BY <2>2 DEF n
<1>7. Plain(Q, m)
  <2> HIDE DEF Q1, Q2, Q3
  <2> QED
    BY <1>4, <1>5, <1>6, PlainConcat
<1> HIDE DEF Q, Q4
<1>8. Tally(InMessage(Q, i), p, p, m) /\ Q \in Seq(Spans)
  BY <1>0, <1>7, PlainInMessage, PlainTally DEF Plain
<1>9. InMessage(Q \o Q4, i) = InMessage(Q, i) \o InMessage(Q4, i)
  BY <1>0, <1>3, <1>8, InMessageConcat
<1>10. Tally(InMessage(Q, i) \o InMessage(Q4, i), p, p + FieldsCounted(e), m)
  BY <1>3, <1>8, TallyConcat
<1> QED
  BY <1>2, <1>9, <1>10

\* The fields of the first k DataSetMessages.
FieldsUpTo(m, k) == SumFunction([i \in 1..k |-> FieldsCounted(m.dsms[i])])

\* The fields of one DataSetMessage more.
LEMMA FieldsUpToMore ==
    ASSUME NEW m \in NetworkMessages
    PROVE  /\ FieldsUpTo(m, 0) = 0
           /\ \A k \in 0..Len(m.dsms) : FieldsUpTo(m, k) \in Nat
           /\ \A k \in 1..Len(m.dsms) : FieldsUpTo(m, k) = FieldsUpTo(m, k - 1) + FieldsCounted(m.dsms[k])
<1> DEFINE n == Len(m.dsms)
           F == [i \in 1..n |-> FieldsCounted(m.dsms[i])]
<1>0. m.dsms \in Seq(DataSetMessages)
  BY MessageHas
<1>1. n \in Nat /\ \A i \in 1..n : m.dsms[i] \in DataSetMessages
  BY <1>0
<1>2. \A i \in 1..n : F[i] = FieldsCounted(m.dsms[i]) /\ F[i] \in Nat
  <2> TAKE i \in 1..n
  <2>1. Len(m.dsms[i].fields) \in Nat
    BY <1>1, DSMHas DEF Unsigned
  <2> QED
    BY <2>1 DEF FieldsCounted
<1> HIDE DEF n, F
<1>3. ASSUME NEW k \in 0..n
      PROVE  FieldsUpTo(m, k) = SumFunction([i \in 1..k |-> F[i]])
  <2>1. [i \in 1..k |-> FieldsCounted(m.dsms[i])] = [i \in 1..k |-> F[i]]
    BY <1>1, <1>2
  <2> QED
    BY <2>1 DEF FieldsUpTo
<1>4. FieldsUpTo(m, 0) = 0
  <2>0. 0 \in 0..n
    BY <1>1
  <2>1. FieldsUpTo(m, 0) = SumFunction([i \in 1..0 |-> F[i]])
    BY <1>3, <2>0
  <2> QED
    BY <2>1, SumEmpty
<1>5. ASSUME NEW k \in 1..n
      PROVE  FieldsUpTo(m, k) = FieldsUpTo(m, k - 1) + FieldsCounted(m.dsms[k]) /\ FieldsUpTo(m, k - 1) \in Nat
  <2> DEFINE j == k - 1
  <2>1. j \in Nat /\ j + 1 = k /\ j \in 0..n /\ k \in 0..n
    BY <1>1
  <2>2. \A i \in 1..k : F[i] \in Nat
    BY <1>1, <1>2
  <2>3. F[k] = FieldsCounted(m.dsms[k])
    BY <1>2
  <2> HIDE DEF j
  <2>4. /\ SumFunction([i \in 1..(j + 1) |-> F[i]]) = SumFunction([i \in 1..j |-> F[i]]) + F[j + 1]
        /\ SumFunction([i \in 1..j |-> F[i]]) \in Nat
    BY <2>1, <2>2, SumAppend
  <2>5. FieldsUpTo(m, k) = FieldsUpTo(m, j) + F[k] /\ FieldsUpTo(m, j) \in Nat
    BY <1>3, <2>1, <2>4
  <2> QED
    BY <2>3, <2>5 DEF j
<1>6. ASSUME NEW k \in 0..n
      PROVE  FieldsUpTo(m, k) \in Nat
  <2>1. CASE k = 0
    BY <1>4, <2>1
  <2>2. CASE k # 0
    <3>1. k \in 1..n
      BY <1>1, <2>2
    <3>2. FieldsCounted(m.dsms[k]) \in Nat
      BY <1>2, <3>1
    <3> QED
      BY <1>5, <3>1, <3>2
  <2> QED
    BY <2>1, <2>2
<1> QED
  BY <1>4, <1>5, <1>6 DEF n

\* The pieces of the DataSetMessages.
LEMMA DSMsTally ==
    ASSUME NEW m \in NetworkMessages, AllEncodable(m)
    PROVE  Tally(FlattenSeq(PiecesOf(m)), 0, FieldsUpTo(m, DSMCount(m)), m)
<1> DEFINE n == DSMCount(m)
           S == PiecesOf(m)
           C == [k \in 0..n |-> FieldsUpTo(m, k)]
<1>0. m.dsms \in Seq(DataSetMessages) /\ DSMCount(m) <= Len(m.dsms) /\ DSMCount(m) \in Nat
  BY MessageHas
<1>1. n \in Nat /\ n <= Len(m.dsms) /\ Len(m.dsms) \in Nat
  BY <1>0
<1>2. /\ FieldsUpTo(m, 0) = 0
      /\ \A k \in 0..n : FieldsUpTo(m, k) \in Nat
      /\ \A k \in 1..n : FieldsUpTo(m, k) = FieldsUpTo(m, k - 1) + FieldsCounted(m.dsms[k])
  BY <1>1, FieldsUpToMore
<1>3. ASSUME NEW i \in 1..n
      PROVE  Tally(S[i], FieldsUpTo(m, i - 1), FieldsUpTo(m, i), m)
  <2> DEFINE p == FieldsUpTo(m, i - 1)
             e == m.dsms[i]
  <2>1. S[i] = InMessage(DSMPieces(e), i) /\ Encodable(e)
    BY DEF PiecesOf, AllEncodable
  <2>2. p \in Nat /\ FieldsUpTo(m, i) = p + FieldsCounted(e) /\ (n = 1 => p = 0)
    BY <1>1, <1>2
  <2> HIDE DEF p, S
  <2>3. Tally(InMessage(DSMPieces(e), i), p, p + FieldsCounted(e), m)
    BY <2>1, <2>2, DSMTally
  <2> QED
    BY <2>1, <2>2, <2>3 DEF p
<1>4. S \in Seq(Seq(Spans)) /\ Len(S) = n
  <2>1. \A i \in 1..n : S[i] \in Seq(Spans)
    BY <1>3 DEF Tally
  <2>2. S = [i \in 1..n |-> S[i]]
    BY DEF PiecesOf
  <2> HIDE DEF S, n
  <2> QED
    BY <1>1, <2>1, <2>2
<1>5. \A k \in 0..n : C[k] = FieldsUpTo(m, k)
  OBVIOUS
<1>6. \A i \in 1..n : i \in 0..n /\ i - 1 \in 0..n
  BY <1>1
<1> HIDE DEF C, S, n
<1>7. C[0] = 0 /\ C[0] \in Nat /\ C[n] = FieldsUpTo(m, n) /\ \A i \in 1..Len(S) : Tally(S[i], C[i - 1], C[i], m)
  <2>1. C[0] = 0 /\ C[0] \in Nat /\ C[n] = FieldsUpTo(m, n)
    <3>1. 0 \in 0..n /\ n \in 0..n
      BY <1>1
    <3> QED
      BY <1>2, <1>5, <3>1
  <2>2. ASSUME NEW i \in 1..Len(S)
        PROVE  Tally(S[i], C[i - 1], C[i], m)
    <3>1. i \in 1..n
      BY <1>4, <2>2
    <3>2. C[i] = FieldsUpTo(m, i) /\ C[i - 1] = FieldsUpTo(m, i - 1)
      BY <1>5, <1>6, <3>1
    <3> QED
      BY <1>3, <3>1, <3>2
  <2> QED
    BY <2>1, <2>2
<1>8. Tally(FlattenSeq(S), C[0], C[Len(S)], m)
  BY <1>4, <1>7, TallyEach
<1> QED
  BY <1>4, <1>7, <1>8 DEF S, n

\* The pieces of a message.
LEMMA MessageTally ==
    ASSUME NEW m \in NetworkMessages, AllEncodable(m), NEW reader \in BOOLEAN
    PROVE  Tally(MessagePieces(m, reader), 0, FieldsUpTo(m, DSMCount(m)), m)
<1> DEFINE P1 == <<Span(FlagsSize(m), Unmarked)>>
           P2 == PublisherIdPiece(m, reader)
           P3 == SpanIf(m, "classId", 16, Unmarked)
           P4 == GroupPieces(m, reader)
           P5 == PayloadHeaderPieces(m, reader)
           S1 == SpanIf(m, "timestamp", 8, TimestampOffset)
           S2 == SpanIf(m, "picoseconds", 2, PicosecondsOffset)
           P7 == PromotedPieces(m)
           P8 == SecurityPieces(m)
           P9 == TablePieces(m)
           D  == FlattenSeq(PiecesOf(m))
           P  == P1 \o P2 \o P3 \o P4 \o P5 \o S1 \o S2 \o P7 \o P8 \o P9
<1>1. MessagePieces(m, reader) = P \o D
  BY MessagePiecesAre
<1>2. Plain(P1, m) /\ Plain(P3, m) /\ Plain(S1, m) /\ Plain(S2, m) /\ Plain(P7, m) /\ Plain(P8, m) /\ Plain(P9, m)
  BY SectionsPlain
<1>3. Plain(P2, m) /\ Plain(P4, m) /\ Plain(P5, m)
  BY PublisherPlain, GroupPlain, WriterPlain
<1> HIDE DEF P1, P2, P3, P4, P5, S1, S2, P7, P8, P9, D
<1>4. Plain(P1 \o P2 \o P3 \o P4 \o P5, m)
  BY <1>2, <1>3, PlainConcat
<1> DEFINE H == P1 \o P2 \o P3 \o P4 \o P5
<1>5. Plain(H, m) /\ P = H \o S1 \o S2 \o P7 \o P8 \o P9
  BY <1>4
<1> HIDE DEF H
<1>6. Plain(H \o S1 \o S2 \o P7 \o P8 \o P9, m)
  BY <1>2, <1>5, PlainConcat
<1>7. Plain(P, m)
  BY <1>5, <1>6
<1> HIDE DEF P
<1>8. 0 \in Nat
  OBVIOUS
<1>9. Tally(P, 0, 0, m)
  BY <1>7, <1>8, PlainTally
<1>10. Tally(D, 0, FieldsUpTo(m, DSMCount(m)), m)
  BY DSMsTally DEF D
<1> QED
  BY <1>1, <1>9, <1>10, TallyConcat

---------------------------------------------------------------------------
(* The memory a decoded message owns: its members, and nothing else. *)

\* The members of a message that live in memory of their own, and the blocks a
\* message that has been decoded owns.
Arrays    == Strings \cup {"promoted", "dsms"}
Owned(s)  == {ToString(i) : i \in {j \in DOMAIN s : s[j].owns}}
Blocks(d) == {f \in Strings : d[f] # <<>>} \cup (IF d.promoted # <<>> THEN {"promoted"} ELSE {})
             \cup Owned(d.dsms)

\* The memory of d is that of its members and M, and none of T has been read.
Accounts(d, T, M) == d.heap = Blocks(d) \cup M /\ \A f \in T : d[f] = <<>>
Accounted(src, x, T, M) == x \in States(src) /\ (x.rv = "Good" => Accounts(x.dst, T, M))

\* A section that touches no member with memory.
Still(d, e) == e.heap = d.heap /\ \A f \in Arrays : e[f] = d[f]

\* It changes nothing in the account.
LEMMA StillAccounts ==
    ASSUME NEW T, T \subseteq Arrays, NEW M, NEW d, Accounts(d, T, M), NEW e, Still(d, e)
    PROVE  Accounts(e, T, M)
<1>1. e.heap = d.heap /\ \A f \in Arrays : e[f] = d[f]
  BY DEF Still
<1>2. \A f \in Strings : e[f] = d[f]
  BY <1>1 DEF Arrays
<1>3. e.promoted = d.promoted /\ e.dsms = d.dsms
  BY <1>1 DEF Arrays
<1>4. {f \in Strings : e[f] # <<>>} = {f \in Strings : d[f] # <<>>}
  BY <1>2
<1>5. Blocks(e) = Blocks(d)
  BY <1>3, <1>4 DEF Blocks
<1> QED
  BY <1>1, <1>5 DEF Accounts

\* The same of the states of the decoder.
LEMMA StillAccounted ==
    ASSUME NEW T, T \subseteq Arrays, NEW M, NEW src, NEW r, Accounted(src, r, T, M), NEW x \in States(src),
           x.rv = "Good" => r.rv = "Good" /\ Still(r.dst, x.dst)
    PROVE  Accounted(src, x, T, M)
BY StillAccounts DEF Accounted

\* Numbers and features have no memory.
LEMMA StillNumbers ==
    ASSUME NEW d \in LooseMessages, NEW v
    PROVE  /\ Still(d, d) /\ Still(d, WithOn(d, v)) /\ Still(d, WithVal(d, v))
           /\ Still(d, [d EXCEPT !.nmType = v]) /\ Still(d, [d EXCEPT !.pubType = v])
           /\ Still(d, [d EXCEPT !.version = v]) /\ Still(d, [d EXCEPT !.count = v])
BY DEF LooseMessages, Still, Arrays, Strings, WithOn, WithVal

\* The version, the types and the count are stored without memory.
LEMMA NumberAccounted ==
    ASSUME NEW T, T \subseteq Arrays, NEW M, NEW src, NEW r, Accounted(src, r, T, M), NEW n \in Nat
    PROVE  /\ Accounted(src, NmTyped(r, n), T, M) /\ Accounted(src, PubTyped(r, n), T, M)
           /\ Accounted(src, Versioned(r, n), T, M) /\ Accounted(src, CountSet(r, n), T, M)
<1> DEFINE d == r.dst
           nt == [d EXCEPT !.nmType = n]
           pt == [d EXCEPT !.pubType = n]
           vs == [d EXCEPT !.version = n]
           cs == [d EXCEPT !.count = n]
<1>1. r \in States(src) /\ d \in LooseMessages
  BY DEF Accounted, States
<1>2. /\ NmTyped(r, n) = [r EXCEPT !.dst = nt] /\ PubTyped(r, n) = [r EXCEPT !.dst = pt]
      /\ Versioned(r, n) = [r EXCEPT !.dst = vs] /\ CountSet(r, n) = [r EXCEPT !.dst = cs]
  BY DEF NmTyped, PubTyped, Versioned, CountSet
<1>3. Still(d, nt) /\ Still(d, pt) /\ Still(d, vs) /\ Still(d, cs)
  <2> HIDE DEF d
  <2> QED
    BY <1>1, StillNumbers
<1>4. nt \in LooseMessages /\ pt \in LooseMessages /\ vs \in LooseMessages /\ cs \in LooseMessages
  <2> HIDE DEF d
  <2> QED
    BY <1>1 DEF LooseMessages
<1> HIDE DEF nt, pt, vs, cs
<1>5. ASSUME NEW e \in LooseMessages, Still(d, e), NEW x, x = [r EXCEPT !.dst = e]
      PROVE  Accounted(src, x, T, M)
  <2>1. x \in States(src) /\ x.rv = r.rv /\ x.dst = e
    BY <1>1, <1>5 DEF States
  <2> QED
    BY <1>5, <2>1, StillAccounted
<1> QED
  BY <1>2, <1>3, <1>4, <1>5

\* A number taken from the buffer.
LEMMA TakeAccounted ==
    ASSUME NEW T, T \subseteq Arrays, NEW M, NEW src \in Seq(Octet), NEW r, Accounted(src, r, T, M),
           NEW w \in Widths, NEW x, x = Take(src, r, w)
    PROVE  Accounted(src, x, T, M) /\ x.last \in Nat
<1>1. r \in States(src) /\ r.dst \in LooseMessages
  BY DEF Accounted, States
<1>2. x \in States(src) /\ x.dst = r.dst /\ (r.rv # "Good" => x = r)
  BY <1>1, TakeType
<1>3. Still(r.dst, x.dst)
  BY <1>1, <1>2, StillNumbers
<1> QED
  BY <1>2, <1>3, StillAccounted DEF States

\* A byte of flags.
LEMMA FlagsAccounted ==
    ASSUME NEW T, T \subseteq Arrays, NEW M, NEW src \in Seq(Octet), NEW r, Accounted(src, r, T, M),
           NEW masks, DOMAIN masks \subseteq AllFeatures, NEW x, x = ReadFlags(src, r, masks)
    PROVE  Accounted(src, x, T, M) /\ x.last \in Nat
<1> DEFINE a == Take(src, r, 1)
           s == a.dst.on \cup FlagsIn(a.last, masks)
<1>1. r \in States(src)
  BY DEF Accounted
<1>2. x \in States(src)
  BY <1>1, ReadFlagsType
<1>3. x = IF a.rv = "Good" THEN [a EXCEPT !.dst = WithOn(a.dst, s)] ELSE a
  BY DEF ReadFlags, Then, WithOn
<1>4. Accounted(src, a, T, M)
  BY TakeAccounted DEF Widths
<1> HIDE DEF s, a
<1>5. a \in States(src) /\ a.dst \in LooseMessages
  BY <1>4 DEF Accounted, States
<1>6. CASE a.rv # "Good"
  BY <1>2, <1>3, <1>4, <1>6 DEF States
<1>7. CASE a.rv = "Good"
  <2> DEFINE e == WithOn(a.dst, s)
  <2>1. Still(a.dst, e)
    BY <1>5, StillNumbers
  <2>2. x = [a EXCEPT !.dst = e]
    BY <1>3, <1>7
  <2> HIDE DEF e
  <2>3. x.dst = e /\ x.rv = "Good"
    BY <1>5, <1>7, <2>2 DEF States
  <2> QED
    BY <1>2, <1>4, <1>7, <2>1, <2>3, StillAccounted DEF States
<1> QED
  BY <1>6, <1>7

\* One integer.
LEMMA IntegerAccounted ==
    ASSUME NEW T, T \subseteq Arrays, NEW M, NEW src \in Seq(Octet), NEW r, Accounted(src, r, T, M),
           NEW f \in NMFields, NEW w \in Widths, NEW x, x = ReadNumber(src, r, f, w)
    PROVE  Accounted(src, x, T, M)
<1> DEFINE v == SetField(r.dst.val, f, x.last)
<1>1. r \in States(src) /\ r.dst \in LooseMessages
  BY DEF Accounted, States
<1>2. x \in States(src) /\ (r.rv # "Good" => x = r) /\ (x.rv = "Good" => x.dst = WithVal(r.dst, v))
  BY <1>1, ReadNumberType
<1> HIDE DEF v
<1>3. Still(r.dst, WithVal(r.dst, v))
  BY <1>1, StillNumbers
<1> QED
  BY <1>2, <1>3, StillAccounted

\* A section of optional integers.
LEMMA SectionAccounted ==
    ASSUME NEW T, T \subseteq Arrays, NEW M, NEW src \in Seq(Octet), NEW r, Accounted(src, r, T, M),
           NEW layout \in Seq(NMFields \X Widths), NEW x, x = ReadSection(src, r, layout)
    PROVE  Accounted(src, x, T, M)
<1> DEFINE y == ReadFields(src, [rv |-> r.rv, pos |-> r.pos, val |-> r.dst.val], r.dst.on, layout)
           v == y.val
<1>1. r \in States(src) /\ r.dst \in LooseMessages
  BY DEF Accounted, States
<1>2. x \in States(src) /\ (r.rv # "Good" => x = r)
  BY <1>1, ReadSectionType
<1>3. x = [r EXCEPT !.rv = y.rv, !.pos = y.pos, !.dst = WithVal(r.dst, v)]
  BY DEF ReadSection, TookSection, WithVal
<1> HIDE DEF y, v
<1>4. x.dst = WithVal(r.dst, v)
  BY <1>1, <1>3 DEF States
<1>5. Still(r.dst, WithVal(r.dst, v))
  BY <1>1, StillNumbers
<1> QED
  BY <1>2, <1>4, <1>5, StillAccounted

\* A member is read into a block of its own if it is not empty.
LEMMA StoredAccounts ==
    ASSUME NEW T, T \subseteq Arrays, NEW M, NEW d \in LooseMessages, NEW member \in Strings, Accounts(d, T, M),
           member \in T, NEW v, NEW e, e = Stored(d, member, v, IF v = <<>> THEN d.heap ELSE d.heap \cup {member})
    PROVE  Accounts(e, T \ {member}, M)
<1> DEFINE h == IF v = <<>> THEN d.heap ELSE d.heap \cup {member}
<1>1. e = [d EXCEPT ![member] = v, !.heap = h]
  BY DEF Stored
<1>2. h = d.heap \cup (IF v = <<>> THEN {} ELSE {member})
  OBVIOUS
<1> HIDE DEF h
<1>3. e[member] = v /\ e.heap = h /\ \A f \in Arrays \ {member} : e[f] = d[f]
  <2>1. CASE member = "pubString"
    BY <1>1, <2>1 DEF LooseMessages, Arrays, Strings
  <2>2. CASE member = "ids"
    BY <1>1, <2>2 DEF LooseMessages, Arrays, Strings
  <2>3. CASE member = "nonce"
    BY <1>1, <2>3 DEF LooseMessages, Arrays, Strings
  <2>4. CASE member = "footer"
    BY <1>1, <2>4 DEF LooseMessages, Arrays, Strings
  <2>5. CASE member = "signature"
    BY <1>1, <2>5 DEF LooseMessages, Arrays, Strings
  <2>6. CASE member = "sizes"
    BY <1>1, <2>6 DEF LooseMessages, Arrays, Strings
  <2> QED
    BY <2>1, <2>2, <2>3, <2>4, <2>5, <2>6 DEF Strings
<1>4. d.heap = Blocks(d) \cup M /\ d[member] = <<>> /\ \A f \in T : d[f] = <<>>
  BY DEF Accounts
<1>5. e.promoted = d.promoted /\ e.dsms = d.dsms
  BY <1>3 DEF Arrays, Strings
<1>6. {f \in Strings : e[f] # <<>>} = {f \in Strings : d[f] # <<>>} \cup (IF v = <<>> THEN {} ELSE {member})
  <2>1. \A f \in Strings \ {member} : e[f] = d[f]
    BY <1>3 DEF Arrays
  <2> QED
    BY <1>3, <1>4, <2>1
<1>7. Blocks(e) = Blocks(d) \cup (IF v = <<>> THEN {} ELSE {member})
  BY <1>5, <1>6 DEF Blocks
<1>8. \A f \in T \ {member} : e[f] = <<>>
  BY <1>3, <1>4
<1> QED
  BY <1>2, <1>3, <1>4, <1>7, <1>8 DEF Accounts

\* A byte string.
LEMMA StringAccounted ==
    ASSUME NEW T, T \subseteq Arrays, NEW M, NEW src \in Seq(Octet), NEW r, Accounted(src, r, T, M), r.rv = "Good",
           NEW member \in Strings, member \in T, NEW x, x = ReadString(src, r, member)
    PROVE  Accounted(src, x, T \ {member}, M)
<1> DEFINE y == DecodeArray(src, r.pos, 1)
           v == y.value
           d == r.dst
           e == Stored(d, member, v, IF v = <<>> THEN d.heap ELSE d.heap \cup {member})
<1>1. r \in States(src) /\ d \in LooseMessages /\ Accounts(d, T, M)
  BY DEF Accounted, States
<1>2. x \in States(src)
  BY <1>1, ReadStringType
<1>3. x = [r EXCEPT !.rv = y.rv, !.pos = y.pos, !.dst = e]
  BY DEF ReadString, Stored
<1> HIDE DEF d, v
<1>4. Accounts(e, T \ {member}, M)
  BY <1>1, StoredAccounts
<1> HIDE DEF e, y
<1>5. x.dst = e
  BY <1>1, <1>3 DEF States
<1> QED
  BY <1>2, <1>4, <1>5 DEF Accounted

\* An array of numbers: an allocation is filled, or the decoder gives up.
LEMMA NumbersAccounted ==
    ASSUME NEW T, T \subseteq Arrays, NEW M, NEW src \in Seq(Octet), NEW r, Accounted(src, r, T, M), r.rv = "Good",
           NEW n \in Nat, NEW w \in {1, 2}, NEW member \in Strings, member \in T,
           NEW x, x = ReadNumbers(src, r, n, w, member)
    PROVE  Accounted(src, x, T \ {member}, M)
<1> DEFINE fit == FitIn(Len(src), r.pos, w)
           got == Got(Len(src), r.pos, n, w)
           v == [i \in 1..got |-> Num(src, r.pos + w * (i - 1), w)]
           d == r.dst
           h == IF n > 0 THEN d.heap \cup {member} ELSE d.heap
           rv == IF n <= fit THEN "Good" ELSE "BadDecodingError"
           q == r.pos + w * got
           e == Stored(d, member, v, IF v = <<>> THEN d.heap ELSE d.heap \cup {member})
<1>1. r \in States(src) /\ d \in LooseMessages /\ Accounts(d, T, M)
  BY DEF Accounted, States
<1>2. x \in States(src)
  BY <1>1, ReadNumbersType
<1>3. x = [r EXCEPT !.rv = rv, !.pos = q, !.dst = Stored(d, member, v, h)]
  BY DEF ReadNumbers, Stored, FitIn, Got
<1>4. rv = "Good" => got = n
  BY DEF Got
<1>5. got = n => (v = <<>> <=> ~ (n > 0))
  <2> HIDE DEF got
  <2> DEFINE F(i) == Num(src, r.pos + w * (i - 1), w)
  <2> HIDE DEF F
  <2>0. [i \in 1..0 |-> F(i)] = <<>>
    OBVIOUS
  <2>1. CASE n = 0
    <3>1. got = n => v = [i \in 1..0 |-> F(i)]
      BY <2>1 DEF F
    <3> QED
      BY <2>0, <2>1, <3>1
  <2>2. CASE n > 0
    <3>1. got = n => 1 \in DOMAIN v
      BY <2>2
    <3>2. DOMAIN <<>> = 1..0
      OBVIOUS
    <3>3. got = n => v # <<>>
      <4> HIDE DEF v
      <4> QED
        BY <3>1, <3>2
    <3> QED
      BY <2>2, <3>3
  <2>3. n = 0 \/ n > 0
    OBVIOUS
  <2> HIDE DEF v
  <2> QED
    BY <2>1, <2>2, <2>3
<1> HIDE DEF d, v, q, got, fit
<1>6. Accounts(e, T \ {member}, M)
  BY <1>1, StoredAccounts
<1>7. rv = "Good" => Stored(d, member, v, h) = e
  <2>1. ASSUME rv = "Good" PROVE v = <<>> <=> ~ (n > 0)
    BY <1>4, <1>5, <2>1
  <2> HIDE DEF rv
  <2> QED
    BY <2>1
<1> DEFINE s == Stored(d, member, v, h)
<1>8. x = [r EXCEPT !.rv = rv, !.pos = q, !.dst = s]
  BY <1>3
<1>9. rv = "Good" => s = e
  BY <1>7
<1> HIDE DEF e, s, rv, h
<1>10. x.dst = s /\ x.rv = rv
  BY <1>1, <1>8 DEF States
<1> QED
  BY <1>2, <1>6, <1>9, <1>10 DEF Accounted

\* No more is counted on than has not been read.
LEMMA AccountedLess ==
    ASSUME NEW src, NEW x, NEW T, NEW M, Accounted(src, x, T, M), NEW U, U \subseteq T
    PROVE  Accounted(src, x, U, M)
BY DEF Accounted, Accounts

\* A decoder that has failed has no account to give.
LEMMA FailedAccounted ==
    ASSUME NEW src, NEW x \in States(src), x.rv # "Good", NEW T, NEW M
    PROVE  Accounted(src, x, T, M)
BY DEF Accounted

\* The flags are read into a blank message.
LEMMA BlankAccounted == \A src \in Seq(Octet) : Accounted(src, Start, Arrays, {})
<1> TAKE src \in Seq(Octet)
<1>1. Start \in States(src)
  BY BlankType DEF Start, States, Codes
<1>2. Start.dst = Blank
  BY DEF Start
<1>3. \A f \in Arrays : Blank[f] = <<>>
  BY DEF Blank, Arrays, Strings
<1>4. Blank.heap = {}
  BY DEF Blank
<1>5. Blank.promoted = <<>> /\ Blank.dsms = <<>> /\ \A f \in Strings : Blank[f] = <<>>
  BY <1>3 DEF Arrays
<1>6. Owned(<<>>) = {}
  BY DEF Owned
<1>7. Blocks(Blank) = {}
  BY <1>5, <1>6 DEF Blocks
<1> QED
  BY <1>1, <1>2, <1>3, <1>4, <1>7 DEF Accounted, Accounts

\* The second byte of extended flags.
LEMMA Ext2Accounted ==
    ASSUME NEW src \in Seq(Octet), NEW r, Accounted(src, r, Arrays, {}), NEW x, x = DecodeExtendedFlags2(src, r)
    PROVE  Accounted(src, x, Arrays, {})
<1> DEFINE a == ReadFlags(src, r, Ext2Flags)
           n == (a.last \div 4) % 8
<1>1. Accounted(src, a, Arrays, {}) /\ a.last \in Nat
  BY FlagsAccounted, FlagsAreFeatures
<1>2. x = IF a.rv = "Good" THEN NmTyped(a, n) ELSE a
  BY DEF DecodeExtendedFlags2, Then, NmTyped
<1> HIDE DEF a
<1>3. n \in Nat
  BY <1>1, SmallNumbers
<1> HIDE DEF n
<1> QED
  BY <1>1, <1>2, <1>3, NumberAccounted

\* The first byte of extended flags.
LEMMA Ext1Accounted ==
    ASSUME NEW src \in Seq(Octet), NEW r, Accounted(src, r, Arrays, {}), NEW x, x = DecodeExtendedFlags1(src, r)
    PROVE  Accounted(src, x, Arrays, {})
<1> DEFINE a == ReadFlags(src, r, Ext1Flags)
           n == a.last % 8
           s == PubTyped(a, n)
<1>1. Accounted(src, a, Arrays, {}) /\ a.last \in Nat
  BY FlagsAccounted, FlagsAreFeatures
<1>2. x = IF a.rv = "Good" THEN (IF Bit(a.last, 128) THEN DecodeExtendedFlags2(src, s) ELSE s) ELSE a
  BY DEF DecodeExtendedFlags1, Then, PubTyped
<1> HIDE DEF a
<1>3. n \in Nat
  BY <1>1, SmallNumbers
<1> HIDE DEF n
<1>4. Accounted(src, s, Arrays, {})
  BY <1>1, <1>3, NumberAccounted
<1> HIDE DEF s
<1> QED
  BY <1>1, <1>2, <1>4, Ext2Accounted

\* All of the flags.
LEMMA DecodeFlagsAccounted ==
    ASSUME NEW src \in Seq(Octet), NEW x, x = DecodeFlags(src)
    PROVE  Accounted(src, x, Arrays, {})
<1> DEFINE a == ReadFlags(src, Start, NMFlags)
           n == a.last % 16
           s == Versioned(a, n)
<1>0. Accounted(src, Start, Arrays, {})
  BY BlankAccounted
<1>1. Accounted(src, a, Arrays, {}) /\ a.last \in Nat
  BY <1>0, FlagsAccounted, FlagsAreFeatures
<1>2. x = IF a.rv = "Good" THEN (IF Bit(a.last, 128) THEN DecodeExtendedFlags1(src, s) ELSE s) ELSE a
  BY DEF DecodeFlags, Then, Start, Versioned
<1> HIDE DEF a
<1>3. n \in Nat
  BY <1>1, SmallNumbers
<1> HIDE DEF n
<1>4. Accounted(src, s, Arrays, {})
  BY <1>1, <1>3, NumberAccounted
<1> HIDE DEF s
<1> QED
  BY <1>1, <1>2, <1>4, Ext1Accounted

\* The publisher id, a number or a string.
LEMMA PublisherAccounted ==
    ASSUME NEW src \in Seq(Octet), NEW T, T \subseteq Arrays, "pubString" \in T, NEW r, Accounted(src, r, T, {}),
           NEW x, x = DecodePublisherId(src, r)
    PROVE  Accounted(src, x, T \ {"pubString"}, {})
<1> DEFINE t == r.dst.pubType
           U == T \ {"pubString"}
<1>0. r \in States(src) /\ t \in Nat /\ U \subseteq T
  BY DEF Accounted, States, LooseMessages
<1>a. Accounted(src, r, U, {})
  BY <1>0, AccountedLess
<1>1. CASE ~ (r.rv = "Good" /\ "publisherId" \in r.dst.on)
  BY <1>1, <1>a DEF DecodePublisherId, When
<1>2. CASE r.rv = "Good" /\ "publisherId" \in r.dst.on /\ t < StringId
  <2> DEFINE w == PublisherIdWidth(t)
  <2>1. x = ReadNumber(src, r, "publisherId", w)
    <3>1. t # StringId
      BY <1>0, <1>2 DEF StringId
    <3> QED
      BY <1>2, <3>1 DEF DecodePublisherId, When
  <2>2. w \in Widths /\ "publisherId" \in NMFields
    BY DEF PublisherIdWidth, Widths, NMFields
  <2> HIDE DEF w
  <2>3. Accounted(src, x, T, {})
    BY <2>1, <2>2, IntegerAccounted
  <2> QED
    BY <1>0, <2>3, AccountedLess
<1>3. CASE r.rv = "Good" /\ "publisherId" \in r.dst.on /\ t = StringId
  <2>1. x = ReadString(src, r, "pubString")
    BY <1>3 DEF DecodePublisherId, When, StringId
  <2> QED
    BY <1>3, <2>1, StringAccounted DEF Strings
<1>4. CASE r.rv = "Good" /\ "publisherId" \in r.dst.on /\ ~ (t < StringId) /\ t # StringId
  <2>1. x = [r EXCEPT !.rv = "BadInternalError"]
    BY <1>4 DEF DecodePublisherId, When
  <2>2. x \in States(src) /\ x.rv # "Good"
    BY <1>0, <2>1 DEF States, Codes
  <2> QED
    BY <2>2, FailedAccounted
<1> QED
  BY <1>1, <1>2, <1>3, <1>4

\* The group header.
LEMMA GroupAccounted ==
    ASSUME NEW src \in Seq(Octet), NEW T, T \subseteq Arrays, NEW r, Accounted(src, r, T, {}),
           NEW x, x = DecodeGroupHeader(src, r)
    PROVE  Accounted(src, x, T, {})
<1> DEFINE a == ReadFlags(src, r, GroupFlags)
<1>1. CASE ~ (r.rv = "Good" /\ "groupHeader" \in r.dst.on)
  BY <1>1 DEF DecodeGroupHeader, When
<1>2. CASE r.rv = "Good" /\ "groupHeader" \in r.dst.on
  <2>1. x = ReadSection(src, a, GroupLayout)
    BY <1>2 DEF DecodeGroupHeader, When
  <2>2. Accounted(src, a, T, {})
    BY FlagsAccounted, FlagsAreFeatures
  <2> HIDE DEF a
  <2> QED
    BY <2>1, <2>2, SectionAccounted, LayoutsAre
<1> QED
  BY <1>1, <1>2

\* The table of writer ids.
LEMMA IdsAccounted ==
    ASSUME NEW src \in Seq(Octet), NEW T, T \subseteq Arrays, "ids" \in T, NEW r, Accounted(src, r, T, {}),
           NEW x, x = DecodePayloadHeader(src, r)
    PROVE  Accounted(src, x, T \ {"ids"}, {})
<1> DEFINE U == T \ {"ids"}
<1>0. r \in States(src) /\ U \subseteq T
  BY DEF Accounted
<1>a. Accounted(src, r, U, {})
  BY <1>0, AccountedLess
<1>1. CASE ~ (r.rv = "Good" /\ "payloadHeader" \in r.dst.on)
  BY <1>1, <1>a DEF DecodePayloadHeader, When
<1>2. CASE r.rv = "Good" /\ "payloadHeader" \in r.dst.on /\ r.dst.nmType # 0
  <2>1. x = [r EXCEPT !.rv = "BadNotImplemented"]
    BY <1>2 DEF DecodePayloadHeader, When
  <2>2. x \in States(src) /\ x.rv # "Good"
    BY <1>0, <2>1 DEF States, Codes
  <2> QED
    BY <2>2, FailedAccounted
<1>3. CASE r.rv = "Good" /\ "payloadHeader" \in r.dst.on /\ r.dst.nmType = 0
  <2> DEFINE b == Take(src, r, 1)
             n == b.last
             c == CountSet(b, n)
  <2>1. x = IF b.rv = "Good" THEN ReadNumbers(src, c, n, 2, "ids") ELSE b
    BY <1>3 DEF DecodePayloadHeader, When, Then, CountSet
  <2>2. Accounted(src, b, T, {}) /\ n \in Nat
    BY TakeAccounted DEF Widths
  <2> HIDE DEF b, n
  <2>3. Accounted(src, c, T, {})
    BY <2>2, NumberAccounted
  <2>4. c.rv = b.rv
    BY <2>2 DEF CountSet, Accounted, States
  <2> HIDE DEF c
  <2>5. CASE b.rv # "Good"
    BY <1>0, <2>1, <2>2, <2>5, AccountedLess
  <2>6. CASE b.rv = "Good"
    <3> DEFINE s == "ids"
               w == 2
    <3>1. x = ReadNumbers(src, c, n, w, s) /\ c.rv = "Good"
      BY <2>1, <2>4, <2>6
    <3>2. s \in Strings /\ s \in T /\ w \in {1, 2}
      BY DEF Strings
    <3> HIDE DEF s, w
    <3>3. Accounted(src, x, T \ {s}, {})
      BY <2>2, <2>3, <3>1, <3>2, NumbersAccounted
    <3> QED
      BY <3>3 DEF s
  <2> QED
    BY <2>5, <2>6
<1> QED
  BY <1>1, <1>2, <1>3

\* The security header, with its nonce.
LEMMA SecurityAccounted ==
    ASSUME NEW src \in Seq(Octet), NEW T, T \subseteq Arrays, "nonce" \in T, NEW r, Accounted(src, r, T, {}),
           NEW x, x = DecodeSecurityHeader(src, r)
    PROVE  Accounted(src, x, T \ {"nonce"}, {})
<1> DEFINE U == T \ {"nonce"}
<1>0. r \in States(src) /\ U \subseteq T /\ U \subseteq Arrays
  BY DEF Accounted
<1>a. Accounted(src, r, U, {})
  BY <1>0, AccountedLess
<1>1. CASE ~ (r.rv = "Good" /\ "security" \in r.dst.on)
  BY <1>1, <1>a DEF DecodeSecurityHeader, When
<1>2. CASE r.rv = "Good" /\ "security" \in r.dst.on
  <2> DEFINE f == ReadFlags(src, r, SecurityFlags)
             t == ReadNumber(src, f, "tokenId", 4)
             b == Take(src, t, 1)
             n == b.last
             c == ReadNumbers(src, b, n, 1, "nonce")
             z == ReadNumber(src, c, "footerSize", 2)
  <2>1. x = IF b.rv = "Good" THEN (IF c.rv = "Good" /\ "footer" \in c.dst.on THEN z ELSE c) ELSE b
    BY <1>2 DEF DecodeSecurityHeader, When, Then
  <2>2. Accounted(src, f, T, {})
    BY FlagsAccounted, FlagsAreFeatures
  <2> HIDE DEF f
  <2>3. Accounted(src, t, T, {})
    BY <2>2, IntegerAccounted DEF Widths, NMFields
  <2> HIDE DEF t
  <2>4. Accounted(src, b, T, {}) /\ n \in Nat
    BY <2>3, TakeAccounted DEF Widths
  <2> HIDE DEF b, n
  <2>5. b.rv = "Good" => Accounted(src, c, U, {})
    <3> DEFINE s == "nonce"
               w == 1
    <3>1. c = ReadNumbers(src, b, n, w, s)
      OBVIOUS
    <3>2. s \in Strings /\ s \in T /\ w \in {1, 2} /\ U = T \ {s}
      BY DEF Strings
    <3> HIDE DEF s, w, c, U
    <3> QED
      BY <2>4, <3>1, <3>2, NumbersAccounted
  <2> HIDE DEF c, U
  <2>6. b.rv = "Good" => Accounted(src, z, U, {})
    BY <1>0, <2>5, IntegerAccounted DEF Widths, NMFields
  <2> HIDE DEF z
  <2>7. Accounted(src, b, U, {})
    BY <1>0, <2>4, AccountedLess
  <2> QED
    BY <2>1, <2>5, <2>6, <2>7 DEF U
<1> QED
  BY <1>1, <1>2

\* One more promoted field: they share one block.
LEMMA PromotedAccounts ==
    ASSUME NEW U, "promoted" \notin U, U \subseteq Arrays, NEW d \in LooseMessages, Accounts(d, U, {}),
           NEW v \in Variants, NEW e, e = WithPromoted(d, v)
    PROVE  Accounts(e, U, {})
<1> DEFINE s == Append(d.promoted, v)
           h == d.heap \cup {"promoted"}
<1>1. e = [d EXCEPT !.promoted = s, !.heap = h]
  BY DEF WithPromoted
<1>2. s # <<>>
  <2> DEFINE V == Variants
             p == d.promoted
  <2>1. p \in Seq(V) /\ v \in V
    BY DEF LooseMessages
  <2>4. s = Append(p, v)
    OBVIOUS
  <2> HIDE DEF V, p, s
  <2>2. Len(Append(p, v)) = Len(p) + 1 /\ Len(p) \in Nat
    BY <2>1
  <2>3. Len(<<>>) = 0
    OBVIOUS
  <2> QED
    BY <2>2, <2>3, <2>4
<1> HIDE DEF s
<1>3. e.promoted = s /\ e.heap = h /\ \A f \in Arrays \ {"promoted"} : e[f] = d[f]
  BY <1>1 DEF LooseMessages, Arrays, Strings
<1>4. d.heap = Blocks(d) /\ \A f \in U : d[f] = <<>>
  BY DEF Accounts
<1>5. {f \in Strings : e[f] # <<>>} = {f \in Strings : d[f] # <<>>} /\ e.dsms = d.dsms
  BY <1>3 DEF Arrays, Strings
<1>6. Blocks(e) = Blocks(d) \cup {"promoted"}
  BY <1>2, <1>3, <1>5 DEF Blocks
<1>7. \A f \in U : e[f] = <<>>
  BY <1>3, <1>4
<1> QED
  BY <1>3, <1>4, <1>6, <1>7 DEF Accounts

\* One turn of the loop over the promoted fields.
LEMMA NextPromotedAccounted ==
    ASSUME NEW src \in Seq(Octet), NEW U, "promoted" \notin U, U \subseteq Arrays, NEW r, Accounted(src, r, U, {}),
           NEW i, NEW end, NEW x, x = NextPromoted(src, r, i, end)
    PROVE  Accounted(src, x, U, {})
<1> DEFINE v == DecodeVariant(src, r.pos)
           d == r.dst
           u == v.value
<1>0. r \in States(src) /\ d \in LooseMessages /\ r.pos \in 0..Len(src)
  BY DEF Accounted, States
<1>1. x = r \/ (x = Promote(r, v) /\ r.rv = "Good")
  BY DEF NextPromoted, Then
<1>2. v \in Outcomes(src, Variants)
  BY <1>0, VariantType
<1>3. u \in Variants
  BY <1>2 DEF Outcomes
<1> HIDE DEF v
<1>4. CASE x = r
  BY <1>4
<1>5. CASE x = Promote(r, v) /\ r.rv = "Good"
  <2>1. x \in States(src) /\ x.dst = WithPromoted(d, u)
    BY <1>0, <1>2, <1>5, PromoteType
  <2>2. Accounts(d, U, {})
    BY <1>5 DEF Accounted
  <2> HIDE DEF d, u
  <2>3. Accounts(x.dst, U, {})
    BY <1>0, <1>3, <2>1, <2>2, PromotedAccounts
  <2> QED
    BY <2>1, <2>3 DEF Accounted
<1> QED
  BY <1>1, <1>4, <1>5

\* The loop over them.
LEMMA PromotedLoopAccounted ==
    ASSUME NEW src \in Seq(Octet), NEW U, "promoted" \notin U, U \subseteq Arrays, NEW r, Accounted(src, r, U, {}),
           NEW size \in Nat, NEW x, x = PromotedLoop(src, r, size)
    PROVE  Accounted(src, x, U, {})
<1> DEFINE n == Turns(src, size)
           end == r.pos + size
           step == PromotedStep(src, n, end)
           I == {p \in States(src) \X (0..n) : Accounted(src, p[1], U, {})}
<1>0. r \in States(src)
  BY DEF Accounted
<1>1. n \in Nat /\ \E f : Loops(f, States(src), r, n, step) /\ x = f[n]
  BY <1>0, PromotedRuns
<1>2. PICK f : Loops(f, States(src), r, n, step) /\ x = f[n]
  BY <1>1
<1>3. <<r, 0>> \in I
  BY <1>0, <1>1
<1>4. ASSUME NEW s \in States(src), NEW i \in 1..n, <<s, i - 1>> \in I
      PROVE  <<step[<<s, i>>], i>> \in I
  <2> DEFINE y == NextPromoted(src, s, i, end)
  <2>1. step[<<s, i>>] = y
    BY DEF PromotedStep
  <2>2. Accounted(src, s, U, {})
    BY <1>4
  <2>3. Accounted(src, y, U, {})
    <3> HIDE DEF end
    <3> QED
      BY <2>2, NextPromotedAccounted
  <2>4. y \in States(src)
    BY <2>3 DEF Accounted
  <2> HIDE DEF y
  <2>5. i \in 0..n
    BY <1>1
  <2> HIDE DEF n, step
  <2> QED
    BY <2>1, <2>3, <2>4, <2>5
<1>5. <<x, n>> \in I
  <2>1. Preserves(I, States(src), n, step)
    BY <1>4 DEF Preserves
  <2>2. n \in 0..n
    BY <1>1
  <2> HIDE DEF I, n, step
  <2>3. \A i \in 0..n : f[i] \in States(src) /\ <<f[i], i>> \in I
    BY <1>1, <1>2, <1>3, <2>1, LoopKeeps
  <2> QED
    BY <1>2, <2>2, <2>3
<1> QED
  BY <1>5

\* The section of the promoted fields.
LEMMA DecodePromotedAccounted ==
    ASSUME NEW src \in Seq(Octet), NEW T, T \subseteq Arrays, NEW r, Accounted(src, r, T, {}),
           NEW x, x = DecodePromoted(src, r)
    PROVE  Accounted(src, x, T \ {"promoted"}, {})
<1> DEFINE U == T \ {"promoted"}
<1>0. r \in States(src) /\ U \subseteq T /\ U \subseteq Arrays /\ "promoted" \notin U
  BY DEF Accounted
<1> HIDE DEF U
<1>a. Accounted(src, r, U, {})
  BY <1>0, AccountedLess
<1>1. CASE ~ (r.rv = "Good" /\ "promoted" \in r.dst.on)
  BY <1>1, <1>a DEF DecodePromoted, When, U
<1>2. CASE r.rv = "Good" /\ "promoted" \in r.dst.on
  <2> DEFINE b == Take(src, r, 2)
             n == b.last
  <2>1. x = IF b.rv = "Good" THEN PromotedLoop(src, b, n) ELSE b
    BY <1>2 DEF DecodePromoted, When, Then
  <2>2. Accounted(src, b, U, {}) /\ n \in Nat
    BY <1>0, <1>a, TakeAccounted DEF Widths
  <2> HIDE DEF b, n
  <2>3. Accounted(src, x, U, {})
    <3>1. CASE b.rv # "Good"
      BY <2>1, <2>2, <3>1
    <3>2. CASE b.rv = "Good"
      <4>1. x = PromotedLoop(src, b, n)
        BY <2>1, <3>2
      <4> QED
        BY <1>0, <2>2, <4>1, PromotedLoopAccounted
    <3> QED
      BY <3>1, <3>2
  <2> QED
    BY <2>3 DEF U
<1> QED
  BY <1>1, <1>2

\* One more DataSetMessage, with the block of its fields.
LEMMA AddedAccounts ==
    ASSUME NEW U, "dsms" \notin U, U \subseteq Arrays, NEW d \in LooseMessages, Accounts(d, U, {"dsms"}),
           NEW m \in LooseDSMs, NEW k \in Nat, Len(d.dsms) = k,
           NEW h, h = IF m.owns THEN d.heap \cup {ToString(k + 1)} ELSE d.heap,
           NEW e, e = WithDSM(d, m, h)
    PROVE  Accounts(e, U, {"dsms"}) /\ Len(e.dsms) = k + 1
<1> DEFINE s == d.dsms
           t == Append(s, m)
           i == k + 1
<1>1. e = [d EXCEPT !.dsms = t, !.heap = h]
  BY DEF WithDSM
<1>2. /\ Len(t) = i /\ DOMAIN t = 1..i /\ DOMAIN s = 1..k /\ t[i] = m
      /\ \A j \in 1..k : t[j] = s[j]
  <2> DEFINE M == LooseDSMs
  <2>1. s \in Seq(M) /\ m \in M /\ Len(s) = k
    BY DEF LooseMessages
  <2> HIDE DEF s, M
  <2> QED
    BY <2>1
<1> HIDE DEF t
<1>3. e.dsms = t /\ e.heap = h /\ \A f \in Arrays \ {"dsms"} : e[f] = d[f]
  BY <1>1 DEF LooseMessages, Arrays, Strings
<1>4. d.heap = Blocks(d) \cup {"dsms"} /\ \A f \in U : d[f] = <<>>
  BY DEF Accounts
<1>5. {f \in Strings : e[f] # <<>>} = {f \in Strings : d[f] # <<>>} /\ e.promoted = d.promoted
  BY <1>3 DEF Arrays, Strings
<1>6. Owned(t) = Owned(s) \cup (IF m.owns THEN {ToString(i)} ELSE {})
  <2>1. {j \in DOMAIN t : t[j].owns} = {j \in DOMAIN s : s[j].owns} \cup (IF m.owns THEN {i} ELSE {})
    <3>1. 1..i = (1..k) \cup {i} /\ i \notin 1..k
      OBVIOUS
    <3> HIDE DEF i, s
    <3> QED
      BY <1>2, <3>1
  <2> HIDE DEF i, s
  <2>2. CASE m.owns
    BY <2>1, <2>2 DEF Owned
  <2>3. CASE ~ m.owns
    BY <2>1, <2>3 DEF Owned
  <2> QED
    BY <2>2, <2>3
<1>7. Blocks(e) = Blocks(d) \cup (IF m.owns THEN {ToString(i)} ELSE {})
  BY <1>3, <1>5, <1>6 DEF Blocks
<1>8. \A f \in U : e[f] = <<>>
  BY <1>3, <1>4
<1>9. e.heap = Blocks(e) \cup {"dsms"}
  <2> HIDE DEF i
  <2>1. h = IF m.owns THEN d.heap \cup {ToString(i)} ELSE d.heap
    BY DEF i
  <2> QED
    BY <1>3, <1>4, <1>7, <2>1
<1> QED
  BY <1>2, <1>3, <1>8, <1>9 DEF Accounts

\* The state of the loop after k of them.
DSMsAccounted(src, x, U, k) ==
    Accounted(src, x, U, {"dsms"}) /\ (x.rv = "Good" => Len(x.dst.dsms) = k)

\* One turn of that loop.
LEMMA NextDSMAccounted ==
    ASSUME NEW src \in Seq(Octet), NEW U, "dsms" \notin U, U \subseteq Arrays, NEW k \in Nat, NEW i, i = k + 1,
           NEW r, DSMsAccounted(src, r, U, k), NEW x, x = NextDSM(src, r, i)
    PROVE  DSMsAccounted(src, x, U, i)
<1> DEFINE d == DecodeDSM(src, r.pos)
           c == r.dst
           m == d.dsm
           h == OwnHeap(r, i, d)
           D == {"dsms"}
<1>0. r \in States(src) /\ c \in LooseMessages /\ r.pos \in 0..Len(src)
  BY DEF DSMsAccounted, Accounted, States
<1>1. x = IF r.rv = "Good" THEN AddMessage(r, i, d) ELSE r
  BY DEF NextDSM, Then
<1>2. d \in Frames(src) /\ m \in LooseDSMs
  BY <1>0, DSMType DEF Frames
<1> HIDE DEF d
<1>3. CASE r.rv # "Good"
  BY <1>1, <1>3 DEF DSMsAccounted
<1>4. CASE r.rv = "Good"
  <2>1. x \in States(src) /\ x.dst = WithDSM(c, m, h)
    <3>1. i \in Nat
      OBVIOUS
    <3>2. Added(src, r, i, d, x)
      BY <1>0, <1>1, <1>2, <1>4, <3>1, AddMessageType
    <3> QED
      BY <3>2 DEF Added
  <2>2. h = IF m.owns THEN c.heap \cup {ToString(k + 1)} ELSE c.heap
    BY DEF OwnHeap
  <2>3. Accounts(c, U, D) /\ Len(c.dsms) = k
    BY <1>4 DEF DSMsAccounted, Accounted
  <2> HIDE DEF c, m, h
  <2>4. Accounts(x.dst, U, {"dsms"}) /\ Len(x.dst.dsms) = k + 1
    BY <1>0, <1>2, <2>1, <2>2, <2>3, AddedAccounts
  <2> QED
    BY <2>1, <2>4 DEF DSMsAccounted, Accounted
<1> QED
  BY <1>3, <1>4

\* The array of the DataSetMessages is a block of its own.
LEMMA DSMsStart ==
    ASSUME NEW src, NEW U, "dsms" \notin U, U \subseteq Arrays, NEW r, Accounted(src, r, U, {}), r.dst.dsms = <<>>,
           NEW h, h = r.dst.heap \cup {"dsms"}, NEW b, b = WithHeap(r, h)
    PROVE  DSMsAccounted(src, b, U, 0)
<1> DEFINE d == r.dst
           e == [d EXCEPT !.heap = h]
<1>1. r \in States(src) /\ d \in LooseMessages /\ (r.rv = "Good" => Accounts(d, U, {}))
  BY DEF Accounted, States
<1>2. h \in SUBSET AnyBlocks /\ d.heap \subseteq h
  BY <1>1 DEF LooseMessages, AnyBlocks
<1>3. b = [r EXCEPT !.dst = e]
  BY DEF WithHeap
<1>4. h = d.heap \cup {"dsms"} /\ d.dsms = <<>>
  OBVIOUS
<1> HIDE DEF d
<1>5. e.heap = h /\ e.dsms = <<>> /\ e.promoted = d.promoted /\ \A f \in Arrays : e[f] = d[f]
  BY <1>1, <1>4 DEF LooseMessages, Arrays, Strings
<1>6. {f \in Strings : e[f] # <<>>} = {f \in Strings : d[f] # <<>>}
  BY <1>5 DEF Arrays
<1>7. Blocks(e) = Blocks(d)
  BY <1>4, <1>5, <1>6 DEF Blocks
<1>8. Accounts(d, U, {}) => Accounts(e, U, {"dsms"})
  <2> SUFFICES ASSUME Accounts(d, U, {}) PROVE Accounts(e, U, {"dsms"})
    OBVIOUS
  <2>1. d.heap = Blocks(d) /\ \A f \in U : d[f] = <<>>
    BY DEF Accounts
  <2>2. \A f \in U : e[f] = <<>>
    BY <1>5, <2>1
  <2> QED
    BY <1>4, <1>5, <1>7, <2>1, <2>2 DEF Accounts
<1>9. b \in States(src) /\ b.rv = r.rv
  BY <1>1, <1>2, WithHeapType DEF d
<1> HIDE DEF e
<1>10. b.dst = e
  BY <1>1, <1>3 DEF States
<1>11. Len(e.dsms) = 0
  BY <1>5
<1> QED
  BY <1>1, <1>8, <1>9, <1>10, <1>11 DEF DSMsAccounted, Accounted

\* The loop over the DataSetMessages.
LEMMA DecodeDSMsAccounted ==
    ASSUME NEW src \in Seq(Octet), NEW U, "dsms" \notin U, U \subseteq Arrays, NEW r, Accounted(src, r, U, {}),
           r.dst.dsms = <<>>, NEW n \in Nat, NEW x, x = DecodeDSMs(src, r, n)
    PROVE  Accounted(src, x, U, {"dsms"})
<1> DEFINE h == r.dst.heap \cup {"dsms"}
           b == WithHeap(r, h)
           step == DSMStep(src, n)
           I == {p \in States(src) \X (0..n) : DSMsAccounted(src, p[1], U, p[2])}
<1>0. r \in States(src)
  BY DEF Accounted
<1>1. b \in States(src) /\ \E f : Loops(f, States(src), b, n, step) /\ x = f[n]
  BY SMTT(40), <1>0, DSMRuns
<1>2. PICK f : Loops(f, States(src), b, n, step) /\ x = f[n]
  BY <1>1
<1>4. DSMsAccounted(src, b, U, 0)
  <2>1. h = r.dst.heap \cup {"dsms"}
    OBVIOUS
  <2> HIDE DEF h
  <2> QED
    BY <2>1, DSMsStart
<1> HIDE DEF b
<1>5. <<b, 0>> \in I
  BY <1>1, <1>4
<1>6. ASSUME NEW s \in States(src), NEW i \in 1..n, <<s, i - 1>> \in I
      PROVE  <<step[<<s, i>>], i>> \in I
  <2> DEFINE y == NextDSM(src, s, i)
             k == i - 1
  <2>1. step[<<s, i>>] = y
    BY DEF DSMStep
  <2>2. DSMsAccounted(src, s, U, k) /\ k \in Nat /\ i = k + 1
    BY <1>6
  <2> HIDE DEF k
  <2>3. DSMsAccounted(src, y, U, i)
    BY <2>2, NextDSMAccounted
  <2> HIDE DEF y
  <2>4. y \in States(src) /\ i \in 0..n
    BY <2>3 DEF DSMsAccounted, Accounted
  <2> HIDE DEF step
  <2> QED
    BY <2>1, <2>3, <2>4
<1>7. <<x, n>> \in I
  <2>1. Preserves(I, States(src), n, step)
    BY <1>6 DEF Preserves
  <2>2. n \in 0..n
    OBVIOUS
  <2> HIDE DEF I, step
  <2>3. \A i \in 0..n : f[i] \in States(src) /\ <<f[i], i>> \in I
    BY <1>2, <1>5, <2>1, LoopKeeps
  <2> QED
    BY <1>2, <2>2, <2>3
<1> QED
  BY <1>7 DEF DSMsAccounted

\* The payload, with the table of sizes in front of it.
LEMMA DecodePayloadAccounted ==
    ASSUME NEW src \in Seq(Octet), NEW T, T \subseteq Arrays, "sizes" \in T, "dsms" \in T, NEW r, Accounted(src, r, T, {}),
           NEW x, x = DecodePayload(src, r)
    PROVE  Accounted(src, x, T \ {"sizes", "dsms"}, {"dsms"})
<1> DEFINE n == PayloadCount(r.dst)
           b == IF n > 1 THEN ReadNumbers(src, r, n, 2, "sizes") ELSE r
           U == T \ {"sizes", "dsms"}
           V == T \ {"sizes"}
           y == DecodeDSMs(src, b, n)
<1>1. x = IF r.rv # "Good" THEN r
          ELSE IF r.dst.nmType # 0 THEN [r EXCEPT !.rv = "BadNotImplemented"]
          ELSE IF b.rv # "Good" THEN b ELSE y
  BY DEF DecodePayload, Then, PayloadCount
<1>2. r \in States(src) /\ U \subseteq V /\ V \subseteq T /\ U \subseteq Arrays /\ "dsms" \notin U /\ "dsms" \in V
  BY DEF Accounted
<1>3. n \in Nat
  BY <1>2 DEF PayloadCount, States, LooseMessages
<1> HIDE DEF n
<1>4. CASE r.rv # "Good"
  <2> HIDE DEF b, y, U
  <2> QED
    BY <1>1, <1>2, <1>4, FailedAccounted DEF U
<1>5. CASE r.rv = "Good" /\ r.dst.nmType # 0
  <2> HIDE DEF b, y, U
  <2>1. x = [r EXCEPT !.rv = "BadNotImplemented"]
    BY <1>1, <1>5
  <2>2. x \in States(src) /\ x.rv # "Good"
    BY <1>2, <2>1 DEF States, Codes
  <2> QED
    BY <2>2, FailedAccounted DEF U
<1>6. CASE r.rv = "Good" /\ r.dst.nmType = 0
  <2>1. Accounted(src, b, V, {})
    <3>1. CASE ~ (n > 1)
      <4>1. b = r
        BY <3>1
      <4> QED
        BY <1>2, <4>1, AccountedLess
    <3>2. CASE n > 1
      <4> DEFINE s == "sizes"
                 w == 2
      <4>1. b = ReadNumbers(src, r, n, w, s)
        BY <3>2
      <4>2. s \in Strings /\ s \in T /\ w \in {1, 2} /\ V = T \ {s}
        BY DEF Strings
      <4> HIDE DEF s, w, b, V
      <4>3. Accounted(src, b, T \ {s}, {})
        BY <1>3, <1>6, <4>1, <4>2, NumbersAccounted
      <4> QED
        BY <4>2, <4>3
    <3> QED
      BY <3>1, <3>2
  <2> HIDE DEF b
  <2>2. b \in States(src) /\ (b.rv = "Good" => b.dst.dsms = <<>> /\ Accounted(src, b, U, {}))
    <3>1. b \in States(src)
      BY <2>1 DEF Accounted
    <3>2. b.rv = "Good" => b.dst.dsms = <<>>
      <4>1. b.rv = "Good" => \A f \in V : b.dst[f] = <<>>
        BY <2>1 DEF Accounted, Accounts
      <4> QED
        BY <1>2, <4>1
    <3>3. Accounted(src, b, U, {})
      BY <1>2, <2>1, AccountedLess
    <3> QED
      BY <3>1, <3>2, <3>3
  <2> HIDE DEF U, V
  <2>3. CASE b.rv # "Good"
    <3> HIDE DEF y
    <3>1. x = b
      BY <1>1, <1>6, <2>3
    <3> QED
      BY <2>2, <2>3, <3>1, FailedAccounted DEF U
  <2>4. CASE b.rv = "Good"
    <3>1. Accounted(src, y, U, {"dsms"})
      BY <1>2, <1>3, <2>2, <2>4, DecodeDSMsAccounted
    <3> HIDE DEF y
    <3>2. x = y
      BY <1>1, <1>6, <2>4
    <3> QED
      BY <3>1, <3>2 DEF U
  <2> QED
    BY <2>3, <2>4
<1> QED
  BY <1>4, <1>5, <1>6

\* The footer.
LEMMA DecodeFooterAccounted ==
    ASSUME NEW src \in Seq(Octet), NEW T, T \subseteq Arrays, "footer" \in T, NEW M, NEW r, Accounted(src, r, T, M),
           NEW x, x = DecodeFooter(src, r)
    PROVE  Accounted(src, x, T \ {"footer"}, M)
<1> DEFINE n == r.dst.val["footerSize"]
           U == T \ {"footer"}
<1>0. r \in States(src) /\ n \in Nat /\ U \subseteq T
  <2>1. r \in States(src) /\ r.dst.val \in [NMFields -> Nat]
    BY DEF Accounted, States, LooseMessages
  <2> QED
    BY <2>1 DEF NMFields
<1>1. CASE ~ (r.rv = "Good" /\ "footer" \in r.dst.on)
  BY <1>0, <1>1, AccountedLess DEF DecodeFooter, When
<1>2. CASE r.rv = "Good" /\ "footer" \in r.dst.on /\ n < 256
  <2>1. x = ReadNumbers(src, r, n, 1, "footer")
    BY <1>2 DEF DecodeFooter, When
  <2> HIDE DEF n
  <2> DEFINE s == "footer"
             w == 1
  <2>2. x = ReadNumbers(src, r, n, w, s)
    BY <2>1
  <2>3. s \in Strings /\ s \in T /\ w \in {1, 2} /\ U = T \ {s}
    BY DEF Strings
  <2> HIDE DEF s, w, U
  <2>4. Accounted(src, x, T \ {s}, M)
    BY <1>0, <1>2, <2>2, <2>3, NumbersAccounted
  <2> QED
    BY <2>3, <2>4 DEF U
<1>3. CASE r.rv = "Good" /\ "footer" \in r.dst.on /\ ~ (n < 256)
  <2> DEFINE h == r.dst.heap \cup {"footer"}
             y == WithHeap(r, h)
  <2>1. x = [y EXCEPT !.rv = "BadDecodingError"]
    BY <1>0, <1>3 DEF DecodeFooter, When, WithHeap, States
  <2>2. h \in SUBSET AnyBlocks /\ r.dst.heap \subseteq h
    BY <1>0 DEF States, LooseMessages, AnyBlocks, Strings
  <2> HIDE DEF h
  <2>3. y \in States(src)
    BY <1>0, <2>2, WithHeapType
  <2> HIDE DEF y
  <2>4. x \in States(src) /\ x.rv # "Good"
    BY <2>1, <2>3 DEF States, Codes
  <2> QED
    BY <2>4, FailedAccounted
<1> QED
  BY <1>1, <1>2, <1>3

\* The footer and the signature.
LEMMA DecodeTrailerAccounted ==
    ASSUME NEW src \in Seq(Octet), NEW T, T \subseteq Arrays, "footer" \in T, "signature" \in T, NEW M,
           NEW r, Accounted(src, r, T, M), NEW x, x = DecodeTrailer(src, r)
    PROVE  Accounted(src, x, {}, M)
<1> DEFINE f == DecodeFooter(src, r)
           y == ReadString(src, f, "signature")
           U == T \ {"footer"}
<1>1. x = IF r.rv = "Good" /\ "security" \in r.dst.on
          THEN (IF f.rv = "Good" /\ "signed" \in f.dst.on THEN y ELSE f) ELSE r
  BY DEF DecodeTrailer, When
<1>2. Accounted(src, f, U, M)
  BY DecodeFooterAccounted
<1> HIDE DEF f
<1>3. U \subseteq Arrays /\ "signature" \in U
  OBVIOUS
<1> HIDE DEF U
<1>4. f.rv = "Good" => Accounted(src, y, {}, M)
  <2> SUFFICES ASSUME f.rv = "Good" PROVE Accounted(src, y, {}, M)
    OBVIOUS
  <2> DEFINE s == "signature"
  <2>1. s \in Strings /\ s \in U /\ y = ReadString(src, f, s)
    BY <1>3 DEF Strings
  <2> HIDE DEF s, y
  <2>2. Accounted(src, y, U \ {s}, M)
    BY <1>2, <1>3, <2>1, StringAccounted
  <2> QED
    BY <2>2, AccountedLess
<1> HIDE DEF y
<1>5. Accounted(src, f, {}, M) /\ Accounted(src, r, {}, M)
  BY <1>2, AccountedLess
<1> QED
  BY <1>1, <1>4, <1>5

\* A message that has been decoded owns the blocks of the members that are not
\* empty, those of the fields, and the array of the DataSetMessages; nothing else.
LEMMA DecodedAccounts ==
    ASSUME NEW src \in Seq(Octet), NEW x, x = DecodeInternal(src), x.rv = "Good"
    PROVE  x.dst.heap = Blocks(x.dst) \cup {"dsms"}
<1> DEFINE flags   == DecodeFlags(src)
           pub     == DecodePublisherId(src, flags)
           class   == ReadSection(src, pub, ClassLayout)
           group   == DecodeGroupHeader(src, class)
           header  == DecodePayloadHeader(src, group)
           stamps  == ReadSection(src, header, StampLayout)
           prom    == DecodePromoted(src, stamps)
           sec     == DecodeSecurityHeader(src, prom)
           payload == DecodePayload(src, sec)
           T1 == Arrays \ {"pubString"}
           T2 == T1 \ {"ids"}
           T3 == T2 \ {"promoted"}
           T4 == T3 \ {"nonce"}
           T5 == T4 \ {"sizes", "dsms"}
<1>1. x = DecodeTrailer(src, payload)
  BY DEF DecodeInternal
<1>t. /\ T1 \subseteq Arrays /\ T2 \subseteq Arrays /\ T3 \subseteq Arrays /\ T4 \subseteq Arrays /\ T5 \subseteq Arrays
      /\ "pubString" \in Arrays /\ "ids" \in T1 /\ "promoted" \in T2 /\ "nonce" \in T3 /\ {"sizes", "dsms"} \subseteq T4
      /\ {"footer", "signature"} \subseteq T5
  BY DEF Arrays, Strings
<1>l. ClassLayout \in Seq(NMFields \X Widths) /\ StampLayout \in Seq(NMFields \X Widths)
  BY LayoutsAre
<1>2. Accounted(src, flags, Arrays, {})
  BY DecodeFlagsAccounted
<1> HIDE DEF flags
<1>3. Accounted(src, pub, T1, {})
  BY <1>2, <1>t, PublisherAccounted
<1> HIDE DEF pub, T1
<1>4. Accounted(src, class, T1, {})
  BY <1>3, <1>t, <1>l, SectionAccounted
<1> HIDE DEF class
<1>5. Accounted(src, group, T1, {})
  BY <1>4, <1>t, GroupAccounted
<1> HIDE DEF group
<1>6. Accounted(src, header, T2, {})
  BY <1>5, <1>t, IdsAccounted
<1> HIDE DEF header, T2
<1>7. Accounted(src, stamps, T2, {})
  BY <1>6, <1>t, <1>l, SectionAccounted
<1> HIDE DEF stamps
<1>8. Accounted(src, prom, T3, {})
  BY <1>7, <1>t, DecodePromotedAccounted
<1> HIDE DEF prom, T3
<1>9. Accounted(src, sec, T4, {})
  BY <1>8, <1>t, SecurityAccounted
<1> HIDE DEF sec, T4
<1>10. Accounted(src, payload, T5, {"dsms"})
  BY <1>9, <1>t, DecodePayloadAccounted
<1> DEFINE D == {"dsms"}
<1>11. Accounted(src, payload, T5, D)
  BY <1>10
<1> HIDE DEF payload, T5, D
<1>12. Accounted(src, x, {}, D)
  BY <1>1, <1>11, <1>t, DecodeTrailerAccounted
<1> QED
  BY <1>12 DEF Accounted, Accounts, D
=============================================================================
